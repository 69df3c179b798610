-------------------------- MODULE MCQualityControl --------------------------
(***************************************************************************)
(* Instances of QualityControl for TLC.  C2 reviews and routes as C5 does. *)
(* An operation that is neither of the two reviews as a retrieval does     *)
(* whose consumers have no candidate finding.                              *)
(***************************************************************************)
EXTENDS QualityControl

RunProfiles == {"C1", "C3", "C4", "C5"}
RunOperations == {"retrieval", "assign_crs"}
=============================================================================
