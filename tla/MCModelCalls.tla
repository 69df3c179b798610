---------------------------- MODULE MCModelCalls ----------------------------
(***************************************************************************)
(* Two threads of the server, or a benchmark of two trajectories, one of   *)
(* the baseline and one of the orchestrator.                               *)
(***************************************************************************)
EXTENDS ModelCalls

MCSchedule == <<"C0", "C1">>
=============================================================================
