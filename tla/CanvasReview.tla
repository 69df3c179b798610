---------------------------- MODULE CanvasReview ----------------------------
(***************************************************************************)
(* The quality control and the replanning of canvas workflows by the       *)
(* orchestrator agent (run_quality_control and run_replan of               *)
(* autonmous_gis_orchestrator.py).                                         *)
(*                                                                         *)
(* The workflow is a JSON document that the canvas holds, runs and sends   *)
(* with every call: nodes with a status, a review status and a count of    *)
(* rejections, and connections.  A call reads the document, lets the model *)
(* judge one node, or replace the whole document, and returns the new one. *)
(*                                                                         *)
(* A text stands for the agent and the instructions of a node, `ran' for   *)
(* the text that produced the output a node has.  What the model proposes  *)
(* is any document of Suggestions; the canvas is external and runs the     *)
(* idle nodes whose inputs are there.                                      *)
(***************************************************************************)
EXTENDS Integers

CONSTANTS
  Ids,          \* the identifiers of nodes
  Texts,        \* agents and instructions, as far as they differ
  NoRun,        \* the node has no output
  Limit,        \* max_qc_attempts, _qc_failure_limit
  Documents,    \* the workflows the canvas starts with
  Suggestions   \* the documents the model may propose

\* A proposal of the model: nodes, connections, texts, and the nodes it puts
\* back to idle itself.
Suggestion ==
  [ids : SUBSET Ids, edges : SUBSET (Ids \X Ids),
   text : [Ids -> Texts], idle : SUBSET Ids]

Document ==
  [ids : SUBSET Ids, edges : SUBSET (Ids \X Ids),
   status : [Ids -> {"idle", "completed", "error"}],
   qc : [Ids -> {"absent", "uncontrolled", "controlled"}],
   count : [Ids -> 0 .. Limit],
   text : [Ids -> Texts], ran : [Ids -> Texts \cup {NoRun}]]

ASSUME CanvasAssumption ==
  /\ Limit \in Nat \ {0}
  /\ NoRun \notin Texts
  /\ Suggestions \subseteq Suggestion
  /\ Documents \subseteq Document
  /\ \A d \in Documents, n \in Ids : d.status[n] = "idle" /\ d.count[n] = 0

VARIABLES
  doc,       \* the workflow document
  reply,     \* workflow_status of the last call
  approved,  \* history: the nodes whose present output was judged OK
  kept       \* history: the nodes rejected and kept as they are (A, B and C)

vars == <<doc, reply, approved, kept>>

TypeOK ==
  /\ doc \in Document
  /\ reply \in {"none", "verified", "controlled", "updated", "limit",
                "failed", "replanned"}
  /\ approved \subseteq Ids
  /\ kept \subseteq Ids

-----------------------------------------------------------------------------
(* Graphs *)

Parents(edges, n) == {m \in Ids : <<m, n>> \in edges}

\* Mutant: only the nodes that consume a node of S directly.
Children(edges, S) == {n \in Ids : \E m \in S : <<m, n>> \in edges}

\* The nodes that a path of connections leads to from a node of S.
Below(edges, S) ==
  {n \in Ids : \A T \in SUBSET Ids :
     (\A e \in edges : e[1] \in S \cup T => e[2] \in T) => n \in T}

\* Mutant: a single pass over C.
OnePass(edges, C) == {n \in C : Parents(edges, n) \subseteq C}

\* The largest part of C that holds, with a node, everything it consumes.
ClosedPart(edges, C) ==
  {n \in C : \E P \in SUBSET C :
     n \in P /\ \A m \in P : Parents(edges, m) \subseteq P}

-----------------------------------------------------------------------------
(* run_quality_control *)

\* Nodes that have a result or a failure and are not controlled.  The JSON
\* need not say: a node without a review status counts as uncontrolled.
Unchecked(d) ==
  {n \in d.ids : d.status[n] # "idle" /\ d.qc[n] # "controlled"}

\* Mutant: one attempt too many.
PastLimit(d, n) == d.count[n] > Limit

AtLimit(d, n) == d.count[n] >= Limit

MarkFailed(d, n) ==
  [d EXCEPT !.status[n] = "error", !.qc[n] = "uncontrolled"]

Approve(d, n) == [d EXCEPT !.qc[n] = "controlled"]

\* Mutant: the rejection is not counted.
RerunUncounted(d, n) ==
  [d EXCEPT !.status[n] = "idle", !.qc[n] = "uncontrolled", !.ran[n] = NoRun]

\* Without a usable proposal the node itself is put back to run again.
Rerun(d, n) ==
  [d EXCEPT !.status[n] = "idle", !.qc[n] = "uncontrolled",
            !.count[n] = d.count[n] + 1, !.ran[n] = NoRun]

\* Mutant: new instructions are not compared.
AlteredByStatus(d, s) == {m \in s.ids : m \notin d.ids \/ m \in s.idle}

\* New instructions, a new agent, or put back by the model itself; a change of
\* the connections alters no node.
Altered(d, s) ==
  {m \in s.ids : m \notin d.ids \/ s.text[m] # d.text[m] \/ m \in s.idle}

\* Changed nodes and all that follows from them, except that a target that
\* stays completed (options A, B and C) is never put back.
Reset(d, s, n, keeps) ==
  (Altered(d, s) \cup Below(s.edges, Altered(d, s)))
     \ (IF keeps THEN {n} ELSE {})

\* The nodes of the proposal that keep the state they had.
Retained(d, s, n, keeps) == (s.ids \cap d.ids) \ Reset(d, s, n, keeps)

\* The review status of another node that is retained: one without any, which
\* is to be reviewed, counts as controlled from now on.
RetainedQc(d, m) == IF d.qc[m] = "absent" THEN "controlled" ELSE d.qc[m]

Merge(d, s, n, keeps) ==
  LET same == Retained(d, s, n, keeps)
      control(m) == IF m # n THEN RetainedQc(d, m)
                    ELSE IF keeps THEN "controlled" ELSE "uncontrolled"
  IN [ids |-> s.ids, edges |-> s.edges,
      status |-> [m \in Ids |-> IF m \in same THEN d.status[m] ELSE "idle"],
      qc |-> [m \in Ids |-> IF m \in same THEN control(m) ELSE "uncontrolled"],
      count |-> [m \in Ids |->
                   IF m \notin s.ids THEN 0
                   ELSE IF m = n THEN d.count[m] + 1
                   ELSE IF m \in same THEN d.count[m] ELSE 0],
      text |-> s.text,
      ran |-> [m \in Ids |-> IF m \in same THEN d.ran[m] ELSE NoRun]]

-----------------------------------------------------------------------------
(* run_replan *)

\* Completed nodes whose agent and instructions the model left alone, as far
\* as everything they consume is such a node, too.
Preserved(d, s) ==
  ClosedPart(s.edges,
    {m \in s.ids \cap d.ids : d.status[m] = "completed" /\ s.text[m] = d.text[m]})

Replanned(d, s) ==
  LET same == Preserved(d, s)
  IN [ids |-> s.ids, edges |-> s.edges,
      status |-> [m \in Ids |-> IF m \in same THEN "completed" ELSE "idle"],
      qc |-> [m \in Ids |-> IF m \in same THEN "controlled" ELSE "uncontrolled"],
      count |-> [m \in Ids |-> 0],
      text |-> s.text,
      ran |-> [m \in Ids |-> IF m \in same THEN d.ran[m] ELSE NoRun]]

\* Replanning of the document d, whose nodes in `decided' were kept as they
\* are: the model proposes another one, or its call fails and the caller has
\* the document it sent.
ReplanFrom(d, decided) ==
  \/ \E s \in Suggestions :
       /\ doc' = Replanned(d, s)
       /\ approved' = approved \cap Preserved(d, s)
       /\ kept' = decided \cap Preserved(d, s)
       /\ reply' = "replanned"
  \/ /\ reply' = "failed"
     /\ UNCHANGED <<doc, approved, kept>>

-----------------------------------------------------------------------------
(* Calls *)

Init ==
  /\ doc \in Documents
  /\ reply = "none"
  /\ approved = {}
  /\ kept = {}

\* The canvas runs a node whose inputs are there.
CanvasRuns(n) ==
  /\ n \in doc.ids
  /\ doc.status[n] = "idle"
  /\ \A m \in Parents(doc.edges, n) \cap doc.ids : doc.status[m] = "completed"
  /\ \/ doc' = [doc EXCEPT !.status[n] = "completed", !.ran[n] = doc.text[n]]
     \/ doc' = [doc EXCEPT !.status[n] = "error"]
  /\ UNCHANGED <<reply, approved, kept>>

QcSkips ==
  /\ Unchecked(doc) = {}
  /\ reply' = "verified"
  /\ UNCHANGED <<doc, approved, kept>>

\* The node has used up its attempts.  The document is written, an error of
\* the write is only logged, and the replanning reads the file.
QcLimit(n) ==
  /\ n \in Unchecked(doc)
  /\ AtLimit(doc, n)
  /\ \/ /\ doc' = MarkFailed(doc, n)
        /\ reply' = "limit"
        /\ UNCHANGED <<approved, kept>>
     \/ \E file \in {doc, MarkFailed(doc, n)} : ReplanFrom(file, kept)

\* Three calls of the model, and none gave a verdict.
QcFails(n) ==
  /\ n \in Unchecked(doc)
  /\ ~AtLimit(doc, n)
  /\ reply' = "failed"
  /\ UNCHANGED <<doc, approved, kept>>

QcApproves(n) ==
  /\ n \in Unchecked(doc)
  /\ ~AtLimit(doc, n)
  /\ doc' = Approve(doc, n)
  /\ approved' = approved \cup {n}
  /\ reply' = "controlled"
  /\ UNCHANGED kept

QcReruns(n) ==
  /\ n \in Unchecked(doc)
  /\ ~AtLimit(doc, n)
  /\ doc' = Rerun(doc, n)
  /\ approved' = approved \ {n}
  /\ kept' = kept \ {n}
  /\ reply' = "updated"

Decided(s, n, keeps) ==
  (kept \cap Retained(doc, s, n, keeps))
    \cup (IF keeps THEN {n} \cap s.ids ELSE {})

QcMerges(n) ==
  /\ n \in Unchecked(doc)
  /\ ~AtLimit(doc, n)
  /\ \E s \in Suggestions, keeps \in BOOLEAN :
       /\ doc' = Merge(doc, s, n, keeps)
       /\ approved' = (approved \cap Retained(doc, s, n, keeps)) \ {n}
       /\ kept' = Decided(s, n, keeps)
  /\ reply' = "updated"

\* The last rejection goes on to replanning, if the request allows it.  The
\* node is marked failed in the document that was read, which is not the one
\* that is written when the model proposed another.
QcReplans(n) ==
  /\ n \in Unchecked(doc)
  /\ ~AtLimit(doc, n)
  /\ doc.count[n] + 1 >= Limit
  /\ \/ ReplanFrom(doc, kept)
     \/ ReplanFrom(MarkFailed(Rerun(doc, n), n), kept \ {n})
     \/ \E s \in Suggestions, keeps \in BOOLEAN :
          ReplanFrom(Merge(doc, s, n, keeps), Decided(s, n, keeps))

Replan == ReplanFrom(doc, kept)

Reviews(n) ==
  \/ QcLimit(n) \/ QcFails(n) \/ QcApproves(n)
  \/ QcReruns(n) \/ QcMerges(n) \/ QcReplans(n)

Next ==
  \/ QcSkips
  \/ Replan
  \/ \E n \in Ids : CanvasRuns(n) \/ Reviews(n)

Spec == Init /\ [][Next]_vars
-----------------------------------------------------------------------------
(* Properties *)

\* A completed node shows an output of the agent and instructions it now has,
\* unless it was rejected and kept as it is: neither the repair of the quality
\* control nor the replanning carries an output over to other instructions,
\* though both copy the state of nodes into a document that the model wrote (the
\* comparisons in run_quality_control and run_replan).  Of what the output was
\* made the property says nothing: neither of them compares the connections, and
\* a node that is rewired keeps its output.
OutputIsOfItsText ==
  \A n \in Ids : doc.status[n] = "completed" =>
    doc.ran[n] = doc.text[n] \/ n \in kept

\* After a replanning no completed node consumes something that is still to be
\* produced, however many steps lie between the changed node and it (the
\* invalidation loop of run_replan), and running the nodes keeps it so.
PreservedIsClosed ==
  reply = "replanned" =>
    \A n \in doc.ids : doc.status[n] = "completed" =>
      \A m \in Parents(doc.edges, n) \cap doc.ids : doc.status[m] = "completed"

\* The nodes a call adds, or gives other instructions and does not keep.
Changed ==
  {m \in doc'.ids \ kept' : m \notin doc.ids \/ doc'.text[m] # doc.text[m]}

PutBack ==
  {m \in doc'.ids : doc.status[m] # "idle" /\ doc'.status[m] = "idle"}

\* A repair or replanning that adds a node or rewrites one puts back everything
\* that consumes it, and everything that consumes what it puts back, so that the
\* change reaches the end of every chain, except for a node that is kept as it
\* is (the traversal of run_quality_control, and the invalidation loop of
\* run_replan, also when one document goes through both).
ChangeResetsDownstream ==
  [][Changed # {} =>
       \A m \in Ids : Parents(doc'.edges, m) \cap (Changed \cup PutBack) # {} =>
         doc'.status[m] = "idle" \/ m \in kept']_vars

\* The quality control does not put nodes back for ever: endless reruns need
\* a count that is lowered endlessly, by repairs that change a node or by
\* replannings (qc_count and max_qc_attempts).
RerunsAreBounded ==
  []<><<\E n \in Ids : QcReruns(n)>>_vars
    => []<><<\E n \in Ids : doc'.count[n] < doc.count[n]>>_vars

\* What the reply of a call that finds nothing to review says: "Quality Control
\* completed: all completed or failed steps are verified."  A step is verified
\* by a verdict or by a rejection that keeps it.
VerifiedMeansReviewed ==
  [][QcSkips => \A n \in doc.ids :
       doc.status[n] # "idle" => n \in approved \cup kept]_vars
=============================================================================
