-------------------------- MODULE MCWorkflowStore --------------------------
(* Two or three calls, one retention call, and the public entry points.     *)
EXTENDS WorkflowStore, TLC

CallSymmetry == Permutations(Calls)

(***************************************************************************)
(* The calls the public modes make, when nothing fails: execute creates    *)
(* the workflow and runs it once, and every later run is a resume's.  Its  *)
(* caller has the clarification and the version from what a call returned, *)
(* which is after that call has released its lease (AutonomousRuntime).    *)
(* No process dies and no exception escapes.                               *)
(***************************************************************************)
PublicRunCall(c) == (\A d \in Calls : pc[d] = "idle") /\ RunCall(c)

\* The call ran the workflow and returned its pause, at the version of the row.
ReturnedPause(d) ==
  /\ pc[d] = "ended"
  /\ held[d] # 0
  /\ copy[d] = [ver |-> row.ver, stage |-> "paused"]

PublicResumeCall(c) == (\E d \in Calls : ReturnedPause(d)) /\ ResumeCall(c)

PublicNext ==
  \/ \E c \in Calls : PublicRunCall(c) \/ PublicResumeCall(c) \/ Advance(c)
  \/ \E s \in Sweepers : SweepSelect(s) \/ SweepDelete(s)
  \/ Tick

PublicSpec == Init /\ [][PublicNext]_vars

\* A resume that stored its answer goes on to run the workflow: once every
\* call has returned, the workflow is paused again or closed, or retention has
\* taken it.  An answer is committed before the lease is taken, so this rests on
\* the release of the run before, on the version that only one of two answers
\* meets, and on who is told of a question, and when
\* (AutonomousRuntime.resume, ResumeService.answer, run).
RestsOnlyWhenTerminal ==
  /\ row.present
  /\ \E c \in Calls : pc[c] = "ended"
  /\ \A c \in Calls : pc[c] \in {"idle", "ended"}
  => row.stage \in Terminal
=============================================================================
