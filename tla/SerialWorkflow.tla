--------------------------- MODULE SerialWorkflow ---------------------------
(***************************************************************************)
(* What the durable workflow store promises: however many processes run,   *)
(* resume or sweep one workflow, its row goes through the life of a        *)
(* workflow that a single process executes step by step.  Every commit     *)
(* takes the row one version up and moves it along the life cycle of the   *)
(* controller's loop; a closed workflow never changes again, and only an   *)
(* answer takes a paused one back to work.                                 *)
(***************************************************************************)
EXTENDS Naturals

VARIABLES
  present,   \* the row exists
  version,   \* state_version
  stage      \* how far the current task is, or why the workflow stopped

serialVars == <<present, version, stage>>

InFlight == {"binding", "running", "review"}

Stages == {"open", "paused", "closed"} \cup InFlight

\* The stages one commit of a single executor can lead to.  A task found in
\* flight by an executor that did not put it there is abandoned: the executor
\* goes on with another task or closes the workflow.
Successors ==
  [open    |-> {"open", "binding", "closed"},
   binding |-> {"binding", "running", "review", "closed"},
   running |-> {"running", "review", "binding", "closed"},
   review  |-> {"review", "open", "paused", "binding", "closed"},
   paused  |-> {"open"},
   closed  |-> {}]

SerialInit ==
  /\ present = TRUE
  /\ version = 0
  /\ stage = "open"

Commit ==
  /\ present
  /\ version' = version + 1
  /\ stage' \in Successors[stage]
  /\ UNCHANGED present

Remove ==
  /\ present
  /\ present' = FALSE
  /\ UNCHANGED <<version, stage>>

SerialSpec == SerialInit /\ [][Commit \/ Remove]_serialVars
=============================================================================
