--------------------------- MODULE WorkflowStore ---------------------------
(***************************************************************************)
(* One workflow in the SQLite store, shared by every call that runs it.    *)
(* A call is one invocation of LoopController.run, or of                   *)
(* AutonomousRuntime.resume, which answers the pending clarification and   *)
(* then runs.  The row of table workflows is written by compare-and-swap   *)
(* on state_version, the row of execution_leases keeps two calls apart for *)
(* as long as it has not expired, and the retention helper removes rows    *)
(* from outside.  The workflow's content is abstracted to its stage: which *)
(* group of task statuses the last commit left, or the terminal state.     *)
(***************************************************************************)
EXTENDS Integers, FiniteSets

CONSTANTS
  Calls,       \* invocations of run and resume, each with its own owner id
  Sweepers,    \* invocations of delete_expired_terminal_workflows
  NoCall,      \* the owner of an absent lease
  LeaseTTL,    \* ttl_seconds of a lease, in clock ticks
  MaxClock,    \* bound on the wall clock
  MaxVersion   \* bound on the number of commits

ASSUME StoreAssumption ==
  /\ NoCall \notin Calls
  /\ LeaseTTL \in Nat \ {0}
  /\ MaxClock \in Nat
  /\ MaxVersion \in Nat

VARIABLES
  row,         \* the durable row: present, ver, stage, updated
  lease,       \* the row of execution_leases: owner and expires
  clock,       \* wall clock, shared by all processes
  pc,          \* where each call is
  copy,        \* the WorkflowState each call holds: ver and stage
  held,        \* expires_at of the ExecutionLease each call was given
  sweep,       \* where each retention call is

  dispatched   \* history: <<call, version>> of every worker invocation

vars == <<row, lease, clock, pc, copy, held, sweep, dispatched>>

-----------------------------------------------------------------------------
(* Types *)

InFlight == {"binding", "running", "review"}

\* open: the next task can be taken.  binding: a task is BINDING or BOUND.
\* running: RUNNING.  review: PROVISIONAL_SUCCESS, VALIDATING, REJECTED or
\* FAILED.  paused: HUMAN_INTERVENTION_REQUIRED.  closed: any other terminal.
Stages == {"open", "paused", "closed"} \cup InFlight

\* terminal_state is not None
Terminal == {"paused", "closed"}

\* The places of the body of run, between the lease and its release.
Executing == {"top", "bind", "dispatch", "work", "review"}

Places == {"idle", "answer", "load", "acquire", "leave", "ended"} \cup Executing

NoLease == [owner |-> NoCall, expires |-> 0]

\* Type invariant: the row, the lease and what each call holds (WorkflowState,
\* ExecutionLease, table workflows).
TypeOK ==
  /\ row \in [present : BOOLEAN, ver : Nat, stage : Stages, updated : Nat]
  /\ lease \in [owner : Calls \cup {NoCall}, expires : Nat]
  /\ clock \in Nat
  /\ pc \in [Calls -> Places]
  /\ copy \in [Calls -> [ver : Nat, stage : Stages]]
  /\ held \in [Calls -> Nat]
  /\ sweep \in [Sweepers -> {"idle", "selected", "done"}]
  /\ dispatched \subseteq Calls \X Nat

-----------------------------------------------------------------------------
(* Mutated forms: what a plausible slip in the code would do instead. *)

\* UPDATE ... WHERE workflow_id = ?, without the version
AnyVersion(c) == row.present

\* DELETE FROM execution_leases WHERE workflow_id = ?, without the owner
ReleaseAny(c) == NoLease

\* there is no finally clause
NeverReleased(c) == lease

\* the ON CONFLICT clause takes the lease from whoever holds it
NeverBusy(c) == FALSE

\* now - timedelta(ttl)
DeadlinePassed == clock - LeaseTTL

-----------------------------------------------------------------------------
(* Operations of the store *)

Snapshot == [ver |-> row.ver, stage |-> row.stage]

\* WHERE workflow_id = ? AND state_version = ?
VersionMatches(c) == row.present /\ row.ver = copy[c].ver

\* The commit of stage s by call c.  When the row moved on or was removed,
\* save raises and the call unwinds to its finally clause.
Save(c, s, next, failed) ==
  \/ /\ VersionMatches(c)
     /\ row.ver < MaxVersion
     /\ row' = [row EXCEPT !.ver = copy[c].ver + 1, !.stage = s, !.updated = clock]
     /\ copy' = [copy EXCEPT ![c] = [ver |-> copy[c].ver + 1, stage |-> s]]
     /\ pc' = [pc EXCEPT ![c] = next]
  \/ /\ ~VersionMatches(c)
     /\ pc' = [pc EXCEPT ![c] = failed]
     /\ UNCHANGED <<row, copy>>

\* Another executor holds a lease that has not expired.
LeaseBusy(c) == lease.owner \notin {c, NoCall} /\ lease.expires > clock

\* now + timedelta(ttl)
Deadline == clock + LeaseTTL

\* DELETE ... WHERE workflow_id = ? AND owner_id = ?
ReleaseOwn(c) == IF lease.owner = c THEN NoLease ELSE lease

-----------------------------------------------------------------------------
(* resume: answer, then run *)

\* AutonomousRuntime.resume reaches ResumeService.answer, which loads the row
\* and raises unless the clarification it names is still open at the version
\* the caller read it at.  A caller may have read the store itself; one that
\* knows but what a call returned is the subject of the module MCWorkflowStore.
ResumeCall(c) ==
  /\ pc[c] = "idle"
  /\ row.present
  /\ row.stage = "paused"
  /\ copy' = [copy EXCEPT ![c] = Snapshot]
  /\ pc' = [pc EXCEPT ![c] = "answer"]
  /\ UNCHANGED <<row, lease, clock, held, sweep, dispatched>>

\* The answer makes the waiting task READY and clears the terminal state.
Answer(c) ==
  /\ pc[c] = "answer"
  /\ Save(c, "open", "load", "ended")
  /\ UNCHANGED <<lease, clock, held, sweep, dispatched>>

-----------------------------------------------------------------------------
(* run *)

RunCall(c) ==
  /\ pc[c] = "idle"
  /\ pc' = [pc EXCEPT ![c] = "load"]
  /\ UNCHANGED <<row, lease, clock, copy, held, sweep, dispatched>>

\* The state is read before the lease is taken.
Load(c) ==
  /\ pc[c] = "load"
  /\ \/ /\ row.present
        /\ copy' = [copy EXCEPT ![c] = Snapshot]
        /\ pc' = [pc EXCEPT ![c] = "acquire"]
     \/ /\ ~row.present
        /\ pc' = [pc EXCEPT ![c] = "ended"]
        /\ UNCHANGED copy
  /\ UNCHANGED <<row, lease, clock, held, sweep, dispatched>>

Acquire(c) ==
  /\ pc[c] = "acquire"
  /\ \/ /\ row.present /\ ~LeaseBusy(c)
        /\ lease' = [owner |-> c, expires |-> Deadline]
        /\ held' = [held EXCEPT ![c] = Deadline]
        /\ pc' = [pc EXCEPT ![c] = "top"]
     \/ /\ ~row.present \/ LeaseBusy(c)
        /\ pc' = [pc EXCEPT ![c] = "ended"]
        /\ UNCHANGED <<lease, held>>
  /\ UNCHANGED <<row, clock, copy, sweep, dispatched>>

\* if state.terminal_state is not None: return state
Returns(c) == copy[c].stage \in Terminal

Return(c) ==
  /\ pc[c] = "top"
  /\ Returns(c)
  /\ pc' = [pc EXCEPT ![c] = "leave"]
  /\ UNCHANGED <<row, lease, clock, copy, held, sweep, dispatched>>

\* A pass of the loop closes the workflow (complete, nothing ready, out of
\* time or of iterations) or takes the next ready task to BINDING.
Top(c) ==
  /\ pc[c] = "top"
  /\ ~Returns(c)
  /\ \/ Save(c, "closed", "leave", "leave")
     \/ Save(c, "binding", "bind", "leave")
  /\ UNCHANGED <<lease, clock, held, sweep, dispatched>>

\* Saves that leave the stage as it is: the committed plan, READY, BOUND, the
\* evaluated requirements, VALIDATING, REJECTED.
Checkpoint(c) ==
  /\ pc[c] \in {"top", "bind", "review"}
  /\ ~Returns(c)
  /\ Save(c, copy[c].stage, pc[c], "leave")
  /\ UNCHANGED <<lease, clock, held, sweep, dispatched>>

\* BOUND becomes RUNNING, or a binding error or a blocked precondition sends
\* the task to FAILED or VALIDATING.
Bind(c) ==
  /\ pc[c] = "bind"
  /\ \/ Save(c, "running", "dispatch", "leave")
     \/ Save(c, "review", "review", "leave")
  /\ UNCHANGED <<lease, clock, held, sweep, dispatched>>

\* The worker is invoked; what it does outside cannot be undone.
Dispatch(c) ==
  /\ pc[c] = "dispatch"
  /\ dispatched' = dispatched \cup {<<c, copy[c].ver>>}
  /\ pc' = [pc EXCEPT ![c] = "work"]
  /\ UNCHANGED <<row, lease, clock, copy, held, sweep>>

\* The worker's result is committed as PROVISIONAL_SUCCESS or FAILED.
Collect(c) ==
  /\ pc[c] = "work"
  /\ Save(c, "review", "review", "leave")
  /\ UNCHANGED <<lease, clock, held, sweep, dispatched>>

\* The review accepts the task or recovers it (open), pauses or closes.  A
\* patch of the graph may leave the reviewed task as it is.
Settle(c) ==
  /\ pc[c] = "review"
  /\ \/ \E s \in {"open", "review"} : Save(c, s, "top", "leave")
     \/ Save(c, "paused", "top", "leave")
     \/ Save(c, "closed", "leave", "leave")
  /\ UNCHANGED <<lease, clock, held, sweep, dispatched>>

\* An exception no handler of run catches: a spent budget, a component that
\* failed all its attempts, an artifact that cannot be registered.
Escape(c) ==
  /\ pc[c] \in Executing
  /\ pc' = [pc EXCEPT ![c] = "leave"]
  /\ UNCHANGED <<row, lease, clock, copy, held, sweep, dispatched>>

\* finally: release_execution_lease
Leave(c) ==
  /\ pc[c] = "leave"
  /\ lease' = ReleaseOwn(c)
  /\ pc' = [pc EXCEPT ![c] = "ended"]
  /\ UNCHANGED <<row, clock, copy, held, sweep, dispatched>>

\* The process dies: no finally clause runs, and nothing restarts the call.
Crash(c) ==
  /\ pc[c] \notin {"idle", "ended"}
  /\ pc' = [pc EXCEPT ![c] = "ended"]
  /\ UNCHANGED <<row, lease, clock, copy, held, sweep, dispatched>>

-----------------------------------------------------------------------------
(* Retention, and time *)

\* The SELECT runs outside the transaction that the first DELETE opens.
SweepSelect(s) ==
  /\ sweep[s] = "idle"
  /\ row.present
  /\ row.stage \in Terminal
  /\ row.updated < clock
  /\ sweep' = [sweep EXCEPT ![s] = "selected"]
  /\ UNCHANGED <<row, lease, clock, pc, copy, held, dispatched>>

SweepDelete(s) ==
  /\ sweep[s] = "selected"
  /\ row' = [row EXCEPT !.present = FALSE]
  /\ lease' = NoLease
  /\ sweep' = [sweep EXCEPT ![s] = "done"]
  /\ UNCHANGED <<clock, pc, copy, held, dispatched>>

Tick ==
  /\ clock < MaxClock
  /\ clock' = clock + 1
  /\ UNCHANGED <<row, lease, pc, copy, held, sweep, dispatched>>

-----------------------------------------------------------------------------

Init ==
  /\ row = [present |-> TRUE, ver |-> 0, stage |-> "open", updated |-> 0]
  /\ lease = NoLease
  /\ clock = 0
  /\ pc = [c \in Calls |-> "idle"]
  /\ copy = [c \in Calls |-> [ver |-> 0, stage |-> "open"]]
  /\ held = [c \in Calls |-> 0]
  /\ sweep = [s \in Sweepers |-> "idle"]
  /\ dispatched = {}

\* The steps a call takes by itself once it was made.
Advance(c) ==
  \/ Answer(c) \/ Load(c) \/ Acquire(c)
  \/ Return(c) \/ Top(c) \/ Checkpoint(c) \/ Bind(c)
  \/ Dispatch(c) \/ Collect(c) \/ Settle(c)
  \/ Leave(c)

Next ==
  \/ \E c \in Calls :
       RunCall(c) \/ ResumeCall(c) \/ Advance(c) \/ Escape(c) \/ Crash(c)
  \/ \E s \in Sweepers : SweepSelect(s) \/ SweepDelete(s)
  \/ Tick

Spec == Init /\ [][Next]_vars

-----------------------------------------------------------------------------
(* Properties *)

\* The lease keeps executors apart: no two calls are inside the body of run
\* while the leases both were given are still good.  It takes the expiry test,
\* the owner test of the release and the order of the two to keep this when a
\* call outlives its lease (acquire_execution_lease, release_execution_lease).
ExclusiveExecution ==
  \A c, d \in Calls :
    /\ c # d
    /\ {pc[c], pc[d]} \subseteq Executing
    => held[c] <= clock \/ held[d] <= clock

\* A call that has committed work under a lease that is still good finds the
\* row at the version it holds, so what its worker returns is never lost to a
\* version conflict, whatever stale executors and answers do meanwhile (run,
\* save, ResumeService.answer).
LeasedWorkIsCurrent ==
  \A c \in Calls :
    /\ pc[c] \in Executing \ {"top"}
    /\ held[c] > clock
    /\ row.present
    => row.ver = copy[c].ver

\* No two calls invoke a worker on behalf of the same version of the workflow,
\* also when a lease expired under a running worker: the RUNNING commit that
\* precedes the invocation is won by one of them (run, save).
OneDispatchPerVersion ==
  \A d, e \in dispatched : d[2] = e[2] => d = e

\* The row lives the life of a workflow run by a single process: every commit
\* is one version up and one legal step of the loop from the stage before it,
\* a closed workflow never changes, a paused one changes only by an answer.
Serial == INSTANCE SerialWorkflow WITH
  present <- row.present, version <- row.ver, stage <- row.stage

SerialHistory == Serial!SerialSpec

\* Retention takes only finished workflows: delete_expired_terminal_workflows
\* never removes a row whose workflow is being worked on.
DeletesOnlyTerminal ==
  [][row.present /\ ~row'.present => row.stage \in Terminal]_row
=============================================================================
