---------------------------- MODULE TaskService ----------------------------
(***************************************************************************)
(* The task table of one GAS service: ExecuteTask in its three modes and   *)
(* CancelTask (core/service_core.py), and a client that waits for a task   *)
(* (GasClient.wait_for_task).  A task's record is shared by the thread     *)
(* that executes it and by the requests that read and cancel it.           *)
(* Every access takes the service's lock, but a thread that checks the     *)
(* record and then writes it takes the lock twice, and store_task writes   *)
(* whatever the record holds by then.                                      *)
(***************************************************************************)
EXTENDS Naturals, FiniteSets

CONSTANTS
  Tasks,        \* task ids
  MaxProgress   \* bound on the progress events waiting in a stream's queue

ASSUME ServiceAssumption == MaxProgress \in Nat

VARIABLES
  mode,      \* how each task was requested
  status,    \* TASKS: the status of each task's record
  closed,    \* CLOSED_TASKS
  job,       \* where the thread is that answers for the task
  agent,     \* the agent's run
  events,    \* progress events in a stream's queue
  waiter,    \* where the client is that polls for a background task

  told,      \* history: what the caller was given as the result
  canceledAt \* history: where the job was when CancelTask succeeded

vars == <<mode, status, closed, job, agent, events, waiter, told, canceledAt>>

-----------------------------------------------------------------------------
(* Types *)

TERMINAL_STATUSES == {"successful", "failed", "canceled"}

Statuses == {"none", "accepted", "running"} \cup TERMINAL_STATUSES

\* begin: thread started.  mark: about to store running.  setup: building the
\* agent.  agent: waiting for it.  finish: building the final record.  raise:
\* an exception was caught.  failing: building the failed record.  succeeded,
\* failed: sending the final record.  gone: the stream's client left.
Places == {"idle", "begin", "mark", "setup", "agent", "finish", "raise",
           "failing", "succeeded", "failed", "ended", "gone"}

\* Type invariant: the task table, the jobs and the queues of the streams
\* (TASKS, CLOSED_TASKS, stream_agent_from_payload).
TypeOK ==
  /\ mode \in [Tasks -> {"none", "sync", "async", "stream"}]
  /\ status \in [Tasks -> Statuses]
  /\ closed \subseteq Tasks
  /\ job \in [Tasks -> Places]
  /\ agent \in [Tasks -> {"none", "working", "returned", "raised"}]
  /\ events \in [Tasks -> 0..MaxProgress]
  /\ waiter \in [Tasks -> {"none", "polling", "fetching", "over"}]
  /\ told \in [Tasks -> {"none", "incomplete"} \cup TERMINAL_STATUSES]
  /\ canceledAt \in [Tasks -> {"none"} \cup Places]

-----------------------------------------------------------------------------
(* Mutated forms: what a plausible slip in the code would do instead. *)

\* the guard looks at the record's status and not at CLOSED_TASKS
StatusOnly(t) == status[t] \in TERMINAL_STATUSES

\* CancelTask without the TASK_CLOSED refusal
AnyKnown(t) == status[t] # "none"

\* the sentinel is queued after the run instead of in a finally clause
SentinelOnSuccess(t) ==
  /\ agent[t] = "returned" \/ (agent[t] = "raised" /\ mode[t] # "stream")
  /\ events[t] = 0

\* a queue that is never drained
NeverDrained(t) == [events EXCEPT ![t] = @ + 1]

-----------------------------------------------------------------------------
(* Reading and writing the record *)

\* _task_status in TERMINAL_STATUSES or _task_is_closed
IsClosed(t) == status[t] \in TERMINAL_STATUSES \/ t \in closed

\* store_task replaces the record, whatever it is
store_task(t, s) ==
  /\ status' = [status EXCEPT ![t] = s]
  /\ closed' = IF s \in TERMINAL_STATUSES THEN closed \cup {t} ELSE closed

Goto(t, place) == job' = [job EXCEPT ![t] = place]

-----------------------------------------------------------------------------
(* ExecuteTask.  Requests that are refused create no record.              *)

\* The caller waits: no record until there is a result.
ExecuteSync(t) ==
  /\ mode[t] = "none"
  /\ mode' = [mode EXCEPT ![t] = "sync"]
  /\ Goto(t, "setup")
  /\ UNCHANGED <<status, closed, agent, events, waiter, told, canceledAt>>

\* The record is accepted, a daemon thread starts, the caller gets the id.
ExecuteAsync(t) ==
  /\ mode[t] = "none"
  /\ mode' = [mode EXCEPT ![t] = "async"]
  /\ store_task(t, "accepted")
  /\ Goto(t, "begin")
  /\ UNCHANGED <<agent, events, waiter, told, canceledAt>>

\* The caller reads the id from the stream and the work is done by the
\* response's generator.
ExecuteStream(t) ==
  /\ mode[t] = "none"
  /\ mode' = [mode EXCEPT ![t] = "stream"]
  /\ store_task(t, "accepted")
  /\ Goto(t, "mark")
  /\ UNCHANGED <<agent, events, waiter, told, canceledAt>>

\* Under the lock: refused when unknown or terminal.
Cancelable(t) == status[t] \notin {"none"} \cup TERMINAL_STATUSES

CancelTask(t) ==
  /\ Cancelable(t)
  /\ status' = [status EXCEPT ![t] = "canceled"]
  /\ closed' = closed \cup {t}
  /\ canceledAt' = [canceledAt EXCEPT ![t] = job[t]]
  /\ UNCHANGED <<mode, job, agent, events, waiter, told>>

-----------------------------------------------------------------------------
(* The job *)

\* The background thread's first check; a generator has none.
Begin(t) ==
  /\ job[t] = "begin"
  /\ Goto(t, IF IsClosed(t) THEN "ended" ELSE "mark")
  /\ UNCHANGED <<mode, status, closed, agent, events, waiter, told, canceledAt>>

MarkRunning(t) ==
  /\ job[t] = "mark"
  /\ store_task(t, "running")
  /\ Goto(t, "setup")
  /\ UNCHANGED <<mode, agent, events, waiter, told, canceledAt>>

StartAgent(t) ==
  /\ job[t] = "setup"
  /\ agent' = [agent EXCEPT ![t] = "working"]
  /\ Goto(t, "agent")
  /\ UNCHANGED <<mode, status, closed, events, waiter, told, canceledAt>>

\* The agent reports progress, which only a stream's queue receives.
AgentReports(t) ==
  /\ agent[t] = "working"
  /\ mode[t] = "stream"
  /\ events[t] < MaxProgress
  /\ events' = [events EXCEPT ![t] = @ + 1]
  /\ UNCHANGED <<mode, status, closed, job, agent, waiter, told, canceledAt>>

AgentEnds(t) ==
  /\ agent[t] = "working"
  /\ \E outcome \in {"returned", "raised"} :
       agent' = [agent EXCEPT ![t] = outcome]
  /\ UNCHANGED <<mode, status, closed, job, events, waiter, told, canceledAt>>

Drained(t) == [events EXCEPT ![t] = @ - 1]

\* The generator takes an event, or its wait for one times out: a canceled
\* task raises.
WatchStream(t) ==
  /\ job[t] = "agent"
  /\ mode[t] = "stream"
  /\ events[t] > 0 \/ agent[t] = "working"
  /\ IF status[t] = "canceled" THEN Goto(t, "raise")
     ELSE events[t] > 0 /\ UNCHANGED job
  /\ events' = IF events[t] > 0 THEN Drained(t) ELSE events
  /\ UNCHANGED <<mode, status, closed, agent, waiter, told, canceledAt>>

\* The agent's run is over: the call returned or raised, or the queue came to
\* the sentinel that the stream's worker puts last.
AgentOver(t) == agent[t] \in {"returned", "raised"} /\ events[t] = 0

\* Only the background thread checks again before it builds the result.
Collect(t) ==
  /\ job[t] = "agent"
  /\ AgentOver(t)
  /\ Goto(t, CASE agent[t] = "raised" -> "raise"
               [] mode[t] = "async" /\ IsClosed(t) -> "ended"
               [] OTHER -> "finish")
  /\ UNCHANGED <<mode, status, closed, agent, events, waiter, told, canceledAt>>

StoreSuccess(t) ==
  /\ job[t] = "finish"
  /\ store_task(t, "successful")
  /\ Goto(t, IF mode[t] = "async" THEN "ended" ELSE "succeeded")
  /\ UNCHANGED <<mode, agent, events, waiter, told, canceledAt>>

\* Building a record or the agent fails, an event of a stream cannot be
\* encoded, or the stored result cannot be sent.
Raise(t) ==
  /\ \/ job[t] \in {"mark", "setup", "finish", "succeeded"}
     \/ job[t] = "agent" /\ mode[t] = "stream"
  /\ Goto(t, "raise")
  /\ UNCHANGED <<mode, status, closed, agent, events, waiter, told, canceledAt>>

Except(t) ==
  /\ job[t] = "raise"
  /\ Goto(t, IF mode[t] = "async" /\ IsClosed(t) THEN "ended" ELSE "failing")
  /\ UNCHANGED <<mode, status, closed, agent, events, waiter, told, canceledAt>>

StoreFailure(t) ==
  /\ job[t] = "failing"
  /\ store_task(t, "failed")
  /\ Goto(t, IF mode[t] = "async" THEN "ended" ELSE "failed")
  /\ UNCHANGED <<mode, agent, events, waiter, told, canceledAt>>

\* The caller of a synchronous call or of a stream gets the stored record.
Reply(t) ==
  /\ job[t] \in {"succeeded", "failed"}
  /\ told' = [told EXCEPT ![t] =
                IF job[t] = "succeeded" THEN "successful" ELSE "failed"]
  /\ Goto(t, "ended")
  /\ UNCHANGED <<mode, status, closed, agent, events, waiter, canceledAt>>

\* The client drops the connection: GeneratorExit is raised at a yield, where
\* no handler catches it.  The agent's thread runs on.
Disconnect(t) ==
  /\ mode[t] = "stream"
  /\ job[t] \in {"mark", "setup", "agent", "finish", "raise", "succeeded", "failed"}
  /\ Goto(t, "gone")
  /\ UNCHANGED <<mode, status, closed, agent, events, waiter, told, canceledAt>>

-----------------------------------------------------------------------------
(* A client that was given the id of a background task waits for it, once. *)
(* Each of its requests reads the record as it is then.                    *)

\* What the two requests answer: the status, and the record if it is final or
\* else that the task is not complete yet, which is no error.
GetTaskStatus(t) == status[t]

GetTaskResult(t) ==
  IF status[t] \in TERMINAL_STATUSES THEN status[t] ELSE "incomplete"

Wait(t, place) == waiter' = [waiter EXCEPT ![t] = place]

\* execute_task has returned the accepted record.
WaitForTask(t) ==
  /\ mode[t] = "async"
  /\ waiter[t] = "none"
  /\ Wait(t, "polling")
  /\ UNCHANGED <<mode, status, closed, job, agent, events, told, canceledAt>>

\* A poll that sees any other status is repeated.
PollEnds(t) ==
  /\ waiter[t] = "polling"
  /\ GetTaskStatus(t) \in TERMINAL_STATUSES
  /\ Wait(t, "fetching")
  /\ UNCHANGED <<mode, status, closed, job, agent, events, told, canceledAt>>

FetchResult(t) ==
  /\ waiter[t] = "fetching"
  /\ told' = [told EXCEPT ![t] = GetTaskResult(t)]
  /\ Wait(t, "over")
  /\ UNCHANGED <<mode, status, closed, job, agent, events, canceledAt>>

\* The time is over after a poll, or a request fails: both raise.
WaitFails(t) ==
  /\ waiter[t] \in {"polling", "fetching"}
  /\ Wait(t, "over")
  /\ UNCHANGED <<mode, status, closed, job, agent, events, told, canceledAt>>

WaiterStep(t) == WaitForTask(t) \/ PollEnds(t) \/ FetchResult(t) \/ WaitFails(t)

-----------------------------------------------------------------------------

Init ==
  /\ mode = [t \in Tasks |-> "none"]
  /\ status = [t \in Tasks |-> "none"]
  /\ closed = {}
  /\ job = [t \in Tasks |-> "idle"]
  /\ agent = [t \in Tasks |-> "none"]
  /\ events = [t \in Tasks |-> 0]
  /\ waiter = [t \in Tasks |-> "none"]
  /\ told = [t \in Tasks |-> "none"]
  /\ canceledAt = [t \in Tasks |-> "none"]

Request(t) == ExecuteSync(t) \/ ExecuteAsync(t) \/ ExecuteStream(t) \/ CancelTask(t)

\* The steps a thread of the service takes by itself.
JobStep(t) ==
  \/ Begin(t) \/ MarkRunning(t) \/ StartAgent(t)
  \/ WatchStream(t) \/ Collect(t) \/ StoreSuccess(t)
  \/ Except(t) \/ StoreFailure(t) \/ Reply(t)

Next ==
  \E t \in Tasks :
    \/ Request(t)
    \/ JobStep(t)
    \/ AgentReports(t) \/ AgentEnds(t)
    \/ Raise(t)
    \/ Disconnect(t)
    \/ WaiterStep(t)

Spec == Init /\ [][Next]_vars

\* Threads are scheduled, and an agent's run ends.
Fairness == \A t \in Tasks : WF_vars(JobStep(t)) /\ WF_vars(AgentEnds(t))

FairSpec == Spec /\ Fairness

-----------------------------------------------------------------------------
(* Properties *)

\* A background task canceled at any point up to the end of its agent's run
\* never reports an outcome of that run: the record may fall back to running
\* when the cancel slips in before the thread's own update, but the work's
\* success or failure is dropped.  Only a cancel that lands while the final
\* record is being built is overwritten (_run_submitted_task_in_background).
CancelDuringWorkPrevails ==
  \A t \in Tasks :
    /\ mode[t] = "async"
    /\ canceledAt[t] \notin {"none", "finish", "failing"}
    => status[t] \in {"running", "canceled"}

\* A cancel came between the background thread's check and its write.
Overtaken(t) == mode[t] = "async" /\ canceledAt[t] \in {"mark", "finish", "failing"}

\* The final record that a caller was given, by the call, the stream or
\* wait_for_task, is what the table says from then on, so a later GetTaskResult
\* or CancelTask cannot contradict it; and a client that waits for a task which
\* nobody cancels is not told that its result is incomplete.  The exception is a
\* background task whose cancel was overtaken (run_agent_from_payload,
\* stream_agent_from_payload, handle_get_task_result, handle_cancel_task).
ToldIsStored ==
  \A t \in Tasks :
    /\ told[t] \in TERMINAL_STATUSES => status[t] = told[t] \/ Overtaken(t)
    /\ told[t] = "incomplete" => mode[t] = "async" /\ canceledAt[t] # "none"

\* Every accepted task is closed in the end, by an outcome or by a cancel,
\* unless its stream lost the client: no path through the exceptions, the
\* checks and the progress queue leaves the record waiting for nobody.
EveryTaskCloses ==
  \A t \in Tasks : status[t] = "accepted" ~> (t \in closed \/ job[t] = "gone")

\* A terminal status is final: clients stop polling when they see one
\* (GasClient.TERMINAL_STATUSES).
FinalStatusIsFinal ==
  [][\A t \in Tasks :
       status[t] \in TERMINAL_STATUSES => status'[t] = status[t]]_status

\* The outcome of a background task is final: neither a cancel nor the job, late
\* as either may be, replaces it (handle_cancel_task,
\* _run_submitted_task_in_background).
OutcomeIsFinal ==
  [][\A t \in Tasks :
       mode[t] = "async" /\ status[t] \in {"successful", "failed"}
         => status'[t] = status[t]]_status

\* wait_for_task polls "until terminal, then return GetTaskResult".
WaitEndsWithResult == \A t \in Tasks : told[t] # "incomplete"
=============================================================================
