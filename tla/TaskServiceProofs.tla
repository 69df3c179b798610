------------------------- MODULE TaskServiceProofs -------------------------
(***************************************************************************)
(* Proofs about TaskService, for any tasks and any queue.  Tasks share the *)
(* table and nothing else, so the inductive invariant is a conjunction     *)
(* over the tasks and a step is looked at for the one task it is of.       *)
(***************************************************************************)
EXTENDS TaskService, TLAPS

\* Nothing is known of a task that was not requested.
Untouched(t) ==
  mode[t] = "none" =>
    /\ job[t] = "idle" /\ status[t] = "none" /\ waiter[t] = "none"
    /\ told[t] = "none" /\ canceledAt[t] = "none"

\* A background job has no caller to reply to, and no client that can leave.
Background(t) ==
  mode[t] = "async" => job[t] \notin {"idle", "succeeded", "failed", "gone"}

\* A final record that is being sent is in the table.
SendingIsStored(t) ==
  /\ job[t] = "succeeded" => status[t] = "successful"
  /\ job[t] = "failed" => status[t] = "failed"

\* The caller of a call or a stream was sent what the table says, and the job is
\* over; it has nothing to wait for.
ToldAtEnd(t) ==
  mode[t] # "async" => waiter[t] = "none" /\ (told[t] # "none" =>
    job[t] = "ended" /\ status[t] = told[t] /\ status[t] \in TERMINAL_STATUSES)

\* A background task that was canceled before its final record was being built
\* is marked closed, and its job is not on the way to store an outcome.
CancelSeen(t) ==
  (mode[t] = "async" /\ canceledAt[t] \notin {"none", "finish", "failing"}) =>
    /\ t \in closed
    /\ status[t] \in {"running", "canceled"}
    /\ job[t] \in {"begin", "mark", "setup", "agent", "raise", "ended"}

\* Whatever final status a background task has, its job will not replace it,
\* unless a cancel was overtaken.
FinalStays(t) ==
  mode[t] = "async" =>
    /\ status[t] \in {"successful", "failed"} => job[t] = "ended"
    /\ canceledAt[t] = "none" => status[t] # "canceled"
    /\ canceledAt[t] \in {"finish", "failing"} =>
         status[t] \in TERMINAL_STATUSES /\ job[t] \in {"finish", "failing", "raise", "ended"}
    /\ canceledAt[t] \notin {"none", "mark", "finish", "failing"} =>
         status[t] = "canceled" /\ job[t] \in {"begin", "setup", "agent", "raise", "ended"}

\* What a client that waits has seen, and what it was given.
Waited(t) ==
  mode[t] = "async" =>
    /\ waiter[t] = "fetching" /\ canceledAt[t] = "none" => status[t] \in TERMINAL_STATUSES
    /\ told[t] = "incomplete" => canceledAt[t] # "none"
    /\ told[t] \in TERMINAL_STATUSES => status[t] = told[t] \/ Overtaken(t)
    /\ canceledAt[t] = "mark" => told[t] \in {"none", "incomplete", "canceled"}

TaskInv(t) ==
  /\ Untouched(t) /\ Background(t)
  /\ SendingIsStored(t) /\ ToldAtEnd(t)
  /\ CancelSeen(t) /\ FinalStays(t) /\ Waited(t)

Inv == TypeOK /\ \A t \in Tasks : TaskInv(t)

-----------------------------------------------------------------------------
(* Steps *)

\* What the service, the agent and the client do about one task.
Step(t) ==
  Request(t) \/ JobStep(t) \/ AgentReports(t) \/ AgentEnds(t) \/ Raise(t)
  \/ Disconnect(t) \/ WaiterStep(t)

\* Every step of a task leaves the others as they are (store_task,
\* handle_cancel_task and the jobs work on one record).
OthersKept(t) ==
  \A u \in Tasks \ {t} :
    /\ mode'[u] = mode[u] /\ status'[u] = status[u]
    /\ (u \in closed') = (u \in closed)
    /\ job'[u] = job[u] /\ agent'[u] = agent[u] /\ events'[u] = events[u]
    /\ waiter'[u] = waiter[u] /\ told'[u] = told[u] /\ canceledAt'[u] = canceledAt[u]

\* The initial table is well typed and knows no task.
LEMMA InvInit == Init => Inv
<1> SUFFICES ASSUME Init PROVE Inv
  OBVIOUS
<1>1. TypeOK
  BY ServiceAssumption DEF Init, TypeOK, Statuses, TERMINAL_STATUSES, Places
<1>2. \A t \in Tasks : TaskInv(t)
  BY DEF Init, TaskInv, Untouched, Background, SendingIsStored, ToldAtEnd, CancelSeen,
         FinalStays, Waited
<1> QED
  BY <1>1, <1>2 DEF Inv

\* Every request for a task keeps the types (run_agent_from_payload,
\* submit_agent_task_from_payload, stream_agent_from_payload,
\* handle_cancel_task).
LEMMA RequestTypes ==
  ASSUME TypeOK, NEW t \in Tasks, Request(t)
  PROVE  TypeOK'
<1> USE DEF TypeOK, Statuses, TERMINAL_STATUSES, Places
<1>1. CASE ExecuteSync(t)
  BY <1>1 DEF ExecuteSync, Goto
<1>2. CASE ExecuteAsync(t)
  BY <1>2 DEF ExecuteAsync, Goto, store_task
<1>3. CASE ExecuteStream(t)
  BY <1>3 DEF ExecuteStream, Goto, store_task
<1>4. CASE CancelTask(t)
  BY <1>4 DEF CancelTask
<1> QED
  BY <1>1, <1>2, <1>3, <1>4 DEF Request

\* Every step of the job of a task keeps the types.
LEMMA JobTypes ==
  ASSUME TypeOK, NEW t \in Tasks, JobStep(t)
  PROVE  TypeOK'
<1> USE DEF TypeOK, Statuses, TERMINAL_STATUSES, Places
<1>1. CASE Begin(t)
  BY <1>1 DEF Begin, Goto
<1>2. CASE MarkRunning(t)
  BY <1>2 DEF MarkRunning, Goto, store_task
<1>3. CASE StartAgent(t)
  BY <1>3 DEF StartAgent, Goto
<1>4. CASE WatchStream(t)
  <2>1. events' \in [Tasks -> 0..MaxProgress]
    BY <1>4, ServiceAssumption DEF WatchStream, Drained
  <2>2. job' \in [Tasks -> Places]
    BY <1>4 DEF WatchStream, Goto
  <2> QED
    BY <1>4, <2>1, <2>2 DEF WatchStream
<1>5. CASE Collect(t)
  BY <1>5 DEF Collect, Goto
<1>6. CASE StoreSuccess(t)
  BY <1>6 DEF StoreSuccess, Goto, store_task
<1>7. CASE Except(t)
  BY <1>7 DEF Except, Goto
<1>8. CASE StoreFailure(t)
  BY <1>8 DEF StoreFailure, Goto, store_task
<1>9. CASE Reply(t)
  BY <1>9 DEF Reply, Goto
<1> QED
  BY <1>1, <1>2, <1>3, <1>4, <1>5, <1>6, <1>7, <1>8, <1>9 DEF JobStep

\* Every step keeps the types.
LEMMA TypeNext == TypeOK /\ [Next]_vars => TypeOK'
<1> SUFFICES ASSUME TypeOK, [Next]_vars PROVE TypeOK'
  OBVIOUS
<1>1. ASSUME NEW t \in Tasks, AgentReports(t) \/ AgentEnds(t) PROVE TypeOK'
  BY <1>1, ServiceAssumption DEF TypeOK, AgentReports, AgentEnds
<1>2. ASSUME NEW t \in Tasks, Raise(t) \/ Disconnect(t) PROVE TypeOK'
  BY <1>2 DEF TypeOK, Raise, Disconnect, Goto, Places
<1>3. CASE UNCHANGED vars
  BY <1>3 DEF vars, TypeOK
<1>4. ASSUME NEW t \in Tasks, WaiterStep(t) PROVE TypeOK'
  BY <1>4 DEF TypeOK, WaiterStep, WaitForTask, PollEnds, FetchResult, WaitFails, Wait,
              GetTaskResult, TERMINAL_STATUSES
<1> QED
  BY <1>1, <1>2, <1>3, <1>4, RequestTypes, JobTypes DEF Next

-----------------------------------------------------------------------------
(* The invariant of a task *)

\* A request keeps the invariant of its task.
LEMMA RequestKeeps ==
  ASSUME TypeOK, NEW t \in Tasks, TaskInv(t), Request(t)
  PROVE  TaskInv(t)'
<1> USE DEF TypeOK, TaskInv, Untouched, Background, SendingIsStored, ToldAtEnd,
            CancelSeen, FinalStays, Waited, Overtaken, TERMINAL_STATUSES
<1>1. CASE ExecuteSync(t)
  BY <1>1 DEF ExecuteSync, Goto
<1>2. CASE ExecuteAsync(t)
  BY <1>2 DEF ExecuteAsync, Goto, store_task
<1>3. CASE ExecuteStream(t)
  BY <1>3 DEF ExecuteStream, Goto, store_task
<1>4. CASE CancelTask(t)
  BY <1>4 DEF CancelTask, Cancelable, Places
<1> QED
  BY <1>1, <1>2, <1>3, <1>4 DEF Request

\* A step of the job keeps the invariant of its task.
LEMMA JobKeeps ==
  ASSUME TypeOK, NEW t \in Tasks, TaskInv(t), JobStep(t)
  PROVE  TaskInv(t)'
<1> USE DEF TypeOK, TaskInv, Untouched, Background, SendingIsStored, ToldAtEnd,
            CancelSeen, FinalStays, Waited, Overtaken, TERMINAL_STATUSES
<1>1. CASE Begin(t)
  BY <1>1 DEF Begin, Goto, IsClosed
<1>2. CASE MarkRunning(t)
  BY <1>2 DEF MarkRunning, Goto, store_task
<1>3. CASE StartAgent(t)
  BY <1>3 DEF StartAgent, Goto
<1>4. CASE WatchStream(t)
  BY <1>4 DEF WatchStream, Goto
<1>5. CASE Collect(t)
  BY <1>5 DEF Collect, Goto, IsClosed
<1>6. CASE StoreSuccess(t)
  BY <1>6 DEF StoreSuccess, Goto, store_task
<1>7. CASE Except(t)
  BY <1>7 DEF Except, Goto, IsClosed
<1>8. CASE StoreFailure(t)
  BY <1>8 DEF StoreFailure, Goto, store_task
<1>9. CASE Reply(t)
  BY <1>9 DEF Reply, Goto
<1> QED
  BY <1>1, <1>2, <1>3, <1>4, <1>5, <1>6, <1>7, <1>8, <1>9 DEF JobStep

\* So do the agent, an exception and a client that leaves or waits.
LEMMA StepKeeps ==
  ASSUME TypeOK, NEW t \in Tasks, TaskInv(t), Step(t)
  PROVE  TaskInv(t)'
<1> USE DEF TypeOK, TaskInv, Untouched, Background, SendingIsStored, ToldAtEnd,
            CancelSeen, FinalStays, Waited, Overtaken, TERMINAL_STATUSES
<1>1. CASE AgentReports(t) \/ AgentEnds(t)
  BY <1>1 DEF AgentReports, AgentEnds
<1>2. CASE Raise(t)
  BY <1>2 DEF Raise, Goto
<1>3. CASE Disconnect(t)
  BY <1>3 DEF Disconnect, Goto
<1>4. CASE WaitForTask(t) \/ WaitFails(t)
  BY <1>4 DEF WaitForTask, WaitFails, Wait
<1>5. CASE PollEnds(t)
  BY <1>5 DEF PollEnds, GetTaskStatus, Wait
<1>6. CASE FetchResult(t)
  BY <1>6 DEF FetchResult, GetTaskResult, Wait
<1> QED
  BY <1>1, <1>2, <1>3, <1>4, <1>5, <1>6, RequestKeeps, JobKeeps DEF Step, WaiterStep

\* A step of one task does not touch another.
LEMMA StepIsLocal ==
  ASSUME TypeOK, NEW t \in Tasks, Step(t)
  PROVE  OthersKept(t)
<1> USE DEF TypeOK, OthersKept, Goto
<1>1. CASE Request(t)
  BY <1>1 DEF Request, ExecuteSync, ExecuteAsync, ExecuteStream, CancelTask, store_task
<1>2. CASE Begin(t) \/ MarkRunning(t) \/ StartAgent(t)
  BY <1>2 DEF Begin, MarkRunning, StartAgent, store_task
<1>3. CASE WatchStream(t)
  BY <1>3 DEF WatchStream, Drained
<1>4. CASE Collect(t) \/ StoreSuccess(t) \/ Except(t)
  BY <1>4 DEF Collect, StoreSuccess, Except, store_task
<1>5. CASE StoreFailure(t) \/ Reply(t)
  BY <1>5 DEF StoreFailure, Reply, store_task
<1>6. CASE AgentReports(t) \/ AgentEnds(t) \/ Raise(t) \/ Disconnect(t)
  BY <1>6 DEF AgentReports, AgentEnds, Raise, Disconnect
<1>7. CASE WaiterStep(t)
  BY <1>7 DEF WaiterStep, WaitForTask, PollEnds, FetchResult, WaitFails, Wait
<1> QED
  BY <1>1, <1>2, <1>3, <1>4, <1>5, <1>6, <1>7 DEF Step, JobStep

\* Every step keeps the inductive invariant.
LEMMA InvNext == Inv /\ [Next]_vars => Inv'
<1> SUFFICES ASSUME Inv, [Next]_vars PROVE Inv'
  OBVIOUS
<1>1. TypeOK'
  BY TypeNext DEF Inv
<1>2. ASSUME NEW t \in Tasks, Step(t), NEW u \in Tasks PROVE TaskInv(u)'
  <2>1. CASE u = t
    BY <1>2, <2>1, StepKeeps DEF Inv
  <2>2. CASE u # t
    <3>1. OthersKept(t)
      BY <1>2, StepIsLocal DEF Inv
    <3> QED
      BY <2>2, <3>1 DEF Inv, OthersKept, TaskInv, Untouched, Background,
                        SendingIsStored, ToldAtEnd, CancelSeen, FinalStays, Waited, Overtaken
  <2> QED
    BY <2>1, <2>2
<1>3. ASSUME UNCHANGED vars, NEW u \in Tasks PROVE TaskInv(u)'
  BY <1>3 DEF vars, Inv, TaskInv, Untouched, Background, SendingIsStored, ToldAtEnd,
              CancelSeen, FinalStays, Waited, Overtaken
<1>4. Next => \E t \in Tasks : Step(t)
  BY DEF Next, Step
<1> QED
  BY <1>1, <1>2, <1>3, <1>4 DEF Inv

\* The inductive invariant holds of every reachable state.
LEMMA Invariance == Spec => []Inv
  BY InvInit, InvNext, PTL DEF Spec

-----------------------------------------------------------------------------
(* What follows from it *)

\* Every record, job and queue keeps its type; no queue grows past its bound.
THEOREM TypeCorrect == Spec => []TypeOK
<1>1. Inv => TypeOK
  BY DEF Inv
<1> QED
  BY <1>1, Invariance, PTL

\* A background task that is canceled before its final record is being built
\* never reports the outcome of its run, however many tasks, exceptions and
\* repeated cancels there are (_run_submitted_task_in_background).
THEOREM CancelPrevails == Spec => []CancelDuringWorkPrevails
<1>1. Inv => CancelDuringWorkPrevails
  BY DEF Inv, TaskInv, CancelSeen, CancelDuringWorkPrevails
<1> QED
  BY <1>1, Invariance, PTL

\* The final record that a caller was given is what the table says ever after,
\* and no client is told that a task which nobody cancels is incomplete
\* (run_agent_from_payload, stream_agent_from_payload, handle_get_task_result).
THEOREM RepliesStand == Spec => []ToldIsStored
<1>1. Inv => ToldIsStored
  <2> SUFFICES ASSUME Inv, NEW t \in Tasks
               PROVE  /\ told[t] \in TERMINAL_STATUSES => status[t] = told[t] \/ Overtaken(t)
                      /\ told[t] = "incomplete" => mode[t] = "async" /\ canceledAt[t] # "none"
    BY DEF ToldIsStored
  <2>1. TaskInv(t)
    BY DEF Inv
  <2> QED
    BY <2>1 DEF TaskInv, ToldAtEnd, Waited, TERMINAL_STATUSES
<1> QED
  BY <1>1, Invariance, PTL

\* The success or failure of a background task is never replaced
\* (handle_cancel_task, _run_submitted_task_in_background).
THEOREM OutcomesStand == Spec => OutcomeIsFinal
<1> DEFINE Keeps(t) ==
      mode[t] = "async" /\ status[t] \in {"successful", "failed"} => status'[t] = status[t]
<1>1. ASSUME Inv, NEW t \in Tasks, Step(t) PROVE Keeps(t)
  <2> SUFFICES ASSUME mode[t] = "async", status[t] \in {"successful", "failed"}
               PROVE  status'[t] = status[t]
    OBVIOUS
  <2>1. job[t] = "ended"
    BY <1>1 DEF Inv, TaskInv, FinalStays
  <2>2. CASE Request(t)
    BY <2>2 DEF Request, ExecuteSync, ExecuteAsync, ExecuteStream, CancelTask, Cancelable,
                TERMINAL_STATUSES
  <2>3. CASE JobStep(t)
    BY <2>1, <2>3 DEF JobStep, Begin, MarkRunning, StartAgent, WatchStream, Collect,
                      StoreSuccess, Except, StoreFailure, Reply
  <2>4. CASE AgentReports(t) \/ AgentEnds(t) \/ Raise(t) \/ Disconnect(t) \/ WaiterStep(t)
    BY <2>4 DEF AgentReports, AgentEnds, Raise, Disconnect, WaiterStep, WaitForTask,
                PollEnds, FetchResult, WaitFails
  <2> QED
    BY <1>1, <2>2, <2>3, <2>4 DEF Step
<1>2. ASSUME Inv, NEW t \in Tasks, Step(t), NEW u \in Tasks PROVE Keeps(u)
  BY <1>1, <1>2, StepIsLocal DEF Inv, OthersKept
<1>3. Inv /\ [Next]_vars =>
        [\A t \in Tasks :
           mode[t] = "async" /\ status[t] \in {"successful", "failed"}
             => status'[t] = status[t]]_status
  <2>1. Next => \E t \in Tasks : Step(t)
    BY DEF Next, Step
  <2> QED
    BY <1>2, <2>1 DEF vars
<1> QED
  BY <1>3, Invariance, PTL DEF Spec, OutcomeIsFinal
=============================================================================
