------------------------ MODULE LoopControllerProofs ------------------------
(***************************************************************************)
(* Proofs about LoopController, for any plans, patches, codes, profiles    *)
(* and budgets.  The inductive invariant says what is known of the task in *)
(* hand, of the terminal state and of the budgets at each place.           *)
(***************************************************************************)
EXTENDS LoopController, TLAPS

Task == [status : TaskStatus, deps : SUBSET Ids]

\* The status the task in hand was saved with, by the place of the executor.
StatusAt(place) ==
  CASE place = "binding" -> {"binding"}
    [] place \in {"bound", "clear", "blocked"} -> {"bound"}
    [] place \in {"precondition", "validating"} -> {"validating"}
    [] place \in {"running", "working"} -> {"running"}
    [] place \in {"provisional", "registered"} -> {"provisional_success"}
    [] place \in {"failed", "giveup"} -> {"failed"}
    [] place = "recover" -> {"rejected", "failed"}
    [] OTHER -> TaskStatus

HasInHand == Places \ {"idle", "plan", "top", "take", "exhausted"}

TaskInHand ==
  pc \in HasInHand => cur \in DOMAIN tasks /\ tasks[cur].status \in StatusAt(pc)

\* The worker's call was reserved before the worker was invoked.
CallIsReserved == pc = "working" => HasBudget("worker")

\* A workflow that has stopped is left alone by the loop; one with a question
\* has stopped, and the question is about one of its tasks.
StoppedRests ==
  /\ terminal # "none" => pc \in {"idle", "top"} /\ DOMAIN tasks # {}
  /\ pc \notin {"idle", "plan"} => DOMAIN tasks # {}
  /\ human # NoQuestion => terminal # "none" /\ human.task \in Ids

\* What all budgets together have been charged.
Total == spent.worker + spent.local + spent.replan

\* Every pass but the one in hand was charged to a budget, and the one in hand
\* once its worker has answered.
PassesArePaid ==
  /\ iter <= Total + 1
  /\ pc \in {"failed", "provisional", "registered", "validating"} => iter <= Total
  /\ pc = "top" /\ terminal = "none" => iter <= Total
  /\ pc \in {"idle", "plan"} => iter = 0

\* A question about a missing CRS is decided on for a task without an assertion.
AssertionIsHeeded ==
  (/\ pc = "recover" /\ Structural
   /\ decision.action = "HUMAN_CLARIFICATION"
   /\ "MISSING_CRS" \in decision.found)
     => cur \notin asserted

\* The dependencies of a task are tasks of the graph.
DepsAreKnown == \A t \in DOMAIN tasks : tasks[t].deps \subseteq DOMAIN tasks

\* The task is supported: its parents are finished, and what is bound of their
\* outputs is accepted.
Supported(t) ==
  /\ \A p \in tasks[t].deps : tasks[p].status \in Done
  /\ inputs \subseteq tasks[t].deps \cap accepted

\* The task in hand was taken with its parents done and bound to what of theirs
\* was accepted; one that a dead executor left in flight has its parents still.
HandIsSupported ==
  /\ pc = "binding" => ParentsDone(tasks, cur)
  /\ cur \in DOMAIN tasks /\ tasks[cur].status \in InHand => Supported(cur)

-----------------------------------------------------------------------------
(* Patches *)

\* A patch leaves a task's status as it is or gives it one of its own.
PatchStatus == {"blocked", "superseded", "proposed"}

\* The normalization of the Replanner takes what the controller owns out of the
\* tasks that a patch inserts, and leaves it in the updates.
NoStatusUpdates ==
  \A p \in Patches : \A t \in DOMAIN p.update : p.update[t].status = <<>>

\* A normalized patch inserts the tasks that were proposed, and its updates set
\* the statuses that the proposal set.
LEMMA NormalizedIsProposed ==
  ASSUME NEW p \in NormalizedPatches
  PROVE  /\ DOMAIN p.insert \subseteq Ids
         /\ \A t \in DOMAIN p.update :
              /\ p.update[t].status \in {<<>>} \cup {<<s>> : s \in TaskStatus}
              /\ NoStatusUpdates => p.update[t].status = <<>>
<1>1. PICK q \in Patches : \E ground \in Groundings(tasks, q) :
        p = Normalized(tasks, q, cur, ground)
  BY DEF NormalizedPatches
<1>2. PICK ground : p = Normalized(tasks, q, cur, ground)
  BY <1>1
<1>3. DOMAIN p.insert = DOMAIN q.insert
  BY <1>2 DEF Normalized
<1>4. ASSUME NEW t \in DOMAIN p.update
      PROVE  \/ t \in DOMAIN q.update /\ p.update[t].status = q.update[t].status
             \/ p.update[t].status = <<>>
  <2>1. CASE p.update = q.update
    BY <2>1, <1>4
  <2>2. CASE p.update # q.update
    <3>1. PICK r, source : p.update = Adapted(tasks, q.update, cur, r, source)
      BY <1>2, <2>2 DEF Normalized
    <3> QED
      BY <3>1, <1>4 DEF Adapted
  <2> QED
    BY <2>1, <2>2
<1> QED
  BY <1>3, <1>4, ControllerAssumption DEF NoStatusUpdates

\* The graph that a patch is validated on is a graph of known tasks.
LEMMA CandidateTypes ==
  ASSUME TypeOK, NEW p \in NormalizedPatches, Applicable(tasks, p)
  PROVE  /\ DOMAIN Candidate(tasks, p) \subseteq Ids
         /\ DOMAIN Candidate(tasks, p) # {}
         /\ \A t \in DOMAIN Candidate(tasks, p) : Candidate(tasks, p)[t] \in Task
<1> DEFINE E == Edited(tasks, p)
           C == Candidate(tasks, p)
<1>1. /\ DOMAIN E = (DOMAIN tasks \ p.remove) \cup DOMAIN p.insert
      /\ DOMAIN C = DOMAIN E
  BY DEF Edited, Candidate, Rewired
<1>2. DOMAIN E \subseteq Ids
  BY <1>1, NormalizedIsProposed DEF TypeOK
<1>3. /\ DOMAIN C # {}
      /\ \A t \in DOMAIN C : C[t].deps \subseteq DOMAIN C
  BY DEF Applicable, ValidGraph, Known
<1>4. ASSUME NEW t \in DOMAIN E
      PROVE  \E s \in TaskStatus : \E d : E[t] = [status |-> s, deps |-> d]
  <2>1. CASE t \in DOMAIN p.insert
    <3>1. E[t] = [status |-> "proposed", deps |-> p.insert[t]]
      BY <1>1, <2>1 DEF Edited
    <3> QED
      BY <3>1 DEF TaskStatus
  <2>2. CASE t \notin DOMAIN p.insert
    <3> DEFINE old == IF t \in p.supersede
                      THEN [tasks[t] EXCEPT !.status = "superseded"] ELSE tasks[t]
    <3>1. old \in Task
      BY <1>1, <2>2 DEF TypeOK, Task, TaskStatus
    <3>2. CASE t \notin DOMAIN p.update
      <4>1. E[t] = old
        BY <1>1, <2>2, <3>2 DEF Edited
      <4>2. old = [status |-> old.status, deps |-> old.deps]
        BY <3>1 DEF Task
      <4> QED
        BY <4>1, <4>2, <3>1 DEF Task
    <3>3. CASE t \in DOMAIN p.update
      <4>1. E[t] = Merged(old, p.update[t])
        BY <1>1, <2>2, <3>3 DEF Edited
      <4>2. p.update[t].status \in {<<>>} \cup {<<s>> : s \in TaskStatus}
        BY <3>3, NormalizedIsProposed
      <4> DEFINE s == IF p.update[t].status = <<>> THEN old.status
                      ELSE p.update[t].status[1]
      <4>3. s \in TaskStatus
        BY <4>2, <3>1 DEF Task
      <4> QED
        BY <4>1, <4>3 DEF Merged, TaskStatus
    <3> QED
      BY <3>2, <3>3
  <2> QED
    BY <2>1, <2>2
<1>5. ASSUME NEW t \in DOMAIN C PROVE C[t] \in Task
  <2>1. PICK s \in TaskStatus : \E d : E[t] = [status |-> s, deps |-> d]
    BY <1>1, <1>4
  <2>2. \E e : C[t] = [E[t] EXCEPT !.deps = e]
    BY <1>1 DEF Candidate, Rewired
  <2>3. C[t].deps \subseteq Ids
    BY <1>1, <1>2, <1>3
  <2> QED
    BY <2>1, <2>2, <2>3 DEF Task
<1> QED
  BY <1>1, <1>2, <1>3, <1>5

\* And so is the graph that the patch leaves, with the same dependencies.
LEMMA PatchedTypes ==
  ASSUME TypeOK, NEW p \in NormalizedPatches, Applicable(tasks, p)
  PROVE  /\ DOMAIN Patched(tasks, p) = DOMAIN Candidate(tasks, p)
         /\ DOMAIN Patched(tasks, p) \subseteq Ids
         /\ DOMAIN Patched(tasks, p) # {}
         /\ Patched(tasks, p) \in [DOMAIN Patched(tasks, p) -> Task]
         /\ \A t \in DOMAIN Patched(tasks, p) :
              Patched(tasks, p)[t].deps = Candidate(tasks, p)[t].deps
<1> DEFINE C == Candidate(tasks, p)
<1>1. DOMAIN Patched(tasks, p) = DOMAIN C
  BY DEF Patched
<1>2. ASSUME NEW t \in DOMAIN C
      PROVE  Patched(tasks, p)[t] \in Task /\ Patched(tasks, p)[t].deps = C[t].deps
  <2>1. C[t] \in Task
    BY CandidateTypes
  <2>2. Patched(tasks, p)[t] \in {C[t], [C[t] EXCEPT !.status = "blocked"]}
    BY DEF Patched
  <2> QED
    BY <2>1, <2>2 DEF Task, TaskStatus
<1> QED
  BY <1>1, <1>2, CandidateTypes DEF Patched

\* A patch that sets no status of its own changes a status only to BLOCKED,
\* SUPERSEDED or PROPOSED.
LEMMA PatchedStatuses ==
  ASSUME TypeOK, NoStatusUpdates, NEW p \in NormalizedPatches, Applicable(tasks, p),
         NEW t \in DOMAIN Patched(tasks, p)
  PROVE  \/ Patched(tasks, p)[t].status \in PatchStatus
         \/ t \in DOMAIN tasks /\ Patched(tasks, p)[t].status = tasks[t].status
<1> DEFINE E == Edited(tasks, p)
           C == Candidate(tasks, p)
<1>1. /\ DOMAIN E = (DOMAIN tasks \ p.remove) \cup DOMAIN p.insert
      /\ DOMAIN C = DOMAIN E
      /\ DOMAIN Patched(tasks, p) = DOMAIN C
  BY DEF Edited, Candidate, Rewired, Patched
<1>2. E[t].status \in PatchStatus \/ (t \in DOMAIN tasks /\ E[t].status = tasks[t].status)
  <2>1. CASE t \in DOMAIN p.insert
    BY <1>1, <2>1 DEF Edited, PatchStatus
  <2>2. CASE t \notin DOMAIN p.insert
    <3>0. t \in DOMAIN tasks /\ tasks[t] \in Task
      BY <1>1, <2>2 DEF TypeOK, Task
    <3> DEFINE old == IF t \in p.supersede
                      THEN [tasks[t] EXCEPT !.status = "superseded"] ELSE tasks[t]
    <3>1. old.status \in {"superseded", tasks[t].status}
      BY <3>0 DEF Task
    <3>2. CASE t \notin DOMAIN p.update
      <4>1. E[t] = old
        BY <1>1, <2>2, <3>2 DEF Edited
      <4> QED
        BY <4>1, <3>0, <3>1 DEF PatchStatus
    <3>3. CASE t \in DOMAIN p.update
      <4>1. E[t] = Merged(old, p.update[t])
        BY <1>1, <2>2, <3>3 DEF Edited
      <4>2. p.update[t].status = <<>>
        BY <3>3, NormalizedIsProposed
      <4>3. E[t].status \in {"blocked", old.status}
        BY <4>1, <4>2 DEF Merged
      <4> QED
        BY <4>3, <3>0, <3>1 DEF PatchStatus
    <3> QED
      BY <3>2, <3>3
  <2> QED
    BY <2>1, <2>2
<1>3. C[t].status = E[t].status
  BY <1>1 DEF Candidate, Rewired
<1> QED
  BY <1>1, <1>2, <1>3 DEF Patched, PatchStatus

-----------------------------------------------------------------------------
(* Types *)

\* The workflow starts well typed, without a plan.
LEMMA TypeInit == Init => TypeOK
  BY ControllerAssumption DEF Init, TypeOK, TerminalState, Places, Actions, NoQuestion

\* A status change keeps the graph's type.
LEMMA SetStatusTypes ==
  ASSUME TypeOK, NEW t, NEW s \in TaskStatus, SetStatus(t, s)
  PROVE  /\ DOMAIN tasks' = DOMAIN tasks
         /\ tasks' \in [DOMAIN tasks -> Task]
         /\ \A u \in DOMAIN tasks :
              tasks'[u].status = (IF u = t THEN s ELSE tasks[u].status)
  BY DEF SetStatus, TypeOK, Task

\* What an evaluation writes is a set of codes for each task.
LEMMA EvaluateTypes ==
  ASSUME TypeOK, NEW S, Evaluate(S)
  PROVE  /\ blockers' \in [Ids -> SUBSET Codes]
         /\ \A t \in Ids \ S : blockers'[t] = blockers[t]
  BY DEF Evaluate, TypeOK

Usage == [worker : 0..MaxWorkerCalls, local : 0..MaxLocalRecoveries,
          replan : 0..MaxReplans]

\* A charge within the budget keeps the type of the usage and counts one.
LEMMA ReserveTypes ==
  ASSUME TypeOK, NEW kind \in {"worker", "local", "replan"}, HasBudget(kind),
         spent' = Reserve(kind)
  PROVE  /\ spent' \in Usage
         /\ Total' = Total + 1
<1>0. /\ spent.worker \in Nat /\ spent.local \in Nat /\ spent.replan \in Nat
      /\ spent.worker <= MaxWorkerCalls
      /\ spent.local <= MaxLocalRecoveries
      /\ spent.replan <= MaxReplans
      /\ spent = [worker |-> spent.worker, local |-> spent.local, replan |-> spent.replan]
  BY DEF TypeOK
<1>. MaxWorkerCalls \in Nat /\ MaxLocalRecoveries \in Nat /\ MaxReplans \in Nat
  BY ControllerAssumption
<1>1. CASE kind = "worker"
  <2>1. spent' = [worker |-> spent.worker + 1, local |-> spent.local, replan |-> spent.replan]
    BY <1>0, <1>1 DEF Reserve
  <2>2. spent.worker < MaxWorkerCalls
    BY <1>1 DEF HasBudget, Limit
  <2> QED
    BY <1>0, <2>1, <2>2 DEF Usage, Total
<1>2. CASE kind = "local"
  <2>1. spent' = [worker |-> spent.worker, local |-> spent.local + 1, replan |-> spent.replan]
    BY <1>0, <1>2 DEF Reserve
  <2>2. spent.local < MaxLocalRecoveries
    BY <1>2 DEF HasBudget, Limit
  <2> QED
    BY <1>0, <2>1, <2>2 DEF Usage, Total
<1>3. CASE kind = "replan"
  <2>1. spent' = [worker |-> spent.worker, local |-> spent.local, replan |-> spent.replan + 1]
    BY <1>0, <1>3 DEF Reserve
  <2>2. spent.replan < MaxReplans
    BY <1>3 DEF HasBudget, Limit
  <2> QED
    BY <1>0, <2>1, <2>2 DEF Usage, Total
<1> QED
  BY <1>1, <1>2, <1>3

\* Whatever a review says, the effective action is one the controller knows.
LEMMA ActionTypes ==
  ASSUME NEW r \in Reviews \cup FailureReviews
  PROVE  \A t, verdict, codes : EnforcedAction(t, verdict, r[2], codes) \in Actions
<1>1. \A q \in Reviews : q[2] \in Actions
  BY DEF Reviews, Actions
<1>2. \A q \in FailureReviews : q[2] \in Actions
  BY <1>1 DEF FailureReviews, Actions
<1>3. \A t, verdict, codes : \A action \in Actions :
        EnforcedAction(t, verdict, action, codes) \in Actions
  BY DEF EnforcedAction, Actions
<1>4. r[2] \in Actions
  BY <1>1, <1>2
<1> QED
  BY <1>3, <1>4

\* Planning and the top of the loop keep the types.
LEMMA LoopTopTypes ==
  ASSUME TypeOK, Plan \/ LoopTop \/ OutOfTime \/ Run
  PROVE  TypeOK'
<1>1. CASE Plan
  <2>1. PICK g \in Plans :
          tasks' = [t \in DOMAIN g |-> [status |-> "proposed", deps |-> g[t]]]
    BY <1>1 DEF Plan
  <2>2. DOMAIN tasks' = DOMAIN g /\ DOMAIN g \subseteq Ids
    BY <2>1, ControllerAssumption
  <2>3. \A t \in DOMAIN g : g[t] \subseteq Ids
    BY <1>1, <2>1, <2>2 DEF Plan, ValidGraph, Known
  <2>4. tasks' \in [DOMAIN tasks' -> Task]
    BY <2>1, <2>2, <2>3 DEF Task, TaskStatus
  <2>5. goal' \subseteq Ids
    BY <1>1, <2>2 DEF Plan, Leaves
  <2> QED
    BY <1>1, <2>2, <2>4, <2>5 DEF Plan, Goto, TypeOK, Task, Places
<1>2. CASE Return \/ Complete \/ NothingReady \/ LoopExhausted \/ OutOfTime
  BY <1>2, ControllerAssumption
     DEF Return, Complete, NothingReady, LoopExhausted, OutOfTime, Terminate, Stop,
         row, TypeOK, Places, TerminalState, Actions
<1>3. CASE Take
  <2>1. PICK t \in Ids, s \in TaskStatus : SetStatus(t, s)
    BY <1>3 DEF Take, TaskStatus
  <2>2. DOMAIN tasks' \subseteq Ids /\ tasks' \in [DOMAIN tasks' -> Task]
    BY <2>1, SetStatusTypes DEF TypeOK
  <2>3. iter' \in 0..MaxIterations
    BY <1>3, ControllerAssumption DEF Take, AtTop, TypeOK
  <2>4. pc' \in Places /\ cur' \in Ids \cup {NoTask}
    BY <1>3 DEF Take, Goto, Places, TypeOK
  <2> QED
    BY <1>3, <2>2, <2>3, <2>4 DEF Take, TypeOK, Task
<1>4. CASE Run
  BY <1>4 DEF Run, Goto, row, TypeOK, Places
<1> QED
  BY <1>1, <1>2, <1>3, <1>4 DEF LoopTop

\* A step that saves a new status of a task, and nothing else of the row.
Moves(t, s) ==
  /\ t \in Ids /\ s \in TaskStatus
  /\ SetStatus(t, s)
  /\ pc' \in Places /\ cur' \in Ids \cup {NoTask}
  /\ decision' \in [action : Actions, found : SUBSET Codes]
  /\ inputs' \subseteq Ids
  /\ UNCHANGED <<profile, goal, blockers, asserted, human, terminal, iter>>

\* Such a step keeps the types, when it keeps those of what else it changes.
LEMMA MoveTypes ==
  ASSUME TypeOK, NEW t, NEW s, Moves(t, s), accepted' \subseteq Ids, spent' \in Usage
  PROVE  TypeOK'
<1>1. DOMAIN tasks' \subseteq Ids /\ tasks' \in [DOMAIN tasks' -> Task]
  BY SetStatusTypes DEF Moves, TypeOK
<1> QED
  BY <1>1 DEF Moves, TypeOK, Task, Usage

\* The task in hand is one of the workflow's.
LEMMA InHandTypes ==
  ASSUME TypeOK, TaskInHand, pc \in HasInHand
  PROVE  cur \in Ids /\ cur \in DOMAIN tasks /\ tasks[cur].status \in StatusAt(pc)
  BY DEF TaskInHand, TypeOK

\* The steps from the binding to the review keep the types.
LEMMA ExecuteTypes ==
  ASSUME TypeOK, TaskInHand, CallIsReserved, Execute
  PROVE  TypeOK'
<1> USE DEF Goto
<1>a. accepted \subseteq Ids /\ spent \in Usage
  BY DEF TypeOK, Usage
<1>b. decision \in [action : Actions, found : SUBSET Codes]
      /\ cur \in Ids \cup {NoTask} /\ pc \in Places /\ inputs \subseteq Ids
  BY DEF TypeOK
<1>c. pc \in HasInHand => cur \in Ids
  BY InHandTypes
<1>d. pc \in HasInHand => blockers[cur] \in SUBSET Codes
  BY <1>c DEF TypeOK
<1>1. CASE TakeReady
  <2>1. PICK t \in Ids : cur' = t
    BY <1>1 DEF TakeReady
  <2>2. Moves(t, "binding") /\ UNCHANGED <<accepted, spent>>
    BY <1>1, <1>b, <2>1 DEF TakeReady, Moves, Places, TaskStatus
  <2> QED
    BY <1>a, <2>2, MoveTypes
<1>2. CASE Bind \/ BindingFails
  <2>1. inputs' \subseteq Ids
    BY <1>2, <1>a, <1>b DEF Bind, BindingFails, DependencyArtifacts
  <2>2. \E s : Moves(cur, s) /\ UNCHANGED <<accepted, spent>>
    BY <1>2, <1>b, <1>c, <2>1 DEF Bind, BindingFails, Moves, Places, TaskStatus, HasInHand
  <2> QED
    BY <1>a, <2>2, MoveTypes
<1>3. CASE GiveUp
  BY <1>3, ControllerAssumption
     DEF GiveUp, Terminate, Stop, TypeOK, TerminalState, Places, Actions
<1>4. CASE Preflight
  <2>1. blockers' \in [Ids -> SUBSET Codes]
    BY <1>4, EvaluateTypes DEF Preflight
  <2> QED
    BY <1>4, <2>1 DEF Preflight, TypeOK, Places
<1>5. CASE ReviewPrecondition \/ Start \/ Validate
  <2>1. \E s : Moves(cur, s) /\ UNCHANGED <<accepted, spent>>
    BY <1>5, <1>b, <1>c
       DEF ReviewPrecondition, Start, Validate, Moves, Places, TaskStatus, HasInHand
  <2> QED
    BY <1>a, <2>1, MoveTypes
<1>6. CASE RejectPrecondition
  <2>1. decision' \in [action : Actions, found : SUBSET Codes]
    <3>1. PICK r \in FailureReviews :
            decision' =
              [action |-> EnforcedAction(cur, EnforcedVerdict(r[1], blockers[cur]), r[2],
                                         blockers[cur]),
               found  |-> blockers[cur]]
      BY <1>6 DEF RejectPrecondition
    <3> QED
      BY <1>6, <1>d, <3>1, ActionTypes DEF RejectPrecondition, HasInHand, Places
  <2>2. Moves(cur, "rejected") /\ UNCHANGED <<accepted, spent>>
    BY <1>6, <1>b, <1>c, <2>1 DEF RejectPrecondition, Moves, Places, TaskStatus, HasInHand
  <2> QED
    BY <1>a, <2>2, MoveTypes
<1>7. CASE Dispatch
  BY <1>7 DEF Dispatch, row, TypeOK, Places
<1>8. CASE WorkerReturns \/ WorkerFails
  <2>1. \E s : Moves(cur, s) /\ UNCHANGED accepted
    BY <1>8, <1>b, <1>c DEF WorkerReturns, WorkerFails, Moves, Places, TaskStatus, HasInHand
  <2>2. spent' = Reserve("worker") /\ HasBudget("worker")
    BY <1>8 DEF WorkerReturns, WorkerFails, CallIsReserved
  <2> QED
    BY <1>a, <2>1, <2>2, MoveTypes, ReserveTypes
<1>9. CASE ReviewFailure
  <2>1. PICK found \in SUBSET Codes, r \in FailureReviews :
          decision' =
            [action |-> EnforcedAction(cur, EnforcedVerdict(r[1], found), r[2], found),
             found  |-> found]
    BY <1>9, <1>d DEF ReviewFailure, HasInHand, Places
  <2>2. decision' \in [action : Actions, found : SUBSET Codes]
    BY <2>1, ActionTypes
  <2> QED
    BY <1>9, <2>2 DEF ReviewFailure, row, TypeOK, Places
<1>10. CASE Register
  <2>1. blockers' \in [Ids -> SUBSET Codes]
    BY <1>10, EvaluateTypes DEF Register
  <2> QED
    BY <1>10, <2>1 DEF Register, TypeOK, Places
<1>11. CASE Accept
  <2>1. Moves(cur, "successful") /\ UNCHANGED spent
    BY <1>11, <1>b, <1>c DEF Accept, Moves, Places, TaskStatus, HasInHand
  <2>2. accepted' \subseteq Ids
    BY <1>11, <1>a, <1>c DEF Accept, HasInHand, Places
  <2> QED
    BY <1>a, <2>1, <2>2, MoveTypes
<1>12. CASE Reject
  <2>1. PICK r \in Reviews :
          decision' =
            [action |-> EnforcedAction(cur, EnforcedVerdict(r[1], blockers[cur]), r[2],
                                       blockers[cur]),
             found  |-> blockers[cur]]
    BY <1>12 DEF Reject
  <2>2. decision' \in [action : Actions, found : SUBSET Codes]
    BY <1>12, <1>d, <2>1, ActionTypes DEF Reject, HasInHand, Places
  <2>3. Moves(cur, "rejected") /\ UNCHANGED <<accepted, spent>>
    BY <1>12, <1>b, <1>c, <2>2 DEF Reject, Moves, Places, TaskStatus, HasInHand
  <2> QED
    BY <1>a, <2>3, MoveTypes
<1> QED
  BY <1>1, <1>2, <1>3, <1>4, <1>5, <1>6, <1>7, <1>8, <1>9, <1>10, <1>11, <1>12
     DEF Execute

\* The recovery keeps the types.
LEMMA RecoverTypes ==
  ASSUME TypeOK, TaskInHand, Recover
  PROVE  TypeOK'
<1> USE DEF Goto
<1>1. pc = "recover"
  BY DEF Recover, RecoverLocally, LocalRecoveryFails, Replan, AskHuman, NoRecovery
<1>2. cur \in Ids
  BY <1>1, InHandTypes DEF HasInHand, Places
<1>3. blockers' \in [Ids -> SUBSET Codes]
  BY DEF Recover, RecoverLocally, LocalRecoveryFails, Replan, AskHuman, NoRecovery,
         SaveFindings, TypeOK
<1>4. CASE RecoverLocally
  <2>1. spent' \in Usage
    BY <1>4, ReserveTypes DEF RecoverLocally
  <2>2. DOMAIN tasks' \subseteq Ids /\ tasks' \in [DOMAIN tasks' -> Task]
    BY <1>4, SetStatusTypes DEF RecoverLocally, TypeOK, TaskStatus
  <2> QED
    BY <1>3, <1>4, <2>1, <2>2 DEF RecoverLocally, GoOn, TypeOK, Task, Usage, Places, Actions
<1>5. CASE LocalRecoveryFails
  <2>1. spent' \in Usage
    BY <1>5, ReserveTypes DEF LocalRecoveryFails, TypeOK, Usage
  <2> QED
    BY <1>3, <1>5, <2>1, ControllerAssumption
       DEF LocalRecoveryFails, Terminate, Stop, TypeOK, Usage, Places, Actions, TerminalState
<1>6. CASE Replan
  <2>1. spent' \in Usage
    BY <1>6, ReserveTypes DEF Replan
  <2>2. DOMAIN tasks' \subseteq Ids /\ tasks' \in [DOMAIN tasks' -> Task]
    BY <1>6, PatchedTypes DEF Replan
  <2>3. accepted' \subseteq Ids
    BY <1>6 DEF Replan, TypeOK
  <2> QED
    BY <1>3, <1>6, <2>1, <2>2, <2>3 DEF Replan, GoOn, TypeOK, Task, Usage, Places, Actions
<1>7. CASE AskHuman
  <2>1. DOMAIN tasks' \subseteq Ids /\ tasks' \in [DOMAIN tasks' -> Task]
    BY <1>7, SetStatusTypes DEF AskHuman, Paused, SetStatus, TypeOK, TaskStatus
  <2>2. human' \in [task : Ids \cup {NoTask}, aboutCrs : BOOLEAN, saysCrs : BOOLEAN]
    <3>1. PICK saysCrs \in BOOLEAN :
            human' = [task |-> cur, aboutCrs |-> "MISSING_CRS" \in decision.found,
                      saysCrs |-> saysCrs]
      BY <1>7 DEF AskHuman
    <3>2. ("MISSING_CRS" \in decision.found) \in BOOLEAN
      OBVIOUS
    <3> QED
      BY <1>2, <3>1, <3>2
  <2> QED
    BY <1>3, <1>7, <2>1, <2>2
       DEF AskHuman, GoOn, TypeOK, Task, Places, Actions, TerminalState
<1>8. CASE NoRecovery
  BY <1>3, <1>8, ControllerAssumption
     DEF NoRecovery, Terminate, Stop, TypeOK, Places, Actions, TerminalState
<1> QED
  BY <1>4, <1>5, <1>6, <1>7, <1>8 DEF Recover

\* So do the exceptions and the answers.
LEMMA OtherTypes ==
  ASSUME TypeOK, StoppedRests, Fail \/ Escape \/ Answer
  PROVE  TypeOK'
<1>1. CASE Overspend
  BY <1>1 DEF Overspend, Goto, row, TypeOK, Places
<1>2. CASE Exhausted \/ ComponentFails \/ Escape
  BY <1>2, ControllerAssumption
     DEF Exhausted, ComponentFails, Escape, Unwind, Stop, row, TypeOK, Places, Actions
<1>3. CASE Answer
  <2>1. DOMAIN tasks' \subseteq Ids /\ tasks' \in [DOMAIN tasks' -> Task]
    BY <1>3, SetStatusTypes DEF Answer, TypeOK, TaskStatus
  <2>2. human' \in [task : Ids \cup {NoTask}, aboutCrs : BOOLEAN, saysCrs : BOOLEAN]
    BY <1>3 DEF Answer, NoQuestion
  <2>3. asserted' \subseteq Ids
    BY <1>3 DEF Answer, StoppedRests, TypeOK
  <2> QED
    BY <1>3, <2>1, <2>2, <2>3 DEF Answer, TypeOK, Task, TerminalState
<1> QED
  BY <1>1, <1>2, <1>3 DEF Fail

\* Every step keeps the types.
LEMMA TypeNext ==
  ASSUME TypeOK, TaskInHand, CallIsReserved, StoppedRests, [Next]_vars
  PROVE  TypeOK'
<1>1. CASE UNCHANGED vars
  BY <1>1 DEF vars, row, TypeOK
<1> QED
  BY <1>1, LoopTopTypes, ExecuteTypes, RecoverTypes, OtherTypes DEF Next, Advance

-----------------------------------------------------------------------------
(* The task in hand, and a workflow that has stopped *)

\* The task in hand keeps the status its place asks for, from place to place.
LEMMA InHandNext ==
  ASSUME TypeOK, TypeOK', TaskInHand, CallIsReserved, [Next]_vars
  PROVE  TaskInHand' /\ CallIsReserved'
<1> USE DEF Goto
<1>1. CASE pc' \notin HasInHand
  BY <1>1 DEF TaskInHand, CallIsReserved, HasInHand, Places
<1>2. CASE Take \/ TakeReady
  <2>1. CASE cur' \in DOMAIN tasks /\ SetStatus(cur', "binding") /\ pc' = "binding"
    BY <2>1, SetStatusTypes DEF TaskInHand, CallIsReserved, StatusAt, TaskStatus
  <2>2. CASE pc' = "take"
    BY <2>2, <1>1 DEF HasInHand
  <2> QED
    BY <1>2, <2>1, <2>2 DEF Take, TakeReady, IsNext
<1>3. ASSUME NEW s \in TaskStatus, pc \in HasInHand, SetStatus(cur, s), cur' = cur,
             s \in StatusAt(pc'), pc' # "working"
      PROVE  TaskInHand' /\ CallIsReserved'
  BY <1>3, SetStatusTypes DEF TaskInHand, CallIsReserved
<1>4. ASSUME pc \in HasInHand, UNCHANGED <<tasks, cur>>, StatusAt(pc) \subseteq StatusAt(pc')
      PROVE  TaskInHand'
  BY <1>4 DEF TaskInHand
<1>5. CASE Bind \/ BindingFails \/ ReviewPrecondition \/ RejectPrecondition \/ Start
  BY <1>3, <1>5
     DEF Bind, BindingFails, ReviewPrecondition, RejectPrecondition, Start, StatusAt,
         HasInHand, Places, TaskStatus
<1>6. CASE WorkerReturns \/ WorkerFails \/ Validate \/ Reject
  BY <1>3, <1>6
     DEF WorkerReturns, WorkerFails, Validate, Reject, StatusAt, HasInHand, Places, TaskStatus
<1>7. CASE Preflight \/ Dispatch \/ ReviewFailure \/ Register
  <2>1. TaskInHand'
    BY <1>4, <1>7
       DEF Preflight, Dispatch, ReviewFailure, Register, row, StatusAt, HasInHand, Places
  <2>2. CallIsReserved'
    BY <1>7 DEF Preflight, Dispatch, ReviewFailure, Register, row, CallIsReserved,
                HasBudget, Limit
  <2> QED
    BY <2>1, <2>2
<1>8. CASE Run \/ Plan \/ Return \/ OutOfTime \/ Complete \/ NothingReady \/ LoopExhausted
  BY <1>1, <1>8
     DEF Run, Plan, Return, OutOfTime, Complete, NothingReady, LoopExhausted, Terminate,
         Stop, HasInHand
<1>9. CASE GiveUp \/ Accept \/ Recover
  BY <1>1, <1>9
     DEF GiveUp, Accept, Recover, RecoverLocally, LocalRecoveryFails, Replan, AskHuman,
         NoRecovery, GoOn, Terminate, Stop, HasInHand
<1>10. CASE Fail \/ Escape
  BY <1>1, <1>10
     DEF Fail, Overspend, Exhausted, ComponentFails, Escape, Unwind, Stop, HasInHand
<1>11. CASE Answer
  BY <1>1, <1>11 DEF Answer, HasInHand
<1>12. CASE UNCHANGED vars
  BY <1>12 DEF vars, row, TaskInHand, CallIsReserved, HasBudget, Limit
<1> QED
  BY <1>2, <1>5, <1>6, <1>7, <1>8, <1>9, <1>10, <1>11, <1>12
     DEF Next, Advance, LoopTop, Execute

\* A step of the executor that is not at the top starts from a workflow that
\* has not stopped and has no open question.
LEMMA RunningIsOpen ==
  ASSUME TypeOK, StoppedRests, pc \notin {"idle", "top"}
  PROVE  terminal = "none" /\ human = NoQuestion
  BY DEF StoppedRests

\* A budget is overspent before a worker or in a recovery.
LEMMA OverspendAt == TypeOK /\ Overspend => pc \in {"running", "recover"}
<1> SUFFICES ASSUME TypeOK, Overspend PROVE pc \in {"running", "recover"}
  OBVIOUS
<1>1. PICK kind \in DOMAIN spent : Reserving(kind)
  BY DEF Overspend
<1>2. kind \in {"worker", "local", "replan"}
  BY <1>1 DEF TypeOK
<1>3. CASE kind = "worker"
  BY <1>1, <1>3 DEF Reserving
<1>4. CASE kind = "local"
  BY <1>1, <1>4 DEF Reserving
<1>5. CASE kind = "replan"
  BY <1>1, <1>5 DEF Reserving
<1> QED
  BY <1>2, <1>3, <1>4, <1>5

\* A workflow that has stopped stays at rest until an answer reopens it.
LEMMA StoppedNext ==
  ASSUME TypeOK, TaskInHand, StoppedRests, [Next]_vars
  PROVE  StoppedRests'
<1> USE DEF Goto
<1>1. CASE Plan
  BY <1>1, RunningIsOpen DEF Plan, StoppedRests, ValidGraph
<1>2. CASE Run
  BY <1>2 DEF Run, row, StoppedRests, NoQuestion
<1>3. CASE Return \/ OutOfTime \/ Complete \/ NothingReady \/ LoopExhausted
  BY <1>3
     DEF Return, OutOfTime, Complete, NothingReady, LoopExhausted, AtTop, Stopped, Stop,
         Terminate, row, StoppedRests, NoQuestion
<1>4. CASE Take \/ TakeReady
  <2>1. terminal = "none" /\ human = NoQuestion
    BY <1>4, RunningIsOpen DEF Take, TakeReady, Stopped, StoppedRests
  <2>2. DOMAIN tasks # {} /\ DOMAIN tasks' = DOMAIN tasks
    BY <1>4 DEF Take, TakeReady, AtTop, SetStatus, StoppedRests
  <2> QED
    BY <1>4, <2>1, <2>2 DEF Take, TakeReady, StoppedRests, NoQuestion
<1>5. CASE Execute /\ ~TakeReady
  <2>1. pc \in HasInHand
    BY <1>5
       DEF Execute, Bind, BindingFails, GiveUp, Preflight, ReviewPrecondition,
           RejectPrecondition, Start, Dispatch, WorkerReturns, WorkerFails, ReviewFailure,
           Register, Validate, Accept, Reject, HasInHand, Places
  <2>2. terminal = "none" /\ human = NoQuestion /\ DOMAIN tasks # {}
    BY <2>1, RunningIsOpen DEF HasInHand, StoppedRests
  <2>3. DOMAIN tasks' = DOMAIN tasks /\ human' = human
    BY <1>5
       DEF Execute, Bind, BindingFails, GiveUp, Preflight, ReviewPrecondition,
           RejectPrecondition, Start, Dispatch, WorkerReturns, WorkerFails, ReviewFailure,
           Register, Validate, Accept, Reject, SetStatus, Terminate, row
  <2>4. terminal' = "none" \/ pc' = "idle"
    BY <1>5, <2>2
       DEF Execute, Bind, BindingFails, GiveUp, Preflight, ReviewPrecondition,
           RejectPrecondition, Start, Dispatch, WorkerReturns, WorkerFails, ReviewFailure,
           Register, Validate, Accept, Reject, SetStatus, Terminate, Stop, row
  <2> QED
    BY <2>2, <2>3, <2>4 DEF StoppedRests, NoQuestion
<1>6. CASE Recover
  <2>1. pc = "recover"
    BY <1>6 DEF Recover, RecoverLocally, LocalRecoveryFails, Replan, AskHuman, NoRecovery
  <2>2. terminal = "none" /\ human = NoQuestion /\ DOMAIN tasks # {} /\ cur \in Ids
    BY <2>1, RunningIsOpen, InHandTypes DEF HasInHand, Places, StoppedRests
  <2>3. CASE AskHuman
    <3>1. DOMAIN tasks' = DOMAIN tasks /\ human'.task = cur
      BY <2>3 DEF AskHuman, Paused
    <3> QED
      BY <2>2, <2>3, <3>1 DEF AskHuman, GoOn, StoppedRests
  <2>4. CASE Replan
    BY <2>2, <2>4, PatchedTypes DEF Replan, GoOn, StoppedRests, NoQuestion
  <2>5. CASE RecoverLocally \/ LocalRecoveryFails \/ NoRecovery
    BY <2>2, <2>5
       DEF RecoverLocally, LocalRecoveryFails, NoRecovery, SetStatus, GoOn, Terminate, Stop,
           StoppedRests, NoQuestion
  <2> QED
    BY <1>6, <2>3, <2>4, <2>5 DEF Recover
<1>7. CASE Fail \/ Escape
  <2>1. CASE Overspend
    <3>1. pc \notin {"idle", "top", "plan"}
      BY <2>1, OverspendAt DEF Overspend
    <3> QED
      BY <2>1, <3>1 DEF Overspend, row, StoppedRests, NoQuestion
  <2>2. CASE Exhausted \/ ComponentFails \/ Escape
    BY <2>2 DEF Exhausted, ComponentFails, Escape, Unwind, Stop, row, StoppedRests, NoQuestion
  <2> QED
    BY <1>7, <2>1, <2>2 DEF Fail
<1>8. CASE Answer
  BY <1>8 DEF Answer, SetStatus, StoppedRests, NoQuestion
<1>9. CASE UNCHANGED vars
  BY <1>9 DEF vars, row, StoppedRests, NoQuestion
<1> QED
  BY <1>1, <1>2, <1>3, <1>4, <1>5, <1>6, <1>7, <1>8, <1>9 DEF Next, Advance, LoopTop

-----------------------------------------------------------------------------
(* Every pass is paid *)

\* Nothing is charged but by a reservation, and a reservation counts one.
LEMMA PassesNext ==
  ASSUME TypeOK, TaskInHand, CallIsReserved, StoppedRests, PassesArePaid, [Next]_vars
  PROVE  PassesArePaid'
<1> USE DEF Goto
<1>0. Total \in Nat /\ iter \in Nat
  BY DEF TypeOK, Total
<1>1. ASSUME iter' = 0, UNCHANGED spent PROVE PassesArePaid'
  BY <1>0, <1>1 DEF PassesArePaid, Total
<1>2. ASSUME iter' = 0, Total' = Total + 1 PROVE PassesArePaid'
  BY <1>0, <1>2 DEF PassesArePaid
<1>3. ASSUME UNCHANGED <<iter, spent>>,
             pc' \notin {"idle", "plan", "failed", "provisional", "registered",
                         "validating"},
             pc' = "top" => terminal' # "none" \/ iter <= Total
      PROVE  PassesArePaid'
  BY <1>3 DEF PassesArePaid, Total
<1>4. ASSUME UNCHANGED iter, Total' = Total + 1, pc' \notin {"idle", "plan"}
      PROVE  PassesArePaid'
  BY <1>0, <1>4 DEF PassesArePaid
<1>5. CASE Run \/ Plan
  BY <1>0, <1>1, <1>5 DEF Run, Plan, row, PassesArePaid
<1>6. CASE Return \/ OutOfTime \/ Complete \/ NothingReady \/ LoopExhausted
  BY <1>1, <1>6
     DEF Return, OutOfTime, Complete, NothingReady, LoopExhausted, Terminate, Stop, row
<1>7. CASE Take
  <2>1. iter <= Total /\ iter' = iter + 1 /\ UNCHANGED spent
    BY <1>7 DEF Take, AtTop, Stopped, PassesArePaid
  <2>2. pc' \in {"take", "binding"}
    BY <1>7 DEF Take
  <2> QED
    BY <1>0, <2>1, <2>2 DEF PassesArePaid, Total
<1>8. CASE TakeReady \/ Bind \/ BindingFails \/ Preflight \/ RejectPrecondition
  BY <1>3, <1>8 DEF TakeReady, Bind, BindingFails, Preflight, RejectPrecondition
<1>9. CASE ReviewPrecondition \/ Start \/ Dispatch \/ ReviewFailure \/ Reject
  BY <1>3, <1>9 DEF ReviewPrecondition, Start, Dispatch, ReviewFailure, Reject, row
<1>10. CASE GiveUp
  BY <1>1, <1>10 DEF GiveUp, Terminate, Stop
<1>11. CASE WorkerReturns \/ WorkerFails
  <2>1. Total' = Total + 1
    BY <1>11, ReserveTypes DEF WorkerReturns, WorkerFails, CallIsReserved
  <2> QED
    BY <1>4, <1>11, <2>1 DEF WorkerReturns, WorkerFails
<1>12. CASE Register \/ Validate \/ Accept
  BY <1>12 DEF Register, Validate, Accept, PassesArePaid, Total
<1>13. CASE RecoverLocally \/ Replan
  <2>1. Total' = Total + 1
    BY <1>13, ReserveTypes DEF RecoverLocally, Replan
  <2> QED
    BY <1>4, <1>13, <2>1 DEF RecoverLocally, Replan, GoOn
<1>14. CASE LocalRecoveryFails
  <2>1. Total' = Total + 1 \/ UNCHANGED spent
    BY <1>14, ReserveTypes DEF LocalRecoveryFails
  <2> QED
    BY <1>1, <1>2, <1>14, <2>1 DEF LocalRecoveryFails, Terminate, Stop
<1>15. CASE AskHuman
  BY <1>3, <1>15 DEF AskHuman, GoOn
<1>16. CASE NoRecovery
  BY <1>1, <1>16 DEF NoRecovery, Terminate, Stop
<1>17. CASE Overspend
  BY <1>3, <1>17 DEF Overspend, row
<1>18. CASE Exhausted \/ ComponentFails \/ Escape
  BY <1>1, <1>18 DEF Exhausted, ComponentFails, Escape, Unwind, Stop, row
<1>19. CASE Answer
  BY <1>1, <1>19 DEF Answer, PassesArePaid
<1>20. CASE UNCHANGED vars
  BY <1>20 DEF vars, row, PassesArePaid, Total
<1> QED
  BY <1>5, <1>6, <1>7, <1>8, <1>9, <1>10, <1>11, <1>12, <1>13, <1>14, <1>15, <1>16,
     <1>17, <1>18, <1>19, <1>20
     DEF Next, Advance, LoopTop, Execute, Recover, Fail

-----------------------------------------------------------------------------
(* What is accepted, completed and asked *)

\* A finished workflow is sound when it is closed, and nothing but the loop
\* bound touches it afterwards.
LEMMA CompletedNext ==
  ASSUME TypeOK, StoppedRests, CompletedIsSound, [Next]_vars
  PROVE  CompletedIsSound'
<1>1. CASE terminal = "completed"
  <2>1. pc \in {"idle", "top"} /\ human = NoQuestion
    BY <1>1 DEF StoppedRests, CompletedIsSound
  <2>2. UNCHANGED row \/ terminal' # "completed"
    BY <1>1, <2>1
       DEF Next, Run, Advance, Plan, LoopTop, Return, Complete, NothingReady, Take,
           LoopExhausted, Execute, TakeReady, Bind, BindingFails, GiveUp, Preflight,
           ReviewPrecondition, RejectPrecondition, Start, Dispatch, WorkerReturns,
           WorkerFails, ReviewFailure, Register, Validate, Accept, Reject, Recover,
           RecoverLocally, LocalRecoveryFails, Replan, AskHuman, NoRecovery, Fail,
           Overspend, Exhausted, ComponentFails, OutOfTime, Escape, Unwind, Answer,
           Stopped, Terminate, vars, row
  <2> QED
    BY <1>1, <2>2 DEF row, CompletedIsSound, Done, NoQuestion
<1>2. CASE Complete
  BY <1>2 DEF Complete, IsComplete, CompletedIsSound, Done, NoQuestion
<1>3. CASE terminal # "completed" /\ ~Complete
  <2>1. terminal' # "completed"
    BY <1>3
       DEF Next, Run, Advance, Plan, LoopTop, Return, NothingReady, Take,
           LoopExhausted, Execute, TakeReady, Bind, BindingFails, GiveUp, Preflight,
           ReviewPrecondition, RejectPrecondition, Start, Dispatch, WorkerReturns,
           WorkerFails, ReviewFailure, Register, Validate, Accept, Reject, Recover,
           RecoverLocally, LocalRecoveryFails, Replan, AskHuman, NoRecovery, Fail,
           Overspend, Exhausted, ComponentFails, OutOfTime, Escape, Unwind, Answer,
           Terminate, vars, row
  <2> QED
    BY <2>1 DEF CompletedIsSound
<1> QED
  BY <1>1, <1>2, <1>3

\* No step makes a task SUCCESSFUL, or finds something on one that is, but an
\* acceptance without findings (Accept, Evaluate, SaveFindings, Replan).
LEMMA AcceptedNext ==
  ASSUME NoStatusUpdates, TypeOK, TypeOK', TaskInHand, AcceptedIsUnblocked, [Next]_vars
  PROVE  AcceptedIsUnblocked'
<1>1. ASSUME \A t \in DOMAIN tasks' :
               tasks'[t].status = "successful" =>
                 /\ t \in DOMAIN tasks
                 /\ tasks[t].status = "successful"
                 /\ blockers'[t] = blockers[t]
      PROVE  AcceptedIsUnblocked'
  BY <1>1 DEF AcceptedIsUnblocked
<1>2. ASSUME UNCHANGED <<tasks, blockers>> PROVE AcceptedIsUnblocked'
  BY <1>2 DEF AcceptedIsUnblocked
<1>3. ASSUME NEW t, NEW s \in TaskStatus \ {"successful"}, SetStatus(t, s),
             UNCHANGED blockers
      PROVE  AcceptedIsUnblocked'
  BY <1>1, <1>3, SetStatusTypes
<1>4. CASE Plan
  BY <1>1, <1>4 DEF Plan
<1>5. CASE Run \/ Return \/ OutOfTime \/ Complete \/ NothingReady \/ LoopExhausted
  BY <1>2, <1>5
     DEF Run, Return, OutOfTime, Complete, NothingReady, LoopExhausted, row
<1>6. CASE Take
  <2>1. PICK t \in Ids : SetStatus(t, "ready") \/ SetStatus(t, "binding")
    BY <1>6 DEF Take
  <2> QED
    BY <1>3, <1>6, <2>1 DEF Take, TaskStatus
<1>7. CASE TakeReady \/ Bind \/ BindingFails \/ ReviewPrecondition \/ RejectPrecondition
  BY <1>3, <1>7
     DEF TakeReady, Bind, BindingFails, ReviewPrecondition, RejectPrecondition, TaskStatus
<1>8. CASE Start \/ WorkerReturns \/ WorkerFails \/ Validate \/ Reject \/ Answer
  BY <1>3, <1>8
     DEF Start, WorkerReturns, WorkerFails, Validate, Reject, Answer, TaskStatus
<1>9. CASE GiveUp \/ Dispatch \/ ReviewFailure
  BY <1>2, <1>9 DEF GiveUp, Dispatch, ReviewFailure, row
<1>10. CASE Preflight
  <2>1. tasks[cur].status = "bound"
    BY <1>10, InHandTypes DEF Preflight, HasInHand, Places, StatusAt
  <2>2. \A t \in Ids \ {cur} : blockers'[t] = blockers[t]
    BY <1>10, EvaluateTypes DEF Preflight
  <2> QED
    BY <1>1, <1>10, <2>1, <2>2 DEF Preflight, TypeOK
<1>11. CASE Register
  <2>1. tasks[cur].status = "provisional_success"
    BY <1>11, InHandTypes DEF Register, HasInHand, Places, StatusAt
  <2> DEFINE S == {cur} \cup {t \in Children(tasks, {cur}) : tasks[t].status \notin Done}
  <2>2. \A t \in Ids \ S : blockers'[t] = blockers[t]
    BY <1>11, EvaluateTypes DEF Register
  <2>3. \A t \in DOMAIN tasks : tasks[t].status = "successful" => t \in Ids \ S
    BY <2>1 DEF TypeOK, Done
  <2> QED
    BY <1>1, <1>11, <2>2, <2>3 DEF Register
<1>12. CASE Accept
  <2>1. blockers[cur] = {}
    BY <1>12 DEF Accept, EnforcedVerdict
  <2>2. SetStatus(cur, "successful") /\ UNCHANGED blockers
    BY <1>12 DEF Accept
  <2> QED
    BY <2>1, <2>2, SetStatusTypes DEF AcceptedIsUnblocked, TaskStatus
<1>13. CASE Recover
  <2>1. pc = "recover"
    BY <1>13 DEF Recover, RecoverLocally, LocalRecoveryFails, Replan, AskHuman, NoRecovery
  <2>2. cur \in DOMAIN tasks /\ tasks[cur].status \in {"rejected", "failed"}
    BY <2>1, InHandTypes DEF HasInHand, Places, StatusAt
  <2>3. \A t \in Ids \ {cur} : blockers'[t] = blockers[t]
    BY <1>13
       DEF Recover, RecoverLocally, LocalRecoveryFails, Replan, AskHuman, NoRecovery,
           SaveFindings, TypeOK
  <2>4. \A t \in DOMAIN tasks' : tasks'[t].status = "successful" =>
          t \in DOMAIN tasks /\ tasks[t].status = "successful"
    <3>1. CASE RecoverLocally
      BY <3>1, SetStatusTypes DEF RecoverLocally, TaskStatus
    <3>2. CASE Replan
      BY <3>2, PatchedStatuses DEF Replan, PatchStatus
    <3>3. CASE AskHuman
      <4>1. SetStatus(cur, "waiting_for_human")
        BY <3>3 DEF AskHuman, Paused, SetStatus
      <4> QED
        BY <4>1, SetStatusTypes DEF TaskStatus
    <3>4. CASE LocalRecoveryFails \/ NoRecovery
      BY <3>4 DEF LocalRecoveryFails, NoRecovery
    <3> QED
      BY <1>13, <3>1, <3>2, <3>3, <3>4 DEF Recover
  <2> QED
    BY <1>1, <2>2, <2>3, <2>4 DEF TypeOK
<1>14. CASE Fail \/ Escape \/ UNCHANGED vars
  BY <1>2, <1>14
     DEF Fail, Overspend, Exhausted, ComponentFails, Escape, Unwind, vars, row
<1> QED
  BY <1>4, <1>5, <1>6, <1>7, <1>8, <1>9, <1>10, <1>11, <1>12, <1>13, <1>14
     DEF Next, Advance, LoopTop, Execute

\* A task starts to wait with its question and is ready with its answer.
LEMMA WaitingNext ==
  ASSUME NoStatusUpdates, TypeOK, TypeOK', TaskInHand, StoppedRests, WaitingIsAnswerable,
         [Next]_vars
  PROVE  WaitingIsAnswerable'
<1>0. NoQuestion.task = NoTask /\ NoTask \notin Ids
  BY ControllerAssumption DEF NoQuestion
<1>1. ASSUME UNCHANGED <<tasks, human>>,
             terminal' = terminal \/ terminal' # "human_intervention_required"
      PROVE  WaitingIsAnswerable'
  BY <1>1 DEF WaitingIsAnswerable
<1>2. ASSUME human = NoQuestion, human' = NoQuestion,
             \A t \in DOMAIN tasks' :
               \/ tasks'[t].status # "waiting_for_human"
               \/ t \in DOMAIN tasks /\ tasks'[t].status = tasks[t].status,
             terminal' = terminal \/ terminal' # "human_intervention_required"
      PROVE  WaitingIsAnswerable'
  BY <1>0, <1>2 DEF WaitingIsAnswerable, TypeOK
<1>3. ASSUME NEW t, NEW s \in TaskStatus \ {"waiting_for_human"}, SetStatus(t, s),
             human = NoQuestion, UNCHANGED <<human, terminal>>
      PROVE  WaitingIsAnswerable'
  BY <1>2, <1>3, SetStatusTypes
<1>4. CASE Plan
  BY <1>2, <1>4, RunningIsOpen DEF Plan
<1>5. CASE Run \/ Return \/ OutOfTime \/ Complete \/ NothingReady \/ LoopExhausted
  BY <1>1, <1>5
     DEF Run, Return, OutOfTime, Complete, NothingReady, LoopExhausted, Terminate, row
<1>6. CASE Take
  <2>1. PICK t \in Ids : SetStatus(t, "ready") \/ SetStatus(t, "binding")
    BY <1>6 DEF Take
  <2>2. human = NoQuestion
    BY <1>6 DEF Take, Stopped, StoppedRests
  <2> QED
    BY <1>3, <1>6, <2>1, <2>2 DEF Take, TaskStatus
<1>7. CASE TakeReady \/ Bind \/ BindingFails \/ ReviewPrecondition \/ RejectPrecondition
  BY <1>3, <1>7, RunningIsOpen
     DEF TakeReady, Bind, BindingFails, ReviewPrecondition, RejectPrecondition, TaskStatus
<1>8. CASE Start \/ WorkerReturns \/ WorkerFails \/ Validate \/ Accept \/ Reject
  BY <1>3, <1>8, RunningIsOpen
     DEF Start, WorkerReturns, WorkerFails, Validate, Accept, Reject, TaskStatus
<1>9. CASE GiveUp \/ Dispatch \/ ReviewFailure \/ Preflight \/ Register
  BY <1>1, <1>9 DEF GiveUp, Dispatch, ReviewFailure, Preflight, Register, Terminate, row
<1>10. CASE RecoverLocally \/ LocalRecoveryFails \/ NoRecovery
  <2>1. human = NoQuestion
    BY <1>10, RunningIsOpen DEF RecoverLocally, LocalRecoveryFails, NoRecovery
  <2> QED
    BY <1>1, <1>3, <1>10, <2>1
       DEF RecoverLocally, LocalRecoveryFails, NoRecovery, Terminate, TaskStatus
<1>11. CASE Replan
  BY <1>2, <1>11, RunningIsOpen, PatchedStatuses DEF Replan, PatchStatus
<1>12. CASE AskHuman
  <2>1. SetStatus(cur, "waiting_for_human") /\ human'.task = cur
    BY <1>12 DEF AskHuman, Paused, SetStatus
  <2>2. human = NoQuestion /\ cur \in Ids
    BY <1>12, RunningIsOpen, InHandTypes DEF AskHuman, HasInHand, Places
  <2>3. human' # NoQuestion
    BY <1>0, <2>1, <2>2
  <2> QED
    BY <1>0, <2>1, <2>2, <2>3, SetStatusTypes DEF WaitingIsAnswerable, TypeOK, TaskStatus
<1>13. CASE Answer
  <2>1. SetStatus(human.task, "ready") /\ human' = NoQuestion /\ terminal' = "none"
    BY <1>13 DEF Answer
  <2> QED
    BY <1>0, <2>1, SetStatusTypes DEF WaitingIsAnswerable, TypeOK, TaskStatus
<1>14. CASE Fail \/ Escape \/ UNCHANGED vars
  BY <1>1, <1>14
     DEF Fail, Overspend, Exhausted, ComponentFails, Escape, Unwind, vars, row
<1> QED
  BY <1>4, <1>5, <1>6, <1>7, <1>8, <1>9, <1>10, <1>11, <1>12, <1>13, <1>14
     DEF Next, Advance, LoopTop, Execute, Recover

\* Whatever the reviewer says of a missing CRS that was asserted, a profile that
\* can replan does not decide to ask.
LEMMA AssertedIsReplanned ==
  ASSUME NEW t \in asserted, Structural, NEW codes, "MISSING_CRS" \in codes,
         NEW verdict, NEW action
  PROVE  EnforcedAction(t, EnforcedVerdict(verdict, codes), action, codes)
           = "STRUCTURAL_REPLAN"
<1>1. EnforcedVerdict(verdict, codes) = "BLOCK"
  BY DEF EnforcedVerdict
<1> QED
  BY <1>1 DEF EnforcedAction, HasAssertedCrs

\* Assertions are added between runs only, so that a decision outlives none.
LEMMA AssertedNext ==
  ASSUME TypeOK, AssertionIsHeeded, AssertedCrsIsNotAskedAgain, [Next]_vars
  PROVE  AssertionIsHeeded' /\ AssertedCrsIsNotAskedAgain'
<1> USE DEF Goto
<1>0. Structural' <=> Structural
  BY DEF Structural, Next, Run, Advance, Plan, LoopTop, Return, Complete, NothingReady,
         Take, LoopExhausted, Execute, TakeReady, Bind, BindingFails, GiveUp, Preflight,
         ReviewPrecondition, RejectPrecondition, Start, Dispatch, WorkerReturns,
         WorkerFails, ReviewFailure, Register, Validate, Accept, Reject, Recover,
         RecoverLocally, LocalRecoveryFails, Replan, AskHuman, NoRecovery, Fail,
         Overspend, Exhausted, ComponentFails, OutOfTime, Escape, Unwind, Answer,
         vars, row
<1>1. ASSUME pc' # "recover", UNCHANGED <<human, asserted>>
      PROVE  AssertionIsHeeded' /\ AssertedCrsIsNotAskedAgain'
  BY <1>0, <1>1 DEF AssertionIsHeeded, AssertedCrsIsNotAskedAgain
<1>2. ASSUME pc' = "recover", UNCHANGED <<human, asserted, cur>>,
             NEW codes, NEW verdict, NEW action,
             decision' = [action |-> EnforcedAction(cur, EnforcedVerdict(verdict, codes),
                                                    action, codes),
                          found  |-> codes]
      PROVE  AssertionIsHeeded' /\ AssertedCrsIsNotAskedAgain'
  <2>1. AssertedCrsIsNotAskedAgain'
    BY <1>0, <1>2 DEF AssertedCrsIsNotAskedAgain
  <2>2. SUFFICES ASSUME Structural, "MISSING_CRS" \in codes, cur \in asserted
                 PROVE  decision'.action # "HUMAN_CLARIFICATION"
    BY <1>0, <1>2, <2>1 DEF AssertionIsHeeded
  <2>3. decision'.action = "STRUCTURAL_REPLAN"
    BY <1>2, <2>2, AssertedIsReplanned
  <2> QED
    BY <2>3
<1>3. CASE RejectPrecondition
  BY <1>2, <1>3 DEF RejectPrecondition
<1>4. CASE ReviewFailure
  BY <1>2, <1>4 DEF ReviewFailure, row
<1>5. CASE Reject
  <2>1. PICK r \in Reviews :
          decision' =
            [action |-> EnforcedAction(cur, EnforcedVerdict(r[1], blockers[cur]), r[2],
                                       blockers[cur]),
             found  |-> blockers[cur]]
    BY <1>5 DEF Reject
  <2> QED
    BY <1>2, <1>5, <2>1 DEF Reject
<1>6. CASE AskHuman
  <2>1. PICK saysCrs \in BOOLEAN :
          human' = [task |-> cur, aboutCrs |-> "MISSING_CRS" \in decision.found,
                    saysCrs |-> saysCrs]
    BY <1>6 DEF AskHuman
  <2>2. AssertedCrsIsNotAskedAgain'
    BY <1>0, <1>6, <2>1 DEF AskHuman, AssertionIsHeeded, AssertedCrsIsNotAskedAgain
  <2> QED
    BY <1>6, <2>2 DEF AskHuman, GoOn, AssertionIsHeeded
<1>7. CASE Answer
  BY <1>7 DEF Answer, NoQuestion, AssertionIsHeeded, AssertedCrsIsNotAskedAgain
<1>8. CASE UNCHANGED vars
  BY <1>8 DEF vars, row, AssertionIsHeeded, AssertedCrsIsNotAskedAgain, Structural
<1>9. CASE Run \/ Plan \/ LoopTop \/ OutOfTime \/ Fail \/ Escape
  BY <1>1, <1>9
     DEF Run, Plan, LoopTop, Return, Complete, NothingReady, Take, LoopExhausted, OutOfTime,
         Fail, Overspend, Exhausted, ComponentFails, Escape, Unwind, Terminate, Stop, row
<1>10. CASE TakeReady \/ Bind \/ BindingFails \/ GiveUp \/ Preflight \/ ReviewPrecondition
  BY <1>1, <1>10
     DEF TakeReady, Bind, BindingFails, GiveUp, Preflight, ReviewPrecondition, Terminate, Stop
<1>11. CASE Start \/ Dispatch \/ WorkerReturns \/ WorkerFails \/ Register \/ Validate \/ Accept
  BY <1>1, <1>11
     DEF Start, Dispatch, WorkerReturns, WorkerFails, Register, Validate, Accept, row
<1>12. CASE RecoverLocally \/ LocalRecoveryFails \/ Replan \/ NoRecovery
  BY <1>1, <1>12
     DEF RecoverLocally, LocalRecoveryFails, Replan, NoRecovery, GoOn, Terminate, Stop
<1> QED
  BY <1>3, <1>4, <1>5, <1>6, <1>7, <1>8, <1>9, <1>10, <1>11, <1>12
     DEF Next, Advance, Execute, Recover

-----------------------------------------------------------------------------
(* What the task in hand rests on *)

\* A status change keeps the dependencies.
LEMMA SetStatusDeps ==
  ASSUME TypeOK, NEW t, NEW s, SetStatus(t, s)
  PROVE  \A u \in DOMAIN tasks : tasks'[u].deps = tasks[u].deps
  BY DEF SetStatus, TypeOK

\* The edges of the graph stay inside it (derive_edges, validate_task_graph,
\* apply_graph_patch).
LEMMA DepsNext ==
  ASSUME TypeOK, DepsAreKnown, [Next]_vars
  PROVE  DepsAreKnown'
<1>1. CASE UNCHANGED tasks
  BY <1>1 DEF DepsAreKnown
<1>2. ASSUME NEW t, NEW s \in TaskStatus, SetStatus(t, s) PROVE DepsAreKnown'
  BY <1>2, SetStatusTypes, SetStatusDeps DEF DepsAreKnown
<1>3. CASE Plan
  BY <1>3 DEF Plan, ValidGraph, Known, DepsAreKnown
<1>4. CASE Replan
  <2>1. PICK p \in NormalizedPatches : Applicable(tasks, p) /\ tasks' = Patched(tasks, p)
    BY <1>4 DEF Replan
  <2> DEFINE C == Candidate(tasks, p)
  <2>2. Known(C)
    BY <2>1 DEF Applicable, ValidGraph
  <2>3. DOMAIN tasks' = DOMAIN C
    BY <2>1 DEF Patched
  <2>4. \A t \in DOMAIN C : tasks'[t].deps = C[t].deps
    BY <2>1 DEF Patched
  <2> QED
    BY <2>2, <2>3, <2>4 DEF Known, DepsAreKnown
<1>5. CASE AskHuman
  <2>1. SetStatus(cur, "waiting_for_human")
    BY <1>5 DEF AskHuman, Paused, SetStatus
  <2> QED
    BY <1>2, <2>1 DEF TaskStatus
<1>6. CASE Take \/ TakeReady
  BY <1>2, <1>6 DEF Take, TakeReady, TaskStatus
<1>7. CASE Bind \/ BindingFails \/ ReviewPrecondition \/ RejectPrecondition \/ Start
  BY <1>2, <1>7
     DEF Bind, BindingFails, ReviewPrecondition, RejectPrecondition, Start, TaskStatus
<1>8. CASE WorkerReturns \/ WorkerFails \/ Validate \/ Accept \/ Reject
  BY <1>2, <1>8 DEF WorkerReturns, WorkerFails, Validate, Accept, Reject, TaskStatus
<1>9. CASE RecoverLocally \/ Answer
  BY <1>2, <1>9 DEF RecoverLocally, Answer, TaskStatus
<1>10. CASE GiveUp \/ Preflight \/ Dispatch \/ ReviewFailure \/ Register
            \/ LocalRecoveryFails \/ NoRecovery
  BY <1>1, <1>10
     DEF GiveUp, Preflight, Dispatch, ReviewFailure, Register, LocalRecoveryFails,
         NoRecovery, row
<1>11. CASE Run \/ Return \/ OutOfTime \/ Complete \/ NothingReady \/ LoopExhausted
  BY <1>1, <1>11
     DEF Run, Return, OutOfTime, Complete, NothingReady, LoopExhausted, row
<1>12. CASE Fail \/ Escape \/ UNCHANGED vars
  BY <1>1, <1>12 DEF Fail, Overspend, Exhausted, ComponentFails, Escape, Unwind, vars, row
<1> QED
  BY <1>3, <1>4, <1>5, <1>6, <1>7, <1>8, <1>9, <1>10, <1>11, <1>12
     DEF Next, Advance, LoopTop, Execute, Recover

\* The task in hand stays supported: nothing it rests on is rejected, reset or
\* superseded by something else while it is worked on.
LEMMA SupportNext ==
  ASSUME NoStatusUpdates, TypeOK, TypeOK', TaskInHand, DepsAreKnown, WaitingIsAnswerable,
         StoppedRests, HandIsSupported, [Next]_vars
  PROVE  HandIsSupported'
<1> USE DEF Goto
<1>1. ASSUME UNCHANGED <<tasks, cur, accepted>>, inputs' \in {inputs, {}}, pc' # "binding"
      PROVE  HandIsSupported'
  BY <1>1 DEF HandIsSupported, Supported
<1>2. ASSUME NEW s \in TaskStatus \ InHand, SetStatus(cur, s), cur' = cur, pc' # "binding"
      PROVE  HandIsSupported'
  BY <1>2, SetStatusTypes DEF HandIsSupported
<1>3. ASSUME NEW s \in TaskStatus, SetStatus(cur, s), UNCHANGED <<cur, accepted>>,
             cur \in DOMAIN tasks, tasks[cur].status \notin Done,
             \A p \in tasks[cur].deps : tasks[p].status \in Done,
             inputs' \subseteq tasks[cur].deps \cap accepted,
             pc' # "binding"
      PROVE  HandIsSupported'
  <2>1. \A p \in tasks[cur].deps : p \in DOMAIN tasks /\ p # cur
    BY <1>3 DEF DepsAreKnown
  <2>2. \A p \in tasks[cur].deps : tasks'[p].status = tasks[p].status
    BY <1>3, <2>1, SetStatusTypes
  <2>3. tasks'[cur].deps = tasks[cur].deps
    BY <1>3, SetStatusDeps
  <2> QED
    BY <1>3, <2>2, <2>3 DEF HandIsSupported, Supported
<1>4. ASSUME NEW t \in Ids, IsNext(tasks, t), SetStatus(t, "binding"), cur' = t
      PROVE  HandIsSupported'
  <2>1. t \in DOMAIN tasks /\ ParentsDone(tasks, t) /\ tasks[t].status \notin Done
    BY <1>4 DEF IsNext, IsReady, Done
  <2>2. \A p \in tasks[t].deps : p \in DOMAIN tasks /\ p # t
    BY <2>1 DEF DepsAreKnown, ParentsDone
  <2>3. \A p \in tasks[t].deps : tasks'[p].status = tasks[p].status
    BY <1>4, <2>2, SetStatusTypes DEF TaskStatus
  <2>4. tasks'[t].deps = tasks[t].deps /\ tasks'[t].status = "binding"
    BY <1>4, <2>1, SetStatusDeps, SetStatusTypes DEF TaskStatus
  <2> QED
    BY <1>4, <2>1, <2>3, <2>4 DEF HandIsSupported, ParentsDone, InHand
<1>5. ASSUME NEW t \in Ids, SetStatus(t, "ready"), UNCHANGED <<cur, accepted, inputs>>,
             t \in DOMAIN tasks => tasks[t].status \notin Done, pc' # "binding"
      PROVE  HandIsSupported'
  <2> SUFFICES ASSUME cur \in DOMAIN tasks', tasks'[cur].status \in InHand
               PROVE  Supported(cur)'
    BY <1>5 DEF HandIsSupported
  <2>1. cur \in DOMAIN tasks /\ cur # t /\ tasks'[cur].status = tasks[cur].status
    BY <1>5, SetStatusTypes DEF TaskStatus, InHand
  <2>2. Supported(cur)
    BY <2>1 DEF HandIsSupported
  <2>3. \A p \in tasks[cur].deps : p \in DOMAIN tasks /\ p # t
    BY <1>5, <2>1, <2>2 DEF DepsAreKnown, Supported, Done
  <2>4. \A p \in tasks[cur].deps : tasks'[p].status = tasks[p].status
    BY <1>5, <2>3, SetStatusTypes DEF TaskStatus
  <2>5. tasks'[cur].deps = tasks[cur].deps
    BY <1>5, <2>1, SetStatusDeps
  <2> QED
    BY <1>5, <2>2, <2>4, <2>5 DEF Supported
<1>6. CASE Plan
  BY <1>6 DEF Plan, HandIsSupported, InHand
<1>7. CASE Take
  <2>1. PICK t \in Ids :
          /\ IsNext(tasks, t)
          /\ \/ SetStatus(t, "ready") /\ UNCHANGED cur /\ pc' = "take"
             \/ SetStatus(t, "binding") /\ cur' = t /\ pc' = "binding"
    BY <1>7 DEF Take
  <2>2. tasks[t].status \notin Done
    BY <2>1 DEF IsNext, IsReady, Done
  <2>3. UNCHANGED <<accepted, inputs>>
    BY <1>7 DEF Take
  <2> QED
    BY <1>4, <1>5, <2>1, <2>2, <2>3
<1>8. CASE TakeReady
  BY <1>4, <1>8 DEF TakeReady
<1>9. CASE Bind
  <2>1. cur \in DOMAIN tasks /\ tasks[cur].status = "binding"
    BY <1>9, InHandTypes DEF Bind, HasInHand, Places, StatusAt
  <2>2. \A p \in tasks[cur].deps : tasks[p].status \in Done
    BY <1>9 DEF Bind, HandIsSupported, ParentsDone
  <2> QED
    BY <1>3, <1>9, <2>1, <2>2 DEF Bind, DependencyArtifacts, TaskStatus, Done
<1>10. CASE ReviewPrecondition \/ Start \/ WorkerReturns \/ Validate
  <2>1. cur \in DOMAIN tasks /\ tasks[cur].status \in InHand
    BY <1>10, InHandTypes
       DEF ReviewPrecondition, Start, WorkerReturns, Validate, HasInHand, Places, StatusAt,
           InHand
  <2>2. Supported(cur) /\ tasks[cur].status \notin Done
    BY <2>1 DEF HandIsSupported, InHand, Done
  <2> QED
    BY <1>3, <1>10, <2>1, <2>2
       DEF ReviewPrecondition, Start, WorkerReturns, Validate, Supported, TaskStatus
<1>11. CASE BindingFails \/ RejectPrecondition \/ WorkerFails \/ Accept \/ Reject
            \/ RecoverLocally
  BY <1>2, <1>11
     DEF BindingFails, RejectPrecondition, WorkerFails, Accept, Reject, RecoverLocally, GoOn,
         TaskStatus, InHand
<1>12. CASE AskHuman
  <2>1. SetStatus(cur, "waiting_for_human")
    BY <1>12 DEF AskHuman, Paused, SetStatus
  <2> QED
    BY <1>2, <1>12, <2>1 DEF AskHuman, GoOn, TaskStatus, InHand
<1>13. CASE Replan
  <2>1. cur \in DOMAIN tasks /\ tasks[cur].status \in {"rejected", "failed"}
    BY <1>13, InHandTypes DEF Replan, HasInHand, Places, StatusAt
  <2>2. cur \in DOMAIN tasks' =>
          tasks'[cur].status \in PatchStatus \cup {tasks[cur].status}
    BY <1>13, PatchedStatuses DEF Replan
  <2> QED
    BY <1>13, <2>1, <2>2 DEF Replan, GoOn, HandIsSupported, InHand, PatchStatus
<1>14. CASE Answer
  <2>1. human.task \in Ids
    BY <1>14 DEF Answer, StoppedRests
  <2>2. human.task \in DOMAIN tasks => tasks[human.task].status \notin Done
    BY <2>1 DEF WaitingIsAnswerable, Done
  <2> QED
    BY <1>5, <1>14, <2>1, <2>2 DEF Answer
<1>15. CASE GiveUp \/ Preflight \/ Dispatch \/ ReviewFailure \/ Register
            \/ LocalRecoveryFails \/ NoRecovery
  BY <1>1, <1>15
     DEF GiveUp, Preflight, Dispatch, ReviewFailure, Register, LocalRecoveryFails,
         NoRecovery, Terminate, Stop, row
<1>16. CASE Run \/ Return \/ OutOfTime \/ Complete \/ NothingReady \/ LoopExhausted
  BY <1>1, <1>16
     DEF Run, Return, OutOfTime, Complete, NothingReady, LoopExhausted, Terminate, Stop, row
<1>17. CASE Fail \/ Escape
  BY <1>1, <1>17 DEF Fail, Overspend, Exhausted, ComponentFails, Escape, Unwind, Stop, row
<1>18. CASE UNCHANGED vars
  BY <1>18 DEF vars, row, HandIsSupported, Supported
<1> QED
  BY <1>6, <1>7, <1>8, <1>9, <1>10, <1>11, <1>12, <1>13, <1>14, <1>15, <1>16, <1>17, <1>18
     DEF Next, Advance, LoopTop, Execute, Recover

-----------------------------------------------------------------------------
(* Legal transitions and the stages of the row *)

\* The open question is about the task that was saved last, which waits for it;
\* this holds whatever the patches, since nothing is patched during a pause.
AnswerIsDue ==
  human # NoQuestion =>
    human.task = cur /\ cur \in DOMAIN tasks /\ tasks[cur].status = "waiting_for_human"

\* The task that was made READY is still the first of those that are.
ReadyIsNext ==
  pc = "take" => \A t \in Ids : IsNext(tasks, t) => tasks[t].status = "ready"

\* A question keeps its workflow paused.
PauseIsKept == human # NoQuestion => terminal = "human_intervention_required"

\* While a question is open nothing happens but that it is answered.
LEMMA PausedRests ==
  ASSUME StoppedRests, human # NoQuestion, [Next]_vars
  PROVE  \/ UNCHANGED <<tasks, cur, human>>
         \/ Answer
<1>1. pc \in {"idle", "top"} /\ terminal # "none"
  BY DEF StoppedRests
<1>2. CASE pc = "idle"
  BY <1>2
     DEF Next, Run, Advance, Plan, LoopTop, Return, Complete, NothingReady, Take,
         LoopExhausted, AtTop, Execute, TakeReady, Bind, BindingFails, GiveUp, Preflight,
         ReviewPrecondition, RejectPrecondition, Start, Dispatch, WorkerReturns,
         WorkerFails, ReviewFailure, Register, Validate, Accept, Reject, Recover,
         RecoverLocally, LocalRecoveryFails, Replan, AskHuman, NoRecovery, Fail,
         Overspend, Exhausted, ComponentFails, OutOfTime, Escape, Unwind, vars, row
<1>3. CASE pc = "top"
  BY <1>1, <1>3
     DEF Next, Run, Advance, Plan, LoopTop, Return, Complete, NothingReady, Take,
         LoopExhausted, Stopped, Execute, TakeReady, Bind, BindingFails, GiveUp, Preflight,
         ReviewPrecondition, RejectPrecondition, Start, Dispatch, WorkerReturns,
         WorkerFails, ReviewFailure, Register, Validate, Accept, Reject, Recover,
         RecoverLocally, LocalRecoveryFails, Replan, AskHuman, NoRecovery, Fail,
         Overspend, Exhausted, ComponentFails, OutOfTime, Escape, Unwind, vars, row
<1> QED
  BY <1>1, <1>2, <1>3

\* A question is only opened by a pause.
LEMMA QuestionOpens ==
  ASSUME human = NoQuestion, human' # NoQuestion, [Next]_vars
  PROVE  AskHuman
  BY DEF Next, Run, Advance, Plan, LoopTop, Return, Complete, NothingReady, Take,
         LoopExhausted, Execute, TakeReady, Bind, BindingFails, GiveUp, Preflight,
         ReviewPrecondition, RejectPrecondition, Start, Dispatch, WorkerReturns,
         WorkerFails, ReviewFailure, Register, Validate, Accept, Reject, Recover,
         RecoverLocally, LocalRecoveryFails, Replan, NoRecovery, Fail,
         Overspend, Exhausted, ComponentFails, OutOfTime, Escape, Unwind, Answer,
         vars, row

\* A pause sets the task in hand to WAITING_FOR_HUMAN.
LEMMA AskHumanPauses ==
  ASSUME TypeOK, TaskInHand, AskHuman
  PROVE  /\ cur \in DOMAIN tasks /\ cur' = cur
         /\ SetStatus(cur, "waiting_for_human")
         /\ human'.task = cur
         /\ terminal' = "human_intervention_required"
<1>1. pc = "recover" /\ tasks' = Paused /\ cur' = cur /\ human'.task = cur
      /\ terminal' = "human_intervention_required"
  BY DEF AskHuman
<1> QED
  BY <1>1, InHandTypes DEF HasInHand, Places, Paused, SetStatus

\* The question stays with the task that waits for it.
LEMMA AnswerIsDueNext ==
  ASSUME TypeOK, TaskInHand, StoppedRests, AnswerIsDue, [Next]_vars
  PROVE  AnswerIsDue'
<1>1. CASE human # NoQuestion
  <2>1. CASE UNCHANGED <<tasks, cur, human>>
    BY <2>1 DEF AnswerIsDue
  <2>2. CASE Answer
    BY <2>2 DEF Answer, AnswerIsDue, NoQuestion
  <2> QED
    BY <1>1, <2>1, <2>2, PausedRests
<1>2. CASE human = NoQuestion /\ human' # NoQuestion
  <2>1. AskHuman
    BY <1>2, QuestionOpens
  <2> QED
    BY <2>1, AskHumanPauses, SetStatusTypes DEF AnswerIsDue, TaskStatus
<1>3. CASE human' = NoQuestion
  BY <1>3 DEF AnswerIsDue, NoQuestion
<1> QED
  BY <1>1, <1>2, <1>3

\* Neither the order nor the readiness of the tasks changes when a task that is
\* ready is made READY.
LEMMA MadeReady ==
  ASSUME TypeOK, DepsAreKnown,
         NEW t \in DOMAIN tasks, IsReady(tasks, t), SetStatus(t, "ready")
  PROVE  Ready(tasks') = Ready(tasks)
<1>1. /\ DOMAIN tasks' = DOMAIN tasks
      /\ \A u \in DOMAIN tasks :
           /\ tasks'[u].deps = tasks[u].deps
           /\ tasks'[u].status = (IF u = t THEN "ready" ELSE tasks[u].status)
  BY SetStatusTypes, SetStatusDeps DEF TaskStatus
<1>2. Dependencies(tasks') = Dependencies(tasks)
  BY <1>1 DEF Dependencies
<1>3. ASSUME NEW u \in DOMAIN tasks
      PROVE  IsReady(tasks', u) <=> IsReady(tasks, u)
  <2>1. \A p \in DOMAIN tasks : tasks'[p].status \in Done <=> tasks[p].status \in Done
    BY <1>1 DEF IsReady, Done
  <2>2. tasks[u].deps \subseteq DOMAIN tasks
    BY DEF DepsAreKnown
  <2>3. ParentsDone(tasks', u) <=> ParentsDone(tasks, u)
    BY <1>1, <2>1, <2>2 DEF ParentsDone
  <2>4. /\ tasks'[u].status \in {"proposed", "blocked", "ready"}
        <=> tasks[u].status \in {"proposed", "blocked", "ready"}
    BY <1>1 DEF IsReady
  <2> QED
    BY <2>3, <2>4 DEF IsReady
<1>4. {u \in DOMAIN tasks' : IsReady(tasks', u)} = {u \in DOMAIN tasks : IsReady(tasks, u)}
  BY <1>1, <1>3
<1> QED
  BY <1>2, <1>4 DEF Ready, Ordered

\* The task that was made READY is the one that is taken.
LEMMA ReadyIsNextNext ==
  ASSUME TypeOK, DepsAreKnown, ReadyIsNext, [Next]_vars
  PROVE  ReadyIsNext'
<1>1. CASE Take /\ pc' = "take"
  <2>1. PICK t \in Ids : IsNext(tasks, t) /\ SetStatus(t, "ready")
    BY <1>1 DEF Take, Goto
  <2>2. t \in DOMAIN tasks /\ IsReady(tasks, t) /\ t = Head(Ready(tasks))
    BY <2>1 DEF IsNext
  <2>3. Ready(tasks') = Ready(tasks)
    BY <2>1, <2>2, MadeReady
  <2>4. tasks'[t].status = "ready"
    BY <2>1, <2>2, SetStatusTypes DEF TaskStatus
  <2>5. \A u \in Ids : IsNext(tasks', u) => u = t
    BY <2>2, <2>3 DEF IsNext
  <2> QED
    BY <2>4, <2>5 DEF ReadyIsNext
<1>2. CASE ~Take /\ pc' = "take"
  <2>1. UNCHANGED vars
    BY <1>2, OverspendAt
       DEF Next, Run, Advance, Plan, LoopTop, Return, Complete, NothingReady,
           LoopExhausted, Execute, TakeReady, Bind, BindingFails, GiveUp, Preflight,
           ReviewPrecondition, RejectPrecondition, Start, Dispatch, WorkerReturns,
           WorkerFails, ReviewFailure, Register, Validate, Accept, Reject, Recover,
           RecoverLocally, LocalRecoveryFails, Replan, AskHuman, NoRecovery, GoOn, Fail,
           Overspend, Exhausted, ComponentFails, OutOfTime, Escape, Unwind, Answer,
           Terminate, Stop, Goto
  <2> QED
    BY <2>1 DEF vars, row, ReadyIsNext
<1> QED
  BY <1>1, <1>2 DEF ReadyIsNext

\* A legal change of one task's status.
LegalStep ==
  \/ UNCHANGED tasks
  \/ \E t \in DOMAIN tasks, s \in TaskStatus \ {"superseded"} :
       SetStatus(t, s) /\ s \in Legal[tasks[t].status]

\* The transitions that the controller and the answer use.
LEMMA LegalMoves ==
  /\ "ready" \in Legal["proposed"] /\ "ready" \in Legal["blocked"]
  /\ "binding" \in Legal["ready"]
  /\ {"bound", "failed"} \subseteq Legal["binding"]
  /\ {"running", "validating"} \subseteq Legal["bound"]
  /\ {"provisional_success", "failed"} \subseteq Legal["running"]
  /\ "validating" \in Legal["provisional_success"]
  /\ {"successful", "rejected"} \subseteq Legal["validating"]
  /\ {"ready", "waiting_for_human"} \subseteq Legal["rejected"]
  /\ {"ready", "waiting_for_human"} \subseteq Legal["failed"]
  /\ "ready" \in Legal["waiting_for_human"]
  BY DEF Legal

\* Every status change that is not a patch's is legal.
LEMMA LegalNext ==
  ASSUME TypeOK, TaskInHand, AnswerIsDue, ReadyIsNext, [Next]_vars
  PROVE  Plan \/ Replan \/ LegalStep
<1> USE DEF LegalStep
<1>1. CASE Take
  <2>1. PICK t \in Ids :
          /\ IsNext(tasks, t)
          /\ IF NeedsReady(t) THEN SetStatus(t, "ready") ELSE SetStatus(t, "binding")
    BY <1>1 DEF Take
  <2>2. tasks[t].status \in {"proposed", "blocked", "ready"}
    BY <2>1 DEF IsNext, IsReady
  <2> QED
    BY <2>1, <2>2, LegalMoves DEF IsNext, NeedsReady, TaskStatus
<1>2. CASE TakeReady
  <2>1. /\ cur' \in DOMAIN tasks /\ tasks[cur'].status = "ready"
        /\ SetStatus(cur', "binding")
    BY <1>2 DEF TakeReady, ReadyIsNext, IsNext
  <2> QED
    BY <2>1, LegalMoves DEF TaskStatus
<1>3. CASE Bind \/ BindingFails \/ ReviewPrecondition \/ RejectPrecondition \/ Start
  BY <1>3, InHandTypes, LegalMoves
     DEF Bind, BindingFails, ReviewPrecondition, RejectPrecondition, Start, HasInHand,
         Places, StatusAt, TaskStatus
<1>4. CASE WorkerReturns \/ WorkerFails \/ Validate \/ Accept \/ Reject
  BY <1>4, InHandTypes, LegalMoves
     DEF WorkerReturns, WorkerFails, Validate, Accept, Reject, HasInHand, Places,
         StatusAt, TaskStatus
<1>5. CASE RecoverLocally
  BY <1>5, InHandTypes, LegalMoves
     DEF RecoverLocally, HasInHand, Places, StatusAt, TaskStatus
<1>6. CASE AskHuman
  <2>1. /\ SetStatus(cur, "waiting_for_human")
        /\ cur \in DOMAIN tasks /\ tasks[cur].status \in {"rejected", "failed"}
    BY <1>6, AskHumanPauses, InHandTypes DEF AskHuman, HasInHand, Places, StatusAt
  <2> QED
    BY <2>1, LegalMoves DEF TaskStatus
<1>7. CASE Answer
  <2>1. /\ SetStatus(human.task, "ready")
        /\ human.task \in DOMAIN tasks /\ tasks[human.task].status = "waiting_for_human"
    BY <1>7 DEF Answer, AnswerIsDue
  <2> QED
    BY <2>1, LegalMoves DEF TaskStatus
<1>8. CASE Run \/ Return \/ OutOfTime \/ Complete \/ NothingReady \/ LoopExhausted
            \/ GiveUp \/ Preflight \/ Dispatch \/ ReviewFailure \/ Register
  BY <1>8
     DEF Run, Return, OutOfTime, Complete, NothingReady, LoopExhausted, GiveUp, Preflight,
         Dispatch, ReviewFailure, Register, row
<1>9. CASE LocalRecoveryFails \/ NoRecovery \/ Fail \/ Escape \/ UNCHANGED vars
  BY <1>9
     DEF LocalRecoveryFails, NoRecovery, Fail, Overspend, Exhausted, ComponentFails, Escape,
         Unwind, vars, row
<1> QED
  BY <1>1, <1>2, <1>3, <1>4, <1>5, <1>6, <1>7, <1>8, <1>9
     DEF Next, Advance, LoopTop, Execute, Recover

\* A workflow is planned once.
PlanIsNew == pc = "plan" => DOMAIN tasks = {}

LEMMA PlanIsNewNext ==
  ASSUME TypeOK, PlanIsNew, [Next]_vars
  PROVE  PlanIsNew'
<1> SUFFICES ASSUME pc' = "plan" PROVE DOMAIN tasks' = {}
  BY DEF PlanIsNew
<1>1. Run \/ UNCHANGED vars
  BY OverspendAt
     DEF Next, Advance, Plan, LoopTop, Return, Complete, NothingReady, Take,
         LoopExhausted, Execute, TakeReady, Bind, BindingFails, GiveUp, Preflight,
         ReviewPrecondition, RejectPrecondition, Start, Dispatch, WorkerReturns,
         WorkerFails, ReviewFailure, Register, Validate, Accept, Reject, Recover,
         RecoverLocally, LocalRecoveryFails, Replan, AskHuman, NoRecovery, GoOn, Fail,
         Overspend, Exhausted, ComponentFails, OutOfTime, Escape, Unwind, Answer,
         Terminate, Stop, Goto, vars
<1>2. CASE Run
  BY <1>2 DEF Run, Goto, row
<1>3. CASE UNCHANGED vars
  BY <1>3 DEF PlanIsNew, vars, row
<1> QED
  BY <1>1, <1>2, <1>3

\* A patch is charged.
LEMMA ReplanIsCharged == TypeOK /\ Replan => spent'.replan # spent.replan
<1> SUFFICES ASSUME TypeOK, Replan PROVE spent'.replan # spent.replan
  OBVIOUS
<1>1. spent \in Usage /\ spent' = Reserve("replan")
  BY DEF Replan, TypeOK, Usage
<1>2. spent'.replan = spent.replan + 1 /\ spent.replan \in Nat
  BY <1>1, ControllerAssumption DEF Reserve, Usage
<1> QED
  BY <1>2

\* The stage of a task in flight, by its status.
StageOf(status) ==
  CASE status \in {"binding", "bound"} -> "binding"
    [] status = "running" -> "running"
    [] status \in {"provisional_success", "validating", "rejected", "failed"} -> "review"
    [] OTHER -> "open"

\* The stage of the row, by what it is read from.
LEMMA StageIs ==
  /\ terminal = "none" =>
       Stage = IF cur \in DOMAIN tasks THEN StageOf(tasks[cur].status) ELSE "open"
  /\ terminal = "human_intervention_required" => Stage = "paused"
  /\ terminal \notin {"none", "human_intervention_required"} => Stage = "closed"
  BY DEF Stage, StageOf

LEMMA NextStageIs ==
  /\ terminal' = "none" =>
       Stage' = IF cur' \in DOMAIN tasks' THEN StageOf(tasks'[cur'].status) ELSE "open"
  /\ terminal' = "human_intervention_required" => Stage' = "paused"
  /\ terminal' \notin {"none", "human_intervention_required"} => Stage' = "closed"
  BY DEF Stage, StageOf

SerialStep == Stage' \in Life!Successors[Stage] \cup {Stage}

\* An open workflow may be closed, or have a task bound, from any stage of it.
LEMMA OpenStages ==
  /\ \A status : StageOf(status) \in {"open", "binding", "running", "review"}
  /\ \A s \in {"open", "binding", "running", "review"} :
       {"closed", "binding"} \subseteq Life!Successors[s]
  BY DEF StageOf, Life!Successors

\* The stages that a review of the task in hand, and the steps to it, lead to.
LEMMA HandStages ==
  /\ {"binding", "running", "review"} \subseteq Life!Successors["binding"]
  /\ "review" \in Life!Successors["running"]
  /\ {"review", "open", "paused"} \subseteq Life!Successors["review"]
  /\ "open" \in Life!Successors["paused"]
  BY DEF Life!Successors

\* Every step of a single executor moves the row as the store expects.
LEMMA StageNext ==
  ASSUME NoStatusUpdates, TypeOK, TaskInHand, StoppedRests, PlanIsNew, AnswerIsDue,
         PauseIsKept, LoopLimitUnreached, [Next]_vars
  PROVE  SerialStep
<1> USE DEF SerialStep
<1>0. terminal = "none" => Stage \in {"open", "binding", "running", "review"}
  BY StageIs, OpenStages
<1>1. ASSUME terminal = "none", terminal' \notin {"none", "human_intervention_required"}
      PROVE  SerialStep
  BY <1>0, <1>1, NextStageIs, OpenStages
<1>2. ASSUME NEW t \in DOMAIN tasks, SetStatus(t, "binding"), cur' = t,
             terminal = "none", UNCHANGED terminal
      PROVE  SerialStep
  <2>1. t \in DOMAIN tasks' /\ tasks'[t].status = "binding"
    BY <1>2, SetStatusTypes DEF TaskStatus
  <2>2. Stage' = "binding"
    BY <1>2, <2>1, NextStageIs DEF StageOf
  <2> QED
    BY <1>0, <1>2, <2>2, OpenStages
<1>3. ASSUME UNCHANGED <<tasks, cur, terminal>> PROVE SerialStep
  BY <1>3 DEF Stage
<1>4. ASSUME NEW s \in TaskStatus, SetStatus(cur, s), pc \in HasInHand,
             UNCHANGED <<cur, terminal>>,
             LET now == StageOf(tasks[cur].status)
             IN  StageOf(s) \in Life!Successors[now] \cup {now}
      PROVE  SerialStep
  <2>1. terminal = "none" /\ cur \in DOMAIN tasks
    BY <1>4, RunningIsOpen, InHandTypes DEF HasInHand
  <2>2. cur \in DOMAIN tasks' /\ tasks'[cur].status = s
    BY <1>4, <2>1, SetStatusTypes
  <2>3. Stage = StageOf(tasks[cur].status) /\ Stage' = StageOf(s)
    BY <1>4, <2>1, <2>2, StageIs, NextStageIs
  <2> QED
    BY <1>4, <2>3
<1>5. CASE Plan
  <2>1. terminal = "none" /\ terminal' = "none" /\ cur' = cur
    BY <1>5, RunningIsOpen DEF Plan
  <2>2. \A t \in DOMAIN tasks' : tasks'[t].status = "proposed"
    BY <1>5 DEF Plan
  <2>3. Stage = "open" /\ Stage' = "open"
    BY <1>5, <2>1, <2>2, StageIs, NextStageIs DEF Plan, PlanIsNew, StageOf
  <2> QED
    BY <2>3
<1>6. CASE OutOfTime \/ Complete \/ NothingReady
  BY <1>1, <1>6 DEF OutOfTime, Complete, NothingReady, Stopped, Terminate
<1>7. CASE LoopExhausted
  BY <1>7 DEF LoopExhausted, LoopLimitUnreached, TypeOK
<1>8. CASE Take
  <2>1. PICK t \in DOMAIN tasks :
          /\ tasks[t].status \in {"proposed", "blocked", "ready"}
          /\ \/ SetStatus(t, "ready") /\ cur' = cur
             \/ SetStatus(t, "binding") /\ cur' = t
    BY <1>8 DEF Take, IsNext, IsReady
  <2>2. terminal = "none" /\ UNCHANGED terminal
    BY <1>8 DEF Take, Stopped
  <2>3. CASE SetStatus(t, "ready") /\ cur' = cur
    <3>1. /\ DOMAIN tasks' = DOMAIN tasks
          /\ \A u \in DOMAIN tasks :
               tasks'[u].status = (IF u = t THEN "ready" ELSE tasks[u].status)
      BY <2>3, SetStatusTypes DEF TaskStatus
    <3>2. StageOf(tasks[t].status) = "open" /\ StageOf("ready") = "open"
      BY <2>1 DEF StageOf
    <3>3. Stage' = Stage
      BY <2>2, <2>3, <3>1, <3>2, StageIs, NextStageIs
    <3> QED
      BY <3>3
  <2> QED
    BY <1>2, <2>1, <2>2, <2>3
<1>9. CASE TakeReady
  BY <1>2, <1>9, RunningIsOpen DEF TakeReady, IsNext
<1>10. CASE Bind \/ BindingFails \/ ReviewPrecondition \/ RejectPrecondition \/ Start
  <2>1. CASE Bind \/ BindingFails
    <3>1. tasks[cur].status = "binding" /\ pc \in HasInHand
      BY <2>1, InHandTypes DEF Bind, BindingFails, HasInHand, Places, StatusAt
    <3> QED
      BY <1>4, <2>1, <3>1, HandStages DEF Bind, BindingFails, StageOf, TaskStatus
  <2>2. CASE ReviewPrecondition \/ Start
    <3>1. tasks[cur].status = "bound" /\ pc \in HasInHand
      BY <2>2, InHandTypes DEF ReviewPrecondition, Start, HasInHand, Places, StatusAt
    <3> QED
      BY <1>4, <2>2, <3>1, HandStages DEF ReviewPrecondition, Start, StageOf, TaskStatus
  <2>3. CASE RejectPrecondition
    <3>1. tasks[cur].status = "validating" /\ pc \in HasInHand
      BY <2>3, InHandTypes DEF RejectPrecondition, HasInHand, Places, StatusAt
    <3> QED
      BY <1>4, <2>3, <3>1 DEF RejectPrecondition, StageOf, TaskStatus
  <2> QED
    BY <1>10, <2>1, <2>2, <2>3
<1>11. CASE WorkerReturns \/ WorkerFails
  <2>1. tasks[cur].status = "running" /\ pc \in HasInHand
    BY <1>11, InHandTypes DEF WorkerReturns, WorkerFails, HasInHand, Places, StatusAt
  <2> QED
    BY <1>4, <1>11, <2>1, HandStages DEF WorkerReturns, WorkerFails, StageOf, TaskStatus
<1>12. CASE Validate \/ Accept \/ Reject \/ RecoverLocally
  <2>1. /\ tasks[cur].status \in {"provisional_success", "validating", "rejected", "failed"}
        /\ pc \in HasInHand
    BY <1>12, InHandTypes
       DEF Validate, Accept, Reject, RecoverLocally, HasInHand, Places, StatusAt
  <2>2. StageOf(tasks[cur].status) = "review"
    BY <2>1 DEF StageOf
  <2>3. \A s : StageOf(s) \in {"open", "review"} =>
          StageOf(s) \in Life!Successors["review"] \cup {"review"}
    BY HandStages
  <2>4. \A s \in {"validating", "successful", "rejected", "ready"} :
          StageOf(s) \in {"open", "review"}
    BY DEF StageOf
  <2> QED
    BY <1>4, <1>12, <2>1, <2>2, <2>3, <2>4
       DEF Validate, Accept, Reject, RecoverLocally, GoOn, TaskStatus
<1>13. CASE GiveUp \/ LocalRecoveryFails \/ NoRecovery
  <2>1. terminal = "none"
    BY <1>13, RunningIsOpen DEF GiveUp, LocalRecoveryFails, NoRecovery
  <2> QED
    BY <1>1, <1>13, <2>1 DEF GiveUp, LocalRecoveryFails, NoRecovery, Terminate
<1>14. CASE Replan
  <2>1. terminal = "none" /\ UNCHANGED <<terminal, cur>>
    BY <1>14, RunningIsOpen DEF Replan
  <2>2. cur \in DOMAIN tasks /\ tasks[cur].status \in {"rejected", "failed"}
    BY <1>14, InHandTypes DEF Replan, HasInHand, Places, StatusAt
  <2>3. Stage = "review"
    BY <2>1, <2>2, StageIs DEF StageOf
  <2>4. cur \in DOMAIN tasks' =>
          tasks'[cur].status \in PatchStatus \cup {"rejected", "failed"}
    BY <1>14, <2>2, PatchedStatuses DEF Replan
  <2>5. Stage' \in {"open", "review"}
    BY <2>1, <2>4, NextStageIs DEF StageOf, PatchStatus
  <2> QED
    BY <2>3, <2>5, HandStages
<1>15. CASE AskHuman
  <2>1. cur \in DOMAIN tasks /\ tasks[cur].status \in {"rejected", "failed"}
    BY <1>15, InHandTypes DEF AskHuman, HasInHand, Places, StatusAt
  <2>2. terminal = "none"
    BY <1>15, RunningIsOpen DEF AskHuman
  <2>3. Stage = "review"
    BY <2>1, <2>2, StageIs DEF StageOf
  <2>4. Stage' = "paused"
    BY <1>15, NextStageIs DEF AskHuman
  <2> QED
    BY <2>3, <2>4, HandStages
<1>16. CASE Answer
  <2>1. /\ SetStatus(cur, "ready") /\ cur \in DOMAIN tasks /\ UNCHANGED cur
        /\ terminal' = "none" /\ terminal = "human_intervention_required"
    BY <1>16 DEF Answer, AnswerIsDue, PauseIsKept
  <2>2. cur \in DOMAIN tasks' /\ tasks'[cur].status = "ready"
    BY <2>1, SetStatusTypes DEF TaskStatus
  <2>3. Stage = "paused" /\ Stage' = "open"
    BY <2>1, <2>2, StageIs, NextStageIs DEF StageOf
  <2> QED
    BY <2>3, HandStages
<1>17. CASE Preflight \/ Dispatch \/ ReviewFailure \/ Register \/ Run \/ Return
  BY <1>3, <1>17 DEF Preflight, Dispatch, ReviewFailure, Register, Run, Return, row
<1>18. CASE Fail \/ Escape \/ UNCHANGED vars
  BY <1>3, <1>18
     DEF Fail, Overspend, Exhausted, ComponentFails, Escape, Unwind, vars, row
<1> QED
  BY <1>5, <1>6, <1>7, <1>8, <1>9, <1>10, <1>11, <1>12, <1>13, <1>14, <1>15, <1>16,
     <1>17, <1>18
     DEF Next, Advance, LoopTop, Execute, Recover

\* Nothing but the loop bound takes the pause from a workflow with a question.
LEMMA PauseIsKeptNext ==
  ASSUME TypeOK, TaskInHand, StoppedRests, PauseIsKept, LoopLimitUnreached, [Next]_vars
  PROVE  PauseIsKept'
<1>1. CASE human # NoQuestion
  <2>1. terminal # "none" /\ pc \in {"idle", "top"}
    BY <1>1 DEF StoppedRests
  <2>2. UNCHANGED <<human, terminal>> \/ Answer
    BY <2>1
       DEF LoopLimitUnreached, TypeOK, Next, Run, Advance, Plan, LoopTop, Return, Complete,
         NothingReady, Take, LoopExhausted, AtTop, Stopped, Execute, TakeReady, Bind,
         BindingFails, GiveUp, Preflight, ReviewPrecondition, RejectPrecondition, Start,
         Dispatch, WorkerReturns, WorkerFails, ReviewFailure, Register, Validate, Accept,
         Reject, Recover, RecoverLocally, LocalRecoveryFails, Replan, AskHuman, NoRecovery,
         Fail, Overspend, Exhausted, ComponentFails, OutOfTime, Escape, Unwind, vars, row
  <2> QED
    BY <2>2 DEF PauseIsKept, Answer, NoQuestion
<1>2. CASE human = NoQuestion /\ human' # NoQuestion
  BY <1>2, QuestionOpens, AskHumanPauses DEF PauseIsKept
<1>3. CASE human' = NoQuestion
  BY <1>3 DEF PauseIsKept, NoQuestion
<1> QED
  BY <1>1, <1>2, <1>3

-----------------------------------------------------------------------------
(* The invariants, and what follows from them *)

\* What holds whatever the patches.
Inv ==
  /\ TypeOK
  /\ TaskInHand /\ CallIsReserved
  /\ StoppedRests /\ PassesArePaid
  /\ CompletedIsSound

\* The inductive invariant holds of a created workflow.
LEMMA InvInit == Init => Inv
<1> SUFFICES ASSUME Init PROVE Inv
  OBVIOUS
<1>1. TaskInHand /\ CallIsReserved
  BY DEF Init, TaskInHand, CallIsReserved, HasInHand
<1>2. StoppedRests /\ CompletedIsSound
  BY DEF Init, StoppedRests, CompletedIsSound
<1>3. PassesArePaid
  BY DEF Init, PassesArePaid, Total
<1> QED
  BY <1>1, <1>2, <1>3, TypeInit DEF Inv

\* Every step keeps it.
LEMMA InvNext == Inv /\ [Next]_vars => Inv'
<1> SUFFICES ASSUME Inv, [Next]_vars PROVE Inv'
  OBVIOUS
<1>1. TypeOK'
  BY TypeNext DEF Inv
<1> QED
  BY <1>1, InHandNext, StoppedNext, PassesNext, CompletedNext DEF Inv

\* The inductive invariant holds of every reachable state.
LEMMA Invariance == Spec => []Inv
  BY InvInit, InvNext, PTL DEF Spec

\* The workflow keeps its types and its budgets: nothing is charged past a
\* limit (reserve_worker_call, reserve_local_recovery, reserve_replan).
THEOREM TypeCorrect == Spec => []TypeOK
<1>1. Inv => TypeOK
  BY DEF Inv
<1> QED
  BY <1>1, Invariance, PTL

\* A completed workflow stays complete, for any plans and patches
\* (finalize_if_complete, run).
THEOREM CompletionIsSound == Spec => []CompletedIsSound
<1>1. Inv => CompletedIsSound
  BY DEF Inv
<1> QED
  BY <1>1, Invariance, PTL

\* A user who has asserted a CRS for a task is not asked for it by a profile
\* that can replan, whatever the reviewers say (_enforce_recovery_route).
THEOREM AssertionStands == Spec => []AssertedCrsIsNotAskedAgain
<1>1. Init => AssertionIsHeeded /\ AssertedCrsIsNotAskedAgain
  BY DEF Init, AssertionIsHeeded, AssertedCrsIsNotAskedAgain, NoQuestion
<1>2. /\ Inv /\ AssertionIsHeeded /\ AssertedCrsIsNotAskedAgain
      /\ [Next]_vars
      => AssertionIsHeeded' /\ AssertedCrsIsNotAskedAgain'
  BY AssertedNext DEF Inv
<1> QED
  BY <1>1, <1>2, Invariance, PTL DEF Spec

\* With an iteration bound above the sum of the budgets, and one, the loop is
\* never left by the bound (run, WorkflowBudgets).
THEOREM LoopEndsByReturn ==
  ASSUME MaxIterations > MaxWorkerCalls + MaxLocalRecoveries + MaxReplans + 1
  PROVE  Spec => []LoopLimitUnreached
<1>1. Inv => LoopLimitUnreached
  <2> SUFFICES ASSUME Inv PROVE iter < MaxIterations
    BY DEF LoopLimitUnreached
  <2>1. /\ spent.worker \in 0..MaxWorkerCalls
        /\ spent.local \in 0..MaxLocalRecoveries
        /\ spent.replan \in 0..MaxReplans
        /\ iter \in 0..MaxIterations
    BY DEF Inv, TypeOK
  <2>2. iter <= spent.worker + spent.local + spent.replan + 1
    BY DEF Inv, PassesArePaid, Total
  <2>3. /\ MaxWorkerCalls \in Nat /\ MaxLocalRecoveries \in Nat
        /\ MaxReplans \in Nat /\ MaxIterations \in Nat
    BY ControllerAssumption
  <2> QED
    BY <2>1, <2>2, <2>3
<1> QED
  BY <1>1, Invariance, PTL

\* When no patch sets a status, accepted work carries no blocking violation
\* (_enforce_recovery_route, evaluate, apply_graph_patch).
THEOREM AcceptedStaysUnblocked ==
  ASSUME NoStatusUpdates
  PROVE  Spec => []AcceptedIsUnblocked
<1>1. Init => AcceptedIsUnblocked
  BY DEF Init, AcceptedIsUnblocked
<1>2. Inv /\ Inv' /\ AcceptedIsUnblocked /\ [Next]_vars => AcceptedIsUnblocked'
  BY AcceptedNext DEF Inv
<1> QED
  BY <1>1, <1>2, Invariance, PTL DEF Spec

\* When no patch sets a status, a task waits for a human exactly as long as
\* its question is open (_recover, run, answer).
THEOREM WaitingStaysAnswerable ==
  ASSUME NoStatusUpdates
  PROVE  Spec => []WaitingIsAnswerable
<1>1. Init => WaitingIsAnswerable
  BY DEF Init, WaitingIsAnswerable
<1>2. Inv /\ Inv' /\ WaitingIsAnswerable /\ [Next]_vars => WaitingIsAnswerable'
  BY WaitingNext DEF Inv
<1> QED
  BY <1>1, <1>2, Invariance, PTL DEF Spec

\* When no patch sets a status, the task in hand rests on finished parents and
\* on outputs of theirs that are accepted, from its binding to its review,
\* whatever was patched, reset or abandoned before (ready_task_ids, Binder.bind,
\* apply_graph_patch, LocalRecoveryManager.apply).
THEOREM WorkStaysSupported ==
  ASSUME NoStatusUpdates
  PROVE  Spec => []WorksOnAcceptedInputs
<1>1. Init => DepsAreKnown /\ HandIsSupported
  BY DEF Init, DepsAreKnown, HandIsSupported
<1>2. /\ Inv /\ Inv' /\ WaitingIsAnswerable
      /\ DepsAreKnown /\ HandIsSupported
      /\ [Next]_vars
      => DepsAreKnown' /\ HandIsSupported'
  BY DepsNext, SupportNext DEF Inv
<1>3. HandIsSupported => WorksOnAcceptedInputs
  BY DEF HandIsSupported, Supported, WorksOnAcceptedInputs
<1> QED
  BY <1>1, <1>2, <1>3, Invariance, WaitingStaysAnswerable, PTL DEF Spec

\* What is known of questions, of the task made READY and of the plan.
LEMMA TransitionsInvariance == Spec => [](AnswerIsDue /\ ReadyIsNext /\ PlanIsNew)
<1> DEFINE J == AnswerIsDue /\ ReadyIsNext /\ PlanIsNew /\ DepsAreKnown
<1>1. Init => J
  BY DEF Init, AnswerIsDue, ReadyIsNext, PlanIsNew, DepsAreKnown
<1>2. Inv /\ J /\ [Next]_vars => J'
  BY AnswerIsDueNext, ReadyIsNextNext, PlanIsNewNext, DepsNext DEF Inv
<1> QED
  BY <1>1, <1>2, Invariance, PTL DEF Spec

\* Whatever the patches, every status change that is not a patch's is one of
\* LEGAL_TRANSITIONS, so that the controller and an answer never raise
\* IllegalTaskTransition (transition_task, run, _recover, answer).
THEOREM TransitionsAreLegal == Spec => StaysLegal
<1> DEFINE Step ==
      (spent'.replan = spent.replan) =>
        \A t \in DOMAIN tasks \cap DOMAIN tasks' :
          (tasks'[t].status # tasks[t].status)
            => tasks'[t].status \in Legal[tasks[t].status]
<1>1. Inv /\ AnswerIsDue /\ ReadyIsNext /\ PlanIsNew /\ [Next]_vars => Step
  <2> SUFFICES ASSUME Inv, AnswerIsDue, ReadyIsNext, PlanIsNew, [Next]_vars
               PROVE  Step
    OBVIOUS
  <2>1. CASE Plan
    BY <2>1 DEF Plan, PlanIsNew
  <2>2. CASE Replan
    BY <2>2, ReplanIsCharged DEF Inv
  <2>3. CASE LegalStep
    <3>1. CASE UNCHANGED tasks
      BY <3>1
    <3>2. CASE \E t \in DOMAIN tasks, s \in TaskStatus :
                 SetStatus(t, s) /\ s \in Legal[tasks[t].status]
      BY <3>2, SetStatusTypes DEF Inv
    <3> QED
      BY <2>3, <3>1, <3>2 DEF LegalStep
  <2> QED
    BY <2>1, <2>2, <2>3, LegalNext DEF Inv
<1>2. Inv /\ AnswerIsDue /\ ReadyIsNext /\ PlanIsNew /\ [Next]_vars => [Step]_tasks
  BY <1>1
<1> QED
  BY <1>2, Invariance, TransitionsInvariance, PTL DEF Spec, StaysLegal

\* With an iteration bound above the sum of the budgets, and one, and patches that
\* set no status, a single executor moves the row only as SerialWorkflow allows a
\* commit to: the stages that WorkflowStore knows are those of the real loop.
THEOREM LoopIsSerial ==
  ASSUME NoStatusUpdates,
         MaxIterations > MaxWorkerCalls + MaxLocalRecoveries + MaxReplans + 1
  PROVE  Spec => SerialStages
<1>1. Init => PauseIsKept
  BY DEF Init, PauseIsKept
<1>2. Inv /\ LoopLimitUnreached /\ PauseIsKept /\ [Next]_vars => PauseIsKept'
  BY PauseIsKeptNext DEF Inv
<1>3. /\ Inv /\ LoopLimitUnreached /\ PlanIsNew /\ AnswerIsDue /\ PauseIsKept
      /\ [Next]_vars
      => [SerialStep]_row
  BY StageNext DEF Inv
<1>4. Spec => []LoopLimitUnreached
  BY LoopEndsByReturn
<1> QED
  BY <1>1, <1>2, <1>3, <1>4, Invariance, TransitionsInvariance, PTL
     DEF Spec, SerialStages, SerialStep

\* Only VALIDATING leads to SUCCESSFUL.
LEMMA AcceptanceIsFromReview ==
  \A s \in TaskStatus : "successful" \in Legal[s] => s = "validating"
  BY DEF Legal, TaskStatus

\* When no patch sets a status, work is accepted by a review alone
\* (LoopController, apply_graph_patch).
THEOREM AcceptanceStaysReviewed ==
  ASSUME NoStatusUpdates
  PROVE  Spec => AcceptanceIsReviewed
<1> DEFINE Step ==
      \A t \in DOMAIN tasks' :
        tasks'[t].status = "successful" =>
          /\ t \in DOMAIN tasks
          /\ tasks[t].status \in {"validating", "successful"}
<1>1. Inv /\ AnswerIsDue /\ ReadyIsNext /\ [Next]_vars => [Step]_tasks
  <2> SUFFICES ASSUME Inv, AnswerIsDue, ReadyIsNext, [Next]_vars, tasks' # tasks
               PROVE  Step
    OBVIOUS
  <2>1. CASE Plan
    BY <2>1 DEF Plan
  <2>2. CASE Replan
    BY <2>2, PatchedStatuses DEF Replan, Inv, PatchStatus
  <2>3. CASE LegalStep
    <3>1. PICK t \in DOMAIN tasks, s \in TaskStatus :
            SetStatus(t, s) /\ s \in Legal[tasks[t].status]
      BY <2>3 DEF LegalStep
    <3>2. /\ DOMAIN tasks' = DOMAIN tasks
          /\ \A u \in DOMAIN tasks :
               tasks'[u].status = (IF u = t THEN s ELSE tasks[u].status)
      BY <3>1, SetStatusTypes DEF Inv
    <3>3. tasks[t].status \in TaskStatus
      BY <3>1 DEF Inv, TypeOK
    <3>4. s = "successful" => tasks[t].status = "validating"
      BY <3>1, <3>3, AcceptanceIsFromReview
    <3> QED
      BY <3>2, <3>4
  <2> QED
    BY <2>1, <2>2, <2>3, LegalNext DEF Inv
<1> QED
  BY <1>1, Invariance, TransitionsInvariance, PTL DEF Spec, AcceptanceIsReviewed

\* What is downstream hangs on the dependencies alone.
LEMMA DownstreamOfDependencies ==
  ASSUME NEW g, NEW h, DOMAIN g = DOMAIN h, \A t \in DOMAIN g : g[t].deps = h[t].deps,
         NEW S
  PROVE  Downstream(g, S) = Downstream(h, S)
<1>1. \A T : Children(g, T) = Children(h, T)
  BY DEF Children
<1> QED
  BY <1>1 DEF Downstream

\* More changes have more downstream of them; nothing has nothing.
LEMMA DownstreamGrows ==
  ASSUME NEW g, NEW S, NEW R, S \subseteq R
  PROVE  Downstream(g, S) \subseteq Downstream(g, R)
<1>1. \A T : Children(g, S \cup T) \subseteq Children(g, R \cup T)
  BY DEF Children
<1> QED
  BY <1>1 DEF Downstream

LEMMA NothingBelowNothing ==
  ASSUME NEW g
  PROVE  Downstream(g, {}) = {}
<1>1. Children(g, {} \cup {}) = {}
  BY DEF Children
<1>2. {} \in SUBSET DOMAIN g
  OBVIOUS
<1> QED
  BY <1>1, <1>2 DEF Downstream

\* Whatever is downstream of what a patch changes is blocked, proposed or
\* superseded in the patched graph.
LEMMA PatchReachesDownstream ==
  ASSUME TypeOK, NEW p \in NormalizedPatches, Applicable(tasks, p),
         NEW t \in Downstream(Patched(tasks, p), Affected(p))
  PROVE  Patched(tasks, p)[t].status \in PatchStatus
<1> DEFINE C == Candidate(tasks, p)
<1>1. t \in Downstream(C, Affected(p))
  BY PatchedTypes, DownstreamOfDependencies
<1>2. t \in DOMAIN C /\ t \in Stale(tasks, p) /\ C[t] \in Task
  BY <1>1, CandidateTypes DEF Downstream, Stale
<1> QED
  BY <1>2 DEF Patched, PatchStatus, Task

\* What a patch does not name is no new task and not superseded by it.
LEMMA ReplacedIsAffected ==
  ASSUME TypeOK, NEW p \in NormalizedPatches, Applicable(tasks, p),
         NEW t \in DOMAIN Patched(tasks, p) \ Affected(p)
  PROVE  /\ t \in DOMAIN tasks
         /\ Patched(tasks, p)[t].status = "superseded" => tasks[t].status = "superseded"
<1> DEFINE E == Edited(tasks, p)
           C == Candidate(tasks, p)
<1>1. /\ DOMAIN E = (DOMAIN tasks \ p.remove) \cup DOMAIN p.insert
      /\ DOMAIN C = DOMAIN E
  BY DEF Edited, Candidate, Rewired
<1>2. t \in DOMAIN C /\ C[t] \in Task
  BY PatchedTypes, CandidateTypes
<1>3. /\ t \notin DOMAIN p.insert /\ t \notin DOMAIN p.update /\ t \notin p.supersede
      /\ t \in DOMAIN tasks /\ tasks[t] \in Task
  <2>1. t \notin DOMAIN p.insert /\ t \notin DOMAIN p.update /\ t \notin p.supersede
    BY DEF Affected
  <2>2. t \in DOMAIN tasks
    BY <1>1, <1>2, <2>1
  <2>3. tasks \in [DOMAIN tasks -> Task]
    BY DEF TypeOK, Task
  <2> QED
    BY <2>1, <2>2, <2>3
<1>4. E[t] = tasks[t]
  BY <1>1, <1>2, <1>3 DEF Edited
<1>5. C[t].status = tasks[t].status
  BY <1>1, <1>2, <1>3, <1>4 DEF Candidate, Rewired, Task
<1>6. Patched(tasks, p)[t].status \in {"blocked", C[t].status}
  BY <1>2 DEF Patched, Task
<1> QED
  BY <1>3, <1>5, <1>6

\* For any plans and patches: whatever depends on an inserted or superseded task,
\* however long the chain is, is not finished after the patch
\* (apply_graph_patch, downstream_task_ids).
THEOREM ReplacementsReachDownstream == Spec => ReplacedWorkIsRedone
<1> DEFINE Step == \A t \in Downstream(tasks', Replaced) : tasks'[t].status # "successful"
<1>1. Inv /\ AnswerIsDue /\ ReadyIsNext /\ [Next]_vars => [Step]_tasks
  <2> SUFFICES ASSUME Inv, AnswerIsDue, ReadyIsNext, [Next]_vars, tasks' # tasks,
                      NEW t \in Downstream(tasks', Replaced)
               PROVE  tasks'[t].status # "successful"
    OBVIOUS
  <2>0. t \in DOMAIN tasks'
    BY DEF Downstream
  <2>1. CASE Plan
    BY <2>0, <2>1 DEF Plan
  <2>2. CASE Replan
    <3>1. PICK p \in NormalizedPatches : Applicable(tasks, p) /\ tasks' = Patched(tasks, p)
      BY <2>2 DEF Replan
    <3>2. Replaced \subseteq Affected(p)
      BY <3>1, ReplacedIsAffected DEF Replaced, Inv
    <3>3. t \in Downstream(tasks', Affected(p))
      BY <3>2, DownstreamGrows
    <3> QED
      BY <3>1, <3>3, PatchReachesDownstream DEF Inv, PatchStatus
  <2>3. CASE LegalStep
    <3>1. PICK u \in DOMAIN tasks, s \in TaskStatus \ {"superseded"} : SetStatus(u, s)
      BY <2>3 DEF LegalStep
    <3>2. /\ DOMAIN tasks' = DOMAIN tasks
          /\ \A v \in DOMAIN tasks :
               tasks'[v].status = (IF v = u THEN s ELSE tasks[v].status)
      BY <3>1, SetStatusTypes DEF Inv
    <3>3. Replaced = {}
      BY <3>1, <3>2 DEF Replaced
    <3> QED
      BY <3>3, NothingBelowNothing
  <2> QED
    BY <2>1, <2>2, <2>3, LegalNext DEF Inv
<1> QED
  BY <1>1, Invariance, TransitionsInvariance, PTL DEF Spec, ReplacedWorkIsRedone
=============================================================================
