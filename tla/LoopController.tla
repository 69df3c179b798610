--------------------------- MODULE LoopController ---------------------------
(***************************************************************************)
(* LoopController.run (core/controller.py) on one workflow, and the answer *)
(* that resumes it (persistence/resume.py).  One executor at a time: the   *)
(* calls that share a workflow are the subject of WorkflowStore.  A step   *)
(* here ends with a save, so the variables of the first group are the row; *)
(* what an executor changes in memory before it saves is part of the step  *)
(* that saves it.  Workers, the reviewer, the Replanner and the evidence   *)
(* engine answer anything their types allow.                               *)
(***************************************************************************)
EXTENDS TaskGraph

CONSTANTS
  Ids,            \* task ids
  NoTask,
  Plans,          \* the graphs the Planner may propose: functions id -> deps
  Patches,        \* the patches the Replanner may propose
  Codes,          \* codes of blocking violations: "MISSING_CRS", "repairable"
                  \* for the computationally resolvable ones, and any others
  Profiles,       \* the feature profiles in use
  MaxWorkerCalls,
  MaxLocalRecoveries,
  MaxReplans,
  MaxIterations   \* max_loop_iterations

ASSUME ControllerAssumption ==
  /\ Ids \subseteq Nat /\ IsFiniteSet(Ids)
  /\ NoTask \notin Ids
  /\ Profiles \subseteq {"C1", "C2", "C3", "C4", "C5"}
  /\ \A g \in Plans : DOMAIN g \subseteq Ids
  /\ \A p \in Patches : DOMAIN p.insert \subseteq Ids
  /\ \A p \in Patches : \A t \in DOMAIN p.update :
       p.update[t].status \in {<<>>} \cup {<<s>> : s \in TaskStatus}
  /\ MaxWorkerCalls \in Nat \ {0}
  /\ MaxLocalRecoveries \in Nat
  /\ MaxReplans \in Nat
  /\ MaxIterations \in Nat

VARIABLES
  profile,    \* feature_profile, fixed when the workflow is created
  tasks,      \* the task graph; empty until it is planned
  goal,       \* required_terminal_roles, as the tasks that output them
  accepted,   \* tasks with an output whose validation status is PASS
  blockers,   \* codes of the active blocking violations of each task
  asserted,   \* tasks with an active user_asserted_crs commitment
  human,      \* the clarification that is not answered yet
  terminal,   \* terminal_state
  spent,      \* worker calls, local recoveries and replans

  pc,         \* where the executor is
  cur,        \* the task it works on
  decision,   \* the effective action, and the findings not saved yet
  iter,       \* passes of the loop begun by this run
  inputs      \* the tasks whose outputs are bound as inputs of the one in hand

row == <<profile, tasks, goal, accepted, blockers, asserted, human, terminal, spent>>
vars == <<row, pc, cur, decision, iter, inputs>>

-----------------------------------------------------------------------------
(* Types *)

Actions == {"NONE", "LOCAL_RECOVERY", "STRUCTURAL_REPLAN", "HUMAN_CLARIFICATION"}

TerminalState ==
  {"none", "completed", "human_intervention_required", "failed_unrecoverable",
   "budget_exhausted"}

Places ==
  {"idle", "plan", "top", "take", "binding", "bound", "clear", "blocked",
   "precondition", "running", "working", "exhausted", "failed", "provisional",
   "registered", "validating", "recover", "giveup"}

Limit ==
  [worker |-> MaxWorkerCalls, local |-> MaxLocalRecoveries, replan |-> MaxReplans]

NoQuestion == [task |-> NoTask, aboutCrs |-> FALSE, saysCrs |-> FALSE]

\* Type invariant: the workflow state, within its budgets (WorkflowState,
\* ExecutionBudget, ExecutionUsage).
TypeOK ==
  /\ profile \in Profiles
  /\ DOMAIN tasks \subseteq Ids
  /\ tasks \in [DOMAIN tasks -> [status : TaskStatus, deps : SUBSET Ids]]
  /\ goal \subseteq Ids
  /\ accepted \subseteq Ids
  /\ blockers \in [Ids -> SUBSET Codes]
  /\ asserted \subseteq Ids
  /\ human \in [task : Ids \cup {NoTask}, aboutCrs : BOOLEAN, saysCrs : BOOLEAN]
  /\ terminal \in TerminalState
  /\ spent \in [worker : 0..MaxWorkerCalls, local : 0..MaxLocalRecoveries,
                replan : 0..MaxReplans]
  /\ pc \in Places
  /\ cur \in Ids \cup {NoTask}
  /\ decision \in [action : Actions, found : SUBSET Codes]
  /\ iter \in 0..MaxIterations
  /\ inputs \subseteq Ids

\* config.py, for the profiles C1 to C5
Structural == profile # "C3"
FindingRouting == profile \notin {"C1", "C4"}
SemanticQC == profile # "C4"

-----------------------------------------------------------------------------
(* Mutated forms: what a plausible slip in the code would do instead. *)

\* a reviewer's PASS stands whatever the deterministic findings say
TrustsReviewer(verdict, codes) == verdict

\* the route of a missing CRS forgets that the user has asserted one
ForgetsAssertion(t) == FALSE

\* local recoveries are checked against their budget and never charged
UnchargedRecovery(kind) ==
  [spent EXCEPT ![kind] = IF kind = "local" THEN @ ELSE @ + 1]

\* completion looks at the tasks and not at what they were found to violate
TasksOnly ==
  \A t \in DOMAIN tasks : tasks[t].status \in Done

\* the pause keeps the task's status
PauseInPlace == tasks

\* the last unit of a budget can be spent twice
OneTooMany(kind) == spent[kind] <= Limit[kind]

\* a terminal state does not stop the loop
NeverStopped == FALSE

\* the worker may get any output of a parent, accepted or not
AnyOutput(t) == tasks[t].deps

\* a task is taken without being made READY first
NeverReadied(t) == FALSE

\* the dead end is noticed only when all that is left is blocked
AllBlocked ==
  \A t \in DOMAIN tasks : tasks[t].status \in Done \cup {"blocked"}

-----------------------------------------------------------------------------
(* Budgets and findings *)

HasBudget(kind) == spent[kind] < Limit[kind]

Reserve(kind) == [spent EXCEPT ![kind] = @ + 1]

\* invariant_engine.evaluate on the tasks S: their findings are whatever the
\* evidence of the moment says.
Evaluate(S) ==
  IF FindingRouting
  THEN \E found \in [S -> SUBSET Codes] :
         blockers' = [t \in Ids |-> IF t \in S THEN found[t] ELSE blockers[t]]
  ELSE UNCHANGED blockers

-----------------------------------------------------------------------------
(* The reviewer, and _enforce_recovery_route *)

\* <<verdict, action_class>>: the QC component may say anything, the technical
\* reviewer of profile C4 passes or asks for a local recovery.
Reviews ==
  IF SemanticQC THEN {"PASS", "BLOCK"} \X Actions
  ELSE {<<"PASS", "NONE">>, <<"BLOCK", "LOCAL_RECOVERY">>}

\* The decision on a worker that failed or was not started.
FailureReviews ==
  CASE SemanticQC -> Reviews
    [] ~SemanticQC /\ Structural -> {<<"BLOCK", "STRUCTURAL_REPLAN">>}
    [] OTHER -> {<<"BLOCK", "NONE">>}

EnforcedVerdict(verdict, codes) == IF codes = {} THEN verdict ELSE "BLOCK"

HasAssertedCrs(t) == t \in asserted

EnforcedAction(t, verdict, action, codes) ==
  IF verdict = "PASS" THEN action
  ELSE IF "MISSING_CRS" \in codes /\ HasAssertedCrs(t) /\ Structural
  THEN "STRUCTURAL_REPLAN"
  ELSE IF action = "NONE" /\ "MISSING_CRS" \in codes
  THEN "HUMAN_CLARIFICATION"
  ELSE IF Structural /\ "repairable" \in codes
  THEN "STRUCTURAL_REPLAN"
  ELSE action

-----------------------------------------------------------------------------
(* Steps of the executor *)

SetStatus(t, s) == tasks' = [tasks EXCEPT ![t].status = s]

Goto(place) == pc' = place

\* An idle executor keeps nothing but the task it saved last.
Stop ==
  /\ pc' = "idle"
  /\ iter' = 0
  /\ inputs' = {}
  /\ decision' = [action |-> "NONE", found |-> {}]

\* return self._save(state), with a terminal state
Terminate(s) == terminal' = s /\ Stop

Run ==
  /\ pc = "idle"
  /\ Goto(IF DOMAIN tasks = {} THEN "plan" ELSE "top")
  /\ UNCHANGED <<row, cur, decision, iter, inputs>>

Plan ==
  /\ pc = "plan"
  /\ \E g \in Plans : tasks' = [t \in DOMAIN g |-> [status |-> "proposed", deps |-> g[t]]]
  /\ ValidGraph(tasks')
  /\ \E roles \in SUBSET Leaves(tasks') : roles # {} /\ goal' = roles
  /\ Goto("top")
  /\ UNCHANGED <<profile, accepted, blockers, asserted, human, terminal, spent,
                 cur, decision, iter, inputs>>

\* if state.terminal_state is not None
Stopped == terminal # "none"

AtTop == pc = "top" /\ iter < MaxIterations

Return ==
  /\ AtTop
  /\ Stopped
  /\ Stop
  /\ UNCHANGED <<row, cur>>

OutOfTime ==
  /\ AtTop
  /\ ~Stopped
  /\ Terminate("budget_exhausted")
  /\ UNCHANGED <<profile, tasks, goal, accepted, blockers, asserted, human, spent,
                 cur>>

\* completion_failures is empty
IsComplete ==
  /\ \A t \in DOMAIN tasks : tasks[t].status \in Done
  /\ \A t \in Ids : blockers[t] = {}
  /\ goal \subseteq accepted
  /\ human = NoQuestion

Complete ==
  /\ AtTop
  /\ ~Stopped
  /\ IsComplete
  /\ Terminate("completed")
  /\ UNCHANGED <<profile, tasks, goal, accepted, blockers, asserted, human, spent,
                 cur>>

\* if not ready
DeadEnd == Ready(tasks) = <<>>

NothingReady ==
  /\ AtTop
  /\ ~Stopped
  /\ ~IsComplete
  /\ DeadEnd
  /\ Terminate("failed_unrecoverable")
  /\ UNCHANGED <<profile, tasks, goal, accepted, blockers, asserted, human, spent,
                 cur>>

\* if current in {PROPOSED, BLOCKED}
NeedsReady(t) == tasks[t].status # "ready"

\* A task that was READY already goes to BINDING at once, any other is made
\* READY by a save of its own.
Take ==
  /\ AtTop
  /\ ~Stopped
  /\ ~IsComplete
  /\ Ready(tasks) # <<>>
  /\ \E t \in Ids :
       /\ IsNext(tasks, t)
       /\ IF NeedsReady(t)
          THEN SetStatus(t, "ready") /\ UNCHANGED cur /\ Goto("take")
          ELSE SetStatus(t, "binding") /\ cur' = t /\ Goto("binding")
  /\ iter' = iter + 1
  /\ UNCHANGED <<profile, goal, accepted, blockers, asserted, human, terminal, spent,
                 decision, inputs>>

TakeReady ==
  /\ pc = "take"
  /\ \E t \in Ids : IsNext(tasks, t) /\ cur' = t
  /\ SetStatus(cur', "binding")
  /\ Goto("binding")
  /\ UNCHANGED <<profile, goal, accepted, blockers, asserted, human, terminal, spent,
                 decision, iter, inputs>>

LoopExhausted ==
  /\ pc = "top"
  /\ iter = MaxIterations
  /\ Terminate("budget_exhausted")
  /\ UNCHANGED <<profile, tasks, goal, accepted, blockers, asserted, human, spent,
                 cur>>

\* The parents with an artifact that passed, of whichever execution.  Artifacts
\* that the workflow was created with are candidates too; they are not modelled.
DependencyArtifacts(t) == tasks[t].deps \cap accepted

\* Inputs are matched by role.  Which roles a task requires is left open, so any
\* of the candidates may serve: a parent that no requirement names serves none,
\* nor does one whose role an initial artifact or another parent fills.
Bind ==
  /\ pc = "binding"
  /\ inputs' \in SUBSET DependencyArtifacts(cur)
  /\ SetStatus(cur, "bound")
  /\ Goto("bound")
  /\ UNCHANGED <<profile, goal, accepted, blockers, asserted, human, terminal, spent,
                 cur, decision, iter>>

\* No worker supports the operation, a required role has no accepted artifact,
\* or the artifact does not fit.
BindingFails ==
  /\ pc = "binding"
  /\ SetStatus(cur, "failed")
  /\ Goto("giveup")
  /\ UNCHANGED <<profile, goal, accepted, blockers, asserted, human, terminal, spent,
                 cur, decision, iter, inputs>>

GiveUp ==
  /\ pc = "giveup"
  /\ Terminate("failed_unrecoverable")
  /\ UNCHANGED <<profile, tasks, goal, accepted, blockers, asserted, human, spent,
                 cur>>

-----------------------------------------------------------------------------
(* Before the worker *)

\* What cannot be evaluated on the bound inputs keeps an older finding active
\* and does not hold the worker back.
Preflight ==
  /\ pc = "bound"
  /\ FindingRouting
  /\ Evaluate({cur})
  /\ \/ blockers'[cur] # {} /\ Goto("blocked")
     \/ blockers'[cur] \subseteq blockers[cur] /\ Goto("clear")
  /\ UNCHANGED <<profile, tasks, goal, accepted, asserted, human, terminal, spent,
                 cur, decision, iter, inputs>>

ReviewPrecondition ==
  /\ pc = "blocked"
  /\ SetStatus(cur, "validating")
  /\ Goto("precondition")
  /\ UNCHANGED <<profile, goal, accepted, blockers, asserted, human, terminal, spent,
                 cur, decision, iter, inputs>>

\* Whatever the verdict, the task is REJECTED.
RejectPrecondition ==
  /\ pc = "precondition"
  /\ \E r \in FailureReviews :
       decision' =
         [action |-> EnforcedAction(cur, EnforcedVerdict(r[1], blockers[cur]), r[2],
                                    blockers[cur]),
          found  |-> blockers[cur]]
  /\ SetStatus(cur, "rejected")
  /\ Goto("recover")
  /\ UNCHANGED <<profile, goal, accepted, blockers, asserted, human, terminal, spent,
                 cur, iter, inputs>>

Start ==
  /\ pc = "clear" \/ (pc = "bound" /\ ~FindingRouting)
  /\ SetStatus(cur, "running")
  /\ Goto("running")
  /\ UNCHANGED <<profile, goal, accepted, blockers, asserted, human, terminal, spent,
                 cur, decision, iter, inputs>>

-----------------------------------------------------------------------------
(* The worker.  reserve_worker_call counts in memory; the count is saved   *)
(* with the worker's result, and so is lost with it.                       *)

Dispatch ==
  /\ pc = "running"
  /\ HasBudget("worker")
  /\ Goto("working")
  /\ UNCHANGED <<row, cur, decision, iter, inputs>>

WorkerReturns ==
  /\ pc = "working"
  /\ SetStatus(cur, "provisional_success")
  /\ spent' = Reserve("worker")
  /\ Goto("provisional")
  /\ UNCHANGED <<profile, goal, accepted, blockers, asserted, human, terminal,
                 cur, decision, iter, inputs>>

WorkerFails ==
  /\ pc = "working"
  /\ SetStatus(cur, "failed")
  /\ spent' = Reserve("worker")
  /\ Goto("failed")
  /\ UNCHANGED <<profile, goal, accepted, blockers, asserted, human, terminal,
                 cur, decision, iter, inputs>>

\* The findings of a failed worker are saved with the recovery.
ReviewFailure ==
  /\ pc = "failed"
  /\ \E found \in (IF FindingRouting THEN SUBSET Codes ELSE {blockers[cur]}),
        r \in FailureReviews :
         decision' =
           [action |-> EnforcedAction(cur, EnforcedVerdict(r[1], found), r[2], found),
            found  |-> found]
  /\ Goto("recover")
  /\ UNCHANGED <<row, cur, iter, inputs>>

\* The outputs are registered as pending, and evaluated for the task and for
\* those that wait for it.
Register ==
  /\ pc = "provisional"
  /\ Evaluate({cur} \cup {t \in Children(tasks, {cur}) : tasks[t].status \notin Done})
  /\ Goto("registered")
  /\ UNCHANGED <<profile, tasks, goal, accepted, asserted, human, terminal, spent,
                 cur, decision, iter, inputs>>

Validate ==
  /\ pc = "registered"
  /\ SetStatus(cur, "validating")
  /\ Goto("validating")
  /\ UNCHANGED <<profile, goal, accepted, blockers, asserted, human, terminal, spent,
                 cur, decision, iter, inputs>>

\* A worker may have returned no output to accept.
Accept ==
  /\ pc = "validating"
  /\ \E r \in Reviews : EnforcedVerdict(r[1], blockers[cur]) = "PASS"
  /\ accepted' \in {accepted, accepted \cup {cur}}
  /\ SetStatus(cur, "successful")
  /\ inputs' = {}
  /\ Goto("top")
  /\ UNCHANGED <<profile, goal, blockers, asserted, human, terminal, spent,
                 cur, decision, iter>>

\* The outputs under review fail; earlier ones stay as they are.
Reject ==
  /\ pc = "validating"
  /\ \E r \in Reviews :
       LET verdict == EnforcedVerdict(r[1], blockers[cur])
       IN /\ verdict = "BLOCK"
          /\ decision' = [action |-> EnforcedAction(cur, verdict, r[2], blockers[cur]),
                          found  |-> blockers[cur]]
  /\ SetStatus(cur, "rejected")
  /\ Goto("recover")
  /\ UNCHANGED <<profile, goal, accepted, blockers, asserted, human, terminal, spent,
                 cur, iter, inputs>>

-----------------------------------------------------------------------------
(* _recover *)

\* Every save of a recovery writes the findings it was decided on.
SaveFindings == blockers' = [blockers EXCEPT ![cur] = decision.found]

\* The next iteration starts from what this one saved.
GoOn ==
  /\ Goto("top")
  /\ inputs' = {}
  /\ decision' = [action |-> "NONE", found |-> {}]
  /\ UNCHANGED iter

\* A recovery the manager finds applicable: a retry, a revised invocation,
\* another worker, or another candidate in place of the artifacts it rejects.
RecoverLocally ==
  /\ pc = "recover"
  /\ decision.action = "LOCAL_RECOVERY"
  /\ HasBudget("local")
  /\ spent' = Reserve("local")
  /\ accepted' \in SUBSET accepted
  /\ SaveFindings
  /\ SetStatus(cur, "ready")
  /\ GoOn
  /\ UNCHANGED <<profile, goal, asserted, human, terminal, cur>>

\* Nothing applicable, or a revision that changes nothing, which is charged.
LocalRecoveryFails ==
  /\ pc = "recover"
  /\ decision.action = "LOCAL_RECOVERY"
  /\ \/ UNCHANGED spent
     \/ (HasBudget("local") /\ spent' = Reserve("local"))
  /\ SaveFindings
  /\ Terminate("failed_unrecoverable")
  /\ UNCHANGED <<profile, tasks, goal, accepted, asserted, human, cur>>

\* The Replanner normalizes what it proposes for the task in hand.  That it may
\* keep but one of several inserted tasks is left to the choice of the patch.
NormalizedPatches ==
  UNION {{Normalized(tasks, p, cur, ground) : ground \in Groundings(tasks, p)} : p \in Patches}

\* replanner.repair; reused outputs stay accepted, other stale ones do not.
Replan ==
  /\ pc = "recover"
  /\ decision.action = "STRUCTURAL_REPLAN"
  /\ Structural
  /\ HasBudget("replan")
  /\ spent' = Reserve("replan")
  /\ \E p \in NormalizedPatches :
       /\ Applicable(tasks, p)
       /\ KeepsGoal(tasks, Patched(tasks, p), goal)
       /\ tasks' = Patched(tasks, p)
       /\ accepted' = accepted \ (Stale(tasks, p) \ p.reuse)
  /\ SaveFindings
  /\ GoOn
  /\ UNCHANGED <<profile, goal, asserted, human, terminal, cur>>

\* The pause.  Whether the text of the question or of the reason says "crs" is
\* up to whoever wrote them.
Paused == [tasks EXCEPT ![cur].status = "waiting_for_human"]

AskHuman ==
  /\ pc = "recover"
  /\ decision.action = "HUMAN_CLARIFICATION"
  /\ tasks' = Paused
  /\ \E saysCrs \in BOOLEAN :
       human' = [task |-> cur, aboutCrs |-> "MISSING_CRS" \in decision.found,
                 saysCrs |-> saysCrs]
  /\ terminal' = "human_intervention_required"
  /\ SaveFindings
  /\ GoOn
  /\ UNCHANGED <<profile, goal, accepted, asserted, spent, cur>>

NoRecovery ==
  /\ pc = "recover"
  /\ \/ decision.action = "NONE"
     \/ (decision.action = "STRUCTURAL_REPLAN" /\ ~Structural)
  /\ SaveFindings
  /\ Terminate("failed_unrecoverable")
  /\ UNCHANGED <<profile, tasks, goal, accepted, asserted, human, spent, cur>>

-----------------------------------------------------------------------------
(* Exceptions that leave run: what was not saved is gone. *)

\* The budget that the executor reserves next.
Reserving(kind) ==
  CASE kind = "worker" -> pc = "running"
    [] kind = "local"  -> pc = "recover" /\ decision.action = "LOCAL_RECOVERY"
    [] kind = "replan" -> /\ pc = "recover"
                          /\ decision.action = "STRUCTURAL_REPLAN"
                          /\ Structural

\* _exhaust sets the terminal state in memory and raises BudgetExhausted.
Overspend ==
  /\ \E kind \in DOMAIN spent : Reserving(kind) /\ ~HasBudget(kind)
  /\ Goto("exhausted")
  /\ UNCHANGED <<row, cur, decision, iter, inputs>>

Unwind ==
  /\ Stop
  /\ UNCHANGED <<row, cur>>

Exhausted == pc = "exhausted" /\ Unwind

\* The Planner or the Replanner has used up its attempts.
ComponentFails ==
  /\ pc = "plan" \/ (Reserving("replan") /\ HasBudget("replan"))
  /\ Unwind

\* Any other exception, and the death of the process.
Escape == pc # "idle" /\ Unwind

-----------------------------------------------------------------------------
(* ResumeService.answer: the task is READY again; an answer counts as an   *)
(* assertion of the CRS when the question or the reason says "crs".        *)

Answer ==
  /\ pc = "idle"
  /\ human # NoQuestion
  /\ SetStatus(human.task, "ready")
  /\ asserted' = IF human.saysCrs THEN asserted \cup {human.task} ELSE asserted
  /\ human' = NoQuestion
  /\ terminal' = "none"
  /\ UNCHANGED <<profile, goal, accepted, blockers, spent,
                 pc, cur, decision, iter, inputs>>

-----------------------------------------------------------------------------

Init ==
  /\ profile \in Profiles
  /\ tasks = [t \in {} |-> [status |-> "proposed", deps |-> {}]]
  /\ goal = {}
  /\ accepted = {}
  /\ blockers = [t \in Ids |-> {}]
  /\ asserted = {}
  /\ human = NoQuestion
  /\ terminal = "none"
  /\ spent = [worker |-> 0, local |-> 0, replan |-> 0]
  /\ pc = "idle"
  /\ cur = NoTask
  /\ decision = [action |-> "NONE", found |-> {}]
  /\ iter = 0
  /\ inputs = {}

LoopTop ==
  Return \/ Complete \/ NothingReady \/ Take \/ LoopExhausted

Execute ==
  \/ TakeReady \/ Bind \/ BindingFails \/ GiveUp
  \/ Preflight \/ ReviewPrecondition \/ RejectPrecondition \/ Start
  \/ Dispatch \/ WorkerReturns \/ WorkerFails \/ ReviewFailure
  \/ Register \/ Validate \/ Accept \/ Reject

Recover ==
  RecoverLocally \/ LocalRecoveryFails \/ Replan \/ AskHuman \/ NoRecovery

Fail == Overspend \/ Exhausted \/ ComponentFails

Advance == Plan \/ LoopTop \/ Execute \/ Recover \/ Fail

Next == Run \/ Advance \/ OutOfTime \/ Escape \/ Answer

Spec == Init /\ [][Next]_vars

\* The process that runs the loop is scheduled; workers and models answer.
\* Neither the clock nor an unforeseen exception is relied on.
FairSpec == Spec /\ WF_vars(Advance)

-----------------------------------------------------------------------------
(* Properties *)

InHand == {"bound", "running", "provisional_success", "validating"}

\* From its binding to its review the task in hand rests on finished work: every
\* parent is successful or superseded, and what it was bound to of its parents'
\* outputs has not been rejected, whatever patches, resets, rejected candidates
\* and abandoned runs did to the graph before (ready_task_ids, Binder.bind,
\* apply_graph_patch, LocalRecoveryManager.apply).
WorksOnAcceptedInputs ==
  (pc # "idle" /\ cur \in DOMAIN tasks /\ tasks[cur].status \in InHand)
    => /\ \A p \in tasks[cur].deps : tasks[p].status \in Done
       /\ inputs \subseteq tasks[cur].deps \cap accepted

\* Accepted work carries no active blocking violation: neither a reviewer's
\* PASS nor an evaluation for somebody else's outputs can leave one on a task
\* that is SUCCESSFUL (_enforce_recovery_route, evaluate).
AcceptedIsUnblocked ==
  \A t \in DOMAIN tasks : tasks[t].status = "successful" => blockers[t] = {}

\* Work is accepted by a review alone: a task becomes SUCCESSFUL from
\* VALIDATING, and no patch makes it so (LoopController, apply_graph_patch).
AcceptanceIsReviewed ==
  [][\A t \in DOMAIN tasks' :
       tasks'[t].status = "successful" =>
         /\ t \in DOMAIN tasks
         /\ tasks[t].status \in {"validating", "successful"}]_tasks

\* The controller never asks for a transition that the state machine refuses:
\* every status change that is not a patch's is in LEGAL_TRANSITIONS, so
\* IllegalTaskTransition is never raised in mid-workflow.
StaysLegal ==
  [][(spent'.replan = spent.replan) =>
       \A t \in DOMAIN tasks \cap DOMAIN tasks' :
         (tasks'[t].status # tasks[t].status)
           => tasks'[t].status \in Legal[tasks[t].status]]_tasks

\* The tasks that a step inserts or supersedes
Replaced ==
  {t \in DOMAIN tasks' :
     \/ t \notin DOMAIN tasks
     \/ tasks'[t].status = "superseded" /\ tasks[t].status # "superseded"}

\* A patch reaches whatever rests on what it replaces: no task that depends on an
\* inserted or superseded one, directly or through others, stays finished
\* (apply_graph_patch, downstream_task_ids).
ReplacedWorkIsRedone ==
  [][\A t \in Downstream(tasks', Replaced) : tasks'[t].status # "successful"]_tasks

\* A task waits for a human exactly as long as its question is open, so no
\* waiting task is left that no answer can reach, and a pause always has its
\* question, also when the iteration bound closes a paused workflow (_recover,
\* run, answer).
WaitingIsAnswerable ==
  /\ \A t \in DOMAIN tasks :
       (tasks[t].status = "waiting_for_human") <=> (human.task = t)
  /\ terminal = "human_intervention_required" => human # NoQuestion

\* Once the user has asserted a CRS for a task, a profile that can replan puts
\* the task's missing CRS to the Replanner and never to the user again.
AssertedCrsIsNotAskedAgain ==
  (Structural /\ human.aboutCrs) => human.task \notin asserted

\* A completed workflow stays complete: all its tasks finished, its goal's
\* outputs accepted, nothing found wrong, and no run that comes later changes
\* that (finalize_if_complete, run).
CompletedIsSound ==
  terminal = "completed" =>
    /\ \A t \in DOMAIN tasks : tasks[t].status \in {"successful", "superseded"}
    /\ \A t \in Ids : blockers[t] = {}
    /\ goal \subseteq accepted
    /\ human = NoQuestion

\* The loop is left by a return long before max_loop_iterations, because every
\* pass but the last spends a budget; the exit that would overwrite the
\* terminal state of the last pass is not reached when
\* MaxIterations > MaxWorkerCalls + MaxLocalRecoveries + MaxReplans + 1.
LoopLimitUnreached == pc = "top" => iter < MaxIterations

\* What SerialWorkflow says of the row of a single executor, at the stage of
\* the task it saved last.
Stage ==
  IF terminal = "human_intervention_required" THEN "paused"
  ELSE IF terminal # "none" THEN "closed"
  ELSE IF cur \notin DOMAIN tasks THEN "open"
  ELSE CASE tasks[cur].status \in {"binding", "bound"} -> "binding"
         [] tasks[cur].status = "running" -> "running"
         [] tasks[cur].status \in {"provisional_success", "validating", "rejected", "failed"}
              -> "review"
         [] OTHER -> "open"

Life == INSTANCE SerialWorkflow WITH present <- TRUE, version <- 0, stage <- Stage

\* The row takes only the steps that SerialWorkflow allows one commit.
SerialStages == [][Stage' \in Life!Successors[Stage] \cup {Stage}]_row

\* Every run of the loop comes to an end.
RunEnds == (pc # "idle") ~> (pc = "idle")

\* A run that stops because the worker budget is spent says so in the row
\* (_exhaust, reserve_worker_call).
ExhaustionIsRecorded ==
  [][(pc = "exhausted") => (terminal' = "budget_exhausted")]_vars
=============================================================================
