# TLA+ models of the geospatial agent orchestration

This directory holds TLA+ modules, TLC configurations and TLAPS proofs for the
orchestrator in `src/gas_server/orchestrator`, for the service it runs in,
`src/gas_server/core`, for the orchestrator agent of
`src/gas_server/agents/autonmous_gis_orchestrator.py` with its canvas workflows,
and for the benchmark that runs both, `src/benchmark`. A workflow here is expensive and visible from outside: a
step calls a geospatial agent that may run for minutes and write files, a person
may be asked a question in the middle, and any of the processes involved may
die. The models are about what survives that: the durable row of a workflow,
the control loop that moves it, the table of tasks a service keeps for its
callers, the document of a canvas workflow that is rewritten by a language model,
and the calls of that model, which may fail at any time. The repository has no tests, so its code, docs and prompts are all the
reference there is.

`PROJECT.json` lists, for every definition, the lines of code it stands for, and
for every run its properties.

## 1. The system

| component | state it keeps | operations |
|---|---|---|
| workflow store (`persistence/sqlite_store.py`) | one row per workflow: JSON state, `state_version`, terminal state, `updated_at`; one row per lease: owner, `expires_at` | create, load, save (compare-and-swap on the version), acquire and release a lease, delete expired terminal workflows |
| resume service, runtime (`persistence/resume.py`, `runtime.py`) | none of their own | execute = create and run; resume = answer the open clarification, then run |
| loop controller (`core/controller.py`, `completion.py`, `budgets.py`, `state_machine.py`, `config.py`) | the `WorkflowState`: task graph with a status per task, artifacts, commitments, violations, recovery history, budgets and usage, the clarification, the terminal state | run: plan, then repeat bind, preflight, dispatch, register, review, recover |
| task graph (`core/graph.py`) | none: functions over the graph | validate, order, ready tasks, descendants, apply a versioned patch |
| local recovery (`recovery/local.py`) | none | retry, revise the invocation, another worker, another artifact candidate |
| binder, executor (`binding/`, `execution/`) | none | choose a worker; call it and normalize its answer |
| evidence and invariants (`artifacts/evidence.py`) | evidence in the state | evaluate tasks, opening and resolving violations |
| quality control (`components/qc.py`, `technical.py`) | none | verdict PASS or BLOCK and an action class |
| planner, replanner (`components/`) | none | propose a graph, propose a patch, with correction rounds |
| GAS task service (`core/service_core.py`) | `TASKS`, `CLOSED_TASKS`, a lock, one thread per background task, a queue and a thread per stream | ExecuteTask (synchronous, asynchronous, streamed), CancelTask, GetTaskStatus, GetTaskResult |
| orchestrator agent (`agents/autonmous_gis_orchestrator.py`) | none: every call carries the workflow document of the canvas | plan a canvas workflow, review the next node, replan, execute |
| LLM client (`core/llm_client.py`, `components/agent_client.py`) | a sliding window of calls and tokens for each process | wait for capacity, call with retries, record usage |
| service registry, proxy, agents | built once at start-up | forward a request; run an agent |
| benchmark runner (`src/benchmark/runner.py`, `progressive_executor.py`) | one result file per trajectory | go through a schedule, run a trajectory again after a provider failure, resume |
| benchmark evaluation (`src/benchmark/evaluation`) | files | score recorded trajectories |
| client libraries (`src/gas_client`) | none | submit, poll until a final status, cancel |

How they interact. A caller reaches the orchestrator agent through ExecuteTask of
a service. The agent calls `AutonomousRuntime.execute` or `.resume`, which call
`LoopController.run`. The controller holds a copy of the workflow, saves it after
every change through the store, and calls the planner, the binder, the executor,
the evidence engine, the reviewer and the replanner in turn; only the store is
shared between processes. The executor calls another service's ExecuteTask. A
clarification ends a run with the workflow paused, and a later call of resume
answers it. Within one service process the task table is shared by the request
threads, the background threads and the generators of streams.

What is hard, and what has to hold:

* *Two executors of one workflow.* A lease is given for a fixed time and never
  renewed, the state is loaded before the lease is taken, and an answer takes no
  lease. Executors must stay apart while their leases are good, work done under
  a good lease must not be lost, a worker must not be invoked twice for the same
  version, and the row must go through a life that one executor could have
  given it.
* *Crashes and exceptions in the middle of a step.* What was not saved is gone,
  budgets included, and a task may be left in any status. A later run must not
  take an illegal transition, and must end.
* *Patches.* A replan rewrites the graph around finished, rejected and running
  work, past the table of legal transitions. Nothing may run on, or be accepted
  from, inputs that were rejected or reset.
* *Recovery routes.* A reviewer may say anything, and deterministic findings must
  prevail; a user must not be asked again for what they have asserted; every
  pass of the loop must pay for itself.
* *The task table.* A cancel may land between any check and the write after it;
  a client may leave; an exception may be raised after the result was stored.
* *Documents rewritten by a model.* A repair or replanning of a canvas workflow
  replaces the whole document and copies the state of nodes into it by
  identifier. An output must not end up at a node that has other instructions,
  a change must reach everything that depends on it, a node should not pass for
  reviewed when it was not (it does: section 3), and reruns must come to an end.
* *Passes over a plan.* Discovery, selection and four passes over the steps each
  work on what the one before left, over servers and model calls that fail.
* *The limiter.* Its deques are shared by threads without a lock and without a
  queue: nothing but the requests of other threads may keep a call waiting, and the
  limits have to hold for a thread that is alone.
* *The benchmark.* It has to tell provider failures from failures of what it
  measures, and to go on after a process that died while it wrote.

`PROJECT.json` ("hazards") lists these at the lines where they bite, with the
properties that cover each.

## 2. The modules

    TaskGraph  <--EXTENDS--  LoopController  --INSTANCE-->  SerialWorkflow
                                   ^                             ^
                                   |                             | INSTANCE
                            MCLoopController               WorkflowStore <-- WorkflowStoreProofs
                                   ^                             ^
                                   |                             |
                            MCClarification                MCWorkflowStore

    LoopController <-- LoopControllerProofs

    QualityControl <-- MCQualityControl
    QualityControl <-- QualityControlProofs

    TaskService <-- MCTaskService
    TaskService <-- TaskServiceProofs

    CanvasReview, PlanRepair, ModelCalls:
        each <-- MC<module>, each <-- <module>Proofs

### SerialWorkflow: what the store promises

The row of a workflow abstracted to existence, version and *stage*: `open` (the
next task can be taken), `binding`, `running`, `review` (a task is in flight and
the last commit left it there), `paused` (waiting for a human) and `closed` (any
other terminal state). `Successors` is the life cycle that one executor gives
it. Both other models of a workflow are shown to implement it: `WorkflowStore`
for any number of executors, `LoopController` for the statuses of real tasks. Both
are checked and proved. The second is what justifies the first, which only knows
stages.

### WorkflowStore: one row, many calls

A call is one invocation of `run`, or of `resume` (an answer and then a run). Its
steps are the accesses to the database: `Load`, `Acquire`, then the saves of a
pass of the loop (`Top`, `Checkpoint`, `Bind`, `Collect`, `Settle`), `Dispatch`
for the worker's invocation and `Leave` for the release in the `finally` clause.
`Save` is the compare-and-swap: it commits when the row has the version of the
call's copy and otherwise raises, which unwinds to `Leave`. `Escape` is any
exception, `Crash` the death of the process at any point, which leaves the lease
to expire. `SweepSelect` and `SweepDelete` are the two halves of
`delete_expired_terminal_workflows`. `Tick` moves the clock that all lease
tests read. `dispatched` is a history variable of worker invocations.

`acquire_execution_lease` reads the time just before it opens its transaction;
the model takes the two as one instant. The iteration bound closes only workflows
that are open, which is what `LoopLimitUnreached` says of the real loop. Creation of the workflow is `Init`.

`ResumeCall` takes the clarification and the version from the row as it is, also
while the run that paused still holds its lease: the safety properties hold for a
caller who reads the store. The callers of the public modes know less.
`AutonomousRuntime` gives out both only in what a call returns (`_project`), which is
after `run` has released the lease in its `finally` clause. `PublicSpec` of
`MCWorkflowStore` is `Spec` restricted to such callers, without exceptions and
deaths of processes: one call creates and runs the workflow, and an answer is sent
(`PublicResumeCall`) once some call has returned the pause at the row's version
(`ReturnedPause`). Several callers may answer the same question.

### TaskGraph and LoopController: the loop on one workflow

`TaskGraph` has the order, the validity, the ready tasks, the descendants and
`apply_graph_patch`, as functions of a graph that maps ids to a status and
dependencies. `LoopController` is `run` and `_recover` for one executor. Each
action ends with a save, so that the variables of the first group are always the
row; `Escape` returns from any place to `idle` and loses what was not saved
(`decision`, the reservation of a worker call). Correspondence:

| code | actions |
|---|---|
| start of `run`, planning | `Run`, `Plan` |
| top of the loop | `Return`, `OutOfTime`, `Complete`, `NothingReady`, `Take`, `TakeReady`, `LoopExhausted` |
| binding | `Bind`, `BindingFails`, `GiveUp` |
| preflight on bound inputs | `Preflight`, `ReviewPrecondition`, `RejectPrecondition`, `Start` |
| the worker | `Dispatch`, `WorkerReturns`, `WorkerFails`, `ReviewFailure` |
| outputs and review | `Register`, `Validate`, `Accept`, `Reject` |
| `_recover` | `RecoverLocally`, `LocalRecoveryFails`, `Replan`, `AskHuman`, `NoRecovery` |
| exceptions | `Overspend`, `Exhausted`, `ComponentFails`, `Escape` |
| `ResumeService.answer` | `Answer` |

The parts that answer the controller (workers, reviewer, replanner, evidence) may
answer anything their types allow: `Reviews` is every verdict with every action
class, `Evaluate` finds any set of codes, the patch is any of a set. What the
code does with the answers is kept: `_enforce_recovery_route` is `EnforcedVerdict`
and `EnforcedAction`, with the differences between the feature profiles of
`config.py`.

Abstractions:

* Data is reduced to what routes the control. A violation is one of two codes,
  `MISSING_CRS` and `repairable` (any computationally resolvable one), and all
  findings are blocking and deterministic.
* `accepted` is the set of tasks with an output that passed, of whichever
  execution, as the binder and the completion test look at outputs. `goal` is the
  tasks that produce the terminal roles: one task for each, and no initial artifact
  fills one.
* The binder fills the required roles of a task from the passed artifacts of its
  parents and from initial artifacts. Which roles there are, and where else they may
  come from, is left open: `inputs` is any subset of the accepted parents
  (`DependencyArtifacts`), the empty one too, and binding may always fail. An edge
  without a required role is thus an edge that binds nothing, as in the code, and a task
  may go on although a parent's output was rejected, when it binds something else.
  Initial artifacts themselves are not in the model. `inputs` is known to the executor
  only and gone when the run ends.
* Local recovery is applicable or not by choice; which kind is taken is not
  distinguished, except that one kind rejects accepted artifacts.
* The text of a clarification is reduced to whether it says "crs", which is what
  `answer` looks at.
* A patch is what the Replanner makes of a proposal (`Normalized` of `TaskGraph`, for
  `_normalize_patch_payload`): an inserted adapter is freed of dependencies on the
  task it repairs for, or put on the producer of the artifact it repairs; a lone
  adapter takes the place of that producer under the task in hand; and no edge
  leads from this task to what was inserted. Which of the inserted tasks are
  adapters, and which artifact is found for each, hangs on roles, formats and
  findings: `Groundings` takes all choices. That gis-aware guidance may keep only
  one of several inserted tasks is left to the choice of the proposal. When the
  artifact is the blocked task's own output, its producer is the blocked task, and
  the adapter depends on its consumer although the comment at `replanner.py:655`
  says "must never": the cycle is found by the validation of the graph and the patch is
  refused, so no property suffers.
* The budget of model calls is only seen as an exception (`Escape`,
  `ComponentFails`). Schema mappings and the status of requirements are left out.
* Profile C2 has the features of C5 in everything the model distinguishes, so the
  runs use C1, C3, C4 and C5.

### QualityControl: the attempts at one task

`LoopController` lets reviewers and recoveries do anything their types allow;
this module is what they do. A task is bound and run (`WorkerSucceeds`,
`WorkerFails`, `PreconditionBlocked`, `BindingFails`), the outcome is reviewed
(`Review`), and a local recovery prepares the next attempt (`Retry`,
`ReviseInvocation`, `RebindWorker`, `AlternativeCandidate`) or is refused
(`RecoveryRefused`, `RecoveryExhausted`). `seen` is what the review looks at.

`Reviews` is `QCComponent.review`: the proposal of the model is arbitrary, and the
rules override it in the order of the code.

| rule | operator |
|---|---|
| an unsafe `assign_crs` is blocked | `AfterUnsafe` |
| a pause or replan that no finding supports is passed (two rules) | `AfterUnsupported` |
| a candidate that a consumer rejects goes back to its producer | `AfterCandidate` |
| a defect of a consumer is left to the consumer | `AfterScope` |
| the task's own findings decide; a failure gets an action | `AfterFailure` |
| a workflow's last task must complete the declared outputs | `AfterGoal` |

`Enforced` is the controller's `_enforce_recovery_route`, which comes last and also
follows the technical review of profile C4 (`TechnicalReview`).

Abstractions: a finding is one of five kinds, by the routes that codes take; the
parameters and instructions of a task are one of two versions, and an edit is the
other; artifacts are numbered by the recovery that they followed. Which findings
there are is arbitrary, within what the profile evaluates. Prompts, grounding
targets, the file names that a rejected candidate adds to the exclusions and the
FAIL mark on its artifact (which `LoopController` has) are left out. Whatever ends
local recovery is a final place here and an action of `LoopController` there.

### TaskService: the task table

A task has a record (`status`, `CLOSED_TASKS`), the thread or generator that
answers for it (`job`), its agent's run and the queue of its stream. Each access
under the lock is one action; a check and the write that follows it are two.
`CancelTask` and `Disconnect` may happen at any point where the code can meet
them. `waiter` is a client that was given the id of a background task and calls
`wait_for_task` (`WaitForTask`, `PollEnds`, `FetchResult`, `WaitFails`), and `told` is what a
caller was given as the result, by the call, by the stream or by the client's
last request. A disconnect raises `GeneratorExit` at a `yield`, which the `except
Exception` handlers do not see. Two assumptions: building the *failed* record
does not raise, and the first item of a stream is pulled while the request is
being answered. A client waits at most once for a task and may give up at any
time; each of its requests sees one state of the record. (CancelTask changes the
stored record in place and a response is built from it after the lock is
released; that a response might mix two states of it is not modelled.) The terminal
status `rejected` that `TERMINAL_STATUSES` names is
not produced by any code and is left out.

### CanvasReview: a workflow that the model rewrites

The canvas holds a JSON workflow, runs it, and sends it with every call; the agent
keeps nothing. `doc` is this document: nodes, connections, and for each node its
status, review status, count of rejections, `text` (its agent and instructions)
and `ran` (the text that produced its output; what it was made from is not kept,
and neither the code nor the model compares the connections of a node that stays).
`approved` and `kept` are history:
the nodes whose present output was judged good, and those that were rejected but
kept as they are (the model's options A, B and C).

| code | definitions |
|---|---|
| the canvas (external) | `CanvasRuns` |
| `run_quality_control`: nothing to review; the attempts used up; no verdict | `QcSkips`, `QcLimit`, `QcFails` |
| a verdict; a rejection without a usable proposal; with one; the last one | `QcApproves`, `QcReruns`, `QcMerges`, `QcReplans` |
| how a proposal is merged into the document | `Altered`, `Below`, `Reset`, `Retained`, `RetainedQc`, `Merge` |
| `run_replan` | `Preserved`, `ClosedPart`, `Replanned`, `ReplanFrom`, `Replan` |

`Below` and `ClosedPart` say as sets what the traversal and the loop of the code
compute, so that no recursion is needed. One call reviews one node; which one is
chosen is arbitrary: the canvas may name it, and without a name the code takes the
first in an order of the document.
The model may propose any of `Suggestions`, also documents with cycles, and may put
nodes back itself. Agent and instructions change together as a text: the code
compares both. Prompts, the inspection scripts, node layout and labels are left
out, and the exchange of agents inside a proposal (`_enforce_local_analysis_routing_on_nodes`)
is a property of the texts that a suggestion may have. The document a call
returns is the one the canvas sends with the next; a canvas that sends an older
one is not modelled.

### PlanRepair: from a request to a workflow

One run of planning mode. `Discover` asks the servers one after the other,
`EndDiscovery` adds single agents or falls back to the cards of this server,
`EvaluateBatch` asks the model about a batch of agents, `Filter` restricts the
catalog, `Propose` is one of three calls for a plan, `Normalize` runs the passes
and `VerifyAgents` is the second call, which corrects the agents of the steps.
`Passes` is the composition of `Repaired`, `Pruned`, `Routed` and `Isolated`, in the
order of `_normalize_plan`, over the steps that `Normalized` makes of the proposal;
`Edges` are the connections of the canvas workflow.

The wording of a step is a task, and the regular expressions of the passes are sets
of tasks; `Preferences` is the table of `_preferred_local_analysis_agent`. A name
is an identifier as the model writes it, and `Normal` its normal form. References
are compared as they were written, as in the code. The model may name any
agents, also unknown ones. A plan may give two steps one identifier; what the
code keeps in a dictionary is the last of them (`IsLast`). Numbers, descriptions,
layout and the temporary plan that the file carries as a fixture are left out.

### ModelCalls: the limiter, the retries and the benchmark

A process is the GAS server, with several threads on one limiter, or the
benchmark, with one. `pc` is where a thread is in a call: the checks of
`RateLimiter.acquire` in their order (`CheckRequests` to `CheckTpm`, `Send`), sleeping,
waiting for the provider, or `back` with a result. The head of a deque is read in
one step and taken off in the next; between any two steps other threads may
run. `Answered`, `Transient` and `Refused` are how the provider answers `create`;
`Raise` is what an exception becomes: inside of `AgentComponentClient.complete` a
retry and in the end a `ValueError`, and otherwise what it was.

The runner of the benchmark goes through `Schedule`: `NextTrajectory` passes over
what has a readable record, the orchestrator or the baseline makes calls and
returns (`Finish`) or raises (`Fail`, `InvalidAttempt`), and the record is written
in two steps (`EndTrajectory`, `Write`), since opening a file empties it. `Restart` is
a process that died at any point, or stopped at its limit of trajectories, and
was started again.

`sent` is the memory of the properties: the ages of the last requests of a process with
one thread, whatever the limiter has dropped of them (`Remember`).

The callers of the server never stop: a thread may start another call whenever one
has ended. `acquire` has no queue, so a thread that sleeps for the slot of an expired
request may find it taken, again and again (`MCModelCallsStarve` shows such a
behaviour). With several threads not even the limit of requests is one: two threads
that see the same expired head take off two entries, the second of which may still be
in the window. Only the length of the deque is bounded (section 4). And a request is what
`acquire` lets through: `openai.OpenAI` is built with its own retries
(`llm_client.py:164`), which pass the limiter by and are not modelled.

Time is counted in ticks and a timestamp is kept as its age; ages beyond the window
are the same. A pass through the checks takes no time, and each check of the length
or the sum is one step, as is the recording of a request. In the benchmark only the
runner calls the model; its workers do not. Configurations C1 to C5 are one, `C1`: they
call through components. The limits by model, the exponential growth of the pauses and the
content of answers and records are left out.

## 3. The runs

| run | question | result |
|---|---|---|
| `store` | three calls, a sweep, escapes, crashes and leases that expire | passes |
| `resume` | when nothing fails, is a stored answer of a public call always followed by a run? | passes |
| `service` | two tasks in all modes, with cancels, exceptions, disconnects and clients that wait: who prevails, and does the table keep what a caller was told? | passes |
| `controller` | the loop on a two-task plan under four profiles: what it takes up, accepts and completes, which transitions it makes, and is a run ever ended by the bound of the loop? | passes |
| `controller_limit` | one task, two patches and a loop bound below the budgets: does every run end, and can an open question be answered when it ends at the bound? | passes |
| `controller_budget` | is the exhaustion of a budget recorded? | violated, finding |
| `recovery` | what can the rules of a review leave undone, let pass, or put to a person, and does a recovery change the attempt? | passes |
| `canvas` | what do repairs and replannings carry over and put back, and do reruns end? | passes |
| `canvas_verified` | was every step reviewed that is reported as verified? | violated, finding |
| `plan` | do the passes over a plan undo what others ensured, and is an agent lost to a failed call? | passes |
| `calls` | two threads on one limiter, or a benchmark with failures and a crash: limits, records, and what can keep a call waiting? | passes |
| `calls_provider` | did a failed trajectory fail for a reason of its own? | violated, finding |

Seven more configurations state what the code says of itself, or what one might expect
of it, and does not hold. They are not among the runs of `PROJECT.json` and are kept for use by hand (section 7):

| configuration | property | what TLC finds |
|---|---|---|
| `MCWorkflowStoreRetention` | `DeletesOnlyTerminal` | the retention helper deletes a paused workflow that an answer reopened between its selection and its deletion |
| `MCTaskServiceFinal` | `FinalStatusIsFinal` | a canceled task goes back to running, and on to another terminal status |
| `MCTaskServiceWait` | `WaitEndsWithResult` | a client polls a canceled status, the thread that had not seen the cancel stores `running` over it, and `wait_for_task`, which should "Poll GetTaskStatus until terminal, then return GetTaskResult" (`client.py:790`), returns the answer that the task is not complete |
| `MCLoopControllerStatus` | `AcceptanceIsReviewed` | a patch sets the status of a task to successful without a review |
| `MCClarification` | `AnsweredCrsIsNotAskedAgain` | an answer about a CRS counts as an assertion only when the question or the reason contains "crs"; the default question does not |
| `MCPlanRepairDag` | `DagStaysDag` | a step whose references name nothing consumes the step before it, which may be one that waits for it: a plan without a cycle becomes a workflow with one |
| `MCModelCallsStarve` | `CallsEnd` | a thread that wakes finds the freed slot taken by the other one, for ever |

### Bounds, and why they are enough

* `store`: three calls so that one can hold the lease, one can have lost it by
  expiry and one can answer or load meanwhile; a lease of one tick and a clock of
  two, so that a lease can expire twice; four commits, enough for a task to be
  taken, started, collected and settled, or refused, paused and answered, with
  other executors going on from any of these. Calls are interchangeable and
  symmetry is used (no liveness here). The proofs remove all of these bounds.
* `resume`: three calls, so that one pauses and two answer, the same question or one
  after the other, and a sweep at any time; enough commits for two pauses with their
  answers. The lease outlasts the clock, since a lease that expires under a run is the
  business of `store`. There is no crash or exception.
* `service`: two tasks, since tasks share only the table, and a queue of two
  events, so that an event may wait behind another when the sentinel comes.
* `controller`: a plan of two tasks, the second on the first, and a third id for
  what patches insert. The patches in `MCLoopController` are the shapes that the
  repair prompts describe: a repair between the two tasks, a replacement, a
  removal, an edge turned round or added again, a reset with and without reuse, each
  normalized in every way. Two worker calls let a task
  run, be recovered or patched, and run again, or both tasks run; one local
  recovery and one patch, in either order. Pauses are not bounded: nothing in the
  code charges them. `MaxIterations` is one more than the sum of the budgets plus
  one; the code's defaults (100 iterations; 30 worker calls, 6 recoveries, 3
  patches) satisfy the same inequality by far. The theorems have no such bounds.
* `controller_limit`: a plan of one task and a task that patches put in front of it,
  drop or reset, with two patches in a row and two worker calls; two passes a run, so
  that the bound ends runs after a review, a patch or a pause, and runs follow each
  other. The exit at the bound overwrites the terminal state of the last pass: a
  paused workflow is then closed with its question open. The stages of `SerialWorkflow`
  do not hold there, and the open question can still be answered. `RunEnds` says here
  that no pass gets stuck. That runs end also where the bound is above the budgets
  follows with `LoopLimitUnreached`, checked in `controller` and proved: the passes of a
  run are fewer than the bound.
* `recovery`: every set of findings, every failure and every proposal. Two workers
  and two recoveries: a recovery can follow one of another kind, the second
  worker can be excluded too, and the last unit of the budget is spent. An
  operation that is neither a retrieval nor an `assign_crs` is reviewed as a
  retrieval without candidate findings, so the run has these two.
* `canvas`, `canvas_verified`: a workflow of two nodes, one on the other, or of a chain
  of three; a third node that a proposal may add after, between or before the two, in
  a cycle, or leave out; two texts, so that a node may be changed and changed
  back; a limit of two attempts (the code's default is three), so that a node is
  rejected, rejected for the last time and found at its limit. A chain of three is the shortest on which a change has to
  travel.
* `plan`: two servers and one described agent, batches of two, so that there are two
  batches of which either may fail; plans of three steps with references
  that are unknown, doubled, forward or to oneself, so that every pass meets a
  step another one has changed. The discovery fails, the selection is any set.
* `calls`, `calls_provider`: two threads, the number at which a deque can change under
  a check; a window of three ticks with two requests, so that a thread waits for
  the spacing and for the window; two attempts, one retry of a component and two
  runs of a trajectory, so that each of the three levels is used up and gone
  through again; two trajectories, one of the baseline and one of the
  orchestrator, with one crash. Tokens bind, too: the tokens
  that one call used and the estimate of the next are the limit. The threads of the
  server call without end.

`CHECK_DEADLOCK FALSE` is set everywhere because calls, tasks and workflows
really end.

### Fairness

Safety runs assume none. `EveryTaskCloses` assumes that the threads of the service
are scheduled (`WF` of `JobStep`) and that the agent's run ends (`WF` of
`AgentEnds`); an agent that never returns is outside of the claim. Cancels,
disconnects and exceptions are not relied on. `RunEnds` assumes weak fairness of
`Advance`, the steps of the executor including the answers of workers and models,
which have timeouts in the code. It relies neither on the wall-clock budget
(`OutOfTime`) nor on an exception (`Escape`): the loop ends because its budgets or
its passes do.

`OnlyOvertakenCallsWait` assumes that time passes (`WF` of `Tick`) and that each thread
goes on with its call (`WF` of `Calls(t)`), which includes the answer of the provider:
the client has a timeout. That threads start calls, stop calling, or that the provider ever
succeeds, is not assumed. It says that a call which never ends is one that other
threads overtake for ever: not the retries, the waits, or what others take off the
deques. That every call ends (`CallsEnd`) is false without a queue. `RerunsAreBounded` needs no fairness: it says that there
cannot be reruns for ever unless something else happens for ever, too.

### What the runs found

Three disagreements between the code and what it says of itself; each is a
`violation` run and an entry of "findings". Those of the configurations above, but for
the last, are of the same kind.

1. The terminal state set by an exhausted budget is lost with the exception.
2. A call that finds nothing to review says that all steps are verified, although a
   replanning marks what it preserves as controlled, and a repair reads a missing
   review status as controlled where the review reads it as not.
3. A provider failure inside of a component of the orchestrator ends as a
   `ValueError` and goes on record as a failed trajectory; the same failure of the
   baseline is retried and recorded as invalid.

The `resume` run has a limit that is worth knowing: an answer is committed before the
lease is taken, so a process that dies, or an exception, between the two leaves the
workflow open, and no public call runs an open workflow.

Two more disagreements were met in `QualityControl`, which no configuration shows yet. The
comment of the epistemic guard (`qc.py:825`) says that the output of an unsafe
`assign_crs` "cannot be accepted"; the rule that leaves a consumer's defect to the
consumer (`qc.py:975`) turns its BLOCK into a PASS. `UnsafeIsHeld` states what is
true: this is the only way. And `last_error` is not cleared by a success, so a
retry of a successful attempt may be authorized by the error of an earlier one,
which the docstring of `local.py` excludes; `AttemptsDiffer` therefore exempts
retries.

## 4. What is proved

Every theorem holds for all values of the constants that satisfy the `ASSUME` of
its module; no bound of the runs remains. Where a theorem needs more, its
`ASSUME ... PROVE` says so.

### The store

`WorkflowStoreProofs` proves, for any set of calls and retention calls, any lease
time and any bounds, from `StoreAssumption` alone (a lease lasts at least a
tick, the owner of an absent lease is not a call):

| theorem | states |
|---|---|
| `TypeCorrect` | the type invariant |
| `Exclusion` | no two calls are in the body of `run` under good leases |
| `WorkIsCurrent` | a call at work under a good lease has the row's version |
| `SingleDispatch` | one worker invocation per version, leases good or not |
| `StoreIsSerial` | the store implements `SerialWorkflow` |

None of the four is inductive alone. `Inv` adds what makes them so:

* `CopyIsPast`: a copy is a version the row has had, with that version's stage.
  With `StageInHand` (a call's place bounds the stage of its copy) this turns a
  successful compare-and-swap into a legal step from the *row's* stage, which is
  all of `StoreIsSerial`.
* `DispatchedIsPast`, `DispatchIsNew`: a version at which a worker is about to be
  invoked is new and belongs to one call, because the commit that made it was
  won by one call.
* `GoodLeaseIsHeld`: an executor whose lease has not expired is the one in the
  lease table. The release of a call that outlived its lease must not break it,
  which is why the owner test of the release is needed.
* `OthersAreBehind`: when one call works under a good lease, the copies of all
  other executors are older than the row, since they loaded before it committed;
  so nobody but the holder can move the row under its feet. An answer cannot
  either, because the row is not paused while a call is at work.

The proof that a step keeps the invariant goes by what a step does to the row:
steps that write reduce to `Save` with a stage that can follow the one in hand
(`WriteSaves`, `SaveMoves`), and the rest leave copies and versions alone
(`Spares`).

### The loop

`LoopControllerProofs` proves, for any plans, patches, codes, profiles and
budgets, from `ControllerAssumption` (ids, graphs and statuses of patches are of
their types, a worker may be called at least once):

| theorem | states | assumes besides |
|---|---|---|
| `TypeCorrect` | the type invariant; nothing is charged past a limit | |
| `CompletionIsSound` | a completed workflow is complete | |
| `AssertionStands` | an asserted CRS is not asked for again | |
| `LoopEndsByReturn` | the iteration bound never ends a run | the bound exceeds the sum of the three budgets plus one |
| `AcceptedStaysUnblocked` | no task is accepted with a blocking violation | `NoStatusUpdates` |
| `WaitingStaysAnswerable` | a task waits exactly as long as its question is open | `NoStatusUpdates` |
| `WorkStaysSupported` | the parents of the task in hand are finished, and what is bound of their outputs is accepted | `NoStatusUpdates` |
| `TransitionsAreLegal` | no step but a patch makes a transition that the table refuses | |
| `LoopIsSerial` | the row moves as `SerialWorkflow` allows it | `NoStatusUpdates`, and the bound exceeds the sum |
| `ReplacementsReachDownstream` | after a patch nothing is finished that depends, directly or not, on an inserted or superseded task (`ReplacedWorkIsRedone`) | |
| `AcceptanceStaysReviewed` | a task becomes successful by a review only | `NoStatusUpdates` |

`NoStatusUpdates` says that no patch updates a status. The code does not forbid
such an update (this is what `MCLoopControllerStatus` shows, and `AcceptanceIsReviewed`
needs no more than this to fail), and with one a patch may make a task
successful, or waiting, or running by fiat. (The normalization strips the status
from the tasks that a patch inserts, not from those that it updates.) The theorems
with this assumption therefore say: status updates are the only way in which
patches break these properties. The runs check the same: the patches of
`controller` set no status.

`Inv` is what the place of the executor says about the saved state:

* `TaskInHand`: the task in hand has the status that the last save of this place
  gave it (`StatusAt`). The properties speak of statuses, the guards of places.
* `StoppedRests`: a terminal state is only seen at the top and outside of a run,
  and an open question belongs to a stopped workflow. So no pass runs on a
  workflow that waits for an answer.
* `PassesArePaid`: `iter` is at most the sum of the charges plus one, and at most
  the sum once the pass at hand has charged its own. Each of the ways back to the
  top (accept, recover, patch) has to be seen to charge a unit that the pass has
  not charged yet; `CallIsReserved` carries the unit of the worker over the call,
  where an exception may come.
* `AssertionIsHeeded`: between the enforced route and the pause that it asks for,
  nobody asserts.
* `AnswerIsDue`, `ReadyIsNext`, `PlanIsNew`: what the legality of a transition needs
  where the place of the executor does not give the status. The open question is
  about the task in hand, which waits for it. The task that the top of the loop
  has made READY is still the one that `ready_task_ids` puts first, so that it is bound
  from READY. And planning, which replaces the graph, happens only when there is
  none. These hold for all patches, also those that set a status, and so does
  `TransitionsAreLegal`.
* `PauseIsKept`: a question keeps its workflow paused, so that the stage after a pause
  is `paused` and not `closed`. It fails when the iteration bound ends a run, which is why
  `LoopIsSerial` assumes the bound to be out of reach; `controller_limit` shows what
  happens otherwise.
* `DepsAreKnown`, `HandIsSupported`: a task that was taken has its parents done, and
  what it is bound to is accepted; the first also holds of a task a dead executor left
  in flight. Patches and the rejection of accepted outputs only happen when the
  task in hand has been rejected or has failed, and leave it in no status that
  needs support; this is the fact that makes the property independent of which
  tasks a patch finds to be stale.

The proof that a step keeps each of them goes action by action. Of `Ordered` two
facts are used: the task taken from it is ready (`IsNext`), and it depends on the
dependencies only, so that a change of status does not reorder the tasks.
`Downstream` is defined as the least set that is closed, not by the traversal of
`downstream_task_ids`, so that `ReplacementsReachDownstream` needs no induction over
chains: what is downstream hangs on the dependencies alone, which the last step of a
patch leaves as they were validated (`DownstreamOfDependencies`), it grows with what was
changed (`DownstreamGrows`), and what a step inserts or supersedes is among what the patch
names (`ReplacedIsAffected`). The theorem says nothing of a task that is only given another
dependency by `add_dependencies` or `remove_dependencies`, or that rests on one which
was reset by name: the code leaves such a task finished. Of the normalization the safety proofs need no more than that it
keeps the ids and statuses of the proposal (`NormalizedIsProposed`): whatever it
makes of the edges, validation and the reset of what is downstream come after it.

### The review

`QualityControlProofs` proves, for any workers, profiles, operations and recovery
budget, from `QualityControlAssumption` (names of profiles and operations, 0 is not a
worker):

| theorem | states |
|---|---|
| `TypeCorrect` | the type invariant; no recovery is charged past the limit |
| `ProblemsAreRouted` | no failure and no blocking finding is left without an action |
| `AcceptanceCoversGoal` | nothing passes that is blocked or lacks declared outputs |
| `PausesHaveCause` | a person is only asked with cause |
| `RecoveryChangesAttempt` | a recovery other than a retry changes the attempt |
| `UnsafeStaysHeld` | an unsafe assignment passes only past a blocked consumer |

The argument follows the rules in their order. `Routed` is what a decision owes to
its case after the last rule: `PauseHasCause` and `ScopeHasCause` are about successes,
which the first four rules decide, `ReviewIsRouted` adds the last two, and
`EnforcedIsRouted` shows that the controller keeps it all. `SeenFits` is needed for
profile C4, whose technical review would pass a blocked task if it were shown one.
`Prepared` is what a recovery leaves behind for `AttemptsDiffer`: the worker of
the attempt before is excluded, or the text or the rejected artifacts differ.

### The task table

`TaskServiceProofs` proves, for any tasks and any queue:

| theorem | states |
|---|---|
| `TypeCorrect` | the type invariant |
| `CancelPrevails` | a background task canceled in time never reports its outcome |
| `RepliesStand` | what a caller or a waiting client was told stays in the table, unless a cancel was overtaken; only a canceled task is ever called incomplete |
| `OutcomesStand` | the success or failure of a background task is never replaced (`OutcomeIsFinal`) |

The invariant is a conjunction over tasks, because every step writes one record
(`OthersKept`). `SendingIsStored` and `ToldAtEnd` tie the reply to the record;
`CancelSeen` says that a cancel that came before the check of the background
thread leaves its mark in `CLOSED_TASKS` even when a later write hides the status,
and that the thread is not past the check. `FinalStays` says which final status can
still be replaced by a job on its way: only that of a cancel that came between the
thread's check and its write (`Overtaken`), and only the write of the running record
makes a final status an open one again. `Waited` follows a client through it: what
it polled, and what it was then given. `OutcomeIsFinal`, as `ReplacedWorkIsRedone` of
the loop, is in no run's configuration; the proof is what stands for it.

### The canvas workflow

`CanvasReviewProofs` proves, for any nodes, texts, start documents, suggestions and
limit, from `CanvasAssumption` (the limit is positive, documents are of their type and
start idle):

| theorem | states |
|---|---|
| `TypeCorrect` | the type invariant; no count passes the limit |
| `OutputsAreFaithful` | no output is carried over to another agent or other instructions, except at a node that was rejected and kept; what it was made from is not compared |
| `PreservationIsClosed` | after a replanning completed nodes consume completed nodes |
| `ChangesReset` | a new node, or a change of agent or instructions, reaches everything below it |

The state properties are inductive together with the type. `Merge` and `Replanned`
are taken apart once, as facts about the nodes that are retained or preserved, and
the steps use only these. What `PreservationIsClosed` and `ChangesReset` need of the
graph is that `ClosedPart` holds the parents of its nodes and that `Below` holds the
consumers of its nodes; both follow from the definitions as a union and as an
intersection of closed sets, without induction over paths. `ChangesReset` also
has to see the step in which one call both merges a proposal and replans.

### Planning

`PlanRepairProofs` proves, for any agents, servers, tasks, batches, proposals and
corrections, from `PlanAssumption`:

| theorem | states |
|---|---|
| `TypeCorrect` | the type invariant: references name steps, agents were selected |
| `AgentsAreRead` | no agent is left out that the model was not asked about |
| `InputIsLeft` | no step that processes data loses its last input |
| `ReprojectionsAreIsolated` | no reprojection is left to another agent that processes data |

There is a lemma for each pass, which says what it keeps of the steps and what it
adds; the properties are then followed through `Passes` in order. `InputIsLeft` rests on
two of these: a pass that exchanges agents takes steps with inputs only, and
pruning never empties a set of inputs. `AgentsAreRead` needs `AskedAreRead`: the
offered agents up to the last batch are selected or were judged.

### The calls

`ModelCallsProofs` proves, for any number of threads, limits, retries, schedule and
crashes, from `CallsAssumption`:

| theorem | states |
|---|---|
| `TypeCorrect` | the type invariant; the deque of requests stays shorter than `max_rpm + n` for `n` threads |
| `TrajectoriesAreAccounted` | a finished benchmark has passed over no trajectory without a record or a finding |
| `AloneKeepsLimits` | a single thread is let through no more often than the limit in every window, and keeps the interval between two requests |

The bound on the deque is `RequestsAreFew` (it is none on the requests of a window, of
which several threads may drop some from the deque too early): the deque and the threads that have passed its
check are together fewer than the limit and the threads. It needs that a thread
which finds the deque full does wait, hence `NoneExpired` (while a thread is past
the first check, the oldest request in the deque has not expired, although other
threads take requests off), hence `Sorted`. `PassedAreAccounted` is the induction
of the runner: what lies before the trajectory at hand is accounted for.

`AloneKeepsLimits` compares the limiter's deque, which forgets, with `sent`, which does
not: the deque is the end of `sent`, and what it has dropped has left the window
(`DequeIsSent`); the time of the last call is the age of the last request
(`SentIsSpaced`); and what the one thread has checked still holds when it acts on it
(`RunnerHasChecked`), which is what fails with a second thread.

### Only model-checked

Every invariant and every action property of a passing run is proved, except for
`RestsOnlyWhenTerminal`. What is left to TLC:

* `RestsOnlyWhenTerminal`, which is about the public calls only (`PublicSpec`) and needs
  the instance of `resume`, in which no lease expires.
* Liveness (`RunEnds`, `EveryTaskCloses`, `OnlyOvertakenCallsWait`, `RerunsAreBounded`): the prover
  does not treat fairness.
* What the recursive function `Sorted` returns for every graph: this would need
  induction over data. No module declares a RECURSIVE operator.

## 5. What is not modelled

* `append_event` of the store, which nothing calls, and the schema set-up.
* File inspection, geospatial computation, prompts, response wording, the canvas
  projection of the orchestrator's workflow, layout, offline evaluation: no state
  that the workflow or its callers read back.
* The execute mode of the orchestrator agent, but for what it starts: it is a call of
  the runtime.
* Initial artifacts of a workflow, and the roles by which the binder matches artifacts.
* Whether a node of the canvas that is only rewired should run again: the code does
  not compare connections, and no property asks for it.
* The retries that the SDK of the provider makes by itself, past the limiter.
* The limit on tokens has no property: tokens are recorded when a call has ended,
  and a call may use more than its estimate, so the code gives no bound.
* The client libraries but for `wait_for_task` of the Python client: they encode requests
  and show answers.
* Service registry and proxy: built once, forward a call.

## 6. Plan

In order:

1. *Task graph*: the operators of a patch against a reference definition over all
   small graphs and patches.
2. *Evidence and violations*: the life cycle of a violation across evaluations,
   patches and resumes, and which findings a task can have at its review.
3. *Local recovery*: the error classes behind `last_error`, and configurations for
   the two disagreements of section 3 that have none.
4. *Planner and replanner*: the correction rounds and their charges, the
   normalization of a plan.
5. *Binder and executor*: the choice of a worker, and the retries and timeouts of
   the HTTP transport against the task service.
6. *Composition*: several executors of `LoopController` over the store, showing
   that the abstraction to stages loses nothing.

Theorems planned: that a terminal record of the task service is in `CLOSED_TASKS`
whenever its job is over; what `Candidate` and `Patched` keep of a graph, as lemmas of
`TaskGraph` on their own; and for the composition that an executor's saves are those
that `WorkflowStore` allows.

## 7. Running

    tlc -workers 2 -config MCWorkflowStore.cfg MCWorkflowStore
    tlapm WorkflowStoreProofs.tla
    tlapm LoopControllerProofs.tla
    tlapm QualityControlProofs.tla
    tlapm TaskServiceProofs.tla
    tlapm CanvasReviewProofs.tla
    tlapm PlanRepairProofs.tla
    tlapm ModelCallsProofs.tla

Every `.cfg` is run with the MC module whose name it starts with (`MCPlanRepairDag.cfg`
with `MCPlanRepair`, for example).
