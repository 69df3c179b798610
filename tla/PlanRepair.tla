----------------------------- MODULE PlanRepair -----------------------------
(***************************************************************************)
(* The planning mode of the orchestrator agent (run and _normalize_plan of *)
(* autonmous_gis_orchestrator.py): agents are discovered and selected in   *)
(* batches, the model proposes a plan, passes over the plan repair what it *)
(* depends on and who works on it, a second call of the model corrects the *)
(* agents, and the plan becomes the workflow of the canvas.                *)
(*                                                                         *)
(* The wording of a step is a task; which patterns match it is given by    *)
(* sets of tasks.  A name is a step identifier as the model writes it, and *)
(* Normal its lower-case form without special characters.  A plan's steps  *)
(* come in the order of their numbers.                                     *)
(***************************************************************************)
EXTENDS Naturals, SequencesExt

CONSTANTS
  Names, Ids, Normal,        \* [Names -> Ids], the identity on Ids
  Tasks,
  Analytic,                  \* tasks that match _LOCAL_ANALYSIS_PATTERNS
  OnProvided,                \* tasks about input that exists
  Reprojecting,              \* _is_primary_crs_reprojection_task
  Reporting, ReadsReports,   \* tasks that produce, or ask for, a report
  Agents, NoAgent,
  Retrieval,                 \* agents that need no input datasets
  Domain,                    \* _DOMAIN_RETRIEVAL_AGENT_IDS
  Inspector, Projection,     \* the agents that the passes name
  Preferences,               \* [Tasks -> Seq(Agents)]
  Sources,                   \* the lists of agents that the servers offer
  Described,                 \* the agents of DescribeAgent addresses
  Local,                     \* the capability cards of this server
  BatchSize,
  Proposals,                 \* the plans the model may propose
  Corrections                \* what the second call may say of the steps

Kept == "kept"

Proposal ==
  [steps : Seq([name : Names, task : Tasks, agent : Agents \cup {NoAgent},
                refs : SUBSET Names]),
   unmatched : SUBSET Ids]

ASSUME PlanAssumption ==
  /\ Ids \subseteq Names
  /\ Normal \in [Names -> Ids]
  /\ \A i \in Ids : Normal[i] = i
  /\ Analytic \cup OnProvided \cup Reprojecting \cup Reporting
       \cup ReadsReports \subseteq Tasks
  /\ NoAgent \notin Agents
  /\ Retrieval \cup Domain \subseteq Agents
  /\ Preferences \in [Tasks -> Seq(Agents)]
  /\ Sources \in Seq(Seq(Agents))
  /\ {Described, Local} \subseteq Seq(Agents)
  /\ BatchSize \in Nat \ {0}
  /\ Proposals \subseteq Proposal
  /\ Corrections \subseteq [Ids -> Agents \cup {NoAgent, Kept}]

VARIABLES
  stage,     \* what the run does next
  source,    \* how many servers were asked for their agents
  offered,   \* the agents of the catalogs, in order
  asked,     \* how many of them the model was asked about
  attempt,   \* calls of the planning model so far
  selected,  \* selected_ids, then the agents of filtered_catalogs
  plan,      \* the proposal, as the model wrote it
  steps,     \* workflow_steps
  unmatched, \* unmatched_steps, by step
  judged     \* history: the agents about which the model gave an answer

vars == <<stage, source, offered, asked, attempt, selected, plan, steps, unmatched, judged>>

NoPlan == [steps |-> <<>>, unmatched |-> {}]

TypeOK ==
  /\ stage \in {"discover", "select", "propose", "repair", "verify", "done", "failed"}
  /\ source \in 0 .. Len(Sources)
  /\ offered \in Seq(Agents)
  /\ asked \in 0 .. Len(offered)
  /\ attempt \in 0 .. 3
  /\ selected \subseteq Agents
  /\ plan \in Proposal
  /\ DOMAIN steps \in {{}, DOMAIN plan.steps}
  /\ \A i \in DOMAIN steps :
       /\ steps[i].id \in Ids
       /\ steps[i].agent \in selected \cup {NoAgent}
       /\ steps[i].deps \subseteq {steps[j].id : j \in DOMAIN steps}
  /\ unmatched \subseteq Ids
  /\ judged \subseteq ToSet(offered)
-----------------------------------------------------------------------------
(* The passes over the steps *)

Known(s) == {s[i].id : i \in DOMAIN s}

\* A dictionary of the steps by identifier keeps the last of two.
IsLast(s, i) == \A j \in DOMAIN s : j > i => s[j].id # s[i].id

Normalized(p) ==
  [i \in DOMAIN p.steps |->
     LET step == p.steps[i]
     IN [id |-> Normal[step.name], task |-> step.task,
         agent |-> IF step.agent \in selected THEN step.agent ELSE NoAgent,
         deps |-> step.refs]]

Unstaffed(s) == {s[i].id : i \in {j \in DOMAIN s : s[j].agent = NoAgent}}

\* A retrieval agent works on no input, except a domain agent that is told to
\* analyse what it is given.
Retrieves(step) ==
  /\ step.agent \in Retrieval
  /\ ~(step.agent \in Domain /\ step.task \in Analytic \cap OnProvided)

\* Mutant: references are taken as they are.
AnyRefs(s, step) == step.deps

ValidRefs(s, step) == step.deps \cap Known(s)

\* References that name no step by its identifier are dropped, and what is
\* left without one consumes the step before it.
Repaired(s) ==
  [i \in DOMAIN s |->
     LET valid == ValidRefs(s, s[i])
     IN [s[i] EXCEPT !.deps =
           IF Retrieves(s[i]) THEN {}
           ELSE IF valid = {} /\ i > 1 THEN {s[i - 1].id}
           ELSE valid]]

Reports(step) == step.agent = Inspector \/ step.task \in Reporting

\* Mutant: a step may lose its last input.
PrunedBare(s) ==
  LET reports == {s[i].id : i \in {j \in DOMAIN s : IsLast(s, j) /\ Reports(s[j])}}
  IN [i \in DOMAIN s |->
        IF s[i].task \in ReadsReports THEN s[i]
        ELSE [s[i] EXCEPT !.deps = s[i].deps \ reports]]

\* Reports are no data: they are not consumed, where there is other input.
Pruned(s) ==
  LET reports == {s[i].id : i \in {j \in DOMAIN s : IsLast(s, j) /\ Reports(s[j])}}
  IN [i \in DOMAIN s |->
        IF s[i].task \in ReadsReports \/ s[i].deps \subseteq reports
        THEN s[i]
        ELSE [s[i] EXCEPT !.deps = s[i].deps \ reports]]

Preferred(task) ==
  LET list == Preferences[task]
      there == {k \in DOMAIN list : list[k] \in selected}
  IN IF there = {} THEN NoAgent ELSE list[Min(there)]

\* Analysis of what other steps produced is taken from the domain agents.
Routed(s) ==
  [i \in DOMAIN s |->
     IF /\ s[i].agent \in Domain
        /\ s[i].deps # {}
        /\ s[i].task \in Analytic
        /\ Preferred(s[i].task) # NoAgent
     THEN [s[i] EXCEPT !.agent = Preferred(s[i].task)]
     ELSE s[i]]

\* Reprojection belongs to the projection agent, when there is one.
Isolated(s) ==
  [i \in DOMAIN s |->
     IF /\ Projection \in selected
        /\ s[i].agent \notin Retrieval \cup {NoAgent}
        /\ s[i].task \in Reprojecting
     THEN [s[i] EXCEPT !.agent = Projection]
     ELSE s[i]]

\* Mutant: the projection is assigned before the analysis is routed.
IsolatedFirst(s) == Routed(Isolated(Pruned(Repaired(s))))

Passes(s) == Isolated(Routed(Pruned(Repaired(s))))

\* The second call may give a step any agent of the catalog, or none.
Corrected(s, c) ==
  [i \in DOMAIN s |->
     IF IsLast(s, i) /\ c[s[i].id] \in selected \cup {NoAgent}
     THEN [s[i] EXCEPT !.agent = c[s[i].id]]
     ELSE s[i]]

Recorded(s) == unmatched \cup Unstaffed(s)

-----------------------------------------------------------------------------
(* The run *)

Init ==
  /\ stage = "discover"
  /\ source = 0
  /\ offered = <<>>
  /\ asked = 0
  /\ attempt = 0
  /\ selected = {}
  /\ plan = NoPlan
  /\ steps = <<>>
  /\ unmatched = {}
  /\ judged = {}

\* A server that does not answer adds no agents.
Discover ==
  /\ stage = "discover"
  /\ source < Len(Sources)
  /\ source' = source + 1
  /\ offered' \in {offered, offered \o Sources[source + 1]}
  /\ UNCHANGED <<stage, asked, attempt, selected, plan, steps, unmatched, judged>>

\* An agent whose description cannot be read is offered without one.  The
\* capability cards of this server count only if no source was named, and must
\* not be empty then.
EndDiscovery ==
  /\ stage = "discover"
  /\ source = Len(Sources)
  /\ IF Sources = <<>> /\ Described = <<>>
     THEN offered' = Local /\ stage' = IF Local = <<>> THEN "failed" ELSE "select"
     ELSE offered' = offered \o Described /\ stage' = "select"
  /\ UNCHANGED <<source, asked, attempt, selected, plan, steps, unmatched, judged>>

Batch == ToSet(SubSeq(offered, asked + 1, Min({asked + BatchSize, Len(offered)})))

\* Mutant: a batch whose evaluation failed is left out.
DroppedBatch == {}

\* When the model does not answer, the whole batch stays in.
FailSafe == Batch

\* What the model names need not be agents of the batch, or agents at all; the
\* catalog is filtered only when it named something.
EvaluateBatch ==
  /\ stage = "select"
  /\ asked < Len(offered)
  /\ asked' = Min({asked + BatchSize, Len(offered)})
  /\ \/ /\ \E S \in SUBSET Agents : selected' = selected \cup S
        /\ judged' = judged \cup Batch
     \/ /\ selected' = selected \cup FailSafe
        /\ UNCHANGED judged
  /\ UNCHANGED <<stage, source, offered, attempt, plan, steps, unmatched>>

Filter ==
  /\ stage = "select"
  /\ asked = Len(offered)
  /\ selected' = IF selected = {} THEN ToSet(offered)
                  ELSE selected \cap ToSet(offered)
  /\ stage' = "propose"
  /\ UNCHANGED <<source, offered, asked, attempt, plan, steps, unmatched, judged>>

Propose ==
  /\ stage = "propose"
  /\ attempt < 3
  /\ attempt' = attempt + 1
  /\ \/ \E p \in Proposals : plan' = p /\ stage' = "repair"
     \/ UNCHANGED <<plan, stage>>
  /\ UNCHANGED <<source, offered, asked, selected, steps, unmatched, judged>>

NoValidPlan ==
  /\ stage = "propose"
  /\ attempt = 3
  /\ stage' = "failed"
  /\ UNCHANGED <<source, offered, asked, attempt, selected, plan, steps, unmatched, judged>>

Normalize ==
  /\ stage = "repair"
  /\ steps' = Passes(Normalized(plan))
  /\ unmatched' = plan.unmatched \cup Unstaffed(Normalized(plan))
  /\ stage' = "verify"
  /\ UNCHANGED <<source, offered, asked, attempt, selected, plan, judged>>

\* The second call: nothing is asked without steps or agents, and a failed call
\* keeps the assignments.
VerifyAgents ==
  /\ stage = "verify"
  /\ \/ UNCHANGED steps
     \/ /\ selected # {}
        /\ \E c \in Corrections : steps' = Corrected(steps, c)
  /\ unmatched' = Recorded(steps')
  /\ stage' = "done"
  /\ UNCHANGED <<source, offered, asked, attempt, selected, plan, judged>>

Next ==
  \/ Discover \/ EndDiscovery \/ EvaluateBatch \/ Filter
  \/ Propose \/ NoValidPlan
  \/ Normalize \/ VerifyAgents

Spec == Init /\ [][Next]_vars

\* The connections of the canvas workflow.
Edges == UNION {{<<d, steps[i].id>> : d \in steps[i].deps} : i \in DOMAIN steps}

-----------------------------------------------------------------------------
(* Properties *)

\* An agent that was discovered is missing among the candidates only if the
\* model was asked about it and answered: neither a failed call nor an empty
\* selection leaves the planning without it (the fail-safe of
\* _explore_and_select_relevant_agents and the filter in run).
NothingIsDroppedUnread ==
  stage \in {"propose", "repair", "verify", "done"} =>
    ToSet(offered) \ selected \subseteq judged

\* After the passes every step but the first that works on data has some: what
\* the first pass infers is not taken away by the pruning of reports, and no
\* agent that is exchanged later turns a step without inputs into one that
\* needs them.
ProcessingHasInput ==
  stage = "verify" =>
    \A i \in DOMAIN steps :
      i > 1 /\ steps[i].agent \notin Retrieval => steps[i].deps # {}

\* With a projection agent at hand, no reprojection is left to an agent that
\* processes data, also where the pass before gave the step to another agent
\* ("CRS reprojection is the exclusive responsibility of
\* map_projection_agent", _enforce_crs_isolation).
ReprojectionIsIsolated ==
  stage = "verify" /\ Projection \in selected =>
    \A i \in DOMAIN steps :
      steps[i].task \in Reprojecting =>
        steps[i].agent \in Retrieval \cup {Projection, NoAgent}

Acyclic(edges) ==
  \A S \in SUBSET Ids : S # {} =>
    \E n \in S : \A m \in S : <<m, n>> \notin edges

Declared ==
  UNION {{<<r, Normal[plan.steps[i].name]>> : r \in plan.steps[i].refs \cap Ids} :
           i \in DOMAIN plan.steps}

\* "Validate agent IDs, set defaults, and repair DAG dependencies."
\* (_normalize_plan): a plan of different steps without a cycle becomes a
\* workflow without one.
DagStaysDag ==
  /\ stage = "done"
  /\ \A i \in DOMAIN steps : IsLast(steps, i)
  /\ Acyclic(Declared)
  => Acyclic(Edges)
=============================================================================
