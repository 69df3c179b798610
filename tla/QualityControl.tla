--------------------------- MODULE QualityControl ---------------------------
(***************************************************************************)
(* The attempts at one task: it is bound and run, what comes of it is      *)
(* reviewed (components/qc.py, components/technical.py), the controller    *)
(* enforces a route of its own, and LocalRecoveryManager prepares the next *)
(* attempt, until the task is accepted or its recovery is no longer local. *)
(* What happens then, and to other tasks, is the matter of LoopController. *)
(***************************************************************************)
EXTENDS Naturals, Sequences

CONSTANTS
  Profiles,              \* the feature profiles of config.py that are run
  Operations,            \* of the task: "retrieval", "assign_crs" or "other"
  Workers,               \* ids of the capable workers; Binder takes the least
  MaxLocalRecoveries     \* ExecutionBudget.max_local_recoveries

ASSUME QualityControlAssumption ==
  /\ Profiles \subseteq {"C1", "C2", "C3", "C4", "C5"}
  /\ Operations \subseteq {"retrieval", "assign_crs", "other"}
  /\ Workers \subseteq Nat \ {0}
  /\ MaxLocalRecoveries \in Nat

VARIABLES
  profile, operation,    \* fixed for the task
  agent,                 \* the worker of the active binding, 0 for none
  excluded,              \* metadata.excluded_agent_ids
  text,                  \* parameters and instructions: one of two versions
  rejected,              \* parameters.exclude_artifact_ids
  lastError,             \* last_error, as far as it is retryable
  spent,                 \* local recoveries charged
  seen,                  \* what there is to review
  decision,              \* the QCDecision on it, as enforced
  before,                \* the attempt that was recovered last, and how it was
  pc

vars == <<profile, operation, agent, excluded, text, rejected, lastError, spent,
          seen, decision, before, pc>>

-----------------------------------------------------------------------------
(* Types *)

\* An input artifact is 0, the output after n recoveries is n + 1.
Artifacts == 0..(MaxLocalRecoveries + 1)
Output == spent + 1

\* Codes of violations by their route: _ALTERNATIVE_RETRIEVAL_CODES, those of
\* the schema, others that are computationally resolvable, and the rest.
Codes == {"MISSING_CRS", "candidate", "schema", "structural", "unresolvable"}
Resolvable == {"candidate", "schema", "structural"}

\* LocalRecoveryManager.ALLOWED
Recoveries == {"retry", "revise_invocation", "rebind_worker", "alternative_candidate"}

Nothing ==
  [result |-> "none", own |-> {}, down |-> {}, about |-> {}, unsafe |-> "none",
   grounded |-> FALSE, asserted |-> FALSE, missing |-> FALSE, lacks |-> FALSE]

\* edits: the parameters and instructions of the decision change the task's;
\* rejects: the artifact ids that it names.
Decided(verdict, action, types) ==
  [verdict |-> verdict, action |-> action, types |-> types,
   edits |-> FALSE, rejects |-> {}]

Pass == Decided("PASS", "NONE", <<>>)

Block(action) == Decided("BLOCK", action, <<>>)

Recover(types) == Decided("BLOCK", "LOCAL_RECOVERY", types)

\* What a local recovery can change about an attempt.
Invocation == <<agent, text, rejected>>

\* Where a task is no longer recovered locally, and why.
Final ==
  {"accepted", "replan", "human", "no action", "no replanner", "no recovery",
   "no budget", "no worker"}

\* Type invariant: the task, its review and the budget (TaskState, QCDecision,
\* ExecutionBudget).
TypeOK ==
  /\ profile \in Profiles /\ operation \in Operations
  /\ agent \in Workers \cup {0} /\ excluded \subseteq Workers
  /\ text \in 0..1 /\ rejected \subseteq Artifacts
  /\ lastError \in {"none", "permanent", "retryable"}
  /\ spent \in 0..MaxLocalRecoveries
  /\ seen.own \subseteq Codes /\ seen.about \subseteq Artifacts
  /\ decision.types \in Seq(Recoveries) /\ decision.rejects \subseteq Artifacts
  /\ pc \in {"ready", "review", "recover"} \cup Final

\* config.py, for the profiles C1 to C5
Structural == profile # "C3"
FindingRouting == profile \notin {"C1", "C4"}
SemanticQC == profile # "C4"
GisAware == profile \notin {"C1", "C4"}

-----------------------------------------------------------------------------
(* Mutated forms: what a plausible slip in the code would do instead. *)

\* a worker failure keeps the action that the model gave it
FailureUnrouted(c, d) ==
  IF c.own # {} THEN [d EXCEPT !.verdict = "BLOCK"] ELSE d

\* the declared outputs of a terminal candidate are not looked at
GoalUnguarded(c, d) == d

\* the reviewer is trusted with an unsafe assignment
UnsafeTrusted(c, d) == d

\* a pause that no finding supports is kept
UnsupportedKept(c, d) == d

\* a recovery need not differ from what was there before
NeedNotChange(changed) == TRUE

\* the last unit of the budget is spent twice
OneTooMany == spent <= MaxLocalRecoveries

-----------------------------------------------------------------------------
(* QCComponent.review: c is the case, d the decision so far.  Each rule    *)
(* overrides what the model and the rules before it have said.             *)

Succeeded(c) == c.result = "successful"

OnlyIf(condition) == IF condition THEN BOOLEAN ELSE {FALSE}

\* The proposal of the model: any verdict, action class, recovery types (here
\* one, and a retry after it) and parameters: new ids to reject, or known ones.
ProposedTypes ==
  {<<>>} \cup {<<r>> : r \in Recoveries} \cup {<<r, "retry">> : r \in Recoveries \ {"retry"}}

Leads(types, recovery) == types # <<>> /\ types[1] = recovery

Proposal(verdict, types, edits, rejects) ==
  [verdict |-> verdict, action |-> "LOCAL_RECOVERY", types |-> types,
   edits |-> edits, rejects |-> rejects]

LocalProposals(types) ==
  {Proposal(v, types, e, r) :
     v \in {"PASS", "BLOCK"}, e \in OnlyIf(Leads(types, "revise_invocation")),
     r \in IF Leads(types, "alternative_candidate") THEN {{}, {Output}, rejected} ELSE {{}}}

Proposals ==
  {Decided(v, a, <<>>) : v \in {"PASS", "BLOCK"},
     a \in {"NONE", "STRUCTURAL_REPLAN", "HUMAN_CLARIFICATION"}}
  \cup UNION {LocalProposals(types) : types \in ProposedTypes}

\* _deterministic_recovery, where the task itself has blocking findings; profile
\* C1, whose QC is generic, has no findings to come here with.
DeterministicRecovery(c) ==
  CASE ~GisAware ->
         Block(IF c.own \subseteq Resolvable THEN "STRUCTURAL_REPLAN"
               ELSE "HUMAN_CLARIFICATION")
    [] GisAware /\ "MISSING_CRS" \in c.own -> Block("HUMAN_CLARIFICATION")
    [] GisAware /\ c.own = {"candidate"} ->
         [Recover(<<"alternative_candidate">>) EXCEPT !.rejects = c.about]
    [] GisAware /\ c.own = {"schema"} /\ c.grounded ->
         [Recover(<<"revise_invocation">>) EXCEPT !.edits = TRUE]
    [] OTHER ->
         Block(IF c.own \cap Resolvable # {} THEN "STRUCTURAL_REPLAN"
               ELSE "HUMAN_CLARIFICATION")

\* _worker_failure_recovery
WorkerFailureRecovery(c) ==
  Recover(<<IF c.result = "unavailable" THEN "rebind_worker" ELSE "revise_invocation",
            "retry">>)

Pauses(d) ==
  d.verdict = "BLOCK" /\ d.action \in {"HUMAN_CLARIFICATION", "STRUCTURAL_REPLAN"}

\* The epistemic CRS guard
AfterUnsafe(c, d) ==
  CASE c.unsafe = "none" -> d
    [] c.unsafe = "relabel" -> Block("STRUCTURAL_REPLAN")
    [] c.unsafe = "unknown" -> Block("HUMAN_CLARIFICATION")

\* A pause or a replan that no finding supports is not made.  The rule for an
\* assertion that the output shows, before the guard, is a case of this one.
AfterUnsupported(c, d) ==
  IF Pauses(d) /\ Succeeded(c) /\ c.own = {} /\ c.down = {} /\ c.unsafe = "none"
  THEN Pass ELSE d

\* _producer_candidate_blockers
ProducerBlocked(c) == operation = "retrieval" /\ "candidate" \in c.down

AfterCandidate(c, d) ==
  IF Succeeded(c) /\ c.own = {} /\ ProducerBlocked(c)
  THEN [Recover(<<"alternative_candidate">>) EXCEPT !.rejects = {Output}] ELSE d

\* A defect of a consumer is left to the consumer.
AfterScope(c, d) ==
  IF d.verdict = "BLOCK" /\ Succeeded(c) /\ c.own = {} /\ c.down # {} /\ ~ProducerBlocked(c)
  THEN Pass ELSE d

\* The task's own blockers decide; a failure is not left without an action.
AfterFailure(c, d) ==
  IF c.own # {} THEN DeterministicRecovery(c)
  ELSE IF ~Succeeded(c) /\ d.action = "NONE" THEN WorkerFailureRecovery(c)
  ELSE d

\* The false-completion guard
AfterGoal(c, d) ==
  IF c.missing /\ d.verdict = "PASS" THEN Block("STRUCTURAL_REPLAN") ELSE d

\* review: what can come of the proposals, rule by rule
Reviews(c) ==
  LET guarded == {AfterUnsafe(c, p) : p \in Proposals}
      supported == {AfterUnsupported(c, d) : d \in guarded}
      routed == {AfterCandidate(c, d) : d \in supported}
      scoped == {AfterScope(c, d) : d \in routed}
      forced == {AfterFailure(c, d) : d \in scoped}
  IN {AfterGoal(c, d) : d \in forced}

\* TechnicalTransitionReviewer.review, and the controller's own decision where
\* there is no QC component to review a failure
TechnicalReview(c) ==
  IF ~Succeeded(c) THEN Block("STRUCTURAL_REPLAN")
  ELSE IF c.lacks THEN Recover(<<"revise_invocation", "retry">>)
  ELSE Pass

\* _enforce_recovery_route of the controller
Enforced(c, d) ==
  LET blocked == d.verdict = "BLOCK" \/ c.own # {}
      action ==
        CASE ~blocked -> d.action
          [] blocked /\ "MISSING_CRS" \in c.own /\ c.asserted /\ Structural ->
               "STRUCTURAL_REPLAN"
          [] blocked /\ "MISSING_CRS" \in c.own /\ ~(c.asserted /\ Structural)
               /\ d.action = "NONE" -> "HUMAN_CLARIFICATION"
          [] OTHER -> IF Structural /\ c.own \cap Resolvable # {}
                      THEN "STRUCTURAL_REPLAN" ELSE d.action
  IN [d EXCEPT !.verdict = IF blocked THEN "BLOCK" ELSE "PASS", !.action = action]

Decisions(c) ==
  IF SemanticQC THEN {Enforced(c, d) : d \in Reviews(c)}
  ELSE {Enforced(c, TechnicalReview(c))}

-----------------------------------------------------------------------------
(* An attempt *)

Binds ==
  /\ pc = "ready"
  /\ \E least \in Workers \ excluded :
       /\ \A w \in Workers \ excluded : least <= w
       /\ agent' = least
  /\ pc' = "review"
  /\ UNCHANGED <<profile, operation, excluded, text, rejected, spent, decision, before>>

\* The findings on the task's consumers, the artifacts that candidate findings of
\* the task are about, and what the guard of assign_crs finds.
Downstream == IF FindingRouting THEN SUBSET {"candidate", "elsewhere"} ELSE {{}}

Abouts(result, own) ==
  IF own # {"candidate"} THEN {{}}
  ELSE IF result = "successful" THEN SUBSET {0, Output} \ {{}} ELSE {{0}}

Assignments ==
  IF GisAware /\ operation = "assign_crs" THEN {"none", "relabel", "unknown"} ELSE {"none"}

\* What there is to review: of what the rules ask besides, only where they do.
Sees(result, own) ==
  \E down \in Downstream, about \in Abouts(result, own), unsafe \in Assignments,
     grounded \in OnlyIf(own = {"schema"}), asserted \in OnlyIf("MISSING_CRS" \in own) :
    /\ "candidate" \in down => result = "successful"
    /\ \E missing \in OnlyIf(SemanticQC /\ down = {}), lacks \in OnlyIf(~SemanticQC) :
         seen' = [result |-> result, own |-> own, down |-> down, about |-> about,
                  unsafe |-> unsafe, grounded |-> grounded, asserted |-> asserted,
                  missing |-> missing, lacks |-> lacks]

Findings == IF FindingRouting THEN SUBSET Codes ELSE {{}}

\* The bound inputs do not meet a precondition.
PreconditionBlocked ==
  /\ Binds
  /\ \E own \in Findings \ {{}} : Sees("precondition_blocked", own)
  /\ UNCHANGED lastError

WorkerSucceeds ==
  /\ Binds
  /\ \E own \in Findings : Sees("successful", own)
  /\ UNCHANGED lastError

\* The executor keeps the error with the task.
WorkerFails ==
  /\ Binds
  /\ \E result \in {"unavailable", "failed"}, own \in Findings : Sees(result, own)
  /\ lastError' \in {"permanent", "retryable"}

\* No worker is left, or an input that was rejected has no replacement.
BindingFails ==
  /\ pc = "ready"
  /\ pc' = "no worker"
  /\ UNCHANGED <<profile, operation, agent, excluded, text, rejected, lastError, spent,
                 seen, decision, before>>

Review ==
  /\ pc = "review"
  /\ \E d \in Decisions(seen) :
       /\ decision' = d
       /\ pc' = CASE Succeeded(seen) /\ d.verdict = "PASS" -> "accepted"
                  [] OTHER ->
                       CASE d.action = "LOCAL_RECOVERY" -> "recover"
                         [] d.action = "STRUCTURAL_REPLAN" ->
                              IF Structural THEN "replan" ELSE "no replanner"
                         [] d.action = "HUMAN_CLARIFICATION" -> "human"
                         [] d.action = "NONE" -> "no action"
  /\ UNCHANGED <<profile, operation, agent, excluded, text, rejected, lastError, spent,
                 seen, before>>

-----------------------------------------------------------------------------
(* LocalRecoveryManager.apply *)

\* _is_applicable
Applicable(recovery) ==
  CASE recovery = "retry" -> lastError = "retryable"
    [] recovery = "revise_invocation" -> decision.edits
    [] recovery = "rebind_worker" -> agent # 0
    [] recovery = "alternative_candidate" -> decision.rejects # {}

\* The types of the decision, with a retry as the fallback of a revision.
Authorized ==
  LET types == decision.types
      has(r) == \E i \in DOMAIN types : types[i] = r
  IN IF has("revise_invocation") /\ ~has("retry") /\ lastError = "retryable"
     THEN Append(types, "retry") ELSE types

Usable == {i \in DOMAIN Authorized : Applicable(Authorized[i])}

\* _choose_recovery: the first that is applicable
Chosen(recovery) ==
  \E i \in Usable : Authorized[i] = recovery /\ \A j \in Usable : i <= j

HasBudget == spent < MaxLocalRecoveries

RecoveryRefused ==
  /\ pc = "recover"
  /\ Usable = {}
  /\ pc' = "no recovery"
  /\ UNCHANGED <<profile, operation, agent, excluded, text, rejected, lastError, spent,
                 seen, decision, before>>

RecoveryExhausted ==
  /\ pc = "recover"
  /\ Usable # {}
  /\ ~HasBudget
  /\ pc' = "no budget"
  /\ UNCHANGED <<profile, operation, agent, excluded, text, rejected, lastError, spent,
                 seen, decision, before>>

\* The recovery is charged, whether or not it changes anything.
Reserves(recovery) ==
  /\ pc = "recover"
  /\ Chosen(recovery)
  /\ HasBudget
  /\ spent' = spent + 1
  /\ before' = [call |-> Invocation, by |-> recovery]
  /\ seen' = Nothing
  /\ decision' = Pass
  /\ UNCHANGED <<profile, operation, lastError>>

Retry ==
  /\ Reserves("retry")
  /\ pc' = "ready"
  /\ UNCHANGED <<agent, excluded, text, rejected>>

ReviseInvocation ==
  /\ Reserves("revise_invocation")
  /\ text' = 1 - text
  /\ pc' = "ready"
  /\ UNCHANGED <<agent, excluded, rejected>>

RebindWorker ==
  /\ Reserves("rebind_worker")
  /\ excluded' = excluded \cup {agent}
  /\ agent' = 0
  /\ pc' = "ready"
  /\ UNCHANGED <<text, rejected>>

\* before == after
MadeChange(changed) == changed

\* goal: a recovery_goal that the instructions do not contain yet
AlternativeCandidate ==
  /\ Reserves("alternative_candidate")
  /\ rejected' = rejected \cup decision.rejects
  /\ \E goal \in BOOLEAN :
       /\ text' = IF goal THEN 1 - text ELSE text
       /\ pc' = IF MadeChange(goal \/ rejected' # rejected) THEN "ready" ELSE "no recovery"
  /\ UNCHANGED <<agent, excluded>>

-----------------------------------------------------------------------------
(* Specification *)

Init ==
  /\ profile \in Profiles /\ operation \in Operations
  /\ agent = 0 /\ excluded = {} /\ text = 0 /\ rejected = {}
  /\ lastError = "none" /\ spent = 0
  /\ seen = Nothing /\ decision = Pass
  /\ before = [call |-> <<>>, by |-> "none"]
  /\ pc = "ready"

Next ==
  \/ PreconditionBlocked \/ WorkerSucceeds \/ WorkerFails \/ BindingFails
  \/ Review
  \/ RecoveryRefused \/ RecoveryExhausted
  \/ Retry \/ ReviseInvocation \/ RebindWorker \/ AlternativeCandidate

Spec == Init /\ [][Next]_vars

-----------------------------------------------------------------------------
(* Properties *)

\* A failure, or a blocking finding on the task, never ends with a decision to
\* do nothing about it: one of the rules gives it a recovery (review,
\* _enforce_recovery_route).
ProblemIsRouted ==
  pc = "no action" => Succeeded(seen) /\ seen.own = {}

\* Whatever the rules suppress, a task is accepted only without blocking findings
\* of its own, and by a QC component the last one only with the declared outputs
\* of the workflow (_terminal_goal_guard).
AcceptedCoversGoal ==
  pc = "accepted" => Succeeded(seen) /\ seen.own = {} /\ ~seen.missing

\* A person is asked only for what no machine could resolve: about a success only
\* with a finding or an unsafe assignment, and never about findings the
\* Replanner could repair (review, _enforce_recovery_route).
UserIsAskedForCause ==
  pc = "human" =>
    /\ Succeeded(seen) => seen.own # {} \/ seen.unsafe = "unknown"
    /\ Structural => seen.own \cap Resolvable = {}

\* Except for a retry, the attempt after a local recovery is not the one before it
\* (LocalRecoveryManager.apply, Binder.bind).
AttemptsDiffer ==
  pc = "review" /\ spent > 0 =>
    before.by = "retry" \/ before.call # Invocation

\* The output of an unsafe assign_crs is not accepted, although the comment of the
\* guard, "cannot be accepted", has one exception: the rule after it that leaves a
\* blocked consumer to itself lets the assignment pass (review).
UnsafeIsHeld ==
  pc = "accepted" /\ seen.unsafe # "none" => seen.down # {}
=============================================================================
