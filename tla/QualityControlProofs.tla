------------------------ MODULE QualityControlProofs ------------------------
(***************************************************************************)
(* Proofs about QualityControl, for any workers, operations, profiles and  *)
(* budget.  The rules of the review are taken one by one: Routed is what a *)
(* decision owes to its case once all of them have been applied.           *)
(***************************************************************************)
EXTENDS QualityControl, TLAPS

\* What is seen is what the profile looks for.
SeenFits ==
  /\ seen.unsafe \in {"none", "relabel", "unknown"}
  /\ ~FindingRouting => seen.own = {}
  /\ ~SemanticQC => ~seen.missing /\ seen.unsafe = "none"

\* After a recovery other than a retry, the worker of the attempt before cannot
\* be bound again, or the attempt has another text or other rejected artifacts.
Prepared ==
  pc = "ready" /\ spent > 0 =>
    \/ before.by = "retry"
    \/ before.call[1] \in excluded
    \/ before.call[2] # text
    \/ before.call[3] # rejected

Inv ==
  /\ TypeOK /\ SeenFits /\ Prepared
  /\ ProblemIsRouted /\ AcceptedCoversGoal /\ UserIsAskedForCause
  /\ AttemptsDiffer /\ UnsafeIsHeld

\* What the decision d owes to the case c.
Routed(c, d) ==
  /\ c.own # {} => d.verdict = "BLOCK" /\ d.action # "NONE"
  /\ ~Succeeded(c) => d.action # "NONE"
  /\ c.missing => d.verdict = "BLOCK"
  /\ Succeeded(c) /\ c.own = {} /\ c.unsafe # "none" /\ c.down = {} => d.verdict = "BLOCK"
  /\ Succeeded(c) /\ c.own = {} /\ d.verdict = "BLOCK" /\ d.action = "HUMAN_CLARIFICATION"
       => c.unsafe = "unknown"

Typed(d) ==
  d \in [verdict : {"PASS", "BLOCK"},
         action : {"NONE", "LOCAL_RECOVERY", "STRUCTURAL_REPLAN", "HUMAN_CLARIFICATION"},
         types : Seq(Recoveries), edits : BOOLEAN, rejects : SUBSET Artifacts]

-----------------------------------------------------------------------------
(* The rules of the review *)

\* The lists of recovery types that decisions are made of.
LEMMA RecoveryTypes ==
  /\ <<>> \in Seq(Recoveries)
  /\ \A r \in Recoveries : <<r>> \in Seq(Recoveries) /\ <<r, "retry">> \in Seq(Recoveries)
BY DEF Recoveries

\* A blocking finding is always given something to do.
LEMMA DeterministicActs ==
  ASSUME NEW c, c.own # {}
  PROVE  /\ DeterministicRecovery(c).verdict = "BLOCK"
         /\ DeterministicRecovery(c).action # "NONE"
BY DEF DeterministicRecovery, Block, Recover, Decided

\* A pause of a success without findings is the guard's, or a consumer is blocked.
LEMMA PauseHasCause ==
  ASSUME NEW c, NEW p, c.unsafe \in {"none", "relabel", "unknown"},
         Succeeded(c), c.own = {}
  PROVE  LET d == AfterUnsupported(c, AfterUnsafe(c, p))
         IN /\ c.unsafe # "none" => d.verdict = "BLOCK"
            /\ d.verdict = "BLOCK" /\ d.action = "HUMAN_CLARIFICATION" =>
                 c.unsafe = "unknown" \/ c.down # {}
BY DEF AfterUnsupported, AfterUnsafe, Pauses, Pass, Block, Decided

\* A blocked consumer does not make its producer pause.
LEMMA ScopeHasCause ==
  ASSUME NEW c, NEW d, Succeeded(c), c.own = {},
         c.unsafe # "none" => d.verdict = "BLOCK",
         d.verdict = "BLOCK" /\ d.action = "HUMAN_CLARIFICATION" =>
           c.unsafe = "unknown" \/ c.down # {}
  PROVE  LET f == AfterScope(c, AfterCandidate(c, d))
         IN /\ c.unsafe # "none" /\ c.down = {} => f.verdict = "BLOCK"
            /\ f.verdict = "BLOCK" /\ f.action = "HUMAN_CLARIFICATION" => c.unsafe = "unknown"
<1>1. CASE ProducerBlocked(c)
  BY <1>1 DEF AfterScope, AfterCandidate, Recover, Decided, ProducerBlocked
<1>2. CASE ~ProducerBlocked(c)
  BY <1>2 DEF AfterScope, AfterCandidate, Pass, Decided
<1> QED BY <1>1, <1>2

\* Whatever the model proposes, and the rules make of it, is of its type.
LEMMA ProposalsTyped ==
  ASSUME TypeOK, MaxLocalRecoveries \in Nat, NEW d \in Proposals
  PROVE  Typed(d)
<1>1. Output \in Artifacts
  BY DEF Output, Artifacts, TypeOK
<1>2. {} \in SUBSET Artifacts
  OBVIOUS
<1>3. ProposedTypes \subseteq Seq(Recoveries)
  BY RecoveryTypes DEF ProposedTypes
<1>4. CASE d \in {Decided(v, a, <<>>) : v \in {"PASS", "BLOCK"},
                     a \in {"NONE", "STRUCTURAL_REPLAN", "HUMAN_CLARIFICATION"}}
  <2>1. PICK v \in {"PASS", "BLOCK"},
             a \in {"NONE", "STRUCTURAL_REPLAN", "HUMAN_CLARIFICATION"} : d = Decided(v, a, <<>>)
    BY <1>4
  <2> QED BY <1>2, <2>1, RecoveryTypes DEF Typed, Decided
<1>5. ASSUME NEW types \in ProposedTypes, d \in LocalProposals(types)
      PROVE  Typed(d)
  <2>1. PICK v \in {"PASS", "BLOCK"}, e \in OnlyIf(Leads(types, "revise_invocation")),
             r \in IF Leads(types, "alternative_candidate")
                  THEN {{}, {Output}, rejected} ELSE {{}} :
          d = Proposal(v, types, e, r)
    BY <1>5 DEF LocalProposals
  <2>2. types \in Seq(Recoveries)
    BY <1>3
  <2>3. e \in BOOLEAN /\ r \in SUBSET Artifacts
    BY <1>1 DEF TypeOK, OnlyIf
  <2> QED BY <2>1, <2>2, <2>3 DEF Typed, Proposal
<1> QED BY <1>4, <1>5 DEF Proposals

\* Each rule keeps, or makes, a decision of its type.
LEMMA RulesKeepTypes ==
  ASSUME NEW c, NEW p, Typed(p), c.about \subseteq Artifacts, TypeOK,
         MaxLocalRecoveries \in Nat, c.unsafe \in {"none", "relabel", "unknown"}
  PROVE  /\ Typed(AfterUnsafe(c, p)) /\ Typed(AfterUnsupported(c, p))
         /\ Typed(AfterCandidate(c, p)) /\ Typed(AfterScope(c, p))
         /\ Typed(AfterFailure(c, p)) /\ Typed(AfterGoal(c, p))
<1>1. /\ Typed(Pass)
      /\ Typed(Block("STRUCTURAL_REPLAN")) /\ Typed(Block("HUMAN_CLARIFICATION"))
  BY RecoveryTypes DEF Typed, Pass, Block, Decided
<1>2. Typed(AfterUnsafe(c, p)) /\ Typed(AfterUnsupported(c, p)) /\ Typed(AfterScope(c, p))
  BY <1>1 DEF AfterUnsafe, AfterUnsupported, AfterScope
<1>3. Typed(AfterGoal(c, p))
  BY <1>1 DEF AfterGoal
<1>4. {Output} \subseteq Artifacts
  BY DEF Output, Artifacts, TypeOK
<1>5. "alternative_candidate" \in Recoveries /\ "revise_invocation" \in Recoveries
      /\ "rebind_worker" \in Recoveries
  BY DEF Recoveries
<1>6. Typed(AfterCandidate(c, p))
  BY <1>4, <1>5, RecoveryTypes DEF AfterCandidate, Typed, Recover, Decided
<1>7. Typed(DeterministicRecovery(c))
  <2>1. Typed([Recover(<<"alternative_candidate">>) EXCEPT !.rejects = c.about])
    BY <1>5, RecoveryTypes DEF Typed, Recover, Decided
  <2>2. Typed([Recover(<<"revise_invocation">>) EXCEPT !.edits = TRUE])
    BY <1>5, RecoveryTypes DEF Typed, Recover, Decided
  <2> QED BY <1>1, <2>1, <2>2 DEF DeterministicRecovery
<1>8. Typed(WorkerFailureRecovery(c))
  BY <1>5, RecoveryTypes DEF WorkerFailureRecovery, Typed, Recover, Decided
<1>9. Typed(AfterFailure(c, p))
  BY <1>7, <1>8 DEF AfterFailure
<1> QED BY <1>2, <1>3, <1>6, <1>9

\* The last two rules keep what the others made of a success, and give a problem
\* an action of its own.
LEMMA ReviewIsRouted ==
  ASSUME NEW c, NEW d \in Reviews(c), c.unsafe \in {"none", "relabel", "unknown"},
         c.about \subseteq Artifacts, TypeOK
  PROVE  Routed(c, d) /\ Typed(d)
<1> USE QualityControlAssumption
<1>1. PICK p \in Proposals :
        d = AfterGoal(c, AfterFailure(c,
              AfterScope(c, AfterCandidate(c, AfterUnsupported(c, AfterUnsafe(c, p))))))
  BY DEF Reviews
<1> DEFINE s == AfterScope(c, AfterCandidate(c, AfterUnsupported(c, AfterUnsafe(c, p))))
           f == AfterFailure(c, s)
<1>2. d = AfterGoal(c, f)
  BY <1>1
<1>3. Typed(f) /\ Typed(d)
  <2>1. Typed(AfterUnsupported(c, AfterUnsafe(c, p)))
    BY ProposalsTyped, RulesKeepTypes
  <2>2. Typed(s)
    BY <2>1, RulesKeepTypes
  <2>3. Typed(f)
    BY <2>2, RulesKeepTypes
  <2> QED BY <1>2, <2>3, RulesKeepTypes
<1>4. f.verdict \in {"PASS", "BLOCK"}
  BY <1>3 DEF Typed
<1>5. CASE c.own # {}
  <2>1. f.verdict = "BLOCK" /\ f.action # "NONE"
    BY <1>5, DeterministicActs DEF AfterFailure
  <2>2. d = f
    BY <1>2, <2>1 DEF AfterGoal
  <2> HIDE DEF f
  <2> QED BY <1>5, <1>3, <2>1, <2>2 DEF Routed
<1>6. CASE c.own = {} /\ ~Succeeded(c)
  <2>1. f.action # "NONE"
    BY <1>6 DEF AfterFailure, WorkerFailureRecovery, Recover, Decided
  <2> HIDE DEF f
  <2> QED BY <1>2, <1>6, <1>3, <1>4, <2>1 DEF Routed, AfterGoal, Block, Decided
<1>7. CASE c.own = {} /\ Succeeded(c)
  <2>1. f = s
    BY <1>7 DEF AfterFailure
  <2>2. /\ c.unsafe # "none" /\ c.down = {} => s.verdict = "BLOCK"
        /\ s.verdict = "BLOCK" /\ s.action = "HUMAN_CLARIFICATION" => c.unsafe = "unknown"
    BY <1>7, PauseHasCause, ScopeHasCause
  <2> HIDE DEF f, s
  <2> QED BY <1>2, <1>7, <1>3, <1>4, <2>1, <2>2 DEF Routed, AfterGoal, Block, Decided
<1> QED BY <1>5, <1>6, <1>7

\* The controller keeps what the review ensured, and does not ask about findings
\* that the Replanner can repair.
LEMMA EnforcedIsRouted ==
  ASSUME NEW c, NEW d, Routed(c, d), Typed(d)
  PROVE  LET x == Enforced(c, d)
         IN /\ Typed(x) /\ Routed(c, x)
            /\ x.action = "HUMAN_CLARIFICATION" /\ Structural => c.own \cap Resolvable = {}
<1> DEFINE x == Enforced(c, d)
<1>1. /\ x.types = d.types /\ x.edits = d.edits /\ x.rejects = d.rejects
      /\ x.verdict = IF d.verdict = "BLOCK" \/ c.own # {} THEN "BLOCK" ELSE "PASS"
      /\ x.verdict = d.verdict
  BY DEF Enforced, Typed, Routed
<1>2. Typed(x)
  BY DEF Enforced, Typed
<1>3. c.own = {} => x.action = d.action
  BY DEF Enforced, Typed
<1>4. c.own # {} =>
        /\ x.action # "NONE"
        /\ x.action = "HUMAN_CLARIFICATION" /\ Structural => c.own \cap Resolvable = {}
  BY DEF Enforced, Typed, Routed
<1> HIDE DEF x
<1>5. Routed(c, x)
  BY <1>1, <1>3, <1>4 DEF Routed
<1> QED BY <1>2, <1>3, <1>4, <1>5 DEF x

\* All of a decision's making: the review or, in profile C4, the technical one, and
\* the controller.
LEMMA DecisionsAreRouted ==
  ASSUME TypeOK, SeenFits, NEW d \in Decisions(seen)
  PROVE  /\ Typed(d) /\ Routed(seen, d)
         /\ d.action = "HUMAN_CLARIFICATION" /\ Structural => seen.own \cap Resolvable = {}
<1> USE QualityControlAssumption
<1>1. CASE SemanticQC
  <2>1. PICK r \in Reviews(seen) : d = Enforced(seen, r)
    BY <1>1 DEF Decisions
  <2>2. Routed(seen, r) /\ Typed(r)
    BY ReviewIsRouted DEF SeenFits, TypeOK
  <2> QED BY <2>1, <2>2, EnforcedIsRouted
<1>2. CASE ~SemanticQC
  <2>1. d = Enforced(seen, TechnicalReview(seen))
    BY <1>2 DEF Decisions
  <2>2. seen.own = {} /\ ~seen.missing /\ seen.unsafe = "none"
    BY <1>2 DEF SeenFits, SemanticQC, FindingRouting
  <2>3. Typed(TechnicalReview(seen))
    BY RecoveryTypes DEF TechnicalReview, Typed, Block, Recover, Pass, Decided, Recoveries
  <2>4. Routed(seen, TechnicalReview(seen))
    BY <2>2 DEF TechnicalReview, Routed, Block, Recover, Pass, Decided
  <2> QED BY <2>1, <2>2, <2>3, <2>4, EnforcedIsRouted
<1> QED BY <1>1, <1>2


-----------------------------------------------------------------------------
(* The steps *)

\* A task that was not attempted yet.
LEMMA InitInv == Init => Inv
<1> SUFFICES ASSUME Init PROVE Inv
  OBVIOUS
<1> USE QualityControlAssumption DEF Init
<1>1. Typed(Pass)
  BY RecoveryTypes DEF Typed, Pass, Decided
<1>2. TypeOK
  BY <1>1 DEF TypeOK, Typed, Nothing, Final
<1>3. SeenFits /\ Prepared
  BY DEF SeenFits, Prepared, Nothing
<1>4. /\ ProblemIsRouted /\ AcceptedCoversGoal /\ UserIsAskedForCause
      /\ AttemptsDiffer /\ UnsafeIsHeld
  BY DEF ProblemIsRouted, AcceptedCoversGoal, UserIsAskedForCause, AttemptsDiffer, UnsafeIsHeld
<1> QED BY <1>2, <1>3, <1>4 DEF Inv

\* An attempt differs in its worker, when that of the attempt before is excluded,
\* or in what the recovery has changed.
LEMMA BindsFits ==
  ASSUME Inv, Binds
  PROVE  /\ pc' = "review" /\ agent' \in Workers
         /\ AttemptsDiffer'
<1>1. pc = "ready" /\ pc' = "review" /\ agent' \in Workers \ excluded
  BY DEF Binds
<1>2. ASSUME spent > 0, before.by # "retry"
      PROVE  before.call # <<agent', text, rejected>>
  BY <1>1, <1>2 DEF Inv, Prepared
<1> QED BY <1>1, <1>2 DEF AttemptsDiffer, Invocation, Binds

\* What there is to review is what the profile looks for.
LEMMA SeesFits ==
  ASSUME Inv, NEW result, NEW own \in Findings, Sees(result, own),
         UNCHANGED <<profile, operation, spent>>
  PROVE  /\ seen'.own \subseteq Codes /\ seen'.about \subseteq Artifacts
         /\ SeenFits'
<1> USE QualityControlAssumption
<1>1. PICK down \in Downstream, about \in Abouts(result, own), unsafe \in Assignments,
           grounded \in OnlyIf(own = {"schema"}), asserted \in OnlyIf("MISSING_CRS" \in own) :
        /\ "candidate" \in down => result = "successful"
        /\ \E missing \in OnlyIf(SemanticQC /\ down = {}), lacks \in OnlyIf(~SemanticQC) :
          seen' = [result |-> result, own |-> own, down |-> down, about |-> about,
                   unsafe |-> unsafe, grounded |-> grounded, asserted |-> asserted,
                   missing |-> missing, lacks |-> lacks]
  BY DEF Sees
<1>2. PICK missing \in OnlyIf(SemanticQC /\ down = {}), lacks \in OnlyIf(~SemanticQC) :
        seen' = [result |-> result, own |-> own, down |-> down, about |-> about,
                 unsafe |-> unsafe, grounded |-> grounded, asserted |-> asserted,
                 missing |-> missing, lacks |-> lacks]
  BY <1>1
<1>3. about \subseteq {0, Output}
  BY DEF Abouts
<1>4. ~SemanticQC => ~missing
  BY DEF OnlyIf
<1>5. unsafe \in {"none", "relabel", "unknown"} /\ (~GisAware => unsafe = "none")
  BY DEF Assignments
<1>6. {0, Output} \subseteq Artifacts
  BY DEF Inv, TypeOK, Output, Artifacts
<1>7. own \subseteq Codes /\ (~FindingRouting => own = {})
  BY DEF Findings
<1>8. SeenFits'
  BY <1>2, <1>7, <1>4, <1>5 DEF SeenFits, FindingRouting, SemanticQC, GisAware
<1> QED BY <1>2, <1>6, <1>7, <1>8, <1>3

\* The first three actions bind the task and see what comes of it.
LEMMA AttemptKeepsInv ==
  ASSUME Inv, PreconditionBlocked \/ WorkerSucceeds \/ WorkerFails
  PROVE  Inv'
<1> USE QualityControlAssumption
<1>1. Binds /\ \E result, own : own \in Findings /\ Sees(result, own)
  BY DEF PreconditionBlocked, WorkerSucceeds, WorkerFails
<1>2. /\ pc = "ready" /\ pc' = "review" /\ agent' \in Workers /\ AttemptsDiffer'
      /\ UNCHANGED <<profile, operation, excluded, text, rejected, spent, decision, before>>
  BY <1>1, BindsFits DEF Binds
<1>3. seen'.own \subseteq Codes /\ seen'.about \subseteq Artifacts /\ SeenFits'
  BY <1>1, <1>2, SeesFits
<1>4. lastError' \in {"none", "permanent", "retryable"}
  BY DEF Inv, TypeOK, PreconditionBlocked, WorkerSucceeds, WorkerFails
<1>5. TypeOK'
  BY <1>2, <1>3, <1>4 DEF Inv, TypeOK
<1>6. Prepared' /\ ProblemIsRouted' /\ AcceptedCoversGoal' /\ UserIsAskedForCause' /\ UnsafeIsHeld'
  BY <1>2 DEF Prepared, ProblemIsRouted, AcceptedCoversGoal, UserIsAskedForCause, UnsafeIsHeld
<1> QED BY <1>2, <1>3, <1>5, <1>6 DEF Inv

\* The place a review leads to is what the decision owes to the case.
LEMMA ReviewKeepsInv ==
  ASSUME Inv, Review
  PROVE  Inv'
<1> USE QualityControlAssumption
<1>1. PICK d \in Decisions(seen) :
        /\ decision' = d
        /\ pc' = CASE Succeeded(seen) /\ d.verdict = "PASS" -> "accepted"
                   [] OTHER ->
                        CASE d.action = "LOCAL_RECOVERY" -> "recover"
                          [] d.action = "STRUCTURAL_REPLAN" ->
                               IF Structural THEN "replan" ELSE "no replanner"
                          [] d.action = "HUMAN_CLARIFICATION" -> "human"
                          [] d.action = "NONE" -> "no action"
  BY DEF Review
<1>2. UNCHANGED <<profile, operation, agent, excluded, text, rejected, lastError, spent,
                  seen, before>>
  BY DEF Review
<1>3. /\ Typed(d) /\ Routed(seen, d)
      /\ d.action = "HUMAN_CLARIFICATION" /\ Structural => seen.own \cap Resolvable = {}
  BY DecisionsAreRouted DEF Inv
<1>4. pc' \in {"recover"} \cup Final
  BY <1>1, <1>3 DEF Typed, Final
<1>5. TypeOK'
  BY <1>1, <1>2, <1>3, <1>4 DEF Inv, TypeOK, Typed
<1>6. SeenFits'
  BY <1>2 DEF Inv, SeenFits, FindingRouting, SemanticQC
<1>7. pc' = "accepted" => Succeeded(seen) /\ d.verdict = "PASS"
  BY <1>1, <1>3 DEF Typed
<1>8. pc' = "human" => d.action = "HUMAN_CLARIFICATION" /\ ~(Succeeded(seen) /\ d.verdict = "PASS")
  BY <1>1, <1>3 DEF Typed
<1>9. pc' = "no action" => d.action = "NONE" /\ ~(Succeeded(seen) /\ d.verdict = "PASS")
  BY <1>1, <1>3 DEF Typed
<1>10. ProblemIsRouted'
  BY <1>2, <1>3, <1>9 DEF ProblemIsRouted, Routed, Succeeded
<1>11. AcceptedCoversGoal' /\ UnsafeIsHeld'
  BY <1>2, <1>3, <1>7 DEF AcceptedCoversGoal, UnsafeIsHeld, Routed, Succeeded
<1>12. UserIsAskedForCause'
  BY <1>2, <1>3, <1>8 DEF UserIsAskedForCause, Routed, Succeeded, Structural, Typed
<1>13. Prepared' /\ AttemptsDiffer'
  BY <1>4 DEF Prepared, AttemptsDiffer, Final
<1> QED BY <1>5, <1>6, <1>10, <1>11, <1>12, <1>13 DEF Inv

\* Where nothing is recovered, or there is no worker, no property speaks.
LEMMA StopKeepsInv ==
  ASSUME Inv, BindingFails \/ RecoveryRefused \/ RecoveryExhausted
  PROVE  Inv'
<1>1. /\ pc' \in {"no worker", "no recovery", "no budget"}
      /\ UNCHANGED <<profile, operation, agent, excluded, text, rejected, lastError, spent,
                      seen, decision, before>>
  BY DEF BindingFails, RecoveryRefused, RecoveryExhausted
<1>2. TypeOK' /\ SeenFits'
  BY <1>1 DEF Inv, TypeOK, Final, SeenFits, FindingRouting, SemanticQC
<1>3. /\ Prepared' /\ ProblemIsRouted' /\ AcceptedCoversGoal' /\ UserIsAskedForCause'
      /\ AttemptsDiffer' /\ UnsafeIsHeld'
  BY <1>1 DEF Prepared, ProblemIsRouted, AcceptedCoversGoal, UserIsAskedForCause,
              AttemptsDiffer, UnsafeIsHeld
<1> QED BY <1>2, <1>3 DEF Inv

\* What every recovery charges and clears.
LEMMA ReservesFits ==
  ASSUME Inv, NEW recovery, Reserves(recovery)
  PROVE  /\ spent' \in 0..MaxLocalRecoveries /\ spent' > 0
         /\ before'.call = <<agent, text, rejected>> /\ before'.by = recovery
         /\ seen'.own \subseteq Codes /\ seen'.about \subseteq Artifacts /\ SeenFits'
         /\ decision'.types \in Seq(Recoveries) /\ decision'.rejects \subseteq Artifacts
         /\ UNCHANGED <<profile, operation, lastError>>
<1> USE QualityControlAssumption
<1>1. Typed(Pass)
  BY RecoveryTypes DEF Typed, Pass, Decided
<1>2. seen' = Nothing /\ decision' = Pass
  BY DEF Reserves
<1>3. spent' \in 0..MaxLocalRecoveries /\ spent' > 0
  BY DEF Reserves, HasBudget, Inv, TypeOK
<1>4. SeenFits' /\ seen'.own = {} /\ seen'.about = {}
  BY <1>2 DEF SeenFits, Nothing
<1> QED BY <1>1, <1>2, <1>3, <1>4 DEF Typed, Reserves, Invocation


\* Each recovery makes a change that the next attempt must show.
LEMMA RecoveryKeepsInv ==
  ASSUME Inv, Retry \/ ReviseInvocation \/ RebindWorker \/ AlternativeCandidate
  PROVE  Inv'
<1> USE QualityControlAssumption
<1>1. PICK recovery : Reserves(recovery)
  BY DEF Retry, ReviseInvocation, RebindWorker, AlternativeCandidate
<1>2. /\ spent' \in 0..MaxLocalRecoveries /\ spent' > 0
      /\ before'.call = <<agent, text, rejected>>
      /\ seen'.own \subseteq Codes /\ seen'.about \subseteq Artifacts /\ SeenFits'
      /\ decision'.types \in Seq(Recoveries) /\ decision'.rejects \subseteq Artifacts
      /\ UNCHANGED <<profile, operation, lastError>>
  BY <1>1, ReservesFits
<1>3. /\ agent' \in Workers \cup {0} /\ excluded' \subseteq Workers
      /\ text' \in 0..1 /\ rejected' \subseteq Artifacts
      /\ pc' \in {"ready", "no recovery"}
      /\ Prepared'
  <2>1. CASE Retry
    BY <2>1, ReservesFits DEF Retry, Inv, TypeOK, Prepared
  <2>2. CASE ReviseInvocation
    <3>1. text' # text /\ text' \in 0..1
      BY <2>2 DEF ReviseInvocation, Inv, TypeOK
    <3> QED BY <1>2, <2>2, <3>1 DEF ReviseInvocation, Inv, TypeOK, Prepared
  <2>3. CASE RebindWorker
    <3>1. agent # 0
      BY <2>3 DEF RebindWorker, Reserves, Chosen, Usable, Applicable
    <3> QED BY <1>2, <2>3, <3>1 DEF RebindWorker, Inv, TypeOK, Prepared
  <2>4. CASE AlternativeCandidate
    <3>1. PICK goal \in BOOLEAN :
            /\ text' = IF goal THEN 1 - text ELSE text
            /\ pc' = IF MadeChange(goal \/ rejected' # rejected) THEN "ready" ELSE "no recovery"
      BY <2>4 DEF AlternativeCandidate
    <3>2. text' \in 0..1 /\ (goal => text' # text)
      <4>1. text \in 0..1 /\ 1 - text \in 0..1 /\ 1 - text # text
        BY DEF Inv, TypeOK
      <4> QED BY <3>1, <4>1
    <3>3. rejected' \subseteq Artifacts
      BY <2>4 DEF AlternativeCandidate, Inv, TypeOK
    <3>4. pc' = "ready" => text' # text \/ rejected' # rejected
      BY <3>1, <3>2 DEF MadeChange
    <3>5. pc' \in {"ready", "no recovery"}
      BY <3>1
    <3>6. Prepared'
      BY <1>2, <3>4 DEF Prepared
    <3> QED BY <2>4, <3>2, <3>3, <3>5, <3>6 DEF AlternativeCandidate, Inv, TypeOK
  <2> QED BY <2>1, <2>2, <2>3, <2>4
<1>4. TypeOK'
  BY <1>2, <1>3 DEF Inv, TypeOK, Final
<1>5. /\ ProblemIsRouted' /\ AcceptedCoversGoal' /\ UserIsAskedForCause'
      /\ AttemptsDiffer' /\ UnsafeIsHeld'
  BY <1>3 DEF ProblemIsRouted, AcceptedCoversGoal, UserIsAskedForCause, AttemptsDiffer, UnsafeIsHeld
<1> QED BY <1>2, <1>3, <1>4, <1>5 DEF Inv

\* A step of anything else.
LEMMA StutterKeepsInv ==
  ASSUME Inv, UNCHANGED vars
  PROVE  Inv'
<1>1. UNCHANGED <<profile, operation, agent, excluded, text, rejected, lastError, spent,
                  seen, decision, before, pc>>
  BY DEF vars
<1>2. TypeOK' /\ SeenFits' /\ Prepared'
  BY <1>1 DEF Inv, TypeOK, SeenFits, Prepared, FindingRouting, SemanticQC
<1>3. /\ ProblemIsRouted' /\ AcceptedCoversGoal' /\ UserIsAskedForCause'
      /\ AttemptsDiffer' /\ UnsafeIsHeld'
  BY <1>1 DEF Inv, ProblemIsRouted, AcceptedCoversGoal, UserIsAskedForCause, AttemptsDiffer,
              UnsafeIsHeld, Invocation, Succeeded, Structural
<1> QED BY <1>2, <1>3 DEF Inv

-----------------------------------------------------------------------------
(* Theorems *)

\* The invariant holds of every behaviour.
LEMMA Invariance == Spec => []Inv
<1>1. Inv /\ [Next]_vars => Inv'
  BY AttemptKeepsInv, ReviewKeepsInv, StopKeepsInv, RecoveryKeepsInv, StutterKeepsInv DEF Next
<1> QED BY InitInv, <1>1, PTL DEF Spec

\* The task, what is seen of it and the budget are of their types: no proposal,
\* rule or recovery leads outside of them, and no recovery is charged past its
\* limit.
THEOREM TypeCorrect == Spec => []TypeOK
BY Invariance, PTL DEF Inv

\* No failure and no blocking finding is left without an action, whatever the
\* model proposes and in every profile.
THEOREM ProblemsAreRouted == Spec => []ProblemIsRouted
BY Invariance, PTL DEF Inv

\* No rule of the review lets a task pass that is blocked, or that leaves the
\* declared outputs of the workflow missing.
THEOREM AcceptanceCoversGoal == Spec => []AcceptedCoversGoal
BY Invariance, PTL DEF Inv

\* A person is only asked with cause.
THEOREM PausesHaveCause == Spec => []UserIsAskedForCause
BY Invariance, PTL DEF Inv

\* A local recovery that is no retry changes the attempt, for any workers and any
\* budget.
THEOREM RecoveryChangesAttempt == Spec => []AttemptsDiffer
BY Invariance, PTL DEF Inv

\* An unsafe assignment passes a review only past a blocked consumer.
THEOREM UnsafeStaysHeld == Spec => []UnsafeIsHeld
BY Invariance, PTL DEF Inv

=============================================================================
