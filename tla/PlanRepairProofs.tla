-------------------------- MODULE PlanRepairProofs --------------------------
(***************************************************************************)
(* Proofs about PlanRepair, for any agents, sources, wordings and          *)
(* proposals.  What the passes do to the steps of a plan is taken pass by  *)
(* pass; no step changes its identifier or its place.                      *)
(***************************************************************************)
EXTENDS PlanRepair, WellFoundedInduction, TLAPS

\* No batch is evaluated before all catalogs are there.
NothingAskedYet == stage = "discover" => asked = 0 /\ judged = {}

\* The agents that the model was asked about are selected, or were judged.
AskedAreRead ==
  stage = "select" =>
    \A i \in 1 .. asked : offered[i] \in selected \cup judged

IsStep(x) == x = [id |-> x.id, task |-> x.task, agent |-> x.agent, deps |-> x.deps]

StepsAreSteps == \A i \in DOMAIN steps : IsStep(steps[i])

\* Nothing is repaired before it is proposed.
NoStepsYet == stage \notin {"verify", "done"} => steps = <<>>

Inv ==
  /\ TypeOK /\ NothingAskedYet /\ AskedAreRead /\ StepsAreSteps /\ NoStepsYet
  /\ NothingIsDroppedUnread /\ ProcessingHasInput /\ ReprojectionIsIsolated

-----------------------------------------------------------------------------
(* Numbers and sequences *)

LEMMA MinOfTwo ==
  ASSUME NEW a \in Nat, NEW b \in Nat
  PROVE  Min({a, b}) \in {a, b} /\ Min({a, b}) <= a /\ Min({a, b}) <= b
<1>1. \E x \in {a, b} : \A y \in {a, b} : x =< y
  OBVIOUS
<1> QED BY <1>1 DEF Min

LEMMA MinIsMember ==
  ASSUME NEW S \in SUBSET Nat, S # {}
  PROVE  Min(S) \in S
<1> DEFINE less == {p \in Nat \X Nat : p[1] < p[2]}
<1>1. OpToRel(<, Nat) = less
  BY Zenon DEF OpToRel
<1>2. IsWellFoundedOn(less, Nat)
  BY <1>1, NatLessThanWellFounded, Zenon
<1> HIDE DEF less
<1>3. PICK x \in S : \A y \in S : <<y, x>> \notin less
  BY <1>2, WFMin
<1>4. ASSUME NEW y \in S
      PROVE  x =< y
  <2>1. x \in Nat /\ y \in Nat /\ <<y, x>> \in Nat \X Nat
    BY <1>3
  <2>2. ~(y < x)
    BY <1>3, <2>1 DEF less
  <2> QED BY <2>1, <2>2
<1> QED BY <1>4 DEF Min

LEMMA ElementIsIn ==
  ASSUME NEW S, NEW s \in Seq(S), NEW i \in DOMAIN s
  PROVE  s[i] \in S
OBVIOUS

LEMMA JoinedIsIn ==
  ASSUME NEW S, NEW s \in Seq(S), NEW t \in Seq(S)
  PROVE  s \o t \in Seq(S)
OBVIOUS

LEMMA PreferredIsThere ==
  ASSUME NEW task \in Tasks
  PROVE  Preferred(task) \in selected \cup {NoAgent}
<1> DEFINE list == Preferences[task]
           there == {k \in DOMAIN list : list[k] \in selected}
<1>1. list \in Seq(Agents)
  BY PlanAssumption
<1>2. CASE there = {}
  BY <1>2 DEF Preferred
<1>3. CASE there # {}
  <2>1. there \in SUBSET Nat
    BY <1>1
  <2>2. Min(there) \in there
    BY <1>3, <2>1, MinIsMember
  <2> QED BY <1>3, <2>2 DEF Preferred
<1> QED BY <1>2, <1>3

-----------------------------------------------------------------------------
(* The passes *)

\* Every step of t is the step of s at its place, but for its agent and input.
SameSteps(s, t) ==
  /\ DOMAIN t = DOMAIN s
  /\ \A i \in DOMAIN s : t[i].id = s[i].id /\ t[i].task = s[i].task

LEMMA SameStepsKnown ==
  ASSUME NEW s, NEW t, SameSteps(s, t)
  PROVE  Known(t) = Known(s)
BY DEF SameSteps, Known

\* What a pass takes for the steps of a plan.
Draft(s) ==
  /\ \A i \in DOMAIN s : i \in Nat /\ (i > 1 => i - 1 \in DOMAIN s)
  /\ \A i \in DOMAIN s :
       s[i] \in [id : Ids, task : Tasks, agent : Agents \cup {NoAgent}, deps : SUBSET Names]

LEMMA NormalizedDraft ==
  ASSUME NEW p \in Proposal
  PROVE  /\ Draft(Normalized(p)) /\ DOMAIN Normalized(p) = DOMAIN p.steps
         /\ \A i \in DOMAIN p.steps : Normalized(p)[i].agent \in selected \cup {NoAgent}
<1>1. p.steps \in Seq([name : Names, task : Tasks, agent : Agents \cup {NoAgent},
                       refs : SUBSET Names])
  BY DEF Proposal
<1>2. \A i \in DOMAIN p.steps : i \in Nat /\ (i > 1 => i - 1 \in DOMAIN p.steps)
  BY <1>1
<1>3. ASSUME NEW i \in DOMAIN p.steps
      PROVE  /\ Normalized(p)[i] \in [id : Ids, task : Tasks, agent : Agents \cup {NoAgent},
                                      deps : SUBSET Names]
             /\ Normalized(p)[i].agent \in selected \cup {NoAgent}
  <2>1. p.steps[i] \in [name : Names, task : Tasks, agent : Agents \cup {NoAgent},
                        refs : SUBSET Names]
    BY <1>1, ElementIsIn
  <2> QED BY <2>1, PlanAssumption DEF Normalized
<1> QED BY <1>2, <1>3 DEF Draft, Normalized

\* References that are left are known, and processing has input.
LEMMA RepairedSame ==
  ASSUME NEW s, Draft(s)
  PROVE  /\ SameSteps(s, Repaired(s)) /\ Draft(Repaired(s))
         /\ \A i \in DOMAIN s :
              /\ Repaired(s)[i].agent = s[i].agent
              /\ Repaired(s)[i].deps \subseteq Known(s)
              /\ i > 1 /\ Repaired(s)[i].deps = {} => s[i].agent \in Retrieval
<1> DEFINE t == Repaired(s)
<1>1. DOMAIN t = DOMAIN s
  BY DEF Repaired
<1>2. ASSUME NEW i \in DOMAIN s
      PROVE  /\ t[i].id = s[i].id /\ t[i].task = s[i].task /\ t[i].agent = s[i].agent
             /\ t[i] \in [id : Ids, task : Tasks, agent : Agents \cup {NoAgent},
                          deps : SUBSET Names]
             /\ t[i].deps \subseteq Known(s)
             /\ i > 1 /\ t[i].deps = {} => s[i].agent \in Retrieval
  <2> DEFINE valid == ValidRefs(s, s[i])
             input == IF Retrieves(s[i]) THEN {}
                      ELSE IF valid = {} /\ i > 1 THEN {s[i - 1].id}
                      ELSE valid
  <2>1. t[i] = [s[i] EXCEPT !.deps = input]
    BY DEF Repaired
  <2>2. s[i] \in [id : Ids, task : Tasks, agent : Agents \cup {NoAgent}, deps : SUBSET Names]
    BY DEF Draft
  <2>3. valid \subseteq Known(s) /\ valid \subseteq Names
    BY <2>2 DEF ValidRefs
  <2>4. i > 1 => s[i - 1].id \in Known(s) /\ s[i - 1].id \in Names
    BY PlanAssumption DEF Draft, Known
  <2>5. input \subseteq Known(s) /\ input \subseteq Names
    BY <2>3, <2>4
  <2>6. i > 1 /\ input = {} => s[i].agent \in Retrieval
    BY DEF Retrieves
  <2> HIDE DEF input
  <2> QED BY <2>1, <2>2, <2>5, <2>6
<1> QED BY <1>1, <1>2 DEF SameSteps, Draft

\* Pruning leaves input to a step that had some.
LEMMA PrunedSame ==
  ASSUME NEW s, Draft(s)
  PROVE  /\ SameSteps(s, Pruned(s)) /\ Draft(Pruned(s))
         /\ \A i \in DOMAIN s :
              /\ Pruned(s)[i].agent = s[i].agent
              /\ Pruned(s)[i].deps \subseteq s[i].deps
              /\ Pruned(s)[i].deps = {} => s[i].deps = {}
<1> DEFINE reports == {s[i].id : i \in {j \in DOMAIN s : IsLast(s, j) /\ Reports(s[j])}}
           t == Pruned(s)
<1>1. DOMAIN t = DOMAIN s
  BY DEF Pruned
<1>2. \A i \in DOMAIN s :
        t[i] = IF s[i].task \in ReadsReports \/ s[i].deps \subseteq reports THEN s[i]
               ELSE [s[i] EXCEPT !.deps = s[i].deps \ reports]
  BY DEF Pruned
<1> HIDE DEF reports, t
<1>3. ASSUME NEW i \in DOMAIN s
      PROVE  /\ t[i].id = s[i].id /\ t[i].task = s[i].task /\ t[i].agent = s[i].agent
             /\ t[i] \in [id : Ids, task : Tasks, agent : Agents \cup {NoAgent},
                          deps : SUBSET Names]
             /\ t[i].deps \subseteq s[i].deps
             /\ t[i].deps = {} => s[i].deps = {}
  <2>1. s[i] \in [id : Ids, task : Tasks, agent : Agents \cup {NoAgent}, deps : SUBSET Names]
    BY DEF Draft
  <2>2. CASE t[i] = s[i]
    BY <2>1, <2>2
  <2>3. CASE ~(s[i].deps \subseteq reports) /\ t[i] = [s[i] EXCEPT !.deps = s[i].deps \ reports]
    BY <2>1, <2>3
  <2> QED BY <1>2, <2>2, <2>3
<1>4. SameSteps(s, t) /\ Draft(t)
  BY <1>1, <1>3 DEF SameSteps, Draft
<1> QED BY <1>3, <1>4 DEF t

\* Routing touches no step without input.
LEMMA RoutedSame ==
  ASSUME NEW s, Draft(s)
  PROVE  /\ SameSteps(s, Routed(s))
         /\ \A i \in DOMAIN s :
              /\ Routed(s)[i].deps = s[i].deps
              /\ Routed(s)[i].agent \in {s[i].agent, NoAgent} \cup selected
              /\ s[i].deps = {} => Routed(s)[i].agent = s[i].agent
              /\ IsStep(Routed(s)[i])
<1>1. ASSUME NEW i \in DOMAIN s
      PROVE  /\ Routed(s)[i].id = s[i].id /\ Routed(s)[i].task = s[i].task
             /\ Routed(s)[i].deps = s[i].deps
             /\ Routed(s)[i].agent \in {s[i].agent, NoAgent} \cup selected
             /\ s[i].deps = {} => Routed(s)[i].agent = s[i].agent
             /\ IsStep(Routed(s)[i])
  <2>1. s[i] \in [id : Ids, task : Tasks, agent : Agents \cup {NoAgent}, deps : SUBSET Names]
    BY DEF Draft
  <2>2. Preferred(s[i].task) \in selected \cup {NoAgent}
    BY <2>1, PreferredIsThere
  <2> QED BY <2>1, <2>2 DEF Routed, IsStep
<1> QED BY <1>1 DEF SameSteps, Routed

\* The last pass gives reprojections to the projection agent, and nothing else.
LEMMA IsolatedSame ==
  ASSUME NEW s, \A i \in DOMAIN s : IsStep(s[i])
  PROVE  /\ SameSteps(s, Isolated(s))
         /\ \A i \in DOMAIN s :
              /\ Isolated(s)[i].deps = s[i].deps
              /\ Isolated(s)[i].agent \in {s[i].agent} \cup selected
              /\ s[i].agent \in Retrieval => Isolated(s)[i].agent \in Retrieval
              /\ Projection \in selected /\ s[i].task \in Reprojecting =>
                   Isolated(s)[i].agent \in Retrieval \cup {Projection, NoAgent}
              /\ IsStep(Isolated(s)[i])
<1>1. ASSUME NEW i \in DOMAIN s
      PROVE  /\ Isolated(s)[i].id = s[i].id /\ Isolated(s)[i].task = s[i].task
             /\ Isolated(s)[i].deps = s[i].deps
             /\ Isolated(s)[i].agent \in {s[i].agent} \cup selected
             /\ s[i].agent \in Retrieval => Isolated(s)[i].agent \in Retrieval
             /\ Projection \in selected /\ s[i].task \in Reprojecting =>
                  Isolated(s)[i].agent \in Retrieval \cup {Projection, NoAgent}
             /\ IsStep(Isolated(s)[i])
  BY DEF Isolated, IsStep
<1> QED BY <1>1 DEF SameSteps, Isolated

\* What the passes leave of the steps of a plan.
LEMMA PassesRepair ==
  ASSUME NEW s, Draft(s)
  PROVE  /\ SameSteps(s, Passes(s))
         /\ \A i \in DOMAIN s :
              /\ Passes(s)[i].agent \in {s[i].agent, NoAgent} \cup selected
              /\ Passes(s)[i].deps \subseteq Known(s)
              /\ i > 1 /\ Passes(s)[i].agent \notin Retrieval => Passes(s)[i].deps # {}
              /\ Projection \in selected /\ Passes(s)[i].task \in Reprojecting =>
                   Passes(s)[i].agent \in Retrieval \cup {Projection, NoAgent}
              /\ IsStep(Passes(s)[i])
<1> DEFINE a == Repaired(s)
           b == Pruned(a)
           c == Routed(b)
           d == Isolated(c)
<1>1. /\ SameSteps(s, a) /\ Draft(a)
      /\ \A i \in DOMAIN s :
           /\ a[i].agent = s[i].agent
           /\ a[i].deps \subseteq Known(s)
           /\ i > 1 /\ a[i].deps = {} => s[i].agent \in Retrieval
  BY RepairedSame
<1>2. /\ SameSteps(a, b) /\ Draft(b)
      /\ \A i \in DOMAIN a :
           /\ b[i].agent = a[i].agent
           /\ b[i].deps \subseteq a[i].deps
           /\ b[i].deps = {} => a[i].deps = {}
  BY <1>1, PrunedSame
<1>3. /\ SameSteps(b, c)
      /\ \A i \in DOMAIN b :
           /\ c[i].deps = b[i].deps
           /\ c[i].agent \in {b[i].agent, NoAgent} \cup selected
           /\ b[i].deps = {} => c[i].agent = b[i].agent
           /\ IsStep(c[i])
  BY <1>2, RoutedSame
<1>4. DOMAIN c = DOMAIN b
  BY <1>3 DEF SameSteps
<1>5. /\ SameSteps(c, d)
      /\ \A i \in DOMAIN c :
           /\ d[i].deps = c[i].deps
           /\ d[i].agent \in {c[i].agent} \cup selected
           /\ c[i].agent \in Retrieval => d[i].agent \in Retrieval
           /\ Projection \in selected /\ c[i].task \in Reprojecting =>
                d[i].agent \in Retrieval \cup {Projection, NoAgent}
           /\ IsStep(d[i])
  BY <1>3, <1>4, IsolatedSame
<1>6. Passes(s) = d
  BY DEF Passes
<1> HIDE DEF a, b, c, d
<1>7. SameSteps(s, d)
  BY <1>1, <1>2, <1>3, <1>5 DEF SameSteps
<1>8. ASSUME NEW i \in DOMAIN s
      PROVE  /\ d[i].agent \in {s[i].agent, NoAgent} \cup selected
             /\ d[i].deps \subseteq Known(s)
             /\ i > 1 /\ d[i].agent \notin Retrieval => d[i].deps # {}
             /\ Projection \in selected /\ d[i].task \in Reprojecting =>
                  d[i].agent \in Retrieval \cup {Projection, NoAgent}
             /\ IsStep(d[i])
  <2>1. i \in DOMAIN a /\ i \in DOMAIN b /\ i \in DOMAIN c
    BY <1>1, <1>2, <1>3 DEF SameSteps
  <2>2. d[i].task = c[i].task
    BY <1>5, <2>1 DEF SameSteps
  <2> QED BY <1>1, <1>2, <1>3, <1>5, <2>1, <2>2
<1> QED BY <1>6, <1>7, <1>8

\* The second call changes agents, to those of the catalog.
LEMMA CorrectedSame ==
  ASSUME NEW s, NEW c, \A i \in DOMAIN s : s[i].agent \in selected \cup {NoAgent},
         \A i \in DOMAIN s : IsStep(s[i])
  PROVE  /\ SameSteps(s, Corrected(s, c))
         /\ \A i \in DOMAIN s : /\ Corrected(s, c)[i].deps = s[i].deps
                                /\ Corrected(s, c)[i].agent \in selected \cup {NoAgent}
                                /\ IsStep(Corrected(s, c)[i])
<1>1. ASSUME NEW i \in DOMAIN s
      PROVE  /\ Corrected(s, c)[i].id = s[i].id /\ Corrected(s, c)[i].task = s[i].task
             /\ Corrected(s, c)[i].deps = s[i].deps
             /\ Corrected(s, c)[i].agent \in selected \cup {NoAgent}
             /\ IsStep(Corrected(s, c)[i])
  BY DEF Corrected, IsStep
<1> QED BY <1>1 DEF SameSteps, Corrected

-----------------------------------------------------------------------------
(* Every step keeps the invariant *)

LEMMA BatchIsNext ==
  ASSUME offered \in Seq(Agents), asked \in 0 .. Len(offered), asked < Len(offered)
  PROVE  LET last == Min({asked + BatchSize, Len(offered)})
         IN /\ last \in 0 .. Len(offered)
            /\ \A i \in 1 .. last : i > asked => offered[i] \in Batch
            /\ Batch \subseteq ToSet(offered)
<1> DEFINE last == Min({asked + BatchSize, Len(offered)})
           batch == SubSeq(offered, asked + 1, last)
<1>0. asked \in Nat /\ Len(offered) \in Nat /\ asked + BatchSize \in Nat
  BY PlanAssumption
<1>1. last \in 0 .. Len(offered) /\ last \in Nat
  BY <1>0, MinOfTwo
<1> HIDE DEF last
<1>2. /\ DOMAIN batch = 1 .. last - asked
      /\ \A k \in DOMAIN batch : asked + k \in DOMAIN offered /\ batch[k] = offered[asked + k]
  BY <1>0, <1>1
<1>3. \A i \in 1 .. last : i > asked => i - asked \in DOMAIN batch /\ asked + (i - asked) = i
  BY <1>0, <1>1, <1>2
<1> HIDE DEF batch
<1>4. Batch = {batch[k] : k \in DOMAIN batch}
  BY DEF Batch, ToSet, batch, last
<1>5. \A i \in 1 .. last : i > asked => offered[i] \in Batch
  BY <1>2, <1>3, <1>4
<1>6. Batch \subseteq ToSet(offered)
  BY <1>2, <1>4 DEF ToSet
<1> QED BY <1>1, <1>5, <1>6 DEF last

\* Steps that change neither the stage nor the steps of the plan.
LEMMA SelectionKeeps ==
  ASSUME Inv, Discover \/ EndDiscovery \/ EvaluateBatch \/ Filter
  PROVE  Inv'
<1>0. TypeOK /\ steps = <<>> /\ DOMAIN steps = {}
  BY DEF Inv, NoStepsYet, Discover, EndDiscovery, EvaluateBatch, Filter
<1>1. steps' = <<>> /\ plan' = plan /\ attempt' = attempt /\ unmatched' = unmatched
  BY <1>0 DEF Discover, EndDiscovery, EvaluateBatch, Filter
<1>2. stage' \in {"discover", "select", "failed", "propose"}
  BY DEF Discover, EndDiscovery, EvaluateBatch, Filter
<1>3. StepsAreSteps' /\ NoStepsYet' /\ ProcessingHasInput' /\ ReprojectionIsIsolated'
  BY <1>1, <1>2 DEF StepsAreSteps, NoStepsYet, ProcessingHasInput, ReprojectionIsIsolated
<1>4. SUFFICES /\ source' \in 0 .. Len(Sources)
               /\ offered' \in Seq(Agents)
               /\ asked' \in 0 .. Len(offered')
               /\ selected' \subseteq Agents
               /\ judged' \subseteq ToSet(offered')
               /\ NothingAskedYet' /\ AskedAreRead' /\ NothingIsDroppedUnread'
  <2>1. TypeOK'
    BY <1>0, <1>1, <1>2, <1>4 DEF TypeOK
  <2> QED BY <1>3, <1>4, <2>1 DEF Inv
<1>5. CASE Discover
  <2>1. Sources[source + 1] \in Seq(Agents) /\ source + 1 \in 0 .. Len(Sources)
    BY <1>0, <1>5, PlanAssumption DEF Discover, TypeOK
  <2>2. offered' \in Seq(Agents)
    <3>1. offered \in Seq(Agents)
      BY <1>0 DEF TypeOK
    <3>2. offered \o Sources[source + 1] \in Seq(Agents)
      BY <2>1, <3>1, JoinedIsIn
    <3> QED BY <1>5, <3>1, <3>2 DEF Discover
  <2>3. asked' = 0 /\ judged' = {} /\ stage' = "discover" /\ selected' = selected
    BY <1>5 DEF Discover, Inv, NothingAskedYet
  <2> QED BY <1>0, <1>5, <2>1, <2>2, <2>3
          DEF Discover, TypeOK, NothingAskedYet, AskedAreRead, NothingIsDroppedUnread
<1>6. CASE EndDiscovery
  <2>1. Described \in Seq(Agents) /\ Local \in Seq(Agents)
    BY PlanAssumption
  <2>2. offered' \in Seq(Agents)
    <3>1. offered \in Seq(Agents)
      BY <1>0 DEF TypeOK
    <3>2. offered \o Described \in Seq(Agents)
      BY <2>1, <3>1, JoinedIsIn
    <3> QED BY <1>6, <2>1, <3>2 DEF EndDiscovery
  <2>3. /\ asked' = 0 /\ judged' = {} /\ stage' \in {"select", "failed"}
        /\ selected' = selected /\ source' = source
    BY <1>6 DEF EndDiscovery, Inv, NothingAskedYet
  <2> QED BY <1>0, <2>2, <2>3
          DEF TypeOK, NothingAskedYet, AskedAreRead, NothingIsDroppedUnread
<1>7. CASE EvaluateBatch
  <2> DEFINE last == Min({asked + BatchSize, Len(offered)})
  <2>1. /\ offered \in Seq(Agents) /\ asked \in 0 .. Len(offered) /\ asked < Len(offered)
        /\ stage = "select" /\ UNCHANGED <<stage, source, offered>> /\ asked' = last
    BY <1>0, <1>7 DEF EvaluateBatch, TypeOK
  <2>2. /\ last \in 0 .. Len(offered)
        /\ \A i \in 1 .. last : i > asked => offered[i] \in Batch
        /\ Batch \subseteq ToSet(offered)
    BY <2>1, BatchIsNext
  <2>3. ToSet(offered) \subseteq Agents
    BY <2>1, ElementIsIn DEF ToSet
  <2>4. /\ selected' \subseteq Agents /\ judged' \subseteq ToSet(offered)
        /\ selected \cup judged \subseteq selected' \cup judged'
        /\ Batch \subseteq selected' \cup judged'
    BY <1>0, <1>7, <2>2, <2>3 DEF EvaluateBatch, FailSafe, TypeOK
  <2>5. AskedAreRead'
    <3> SUFFICES ASSUME NEW i \in 1 .. last
                 PROVE  offered[i] \in selected' \cup judged'
      BY <2>1 DEF AskedAreRead
    <3>1. CASE i > asked
      BY <2>2, <2>4, <3>1
    <3>2. CASE ~(i > asked)
      <4>1. i \in 1 .. asked
        BY <2>1, <2>2, <3>2
      <4> QED BY <2>1, <2>4, <4>1 DEF Inv, AskedAreRead
    <3> QED BY <3>1, <3>2
  <2> HIDE DEF last
  <2> QED BY <1>0, <2>1, <2>2, <2>4, <2>5 DEF TypeOK, NothingAskedYet, NothingIsDroppedUnread
<1>8. CASE Filter
  <2>1. /\ stage = "select" /\ asked = Len(offered) /\ stage' = "propose"
        /\ UNCHANGED <<source, offered, asked, judged>>
        /\ selected' = IF selected = {} THEN ToSet(offered) ELSE selected \cap ToSet(offered)
    BY <1>8 DEF Filter
  <2>2. ToSet(offered) \subseteq Agents
    BY <1>0, ElementIsIn DEF ToSet, TypeOK
  <2>3. \A i \in DOMAIN offered : offered[i] \in selected \cup judged
    BY <1>0, <2>1 DEF Inv, AskedAreRead, TypeOK
  <2>4. ToSet(offered) \ selected' \subseteq judged
    BY <2>1, <2>3 DEF ToSet
  <2> QED BY <1>0, <2>1, <2>2, <2>4
             DEF TypeOK, NothingAskedYet, AskedAreRead, NothingIsDroppedUnread
<1> QED BY <1>5, <1>6, <1>7, <1>8

LEMMA ProposalKeeps ==
  ASSUME Inv, Propose \/ NoValidPlan
  PROVE  Inv'
<1>1. /\ steps = <<>> /\ DOMAIN steps = {}
      /\ UNCHANGED <<source, offered, asked, selected, steps, unmatched, judged>>
      /\ stage = "propose" /\ stage' \in {"propose", "repair", "failed"}
  BY DEF Inv, NoStepsYet, Propose, NoValidPlan
<1>2. plan' \in Proposal /\ attempt' \in 0 .. 3
  BY PlanAssumption DEF Inv, TypeOK, Propose, NoValidPlan
<1>3. TypeOK'
  BY <1>1, <1>2 DEF Inv, TypeOK
<1> QED BY <1>1, <1>3 DEF Inv, NothingAskedYet, AskedAreRead, StepsAreSteps, NoStepsYet,
          NothingIsDroppedUnread, ProcessingHasInput, ReprojectionIsIsolated

LEMMA NormalizeKeeps ==
  ASSUME Inv, Normalize
  PROVE  Inv'
<1> DEFINE s == Normalized(plan)
<1>1. /\ stage = "repair" /\ stage' = "verify" /\ steps' = Passes(s)
      /\ UNCHANGED <<source, offered, asked, attempt, selected, plan, judged>>
      /\ unmatched' = plan.unmatched \cup Unstaffed(s)
  BY DEF Normalize
<1>2. plan \in Proposal
  BY DEF Inv, TypeOK
<1>3. /\ Draft(s) /\ DOMAIN s = DOMAIN plan.steps
      /\ \A i \in DOMAIN s : s[i].agent \in selected \cup {NoAgent}
  BY <1>2, NormalizedDraft
<1>4. unmatched' \subseteq Ids
  BY <1>1, <1>2, <1>3 DEF Unstaffed, Draft, Proposal
<1> HIDE DEF s
<1>5. /\ SameSteps(s, Passes(s))
      /\ \A i \in DOMAIN s :
           /\ Passes(s)[i].agent \in {s[i].agent, NoAgent} \cup selected
           /\ Passes(s)[i].deps \subseteq Known(s)
           /\ i > 1 /\ Passes(s)[i].agent \notin Retrieval => Passes(s)[i].deps # {}
           /\ Projection \in selected /\ Passes(s)[i].task \in Reprojecting =>
                Passes(s)[i].agent \in Retrieval \cup {Projection, NoAgent}
           /\ IsStep(Passes(s)[i])
  BY <1>3, PassesRepair
<1>6. DOMAIN steps' = DOMAIN s /\ Known(steps') = Known(s)
  BY <1>1, <1>5, SameStepsKnown DEF SameSteps
<1>7. \A i \in DOMAIN steps' :
        /\ steps'[i].id \in Ids
        /\ steps'[i].agent \in selected \cup {NoAgent}
        /\ steps'[i].deps \subseteq Known(steps')
  BY <1>1, <1>3, <1>5, <1>6 DEF SameSteps, Draft
<1>8. TypeOK'
  BY <1>1, <1>3, <1>4, <1>6, <1>7 DEF Inv, TypeOK, Known
<1>9. StepsAreSteps' /\ ProcessingHasInput' /\ ReprojectionIsIsolated'
  BY <1>1, <1>5, <1>6 DEF StepsAreSteps, ProcessingHasInput, ReprojectionIsIsolated
<1> QED BY <1>1, <1>8, <1>9 DEF Inv, NothingAskedYet, AskedAreRead, NoStepsYet,
          NothingIsDroppedUnread

LEMMA VerifyKeeps ==
  ASSUME Inv, VerifyAgents
  PROVE  Inv'
<1>1. /\ stage = "verify" /\ stage' = "done"
      /\ UNCHANGED <<source, offered, asked, attempt, selected, plan, judged>>
      /\ unmatched' = unmatched \cup Unstaffed(steps')
  BY DEF VerifyAgents, Recorded
<1>2. \A i \in DOMAIN steps :
        /\ steps[i].id \in Ids /\ steps[i].agent \in selected \cup {NoAgent}
        /\ steps[i].deps \subseteq Known(steps) /\ IsStep(steps[i])
  BY DEF Inv, TypeOK, StepsAreSteps, Known
<1>3. /\ SameSteps(steps, steps')
      /\ \A i \in DOMAIN steps : /\ steps'[i].deps = steps[i].deps
                                 /\ steps'[i].agent \in selected \cup {NoAgent}
                                 /\ IsStep(steps'[i])
  <2>1. CASE UNCHANGED steps
    BY <1>2, <2>1 DEF SameSteps
  <2>2. CASE \E c \in Corrections : steps' = Corrected(steps, c)
    BY <1>2, <2>2, CorrectedSame
  <2> QED BY <2>1, <2>2 DEF VerifyAgents
<1>4. DOMAIN steps' = DOMAIN steps /\ Known(steps') = Known(steps)
  BY <1>3, SameStepsKnown DEF SameSteps
<1>5. \A i \in DOMAIN steps' :
        /\ steps'[i].id \in Ids /\ steps'[i].agent \in selected \cup {NoAgent}
        /\ steps'[i].deps \subseteq Known(steps')
  BY <1>2, <1>3, <1>4 DEF SameSteps
<1>6. Unstaffed(steps') \subseteq Ids
  BY <1>5 DEF Unstaffed
<1>7. TypeOK'
  BY <1>1, <1>4, <1>5, <1>6 DEF Inv, TypeOK, Known
<1>8. StepsAreSteps'
  BY <1>3, <1>4 DEF StepsAreSteps
<1> QED BY <1>1, <1>7, <1>8 DEF Inv, NothingAskedYet, AskedAreRead, NoStepsYet,
          NothingIsDroppedUnread, ProcessingHasInput, ReprojectionIsIsolated

LEMMA InvHolds == Spec => []Inv
<1>1. Init => Inv
  <2> SUFFICES ASSUME Init PROVE Inv
    OBVIOUS
  <2>1. NoPlan \in Proposal
    BY DEF NoPlan, Proposal
  <2>2. TypeOK
    <3>1. /\ offered = <<>> /\ steps = <<>> /\ DOMAIN steps = {} /\ asked \in 0 .. Len(offered)
          /\ offered \in Seq(Agents)
      BY DEF Init
    <3>2. source \in 0 .. Len(Sources)
      BY PlanAssumption DEF Init
    <3> QED BY <2>1, <3>1, <3>2 DEF Init, TypeOK
  <2> QED BY <2>2 DEF Init, Inv, NothingAskedYet, AskedAreRead, StepsAreSteps, NoStepsYet,
          NothingIsDroppedUnread, ProcessingHasInput, ReprojectionIsIsolated
<1>2. Inv /\ [Next]_vars => Inv'
  <2> SUFFICES ASSUME Inv, [Next]_vars PROVE Inv'
    OBVIOUS
  <2>1. CASE UNCHANGED vars
    BY <2>1 DEF Inv, TypeOK, NothingAskedYet, AskedAreRead, StepsAreSteps, NoStepsYet,
       NothingIsDroppedUnread, ProcessingHasInput, ReprojectionIsIsolated, vars
  <2> QED BY <2>1, SelectionKeeps, ProposalKeeps, NormalizeKeeps, VerifyKeeps DEF Next
<1> QED BY <1>1, <1>2, PTL DEF Spec

\* The type invariant: every input of a step of the plan is a step, and every
\* agent is one of the catalog.
THEOREM TypeCorrect == Spec => []TypeOK
<1>1. Inv => TypeOK
  BY DEF Inv
<1> QED BY <1>1, InvHolds, PTL

\* No agent is left out of the planning that the model was not asked about.
THEOREM AgentsAreRead == Spec => []NothingIsDroppedUnread
<1>1. Inv => NothingIsDroppedUnread
  BY DEF Inv
<1> QED BY <1>1, InvHolds, PTL

\* No pass takes the last input from a step that processes data.
THEOREM InputIsLeft == Spec => []ProcessingHasInput
<1>1. Inv => ProcessingHasInput
  BY DEF Inv
<1> QED BY <1>1, InvHolds, PTL

\* The passes leave no reprojection to another agent that processes data.
THEOREM ReprojectionsAreIsolated == Spec => []ReprojectionIsIsolated
<1>1. Inv => ReprojectionIsIsolated
  BY DEF Inv
<1> QED BY <1>1, InvHolds, PTL
=============================================================================
