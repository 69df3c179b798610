---------------------------- MODULE MCPlanRepair ----------------------------
(***************************************************************************)
(* Instance of PlanRepair for TLC: plans of three steps, of which two may  *)
(* share an identifier, over three agents on two servers.                  *)
(***************************************************************************)
EXTENDS PlanRepair

MCIds == {"s1", "s2", "s3"}
MCNames == MCIds \cup {"S1", "gone"}
\* "gone" stands for any name that no step has.
MCNormal == [n \in MCNames |-> IF n = "S1" THEN "s1" ELSE IF n = "gone" THEN "s3" ELSE n]

MCTasks == {"fetch", "study", "reproject", "align", "audit", "digest"}
MCPreferences ==
  [t \in MCTasks |-> IF t = "study" THEN <<"absent", "vector">> ELSE <<"vector">>]

MCAgents == {"domain", "vector", "map_projection", "absent"}
MCLocal == <<>>
MCSources == <<<<"domain">>, <<"map_projection">>>>
MCDescribed == <<"vector">>

Draft(names, tasks, agents, refs) ==
  LET step(i) == [name |-> names[i], task |-> tasks[i],
                  agent |-> agents[i], refs |-> refs[i]]
  IN [steps |-> <<step(1), step(2), step(3)>>, unmatched |-> {}]

\* A first step that fetches, or reprojects what a later one produces; a
\* second that analyses, aligns or audits; and a third on any of them.
MCProposals ==
  {Draft(<<"s1", "s2", last>>, <<t1, t2, t3>>, <<a1, a2, a3>>, <<r1, r2, r3>>) :
     last \in {"s3", "S1"},
     t1 \in {"fetch", "reproject", "audit"}, a1 \in {"domain", "vector"},
     r1 \in {{}, {"s2"}},
     t2 \in {"study", "align", "audit"}, a2 \in {"domain", "vector", NoAgent},
     r2 \in {{}, {"s1"}, {"s3"}, {"gone"}},
     t3 \in {"study", "digest"}, a3 \in {"vector", "absent"},
     r3 \in {{}, {"s1", "s2"}}}

MCCorrections ==
  {[i \in MCIds |-> IF i = n THEN a ELSE Kept] :
     n \in MCIds, a \in {"domain", "vector", "absent", NoAgent}}
=============================================================================
