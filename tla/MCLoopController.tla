-------------------------- MODULE MCLoopController --------------------------
(***************************************************************************)
(* A plan of two tasks, the second on the first, and the patches that the  *)
(* repair prompts describe: a third task put in front of a task that is    *)
(* there, a task replaced, dropped, detached or run again.                 *)
(***************************************************************************)
EXTENDS LoopController, TLC

MCIds == {1, 2, 3}

MCPlans == {1 :> {} @@ 2 :> {1}}

Keep == [deps |-> <<>>, status |-> <<>>]
DependOn(S) == [deps |-> <<S>>, status |-> <<>>]

MCPatches ==
     \* a repair between the two tasks; as an adapter the task in hand waits for it
     {[NoPatch EXCEPT !.insert = 3 :> {1}, !.update = 2 :> DependOn({3})]}
     \* a replacement of the first task
  \cup {[NoPatch EXCEPT !.supersede = {1}, !.insert = 3 :> {},
                        !.update = 2 :> DependOn({3})]}
     \* a task that is superseded, or removed
  \cup {[NoPatch EXCEPT !.supersede = {1}]}
  \cup {[NoPatch EXCEPT !.remove = {1}, !.update = 2 :> DependOn({})]}
     \* an edge turned round, or added again
  \cup {[NoPatch EXCEPT !.removeDeps = {<<1, 2>>}, !.addDeps = {<<2, 1>>}]}
  \cup {[NoPatch EXCEPT !.addDeps = {<<1, 2>>}]}
     \* tasks run again, with or without their old outputs
  \cup {[NoPatch EXCEPT !.update = 1 :> Keep]}
  \cup {[NoPatch EXCEPT !.update = 2 :> Keep, !.reset = {1}, !.reuse = u] :
          u \in {{}, {1}}}

\* A plan of one task, for longer runs: a repair before the task, the task alone
\* again, and the second task dropped or run again.
MCOnePlan == {1 :> {}}

MCOnePatches ==
     {[NoPatch EXCEPT !.insert = 2 :> {}], [NoPatch EXCEPT !.remove = {2}],
      [NoPatch EXCEPT !.update = 1 :> Keep],
      [NoPatch EXCEPT !.update = 1 :> Keep, !.reset = {2}]}

\* The blocked task itself, with a status: the Replanner sees the tasks with
\* theirs and an update may carry one.
MCStatusPatches ==
  {[NoPatch EXCEPT !.update = t :> [deps |-> <<>>, status |-> <<s>>]] :
     t \in {1, 2}, s \in {"rejected", "ready", "successful"}}
=============================================================================
