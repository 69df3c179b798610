-------------------------- MODULE MCCanvasReview --------------------------
(***************************************************************************)
(* Instance of CanvasReview for TLC: a workflow of two nodes, of which one *)
(* may consume the other, a third node that the model may add, and two     *)
(* texts.                                                                  *)
(***************************************************************************)
EXTENDS CanvasReview

CONSTANTS a, b, c

MCIds == {a, b, c}
MCTexts == {1, 2}
MCNoRun == 0

Fresh(ids, edges) ==
  [ids |-> ids, edges |-> edges,
   status |-> [n \in MCIds |-> "idle"],
   qc |-> [n \in MCIds |-> "absent"],
   count |-> [n \in MCIds |-> 0],
   text |-> [n \in MCIds |-> 1],
   ran |-> [n \in MCIds |-> MCNoRun]]

MCDocuments == {Fresh({a, b}, {<<a, b>>}), Fresh({a, b, c}, {<<a, b>>, <<b, c>>})}

Proposal(ids, edges, changed, idle) ==
  [ids |-> ids, edges |-> edges, idle |-> idle,
   text |-> [n \in MCIds |-> IF n \in changed THEN 2 ELSE 1]]

\* The model may change either node or put it back, separate the nodes, and
\* put the third node after, between or before them or in a cycle.
MCSuggestions ==
  {Proposal({a, b}, {<<a, b>>}, T, {}) : T \in {{}, {a}, {b}}} \cup
  {Proposal({a, b}, {<<a, b>>}, {}, {a}),
   Proposal({a, b}, {}, {}, {b}),
   Proposal({a, b, c}, {<<a, b>>, <<b, c>>}, {a}, {}),
   Proposal({a, b, c}, {<<a, c>>, <<c, b>>}, {}, {}),
   Proposal({a, b, c}, {<<a, b>>, <<b, c>>, <<c, b>>}, {}, {}),
   Proposal({b, c}, {<<c, b>>}, {}, {})}
=============================================================================
