----------------------------- MODULE TaskGraph -----------------------------
(***************************************************************************)
(* The task graph of a workflow and the functions of core/graph.py over    *)
(* it: the scheduling order, the tasks that are ready, and the versioned   *)
(* patch that the Replanner proposes.  A graph is a function from task ids *)
(* to [status, deps]; ids are numbers, whose order is the string order the *)
(* code sorts by.  Edges are derived from deps, so they are not kept.      *)
(***************************************************************************)
EXTENDS Naturals, FiniteSets, Sequences

TaskStatus ==
  {"proposed", "blocked", "ready", "binding", "bound", "running",
   "provisional_success", "validating", "successful", "rejected", "repairing",
   "failed", "waiting_for_human", "superseded"}

\* LEGAL_TRANSITIONS
Legal ==
  [proposed            |-> {"blocked", "ready"},
   blocked             |-> {"ready", "waiting_for_human", "superseded"},
   ready               |-> {"binding"},
   binding             |-> {"bound", "failed"},
   bound               |-> {"running", "validating"},
   running             |-> {"provisional_success", "failed"},
   provisional_success |-> {"validating"},
   validating          |-> {"successful", "rejected", "waiting_for_human"},
   rejected            |-> {"ready", "repairing", "waiting_for_human", "failed"},
   repairing           |-> {"ready", "blocked", "superseded", "waiting_for_human"},
   failed              |-> {"ready", "repairing", "waiting_for_human"},
   waiting_for_human   |-> {"ready", "blocked"},
   successful          |-> {"superseded"},
   superseded          |-> {}]

Done == {"successful", "superseded"}

-----------------------------------------------------------------------------
(* Order *)

Known(tasks) == \A t \in DOMAIN tasks : tasks[t].deps \subseteq DOMAIN tasks

Least(S) == CHOOSE x \in S : \A y \in S : x <= y

\* Kahn's algorithm takes the least of the tasks whose parents are all out,
\* for as long as there is one.
Sorted(deps) ==
  LET Out(order) == {order[i] : i \in 1..Len(order)}
      Available(order) == {t \in DOMAIN deps \ Out(order) : deps[t] \subseteq Out(order)}
      complete[order \in Seq(DOMAIN deps)] ==
        IF Available(order) = {} THEN order
        ELSE complete[Append(order, Least(Available(order)))]
  IN complete[<<>>]

Dependencies(tasks) == [t \in DOMAIN tasks |-> tasks[t].deps]

Ordered(tasks) == Sorted(Dependencies(tasks))

\* validate_task_graph, for graphs whose roles and requirements match
ValidGraph(tasks) ==
  /\ DOMAIN tasks # {}
  /\ Known(tasks)
  /\ Len(Ordered(tasks)) = Cardinality(DOMAIN tasks)

ParentsDone(tasks, t) == \A p \in tasks[t].deps : tasks[p].status \in Done

IsReady(tasks, t) ==
  /\ tasks[t].status \in {"proposed", "blocked", "ready"}
  /\ ParentsDone(tasks, t)

Among(order, S) == SelectSeq(order, LAMBDA t : t \in S)

\* ready_task_ids
Ready(tasks) == Among(Ordered(tasks), {t \in DOMAIN tasks : IsReady(tasks, t)})

\* ready[0]
IsNext(tasks, t) ==
  /\ t \in DOMAIN tasks
  /\ IsReady(tasks, t)
  /\ t = Head(Ready(tasks))

Children(tasks, S) == {t \in DOMAIN tasks : tasks[t].deps \cap S # {}}

\* downstream_task_ids: the least set that holds the children of S and its own
Downstream(tasks, S) ==
  LET Closed == {T \in SUBSET DOMAIN tasks : Children(tasks, S \cup T) \subseteq T}
  IN {t \in DOMAIN tasks : \A T \in Closed : t \in T}

Leaves(tasks) == {t \in DOMAIN tasks : Children(tasks, {t}) = {}}

-----------------------------------------------------------------------------
(* GraphPatch: insert and update map ids to what they set; a field of an   *)
(* update that is not given is <<>>, a given one <<value>>.                *)

NoPatch ==
  [insert |-> <<>>, remove |-> {}, supersede |-> {}, update |-> <<>>,
   addDeps |-> {}, removeDeps |-> {}, reuse |-> {}, reset |-> {}]

ChangesStructure(p) ==
  \/ DOMAIN p.insert # {} \/ DOMAIN p.update # {}
  \/ p.remove # {} \/ p.supersede # {}
  \/ p.addDeps # {} \/ p.removeDeps # {}

\* A strict partial update; a rejected or failed task goes back to blocked.
Merged(task, change) ==
  LET status == IF change.status = <<>> THEN task.status ELSE change.status[1]
  IN [status |-> IF status \in {"rejected", "failed"} THEN "blocked" ELSE status,
      deps   |-> IF change.deps = <<>> THEN task.deps ELSE change.deps[1]]

\* Removals, supersessions, updates and insertions, in that order.
Edited(tasks, p) ==
  LET superseded(t) == IF t \in p.supersede
                       THEN [tasks[t] EXCEPT !.status = "superseded"] ELSE tasks[t]
      kept(t) == IF t \in DOMAIN p.update
                 THEN Merged(superseded(t), p.update[t]) ELSE superseded(t)
  IN [t \in (DOMAIN tasks \ p.remove) \cup DOMAIN p.insert |->
        IF t \in DOMAIN p.insert
        THEN [status |-> "proposed", deps |-> p.insert[t]] ELSE kept(t)]

\* Dependency removals, then additions.
Rewired(tasks, p) ==
  [t \in DOMAIN tasks |->
     [tasks[t] EXCEPT !.deps =
        (@ \ {d \in @ : <<d, t>> \in p.removeDeps})
          \cup {d \in DOMAIN tasks : <<d, t>> \in p.addDeps}]]

Candidate(tasks, p) == Rewired(Edited(tasks, p), p)

Affected(p) == p.remove \cup p.supersede \cup DOMAIN p.update \cup DOMAIN p.insert

\* The tasks whose results the patch makes stale.
Stale(tasks, p) == Downstream(Candidate(tasks, p), Affected(p)) \cup p.reset

\* No exception is raised on the way.
Applicable(tasks, p) ==
  LET ids == DOMAIN Edited(tasks, p)
  IN /\ ChangesStructure(p)
     /\ p.remove \cup p.supersede \subseteq DOMAIN tasks
     /\ p.remove \cap p.supersede = {}
     /\ DOMAIN p.insert \cap DOMAIN tasks = {}
     /\ DOMAIN p.update \subseteq DOMAIN tasks \ p.remove
     /\ \A e \in p.removeDeps : e[2] \in ids
     /\ \A e \in p.addDeps : {e[1], e[2]} \subseteq ids
     /\ ValidGraph(Candidate(tasks, p))

\* apply_graph_patch
Patched(tasks, p) ==
  LET candidate == Candidate(tasks, p)
  IN [t \in DOMAIN candidate |->
        IF t \in Stale(tasks, p)
           /\ candidate[t].status \notin {"superseded", "proposed"}
        THEN [candidate[t] EXCEPT !.status = "blocked"] ELSE candidate[t]]

-----------------------------------------------------------------------------
(* What the Replanner makes of a patch that the model proposes, before it  *)
(* is applied, for the blocked task t.  Some of the inserted tasks are     *)
(* adapters, and for some of these the artifact they repair is identified: *)
(* ground maps each adapter to <<>>, or to <<the producer of its source>>. *)

\* An artifact of the workflow's inputs has no producer; which artifact is
\* identified, if one is, hangs on roles, formats and findings.
Sources(tasks) == {<<>>, <<{}>>} \cup {<<{s}>> : s \in DOMAIN tasks}

Groundings(tasks, p) ==
  UNION {[adapters -> Sources(tasks)] : adapters \in SUBSET DOMAIN p.insert}

\* The blocked task and its descendants, of which a repair is no consumer.
Unsafe(tasks, t) == {t} \cup Downstream(tasks, {t})

\* The dependencies of an adapter
Repaired(deps, source, unsafe) == IF source = <<>> THEN deps \ unsafe ELSE source[1]

Producer(source) == IF source = <<>> THEN {} ELSE source[1]

\* The consumer waits for the adapter in the place of the producer.
Adapted(tasks, update, t, r, source) ==
  LET status == IF t \in DOMAIN update THEN update[t].status ELSE <<>>
      deps == (tasks[t].deps \ Producer(source)) \cup {r}
  IN [u \in DOMAIN update \cup {t} |->
        IF u = t THEN [status |-> status, deps |-> <<deps>>] ELSE update[u]]

\* _normalize_patch_payload
Normalized(tasks, p, t, ground) ==
  LET repairs == DOMAIN p.insert
      inserted(r) == IF r \in DOMAIN ground
                     THEN Repaired(p.insert[r], ground[r], Unsafe(tasks, t))
                     ELSE p.insert[r]
  IN [insert |-> [r \in repairs |-> inserted(r)],
      update |-> IF Cardinality(repairs) = 1 /\ DOMAIN ground = repairs
                 THEN LET r == CHOOSE r \in repairs : TRUE
                      IN Adapted(tasks, p.update, t, r, ground[r])
                 ELSE p.update,
      addDeps |-> p.addDeps \ {<<t, r>> : r \in repairs},
      remove |-> p.remove, supersede |-> p.supersede, removeDeps |-> p.removeDeps,
      reuse |-> p.reuse, reset |-> p.reset]

\* _validate_goal_preservation: the required outputs keep a producer, and no
\* finished task disappears.
KeepsGoal(tasks, revised, goal) ==
  /\ goal \subseteq {t \in DOMAIN revised : revised[t].status # "superseded"}
  /\ {t \in DOMAIN tasks : tasks[t].status = "successful"} \subseteq DOMAIN revised
=============================================================================
