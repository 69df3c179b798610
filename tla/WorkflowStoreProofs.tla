------------------------ MODULE WorkflowStoreProofs ------------------------
(***************************************************************************)
(* Proofs about WorkflowStore, for any calls, retention calls, lease time  *)
(* and bounds.  The inductive invariant says what a call in each place     *)
(* knows about the row, about the lease, and about the other calls.        *)
(***************************************************************************)
EXTENDS WorkflowStore, TLAPS

\* A call's copy is a version the row has had, with the stage it had then.
CopyIsPast ==
  \A c \in Calls :
    /\ copy[c].ver <= row.ver
    /\ copy[c].ver = row.ver => copy[c].stage = row.stage

\* The stages a call can have in hand where it is.
StageOf(place) ==
  IF place = "answer" THEN {"paused"}
  ELSE IF place = "bind" THEN {"binding"}
  ELSE IF place \in {"dispatch", "work"} THEN {"running"}
  ELSE IF place = "review" THEN {"review"}
  ELSE Stages

StageInHand == \A c \in Calls : copy[c].stage \in StageOf(pc[c])

\* A version at which a worker was or is about to be invoked has one invoker.
DispatchedIsPast == \A d \in dispatched : d[2] <= row.ver

DispatchIsNew ==
  \A c \in Calls : pc[c] = "dispatch" =>
    /\ \A d \in dispatched : d[2] # copy[c].ver
    /\ \A e \in Calls : e # c /\ pc[e] = "dispatch" => copy[e].ver # copy[c].ver

\* An executor whose lease is good has it, unless retention took the row.
GoodLeaseIsHeld ==
  row.present =>
    \A c \in Calls : pc[c] \in Executing /\ held[c] > clock
      => lease = [owner |-> c, expires |-> held[c]]

\* A call at work under a good lease.
Working(c) == pc[c] \in Executing \ {"top"} /\ held[c] > clock /\ row.present

\* The other executors are behind a call that is at work.
OthersAreBehind ==
  \A c, d \in Calls :
    Working(c) /\ d # c /\ pc[d] \in Executing => copy[d].ver < row.ver

-----------------------------------------------------------------------------
(* Types *)

\* The created workflow and its idle calls have their types.
LEMMA TypeInit == Init => TypeOK
  BY StoreAssumption DEF Init, TypeOK, NoLease, Stages, Places, Executing

\* A save keeps the types, whichever way it goes.
LEMMA SaveTypes ==
  ASSUME TypeOK, NEW c \in Calls, NEW s \in Stages, NEW next \in Places,
         NEW failed \in Places, Save(c, s, next, failed)
  PROVE  /\ row' \in [present : BOOLEAN, ver : Nat, stage : Stages, updated : Nat]
         /\ pc' \in [Calls -> Places]
         /\ copy' \in [Calls -> [ver : Nat, stage : Stages]]
<1>1. copy[c].ver + 1 \in Nat
  BY DEF TypeOK
<1>2. CASE VersionMatches(c)
  <2>1. row' = [row EXCEPT !.ver = copy[c].ver + 1, !.stage = s, !.updated = clock]
    BY <1>2 DEF Save
  <2>2. copy' = [copy EXCEPT ![c] = [ver |-> copy[c].ver + 1, stage |-> s]]
    BY <1>2 DEF Save
  <2>3. pc' = [pc EXCEPT ![c] = next]
    BY <1>2 DEF Save
  <2> QED
    BY <1>1, <2>1, <2>2, <2>3 DEF TypeOK
<1>3. CASE ~VersionMatches(c)
  BY <1>3 DEF Save, TypeOK
<1> QED
  BY <1>2, <1>3

\* Every step of a call, of retention or of the clock keeps the types.
LEMMA TypeNext == TypeOK /\ [Next]_vars => TypeOK'
<1> SUFFICES ASSUME TypeOK, [Next]_vars PROVE TypeOK'
  OBVIOUS
<1> USE StoreAssumption DEF TypeOK, Stages, InFlight, Places, Executing
<1>1. ASSUME NEW c \in Calls, Answer(c) PROVE TypeOK'
  BY <1>1, SaveTypes DEF Answer
<1>2. ASSUME NEW c \in Calls, Load(c) PROVE TypeOK'
  BY <1>2 DEF Load, Snapshot
<1>3. ASSUME NEW c \in Calls, Acquire(c) PROVE TypeOK'
  BY <1>3 DEF Acquire, Deadline
<1>4. ASSUME NEW c \in Calls, Return(c) PROVE TypeOK'
  BY <1>4 DEF Return
<1>5. ASSUME NEW c \in Calls, Top(c) PROVE TypeOK'
  BY <1>5, SaveTypes DEF Top
<1>6. ASSUME NEW c \in Calls, Checkpoint(c) PROVE TypeOK'
  BY <1>6, SaveTypes DEF Checkpoint
<1>7. ASSUME NEW c \in Calls, Bind(c) PROVE TypeOK'
  BY <1>7, SaveTypes DEF Bind
<1>8. ASSUME NEW c \in Calls, Dispatch(c) PROVE TypeOK'
  BY <1>8 DEF Dispatch
<1>9. ASSUME NEW c \in Calls, Collect(c) PROVE TypeOK'
  BY <1>9, SaveTypes DEF Collect
<1>10. ASSUME NEW c \in Calls, Settle(c) PROVE TypeOK'
  BY <1>10, SaveTypes DEF Settle
<1>11. ASSUME NEW c \in Calls, Leave(c) PROVE TypeOK'
  BY <1>11 DEF Leave, ReleaseOwn, NoLease
<1>12. ASSUME NEW c \in Calls, RunCall(c) \/ Escape(c) \/ Crash(c) PROVE TypeOK'
  BY <1>12 DEF RunCall, Escape, Crash
<1>13. ASSUME NEW c \in Calls, ResumeCall(c) PROVE TypeOK'
  BY <1>13 DEF ResumeCall, Snapshot
<1>14. ASSUME NEW s \in Sweepers, SweepSelect(s) PROVE TypeOK'
  BY <1>14 DEF SweepSelect
<1>15. ASSUME NEW s \in Sweepers, SweepDelete(s) PROVE TypeOK'
  BY <1>15 DEF SweepDelete, NoLease
<1>16. CASE Tick
  BY <1>16 DEF Tick
<1>17. CASE UNCHANGED vars
  BY <1>17 DEF vars
<1> QED
  BY <1>1, <1>2, <1>3, <1>4, <1>5, <1>6, <1>7, <1>8, <1>9, <1>10, <1>11, <1>12,
     <1>13, <1>14, <1>15, <1>16, <1>17 DEF Next, Advance

\* Every reachable state has the types it should: no step writes a stage, a
\* place or a lease outside its domain.
THEOREM TypeCorrect == Spec => []TypeOK
  BY TypeInit, TypeNext, PTL DEF Spec

-----------------------------------------------------------------------------
(* The steps that write the row *)

Writes(c) ==
  Answer(c) \/ Top(c) \/ Checkpoint(c) \/ Bind(c) \/ Collect(c) \/ Settle(c)

\* Call c saves stage s from where it is and goes to next, or to failed.
SaveStep(c, s, next, failed) ==
  /\ Save(c, s, next, failed)
  /\ s \in Stages /\ s \in Serial!Successors[copy[c].stage]
  /\ next \in Places /\ s \in StageOf(next)
  /\ failed \in {"leave", "ended"}
  /\ \/ pc[c] = "answer" /\ next = "load"
     \/ pc[c] \in Executing \ {"dispatch"}
  /\ UNCHANGED <<lease, clock, held, sweep, dispatched>>

\* Every write is a save of a stage that can follow the one in hand.
LEMMA WriteSaves ==
  ASSUME TypeOK, StageInHand, NEW c \in Calls, Writes(c)
  PROVE  \E s, next, failed : SaveStep(c, s, next, failed)
<1> USE DEF TypeOK, StageInHand, StageOf, Stages, InFlight, Places, Executing,
            SaveStep, Serial!Successors
<1>1. CASE Answer(c)
  BY <1>1 DEF Answer
<1>2. CASE Top(c)
  <2>1. CASE Save(c, "closed", "leave", "leave")
    <3>1. SaveStep(c, "closed", "leave", "leave")
      BY <1>2, <2>1 DEF Top, Returns, Terminal
    <3> QED
      BY <3>1
  <2>2. CASE Save(c, "binding", "bind", "leave")
    <3>1. SaveStep(c, "binding", "bind", "leave")
      BY <1>2, <2>2 DEF Top, Returns, Terminal
    <3> QED
      BY <3>1
  <2> QED
    BY <1>2, <2>1, <2>2 DEF Top
<1>3. CASE Checkpoint(c)
  BY <1>3 DEF Checkpoint, Returns, Terminal
<1>4. CASE Bind(c)
  BY <1>4 DEF Bind
<1>5. CASE Collect(c)
  BY <1>5 DEF Collect
<1>6. CASE Settle(c)
  <2>1. ASSUME NEW s \in {"open", "review"}, Save(c, s, "top", "leave")
        PROVE  SaveStep(c, s, "top", "leave")
    BY <1>6, <2>1 DEF Settle
  <2>2. ASSUME Save(c, "paused", "top", "leave")
        PROVE  SaveStep(c, "paused", "top", "leave")
    BY <1>6, <2>2 DEF Settle
  <2>3. ASSUME Save(c, "closed", "leave", "leave")
        PROVE  SaveStep(c, "closed", "leave", "leave")
    BY <1>6, <2>3 DEF Settle
  <2>4. \/ \E s \in {"open", "review"} : Save(c, s, "top", "leave")
        \/ Save(c, "paused", "top", "leave")
        \/ Save(c, "closed", "leave", "leave")
    BY <1>6 DEF Settle
  <2> HIDE DEF SaveStep
  <2> QED
    BY <2>1, <2>2, <2>3, <2>4
<1> QED
  BY <1>1, <1>2, <1>3, <1>4, <1>5, <1>6 DEF Writes

\* What such a save does to the row and to its call; nothing to other calls.
Committed(c, s, next) ==
  /\ row.present
  /\ copy[c].ver = row.ver
  /\ row'.ver = row.ver + 1
  /\ row'.stage = s
  /\ copy'[c].ver = row.ver + 1
  /\ copy'[c].stage = s
  /\ pc'[c] = next

Refused(c, failed) == pc'[c] = failed /\ UNCHANGED <<row, copy>>

Moves(c, s, next, failed) ==
  /\ s \in Stages /\ s \in Serial!Successors[copy[c].stage]
  /\ next \in Places /\ s \in StageOf(next)
  /\ failed \in {"leave", "ended"}
  /\ \/ pc[c] = "answer" /\ next = "load"
     \/ pc[c] \in Executing \ {"dispatch"}
  /\ row'.present = row.present
  /\ \A e \in Calls : e # c => pc'[e] = pc[e] /\ copy'[e] = copy[e]
  /\ Committed(c, s, next) \/ Refused(c, failed)
  /\ UNCHANGED <<lease, clock, held, sweep, dispatched>>

\* A save takes the row one version up to the saved stage, or leaves it alone.
LEMMA SaveMoves ==
  ASSUME TypeOK, NEW c \in Calls, NEW s, NEW next, NEW failed,
         SaveStep(c, s, next, failed)
  PROVE  Moves(c, s, next, failed)
<1>1. CASE VersionMatches(c)
  <2>1. row' = [row EXCEPT !.ver = copy[c].ver + 1, !.stage = s, !.updated = clock]
    BY <1>1 DEF SaveStep, Save
  <2>2. copy' = [copy EXCEPT ![c] = [ver |-> copy[c].ver + 1, stage |-> s]]
    BY <1>1 DEF SaveStep, Save
  <2>3. pc' = [pc EXCEPT ![c] = next]
    BY <1>1 DEF SaveStep, Save
  <2>4. row.present /\ row.ver = copy[c].ver
    BY <1>1 DEF VersionMatches
  <2>5. Committed(c, s, next)
    BY <2>1, <2>2, <2>3, <2>4 DEF TypeOK, Committed
  <2> QED
    BY <2>1, <2>2, <2>3, <2>5 DEF TypeOK, SaveStep, Moves
<1>2. CASE ~VersionMatches(c)
  BY <1>2 DEF SaveStep, Save, TypeOK, Refused, Moves
<1> QED
  BY <1>1, <1>2

\* What any writing step does to the row, the copies and the places (save).
LEMMA WriteMoves ==
  ASSUME TypeOK, StageInHand, NEW c \in Calls, Writes(c)
  PROVE  \E s, next, failed : Moves(c, s, next, failed)
  BY WriteSaves, SaveMoves

\* The steps that change no copy and leave the row's version and stage alone.
Spares(c) ==
  Acquire(c) \/ Return(c) \/ Dispatch(c) \/ Leave(c) \/ RunCall(c)
  \/ Escape(c) \/ Crash(c)

-----------------------------------------------------------------------------
(* What a call knows of the row *)

\* No step makes a copy newer than the row, or equal in version and different
\* in stage (load, save).
LEMMA CopyNext ==
  ASSUME TypeOK, TypeOK', StageInHand, CopyIsPast, [Next]_vars
  PROVE  CopyIsPast'
<1> USE DEF TypeOK, CopyIsPast
<1>1. ASSUME NEW c \in Calls, NEW s, NEW next, NEW failed,
             Moves(c, s, next, failed)
      PROVE  CopyIsPast'
  <2>1. CASE Committed(c, s, next)
    BY <1>1, <2>1 DEF Moves, Committed
  <2>2. CASE Refused(c, failed)
    BY <1>1, <2>2 DEF Moves, Refused
  <2> QED
    BY <1>1, <2>1, <2>2 DEF Moves
<1>2. ASSUME NEW c \in Calls, Writes(c) PROVE CopyIsPast'
  BY <1>1, <1>2, WriteMoves
<1>3. ASSUME NEW c \in Calls, Load(c) \/ ResumeCall(c) PROVE CopyIsPast'
  BY <1>3 DEF Load, ResumeCall, Snapshot
<1>4. ASSUME NEW c \in Calls, Spares(c) PROVE CopyIsPast'
  BY <1>4 DEF Spares, Acquire, Return, Dispatch, Leave, RunCall, Escape, Crash
<1>5. ASSUME NEW s \in Sweepers, SweepSelect(s) \/ SweepDelete(s)
      PROVE  CopyIsPast'
  BY <1>5 DEF SweepSelect, SweepDelete
<1>6. CASE Tick \/ UNCHANGED vars
  BY <1>6 DEF Tick, vars
<1> QED
  BY <1>2, <1>3, <1>4, <1>5, <1>6 DEF Next, Advance, Writes, Spares

\* A call stays at the places its stage allows (run).
LEMMA StageNext ==
  ASSUME TypeOK, TypeOK', StageInHand, [Next]_vars
  PROVE  StageInHand'
<1> USE DEF TypeOK, StageInHand, StageOf
<1>1. ASSUME NEW c \in Calls, NEW s, NEW next, NEW failed,
             Moves(c, s, next, failed)
      PROVE  StageInHand'
  <2>1. CASE Committed(c, s, next)
    BY <1>1, <2>1 DEF Moves, Committed
  <2>2. CASE Refused(c, failed)
    BY <1>1, <2>2 DEF Moves, Refused
  <2> QED
    BY <1>1, <2>1, <2>2 DEF Moves
<1>2. ASSUME NEW c \in Calls, Writes(c) PROVE StageInHand'
  BY <1>1, <1>2, WriteMoves
<1>3. ASSUME NEW c \in Calls, Load(c) \/ ResumeCall(c) PROVE StageInHand'
  BY <1>3 DEF Load, ResumeCall, Snapshot
<1>4. ASSUME NEW c \in Calls, Spares(c) PROVE StageInHand'
  BY <1>4 DEF Spares, Acquire, Return, Dispatch, Leave, RunCall, Escape, Crash
<1>5. CASE \/ \E s \in Sweepers : SweepSelect(s) \/ SweepDelete(s)
           \/ Tick \/ UNCHANGED vars
  BY <1>5 DEF SweepSelect, SweepDelete, Tick, vars
<1> QED
  BY <1>2, <1>3, <1>4, <1>5 DEF Next, Advance, Writes, Spares

-----------------------------------------------------------------------------
(* One dispatch for a version *)

\* A worker is invoked at a version no worker was invoked at before (run).
LEMMA DispatchNext ==
  ASSUME TypeOK, TypeOK', StageInHand, CopyIsPast, DispatchedIsPast,
         DispatchIsNew, OneDispatchPerVersion, [Next]_vars
  PROVE  DispatchedIsPast' /\ DispatchIsNew' /\ OneDispatchPerVersion'
<1> USE DEF TypeOK, CopyIsPast, DispatchedIsPast, DispatchIsNew,
            OneDispatchPerVersion
<1> DEFINE Goal == DispatchedIsPast' /\ DispatchIsNew' /\ OneDispatchPerVersion'
<1>1. ASSUME NEW c \in Calls, NEW s, NEW next, NEW failed,
             Moves(c, s, next, failed)
      PROVE  Goal
  <2>1. CASE Committed(c, s, next)
    <3>1. row'.ver = row.ver + 1 /\ row.ver \in Nat /\ dispatched' = dispatched
      BY <1>1, <2>1 DEF Moves, Committed
    <3>2. \A d \in dispatched : d[2] \in Nat /\ d[2] <= row.ver
      OBVIOUS
    <3>3. DispatchedIsPast'
      BY <3>1, <3>2
    <3>4. \A e \in Calls : e # c => pc'[e] = pc[e] /\ copy'[e] = copy[e]
      BY <1>1 DEF Moves
    <3>5. copy'[c].ver = row.ver + 1
      BY <2>1 DEF Committed
    <3>6. \A e \in Calls : copy[e].ver \in Nat /\ copy[e].ver <= row.ver
      OBVIOUS
    <3>7. ASSUME NEW e \in Calls, pc'[e] = "dispatch"
          PROVE  /\ \A d \in dispatched : d[2] # copy'[e].ver
                 /\ \A f \in Calls :
                      f # e /\ pc'[f] = "dispatch" => copy'[f].ver # copy'[e].ver
      <4>1. CASE e = c
        BY <4>1, <3>2, <3>4, <3>5, <3>6, <3>1
      <4>2. CASE e # c
        BY <4>2, <3>7, <3>1, <3>2, <3>4, <3>5, <3>6
      <4> QED
        BY <4>1, <4>2
    <3>8. DispatchIsNew'
      BY <3>1, <3>7
    <3> QED
      BY <3>1, <3>3, <3>8
  <2>2. CASE Refused(c, failed)
    BY <1>1, <2>2 DEF Moves, Refused
  <2> QED
    BY <1>1, <2>1, <2>2 DEF Moves
<1>2. ASSUME NEW c \in Calls, Writes(c) PROVE Goal
  BY <1>1, <1>2, WriteMoves
<1>3. ASSUME NEW c \in Calls, Dispatch(c) PROVE Goal
  BY <1>3 DEF Dispatch
<1>4. ASSUME NEW c \in Calls, Load(c) \/ ResumeCall(c) PROVE Goal
  BY <1>4 DEF Load, ResumeCall, Snapshot
<1>5. ASSUME NEW c \in Calls, Spares(c), ~Dispatch(c) PROVE Goal
  BY <1>5 DEF Spares, Acquire, Return, Leave, RunCall, Escape, Crash
<1>6. ASSUME NEW s \in Sweepers, SweepSelect(s) \/ SweepDelete(s) PROVE Goal
  BY <1>6 DEF SweepSelect, SweepDelete
<1>7. CASE Tick \/ UNCHANGED vars
  BY <1>7 DEF Tick, vars
<1> QED
  BY <1>2, <1>3, <1>4, <1>5, <1>6, <1>7 DEF Next, Advance, Writes, Spares

-----------------------------------------------------------------------------
(* The lease *)

\* A lease that is good stays with its holder (acquire_execution_lease,
\* release_execution_lease).
LEMMA LeaseNext ==
  ASSUME TypeOK, TypeOK', StageInHand, GoodLeaseIsHeld, ExclusiveExecution,
         [Next]_vars
  PROVE  GoodLeaseIsHeld' /\ ExclusiveExecution'
<1> USE DEF TypeOK, GoodLeaseIsHeld, ExclusiveExecution, Executing
<1> DEFINE Goal == GoodLeaseIsHeld' /\ ExclusiveExecution'
<1>1. ASSUME NEW c \in Calls, NEW s, NEW next, NEW failed,
             Moves(c, s, next, failed)
      PROVE  Goal
  <2>1. UNCHANGED <<lease, held, clock>> /\ row'.present = row.present
    BY <1>1 DEF Moves
  <2>2. \A e \in Calls : pc'[e] \in Executing => pc[e] \in Executing
    BY <1>1 DEF Moves, Committed, Refused
  <2>3. GoodLeaseIsHeld'
    BY <2>1, <2>2
  <2>4. ExclusiveExecution'
    BY <2>1, <2>2
  <2> QED
    BY <2>3, <2>4
<1>2. ASSUME NEW c \in Calls, Writes(c) PROVE Goal
  BY <1>1, <1>2, WriteMoves
<1>3. ASSUME NEW c \in Calls, Acquire(c) PROVE Goal
  <2>1. CASE row.present /\ ~LeaseBusy(c)
    <3>1. /\ lease' = [owner |-> c, expires |-> Deadline]
          /\ held' = [held EXCEPT ![c] = Deadline]
          /\ pc' = [pc EXCEPT ![c] = "top"]
          /\ UNCHANGED <<row, clock>>
      BY <1>3, <2>1 DEF Acquire
    <3>2. \A e \in Calls : e # c /\ pc[e] \in Executing => held[e] <= clock
      BY <2>1, StoreAssumption DEF LeaseBusy
    <3>3. GoodLeaseIsHeld'
      BY <3>1, <3>2
    <3>4. ExclusiveExecution'
      BY <3>1, <3>2
    <3> QED
      BY <3>3, <3>4
  <2>2. CASE ~(row.present /\ ~LeaseBusy(c))
    BY <1>3, <2>2 DEF Acquire
  <2> QED
    BY <2>1, <2>2
<1>4. ASSUME NEW c \in Calls, Leave(c) PROVE Goal
  BY <1>4 DEF Leave, ReleaseOwn
<1>5. ASSUME NEW c \in Calls, Spares(c), ~Acquire(c), ~Leave(c) PROVE Goal
  BY <1>5 DEF Spares, Return, Dispatch, RunCall, Escape, Crash
<1>6. ASSUME NEW c \in Calls, Load(c) \/ ResumeCall(c) PROVE Goal
  BY <1>6 DEF Load, ResumeCall
<1>7. ASSUME NEW s \in Sweepers, SweepSelect(s) \/ SweepDelete(s) PROVE Goal
  BY <1>7 DEF SweepSelect, SweepDelete
<1>8. CASE Tick \/ UNCHANGED vars
  BY <1>8 DEF Tick, vars
<1> QED
  BY <1>2, <1>3, <1>4, <1>5, <1>6, <1>7, <1>8 DEF Next, Advance, Writes, Spares

-----------------------------------------------------------------------------
(* Work under a good lease *)

\* Whoever is at work under a good lease holds the current version, and the
\* other executors older ones (run, save).
LEMMA WorkNext ==
  ASSUME TypeOK, TypeOK', StageInHand, CopyIsPast, GoodLeaseIsHeld,
         LeasedWorkIsCurrent, OthersAreBehind, [Next]_vars
  PROVE  LeasedWorkIsCurrent' /\ OthersAreBehind'
<1> USE DEF TypeOK, LeasedWorkIsCurrent, OthersAreBehind, Working, Executing
<1> DEFINE Goal == LeasedWorkIsCurrent' /\ OthersAreBehind'
<1>0. ASSUME UNCHANGED <<row, held, clock>>,
             \A e \in Calls :
               /\ pc'[e] \in Executing \ {"top"} => pc[e] \in Executing \ {"top"}
               /\ pc'[e] \in Executing => pc[e] \in Executing /\ copy'[e] = copy[e]
      PROVE  Goal
  BY <1>0
<1>1. ASSUME NEW c \in Calls, NEW s, NEW next, NEW failed,
             Moves(c, s, next, failed)
      PROVE  Goal
  <2>1. CASE Committed(c, s, next)
    <3>1. \A w \in Calls : w # c => ~Working(w)
      <4> SUFFICES ASSUME NEW w \in Calls, w # c, Working(w) PROVE FALSE
        OBVIOUS
      <4>1. copy[c].ver = row.ver /\ copy[w].ver = row.ver
        BY <2>1 DEF Committed
      <4>2. pc[c] \notin Executing
        BY <4>1
      <4>3. copy[c].stage = "paused"
        BY <1>1, <4>2 DEF Moves, StageInHand, StageOf
      <4>4. copy[w].stage = copy[c].stage
        BY <4>1 DEF CopyIsPast
      <4> QED
        BY <4>3, <4>4 DEF StageInHand, StageOf
    <3>2. /\ copy'[c].ver = row'.ver
          /\ \A e \in Calls : e # c => copy'[e].ver < row'.ver
      BY <1>1, <2>1 DEF Moves, Committed, CopyIsPast
    <3>3. \A w \in Calls : w # c => ~Working(w)'
      BY <1>1, <3>1 DEF Moves
    <3> QED
      BY <3>2, <3>3
  <2>2. CASE Refused(c, failed)
    BY <1>1, <2>2 DEF Moves, Refused
  <2> QED
    BY <1>1, <2>1, <2>2 DEF Moves
<1>2. ASSUME NEW c \in Calls, Writes(c) PROVE Goal
  BY <1>1, <1>2, WriteMoves
<1>3. ASSUME NEW c \in Calls, Acquire(c) PROVE Goal
  <2>1. CASE row.present /\ ~LeaseBusy(c)
    <3>1. /\ held' = [held EXCEPT ![c] = Deadline]
          /\ pc' = [pc EXCEPT ![c] = "top"]
          /\ UNCHANGED <<row, clock, copy>>
      BY <1>3, <2>1 DEF Acquire
    <3>2. \A w \in Calls : w # c => ~Working(w)
      BY <2>1, StoreAssumption DEF LeaseBusy, GoodLeaseIsHeld
    <3> QED
      BY <3>1, <3>2
  <2>2. CASE ~(row.present /\ ~LeaseBusy(c))
    <3>1. pc' = [pc EXCEPT ![c] = "ended"] /\ UNCHANGED <<row, held, clock, copy>>
      BY <1>3, <2>2 DEF Acquire
    <3> QED
      BY <3>1, <1>0
  <2> QED
    BY <2>1, <2>2
<1>4. ASSUME NEW c \in Calls, Spares(c), ~Acquire(c) PROVE Goal
  <2>1. UNCHANGED <<row, held, clock, copy>>
    BY <1>4 DEF Spares, Return, Dispatch, Leave, RunCall, Escape, Crash
  <2>2. \A e \in Calls :
          /\ pc'[e] \in Executing \ {"top"} => pc[e] \in Executing \ {"top"}
          /\ pc'[e] \in Executing => pc[e] \in Executing
    BY <1>4 DEF Spares, Return, Dispatch, Leave, RunCall, Escape, Crash
  <2> QED
    BY <2>1, <2>2, <1>0
<1>5. ASSUME NEW c \in Calls, Load(c) \/ ResumeCall(c) PROVE Goal
  <2>1. UNCHANGED <<row, held, clock>>
    BY <1>5 DEF Load, ResumeCall
  <2>2. \A e \in Calls :
          /\ e # c => pc'[e] = pc[e] /\ copy'[e] = copy[e]
          /\ pc'[c] \notin Executing
    BY <1>5 DEF Load, ResumeCall
  <2> QED
    BY <2>1, <2>2, <1>0
<1>6. ASSUME NEW s \in Sweepers, SweepSelect(s) \/ SweepDelete(s) PROVE Goal
  BY <1>6 DEF SweepSelect, SweepDelete
<1>7. CASE Tick \/ UNCHANGED vars
  BY <1>7 DEF Tick, vars
<1> QED
  BY <1>2, <1>3, <1>4, <1>5, <1>6, <1>7 DEF Next, Advance, Writes, Spares

-----------------------------------------------------------------------------
(* The invariant, and what follows from it *)

Inv ==
  /\ TypeOK
  /\ CopyIsPast /\ StageInHand
  /\ DispatchedIsPast /\ DispatchIsNew /\ OneDispatchPerVersion
  /\ GoodLeaseIsHeld /\ ExclusiveExecution
  /\ LeasedWorkIsCurrent /\ OthersAreBehind

\* The inductive invariant holds of a created workflow.
LEMMA InvInit == Init => Inv
<1> SUFFICES ASSUME Init PROVE Inv
  OBVIOUS
<1>1. TypeOK
  BY TypeInit
<1>2. CopyIsPast /\ StageInHand
  BY DEF Init, CopyIsPast, StageInHand, StageOf, Stages
<1>3. DispatchedIsPast /\ DispatchIsNew /\ OneDispatchPerVersion
  BY DEF Init, DispatchedIsPast, DispatchIsNew, OneDispatchPerVersion
<1>4. \A c \in Calls : pc[c] \notin Executing
  BY DEF Init, Executing
<1>5. GoodLeaseIsHeld /\ ExclusiveExecution
  BY <1>4 DEF GoodLeaseIsHeld, ExclusiveExecution
<1>6. LeasedWorkIsCurrent /\ OthersAreBehind
  BY <1>4 DEF LeasedWorkIsCurrent, OthersAreBehind, Working
<1> QED
  BY <1>1, <1>2, <1>3, <1>5, <1>6 DEF Inv

\* Every step keeps the inductive invariant.
LEMMA InvNext == Inv /\ [Next]_vars => Inv'
  BY TypeNext, CopyNext, StageNext, DispatchNext, LeaseNext, WorkNext DEF Inv

\* The inductive invariant holds of every reachable state.
LEMMA Invariance == Spec => []Inv
  BY InvInit, InvNext, PTL DEF Spec

\* Two executors never both work under leases that are still good, however
\* many calls there are, however long their leases and wherever they crash
\* (acquire_execution_lease, release_execution_lease).
THEOREM Exclusion == Spec => []ExclusiveExecution
<1>1. Inv => ExclusiveExecution
  BY DEF Inv
<1> QED
  BY <1>1, Invariance, PTL

\* A call at work under a good lease holds the row's current version, so the
\* result of its worker is not refused (run, save, ResumeService.answer).
THEOREM WorkIsCurrent == Spec => []LeasedWorkIsCurrent
<1>1. Inv => LeasedWorkIsCurrent
  BY DEF Inv
<1> QED
  BY <1>1, Invariance, PTL

\* A version of the workflow starts at most one worker, leases expired or not
\* (the RUNNING commit of run, the compare-and-swap of save).
THEOREM SingleDispatch == Spec => []OneDispatchPerVersion
<1>1. Inv => OneDispatchPerVersion
  BY DEF Inv
<1> QED
  BY <1>1, Invariance, PTL

-----------------------------------------------------------------------------
(* The row lives the life of a workflow that one process runs. *)

\* Every step changes the row as one commit or one removal would, or not at all.
LEMMA StepIsSerial ==
  ASSUME Inv, [Next]_vars
  PROVE  [Serial!Commit \/ Serial!Remove]_(Serial!serialVars)
<1> USE DEF Inv, TypeOK, Serial!Commit, Serial!Remove, Serial!serialVars
<1> DEFINE Goal == [Serial!Commit \/ Serial!Remove]_(Serial!serialVars)
<1>1. ASSUME NEW c \in Calls, NEW s, NEW next, NEW failed,
             Moves(c, s, next, failed)
      PROVE  Goal
  <2>1. CASE Committed(c, s, next)
    BY <1>1, <2>1 DEF Moves, Committed, CopyIsPast
  <2>2. CASE Refused(c, failed)
    BY <1>1, <2>2 DEF Moves, Refused
  <2> QED
    BY <1>1, <2>1, <2>2 DEF Moves
<1>2. ASSUME NEW c \in Calls, Writes(c) PROVE Goal
  BY <1>1, <1>2, WriteMoves
<1>3. ASSUME NEW c \in Calls, Spares(c) \/ Load(c) \/ ResumeCall(c) PROVE Goal
  BY <1>3 DEF Spares, Acquire, Return, Dispatch, Leave, RunCall, Escape, Crash,
              Load, ResumeCall
<1>4. ASSUME NEW s \in Sweepers, SweepSelect(s) PROVE Goal
  BY <1>4 DEF SweepSelect
<1>5. ASSUME NEW s \in Sweepers, SweepDelete(s) PROVE Goal
  BY <1>5 DEF SweepDelete
<1>6. CASE Tick \/ UNCHANGED vars
  BY <1>6 DEF Tick, vars
<1> QED
  BY <1>2, <1>3, <1>4, <1>5, <1>6 DEF Next, Advance, Writes, Spares

\* The store implements SerialWorkflow: every change of the row is one version
\* up and one legal step of the life cycle, whatever the calls do (save).
THEOREM StoreIsSerial == Spec => SerialHistory
<1>1. Init => Serial!SerialInit
  BY DEF Init, Serial!SerialInit
<1> QED
  BY <1>1, StepIsSerial, Invariance, PTL DEF Spec, SerialHistory, Serial!SerialSpec
=============================================================================
