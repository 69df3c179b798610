----------------------------- MODULE ModelCalls -----------------------------
(***************************************************************************)
(* The calls of the language model (RateLimiter and OpenAIClientWrapper of *)
(* llm_client.py, AgentComponentClient of agent_client.py), and the runner *)
(* of the benchmark that lives on them (runner.py,                         *)
(* progressive_executor.py).                                               *)
(*                                                                         *)
(* A process is the GAS server, whose threads share one limiter without a  *)
(* lock, or the benchmark, which has one thread.  Time is counted in       *)
(* ticks, and a timestamp is kept as its age; ages above Window are the    *)
(* same.  A pass through the checks of the limiter takes no time, though   *)
(* other threads may come in between its steps.                            *)
(***************************************************************************)
EXTENDS Naturals, SequencesExt

CONSTANTS
  Threads, Runner,       \* the threads, and the one the benchmark has
  Window, MinInterval,   \* 60 s and min_interval_seconds
  MaxRpm, MaxTpm,
  Estimate, Usages,      \* tokens of a call: estimated, and used in the end
  MaxAttempts,           \* max_retries of create
  RetryLimit,            \* retry_limit of complete
  Schedule,              \* the trajectories: their conditions, in order
  MaxInfra,              \* max_infra_retries
  MaxCalls, MaxCrashes   \* bounds of the model: calls of a trajectory; restarts

Kinds == {"direct", "component"}

ASSUME CallsAssumption ==
  /\ Runner \in Threads /\ IsFiniteSet(Threads)
  /\ Window \in Nat /\ MinInterval \in 1 .. Window
  /\ {MaxRpm, MaxTpm, MaxAttempts, MaxInfra} \subseteq Nat \ {0}
  /\ Estimate \in Nat /\ Usages \subseteq Nat
  /\ {RetryLimit, MaxCalls, MaxCrashes} \subseteq Nat
  /\ Schedule \in Seq({"C0", "C1"})

VARIABLES
  process,   \* "server" or "benchmark"
  pc,        \* where a thread is within a call
  call,      \* its kind, and the attempts of create and of complete
  wake,      \* ticks a thread sleeps
  result,    \* how the last call ended; whether the provider was the reason
  left,      \* calls the trajectory still makes
  requests,  \* _request_timestamps
  tokens,    \* _token_records
  last,      \* _last_call_time
  sent,      \* history: the ages of the last MaxRpm + 1 requests of the benchmark
  phase,     \* where the benchmark is
  item,      \* the trajectory it is at
  infra,     \* infra_attempt
  record,    \* the status that is being written
  files,     \* the result files of the trajectories
  spoiled,   \* history: trajectories that failed because of the provider
  invalid,   \* history: trajectories this process gave up as invalid
  crashes

limiter == <<requests, tokens, last, sent>>
bench == <<phase, item, infra, record, files, spoiled, invalid, crashes>>
vars == <<process, pc, call, wake, result, left, limiter, bench>>

Ages == 0 .. Window + 1

Older(age) == IF age > Window THEN age ELSE age + 1

\* Type invariant.  The deque of requests stays below the limit and the number
\* of threads; a window may hold more requests than the deque, from which
\* threads that race drop entries that have not expired.
TypeOK ==
  /\ process \in {"server", "benchmark"}
  /\ pc \in [Threads -> {"idle", "requests", "pop", "tokens", "tpop", "spacing",
                         "rpm", "tpm", "send", "sleep", "await", "back"}]
  /\ call \in [Threads -> [kind : Kinds, attempt : 1 .. MaxAttempts,
                           try : 1 .. RetryLimit + 1]]
  /\ result \in [Threads -> [status : {"none", "ok", "InfrastructureError", "error"},
                             provider : BOOLEAN]]
  /\ wake \in [Threads -> Ages]
  /\ left \in [Threads -> 0 .. MaxCalls]
  /\ requests \in Seq(Ages) /\ Len(requests) < MaxRpm + Cardinality(Threads)
  /\ tokens \in Seq([age : Ages, used : Usages])
  /\ last \in Ages
  /\ sent \in Seq(Ages) /\ Len(sent) <= MaxRpm + 1
  /\ phase \in {"loop", "run", "write", "ended"}
  /\ record \in {"successful", "failed"}
  /\ item \in 1 .. Len(Schedule) + 1
  /\ infra \in 1 .. MaxInfra
  /\ files \in [DOMAIN Schedule -> {"none", "partial", "successful", "failed"}]
  /\ spoiled \subseteq DOMAIN Schedule
  /\ invalid \subseteq DOMAIN Schedule
  /\ crashes \in 0 .. MaxCrashes

NoCall == [kind |-> "direct", attempt |-> 1, try |-> 1]
NoResult == [status |-> "none", provider |-> FALSE]

\* A process starts with a limiter of its own.
FreshProcess ==
  /\ pc' = [t \in Threads |-> "idle"]
  /\ call' = [t \in Threads |-> NoCall]
  /\ wake' = [t \in Threads |-> 0]
  /\ result' = [t \in Threads |-> NoResult]
  /\ requests' = <<>> /\ tokens' = <<>>
  /\ last' = Window + 1
  /\ sent' = <<>>

Init ==
  /\ process \in {"server", "benchmark"}
  /\ pc = [t \in Threads |-> "idle"]
  /\ call = [t \in Threads |-> NoCall]
  /\ wake = [t \in Threads |-> 0]
  /\ result = [t \in Threads |-> NoResult]
  /\ left = [t \in Threads |-> 0]
  /\ requests = <<>> /\ tokens = <<>>
  /\ last = Window + 1
  /\ sent = <<>>
  /\ phase = IF process = "server" THEN "ended" ELSE "loop"
  /\ item = 1 /\ infra = 1 /\ record = "failed"
  /\ files = [i \in DOMAIN Schedule |-> "none"]
  /\ spoiled = {} /\ invalid = {} /\ crashes = 0
-----------------------------------------------------------------------------
(* Time *)

Checks == {"requests", "pop", "tokens", "tpop", "spacing", "rpm", "tpm", "send"}

Tick ==
  /\ \A t \in Threads : pc[t] \notin Checks
  /\ \E t \in Threads : pc[t] \in {"sleep", "await"}
  /\ \A t \in Threads : pc[t] = "sleep" => wake[t] > 0
  /\ wake' = [t \in Threads |-> IF pc[t] = "sleep" THEN wake[t] - 1 ELSE 0]
  /\ requests' = [i \in DOMAIN requests |-> Older(requests[i])]
  /\ tokens' = [i \in DOMAIN tokens |-> [tokens[i] EXCEPT !.age = Older(@)]]
  /\ last' = Older(last)
  /\ sent' = [i \in DOMAIN sent |-> Older(sent[i])]
  /\ UNCHANGED <<process, pc, call, result, left, bench>>

Sleep(t, ticks) ==
  /\ pc' = [pc EXCEPT ![t] = "sleep"]
  /\ wake' = [wake EXCEPT ![t] = ticks]

Goto(t, place) ==
  /\ pc' = [pc EXCEPT ![t] = place]
  /\ UNCHANGED wake

Wake(t) ==
  /\ pc[t] = "sleep"
  /\ wake[t] = 0
  /\ Goto(t, "requests")
  /\ UNCHANGED <<process, call, result, left, limiter, bench>>

-----------------------------------------------------------------------------
(* create and complete *)

\* The call is over; its attempts are forgotten.
Over(t) ==
  /\ call' = [call EXCEPT ![t] = NoCall]
  /\ Goto(t, "back")

\* A call ends with an exception.  A component tries again, and ends in a
\* ValueError whatever the exception was.
Raise(t, status, provider) ==
  LET component == call[t].kind = "component"
  IN IF component /\ call[t].try <= RetryLimit
     THEN /\ call' = [call EXCEPT ![t].try = @ + 1, ![t].attempt = 1]
          /\ Goto(t, "requests")
          /\ UNCHANGED result
     ELSE /\ result' = [result EXCEPT ![t] =
                          [status |-> IF component THEN "error" ELSE status,
                           provider |-> provider]]
          /\ Over(t)

\* What calls the model: the components and the direct calls of the server; in
\* the benchmark the baseline, or the components of the orchestrator.
Callers(t) ==
  IF process = "server" THEN {"direct", "component"}
  ELSE IF t = Runner /\ phase = "run"
  THEN {IF Schedule[item] = "C0" THEN "direct" ELSE "component"}
  ELSE {}

\* The server's callers never end.
StartCall(t) ==
  /\ pc[t] = "idle"
  /\ \/ process = "server" /\ UNCHANGED left
     \/ left[t] > 0 /\ left' = [left EXCEPT ![t] = @ - 1]
  /\ \E kind \in Callers(t) :
       call' = [call EXCEPT ![t] = [kind |-> kind, attempt |-> 1, try |-> 1]]
  /\ Goto(t, "requests")
  /\ UNCHANGED <<process, result, limiter, bench>>

\* The caller goes on after its call.
Return(t) ==
  /\ pc[t] = "back"
  /\ \/ process = "server"
     \/ result[t].status = "ok"
  /\ result' = [result EXCEPT ![t] = NoResult]
  /\ Goto(t, "idle")
  /\ UNCHANGED <<process, call, left, limiter, bench>>

\* The provider answers, or its answer is unusable to a component.
Answered(t) ==
  /\ pc[t] = "await"
  /\ \E used \in Usages : tokens' = Append(tokens, [age |-> 0, used |-> used])
  /\ \/ /\ result' = [result EXCEPT ![t] = [status |-> "ok", provider |-> FALSE]]
        /\ Over(t)
     \/ /\ call[t].kind = "component"
        /\ Raise(t, "error", FALSE)
  /\ UNCHANGED <<process, left, requests, last, sent, bench>>

\* Mutant: the attempt is not counted.
AgainUncounted(c) == c

Again(c) == [c EXCEPT !.attempt = @ + 1]

\* A rate limit, a timeout or a failing connection: again, after a pause.
Transient(t) ==
  /\ pc[t] = "await"
  /\ IF call[t].attempt < MaxAttempts
     THEN /\ call' = [call EXCEPT ![t] = Again(@)]
          /\ Sleep(t, MinInterval)
          /\ UNCHANGED result
     ELSE Raise(t, "InfrastructureError", TRUE)
  /\ UNCHANGED <<process, left, limiter, bench>>

\* Any other error ends the call at once, a client that is not available too.
Refused(t) ==
  /\ pc[t] = "await"
  /\ \/ Raise(t, "error", FALSE)
     \/ Raise(t, "InfrastructureError", TRUE)
  /\ UNCHANGED <<process, left, limiter, bench>>
-----------------------------------------------------------------------------
(* RateLimiter.acquire *)

\* Mutant: a request of the very age of the window is dropped.
ExpiredEarly(age) == age >= Window

Expired(age) == age > Window

\* The head of the deque is read, and taken off in the next step, by when
\* another thread may have taken it off.
CheckRequests(t) ==
  /\ pc[t] = "requests"
  /\ Goto(t, IF requests # <<>> /\ Expired(Head(requests)) THEN "pop" ELSE "tokens")
  /\ UNCHANGED <<process, call, result, left, limiter, bench>>

PopRequest(t) ==
  /\ pc[t] = "pop"
  /\ IF requests = <<>>
     THEN Raise(t, "error", FALSE) /\ UNCHANGED requests
     ELSE /\ requests' = Tail(requests)
          /\ Goto(t, "requests")
          /\ UNCHANGED <<call, result>>
  /\ UNCHANGED <<process, left, tokens, last, sent, bench>>

CheckTokens(t) ==
  /\ pc[t] = "tokens"
  /\ Goto(t, IF tokens # <<>> /\ Expired(Head(tokens).age) THEN "tpop" ELSE "spacing")
  /\ UNCHANGED <<process, call, result, left, limiter, bench>>

PopToken(t) ==
  /\ pc[t] = "tpop"
  /\ IF tokens = <<>>
     THEN Raise(t, "error", FALSE) /\ UNCHANGED tokens
     ELSE /\ tokens' = Tail(tokens)
          /\ Goto(t, "tokens")
          /\ UNCHANGED <<call, result>>
  /\ UNCHANGED <<process, left, requests, last, sent, bench>>

CheckSpacing(t) ==
  /\ pc[t] = "spacing"
  /\ IF last < MinInterval THEN Sleep(t, MinInterval - last) ELSE Goto(t, "rpm")
  /\ UNCHANGED <<process, call, result, left, limiter, bench>>

\* Mutant: one request too many.
Overfull == Len(requests) > MaxRpm

Full == Len(requests) >= MaxRpm

\* A thread that finds the deque full waits for its oldest entry to expire.
CheckRpm(t) ==
  /\ pc[t] = "rpm"
  /\ IF Full /\ ~Expired(Head(requests))
     THEN Sleep(t, Window + 1 - Head(requests))
     ELSE Goto(t, "tpm")
  /\ UNCHANGED <<process, call, result, left, limiter, bench>>

Used == FoldLeft(LAMBDA n, entry : n + entry.used, 0, tokens)

\* The sum fails when another thread changes the deque meanwhile.
CheckTpm(t) ==
  /\ pc[t] = "tpm"
  /\ \/ /\ IF /\ Used + Estimate >= MaxTpm
              /\ tokens # <<>>
              /\ ~Expired(Head(tokens).age)
           THEN Sleep(t, Window + 1 - Head(tokens).age)
           ELSE Goto(t, "send")
        /\ UNCHANGED <<call, result>>
     \/ /\ \E u \in Threads \ {t} : pc[u] \in {"tpop", "await"}
        /\ Raise(t, "error", FALSE)
  /\ UNCHANGED <<process, left, limiter, bench>>

\* A request is remembered until MaxRpm others have followed it.
Remember == Append(IF Len(sent) > MaxRpm THEN Tail(sent) ELSE sent, 0)

Send(t) ==
  /\ pc[t] = "send"
  /\ last' = 0
  /\ requests' = Append(requests, 0)
  /\ sent' = IF process = "server" THEN sent ELSE Remember
  /\ Goto(t, "await")
  /\ UNCHANGED <<process, call, result, left, tokens, bench>>
-----------------------------------------------------------------------------
(* The runner of the benchmark *)

Start(i) ==
  /\ phase' = "run"
  /\ item' = i
  /\ infra' = 1
  /\ left' = [left EXCEPT ![Runner] = MaxCalls]

\* Mutant: a result file counts, whatever is in it.
Exists(i) == files[i] # "none"

\* A result file that can be read; a trajectory given up as invalid has none.
Recorded(i) == files[i] \in {"successful", "failed"}

\* Trajectories with a record are passed over.
NextTrajectory ==
  /\ process = "benchmark"
  /\ phase = "loop"
  /\ LET open == {i \in item .. Len(Schedule) : ~Recorded(i)}
     IN IF open = {}
        THEN /\ item' = Len(Schedule) + 1
             /\ phase' = "ended"
             /\ UNCHANGED <<infra, left>>
        ELSE Start(Min(open))
  /\ UNCHANGED <<process, pc, call, wake, result, limiter,
                 record, files, spoiled, invalid, crashes>>

\* The result file is emptied when it is opened, and written in the next step.
EndTrajectory(status) ==
  /\ record' = status
  /\ files' = [files EXCEPT ![item] = "partial"]
  /\ phase' = "write"
  /\ UNCHANGED <<process, call, wake, left, limiter, item, infra, invalid, crashes>>

\* The orchestrator, or the baseline, returns.
Finish ==
  /\ phase = "run"
  /\ pc[Runner] = "idle"
  /\ \E status \in {"successful", "failed"} : EndTrajectory(status)
  /\ spoiled' = spoiled \ {item}
  /\ UNCHANGED <<pc, result>>

\* An exception that is no InfrastructureError is the trajectory's own failure.
Fail ==
  /\ phase = "run"
  /\ pc[Runner] = "back"
  /\ result[Runner].status = "error"
  /\ EndTrajectory("failed")
  /\ spoiled' = IF result[Runner].provider THEN spoiled \cup {item} ELSE spoiled \ {item}
  /\ pc' = [pc EXCEPT ![Runner] = "idle"]
  /\ result' = [result EXCEPT ![Runner] = NoResult]

Write ==
  /\ phase = "write"
  /\ files' = [files EXCEPT ![item] = record]
  /\ phase' = "loop"
  /\ item' = item + 1
  /\ UNCHANGED <<process, pc, call, wake, result, left, limiter,
                 record, infra, spoiled, invalid, crashes>>

\* An InfrastructureError: the attempt is put on record as invalid, and the
\* trajectory is run again, or given up.
InvalidAttempt ==
  /\ phase = "run"
  /\ pc[Runner] = "back"
  /\ result[Runner].status = "InfrastructureError"
  /\ pc' = [pc EXCEPT ![Runner] = "idle"]
  /\ result' = [result EXCEPT ![Runner] = NoResult]
  /\ IF infra < MaxInfra
     THEN /\ infra' = infra + 1
          /\ left' = [left EXCEPT ![Runner] = MaxCalls]
          /\ UNCHANGED <<phase, item, invalid>>
     ELSE /\ phase' = "loop"
          /\ item' = item + 1
          /\ invalid' = invalid \cup {item}
          /\ UNCHANGED <<infra, left>>
  /\ UNCHANGED <<process, call, wake, limiter, record, files, spoiled, crashes>>

\* The process dies or stops at its limit of trajectories, or has ended, and
\* the benchmark is started again.
Restart ==
  /\ process = "benchmark"
  /\ crashes < MaxCrashes
  /\ crashes' = crashes + 1
  /\ phase' = "loop"
  /\ item' = 1
  /\ invalid' = {}
  /\ left' = [left EXCEPT ![Runner] = 0]
  /\ FreshProcess
  /\ UNCHANGED <<process, record, infra, files, spoiled>>
-----------------------------------------------------------------------------
Acquires(t) ==
  \/ CheckRequests(t) \/ PopRequest(t) \/ CheckTokens(t) \/ PopToken(t)
  \/ CheckSpacing(t) \/ CheckRpm(t) \/ CheckTpm(t) \/ Send(t)

Calls(t) ==
  \/ Wake(t) \/ Acquires(t)
  \/ Answered(t) \/ Transient(t) \/ Refused(t)

Runs == NextTrajectory \/ Finish \/ Fail \/ Write \/ InvalidAttempt

Next ==
  \/ Tick \/ Runs \/ Restart
  \/ \E t \in Threads : StartCall(t) \/ Return(t) \/ Calls(t)

Spec == Init /\ [][Next]_vars

\* Time passes, threads run, and the provider answers or times out.
FairSpec == Spec /\ WF_vars(Tick) /\ \A t \in Threads : WF_vars(Calls(t))
-----------------------------------------------------------------------------
(* Properties *)

\* In a process with one thread the limiter keeps what it promises, through
\* the retries of create, of complete and of the runner: a window that holds
\* one request does not hold the one that was MaxRpm before it, and a request
\* follows the one before it after the minimal interval (acquire, without a
\* lock).  A request is what acquire lets through: the retries that the client
\* of the provider makes by itself pass it by.
LimitsHoldAlone ==
  process = "benchmark" =>
    /\ Len(sent) = MaxRpm + 1 => sent[1] > Window
    /\ \A i \in DOMAIN sent : i < Len(sent) => sent[i] >= MinInterval

Calling(t) == pc[t] \notin {"idle", "back"}

\* A call goes on for ever only if the requests of other threads do: acquire has
\* no queue, and a thread that wakes may find the slot taken, but retries, waits
\* and what other threads do to the deques hold no call up by themselves.
OnlyOvertakenCallsWait ==
  \A t \in Threads :
    (Calling(t) ~> ~Calling(t)) \/ []<><<\E u \in Threads \ {t} : Send(u)>>_vars

\* Every call ends, however many others are made.
CallsEnd == \A t \in Threads : Calling(t) ~> ~Calling(t)

\* When the runner has gone through its schedule, every trajectory has a
\* readable record, or was given up as invalid by this process: neither a
\* process that died while it wrote nor a provider failure leaves a gap that
\* is taken for a result (main and execute_trajectory).
EveryTrajectoryIsAccounted ==
  process = "benchmark" /\ phase = "ended" =>
    \A i \in DOMAIN Schedule : files[i] \in {"successful", "failed"} \/ i \in invalid

\* "Distinguishes genuine orchestration results from transient infrastructure
\* errors." (execute_trajectory): a trajectory on record as failed did not
\* fail because the provider failed.
FailedIsGenuine ==
  \A i \in DOMAIN Schedule : files[i] = "failed" => i \notin spoiled
=============================================================================
