-------------------------- MODULE ModelCallsProofs --------------------------
(***************************************************************************)
(* Proofs about ModelCalls, for any threads, limits, retries and schedule: *)
(* the deque of threads without a lock outgrows the limit by less than     *)
(* their number, the limiter of a single thread keeps the limits, and no   *)
(* trajectory of a benchmark is passed over.                               *)
(***************************************************************************)
EXTENDS ModelCalls, FiniteSetTheorems, WellFoundedInduction, TLAPS

CallType == [kind : Kinds, attempt : 1 .. MaxAttempts, try : 1 .. RetryLimit + 1]
ResultType ==
  [status : {"none", "ok", "InfrastructureError", "error"}, provider : BOOLEAN]
TokenType == [age : Ages, used : Usages]
PcType == {"idle", "requests", "pop", "tokens", "tpop", "spacing",
           "rpm", "tpm", "send", "sleep", "await", "back"}

\* What TypeOK says of the threads, of the limiter and of the benchmark.
ThreadsTyped ==
  /\ pc \in [Threads -> PcType]
  /\ call \in [Threads -> CallType]
  /\ result \in [Threads -> ResultType]
  /\ wake \in [Threads -> Ages]
  /\ left \in [Threads -> 0 .. MaxCalls]

LimiterTyped ==
  /\ requests \in Seq(Ages)
  /\ tokens \in Seq(TokenType)
  /\ last \in Ages
  /\ sent \in Seq(Ages) /\ Len(sent) <= MaxRpm + 1

BenchTyped ==
  /\ process \in {"server", "benchmark"}
  /\ phase \in {"loop", "run", "write", "ended"}
  /\ record \in {"successful", "failed"}
  /\ item \in 1 .. Len(Schedule) + 1
  /\ infra \in 1 .. MaxInfra
  /\ files \in [DOMAIN Schedule -> {"none", "partial", "successful", "failed"}]
  /\ spoiled \subseteq DOMAIN Schedule
  /\ invalid \subseteq DOMAIN Schedule
  /\ crashes \in 0 .. MaxCrashes

\* The trajectories before the one at hand have a record or were given up.
PassedAreAccounted ==
  /\ phase \in {"run", "write"} => item \in DOMAIN Schedule
  /\ \A i \in DOMAIN Schedule : i < item => Recorded(i) \/ i \in invalid
  /\ process = "benchmark" /\ phase = "ended" => item = Len(Schedule) + 1

\* The deque is in order.
Sorted ==
  \A i, j \in DOMAIN requests : i <= j => requests[j] <= requests[i]

\* While a thread is past the check of expired requests, there are none.
NoneExpired ==
  (\E t \in Threads : pc[t] \in Checks \ {"requests", "pop"}) =>
    requests = <<>> \/ ~Expired(Head(requests))

\* The threads that have seen a deque that is not full, and are about to send.
Passing == {t \in Threads : pc[t] \in {"tpm", "send"}}

RequestsAreFew ==
  Len(requests) + Cardinality(Passing) < MaxRpm + Cardinality(Threads)

-----------------------------------------------------------------------------
(* Numbers and sequences *)

LEMMA Numbers ==
  /\ Window \in Nat /\ MinInterval \in Nat /\ 1 <= MinInterval /\ MinInterval <= Window
  /\ MaxRpm \in Nat /\ MaxRpm >= 1 /\ MaxTpm \in Nat
  /\ MaxAttempts \in Nat /\ MaxAttempts >= 1 /\ MaxInfra \in Nat /\ MaxInfra >= 1
  /\ Estimate \in Nat /\ RetryLimit \in Nat
  /\ MaxCalls \in Nat /\ MaxCrashes \in Nat
  /\ Len(Schedule) \in Nat /\ DOMAIN Schedule = 1 .. Len(Schedule)
BY CallsAssumption

LEMMA MinIsLeast ==
  ASSUME NEW S \in SUBSET Nat, S # {}
  PROVE  Min(S) \in S /\ \A y \in S : Min(S) <= y
<1> DEFINE less == {p \in Nat \X Nat : p[1] < p[2]}
<1>1. OpToRel(<, Nat) = less
  BY Zenon DEF OpToRel
<1>2. IsWellFoundedOn(less, Nat)
  BY <1>1, NatLessThanWellFounded, Zenon
<1> HIDE DEF less
<1>3. PICK x \in S : \A y \in S : <<y, x>> \notin less
  BY <1>2, WFMin
<1>4. ASSUME NEW y \in S
      PROVE  x =< y
  <2>1. x \in Nat /\ y \in Nat /\ <<y, x>> \in Nat \X Nat
    BY <1>3
  <2>2. ~(y < x)
    BY <1>3, <2>1 DEF less
  <2> QED BY <2>1, <2>2
<1> QED BY <1>4 DEF Min

LEMMA ElementIsIn ==
  ASSUME NEW S, NEW s \in Seq(S), NEW i \in DOMAIN s
  PROVE  s[i] \in S
OBVIOUS

LEMMA TailIsIn ==
  ASSUME NEW S, NEW s \in Seq(S), s # <<>>
  PROVE  /\ Tail(s) \in Seq(S) /\ Head(s) \in S /\ Len(Tail(s)) = Len(s) - 1
         /\ Head(s) = s[1] /\ 1 \in DOMAIN s
         /\ \A i \in DOMAIN Tail(s) : i \in Nat /\ i + 1 \in DOMAIN s /\ Tail(s)[i] = s[i + 1]
OBVIOUS

LEMMA AppendIsIn ==
  ASSUME NEW S, NEW s \in Seq(S), NEW x \in S
  PROVE  /\ Append(s, x) \in Seq(S) /\ Len(Append(s, x)) = Len(s) + 1 /\ Len(s) \in Nat
         /\ Append(s, x)[Len(s) + 1] = x
         /\ \A i \in 1 .. Len(s) : Append(s, x)[i] = s[i]
OBVIOUS

LEMMA MappedIsIn ==
  ASSUME NEW S, NEW R, NEW s \in Seq(S), NEW f, DOMAIN f = DOMAIN s,
         f = [i \in DOMAIN f |-> f[i]], \A i \in DOMAIN s : f[i] \in R
  PROVE  f \in Seq(R) /\ Len(f) = Len(s)
<1>1. DOMAIN s = 1 .. Len(s) /\ Len(s) \in Nat
  OBVIOUS
<1> QED BY <1>1

LEMMA AgesGrow ==
  /\ \A a \in Ages : Older(a) \in Ages
  /\ \A a, b \in Ages : a <= b => Older(a) <= Older(b)
  /\ 0 \in Ages /\ Window + 1 \in Ages
BY Numbers DEF Ages, Older

-----------------------------------------------------------------------------
(* Types *)

LEMMA MoveTyped ==
  ASSUME pc \in [Threads -> PcType], NEW t \in Threads, NEW place \in PcType
  PROVE  [pc EXCEPT ![t] = place] \in [Threads -> PcType]
OBVIOUS

\* A call that is over.
LEMMA OverTyped ==
  ASSUME pc \in [Threads -> PcType], call \in [Threads -> CallType],
         NEW t \in Threads, Over(t)
  PROVE  /\ pc' = [pc EXCEPT ![t] = "back"] /\ pc' \in [Threads -> PcType]
         /\ wake' = wake /\ call' \in [Threads -> CallType]
<1>1. NoCall \in CallType
  BY Numbers DEF NoCall, CallType, Kinds
<1>2. call' \in [Threads -> CallType]
  BY <1>1 DEF Over
<1> QED BY <1>2 DEF Over, Goto, PcType

\* A call that raises goes back to its start, or is over.
LEMMA RaiseTyped ==
  ASSUME ThreadsTyped, NEW t \in Threads, NEW status \in {"InfrastructureError", "error"},
         NEW provider \in BOOLEAN, Raise(t, status, provider)
  PROVE  /\ \E place \in {"requests", "back"} : pc' = [pc EXCEPT ![t] = place]
         /\ pc' \in [Threads -> PcType] /\ call' \in [Threads -> CallType]
         /\ result' \in [Threads -> ResultType] /\ wake' = wake
<1> DEFINE component == call[t].kind = "component"
<1>0. call[t] \in CallType
  BY DEF ThreadsTyped
<1>1. CASE component /\ call[t].try <= RetryLimit
  <2>1. /\ call' = [call EXCEPT ![t].try = @ + 1, ![t].attempt = 1]
        /\ pc' = [pc EXCEPT ![t] = "requests"] /\ wake' = wake /\ result' = result
    BY <1>1 DEF Raise, Goto
  <2>2. call[t].try + 1 \in 1 .. RetryLimit + 1 /\ 1 \in 1 .. MaxAttempts
    BY <1>0, <1>1, Numbers DEF CallType
  <2>3. [call[t] EXCEPT !.try = call[t].try + 1, !.attempt = 1] \in CallType
    BY <1>0, <2>2 DEF CallType
  <2>4. call' = [call EXCEPT ![t] = [call[t] EXCEPT !.try = call[t].try + 1, !.attempt = 1]]
    BY <2>1 DEF ThreadsTyped
  <2>5. call' \in [Threads -> CallType]
    BY <2>3, <2>4 DEF ThreadsTyped
  <2> QED BY <2>1, <2>5 DEF ThreadsTyped, PcType
<1>2. CASE ~(component /\ call[t].try <= RetryLimit)
  <2>1. /\ result' = [result EXCEPT ![t] =
                        [status |-> IF component THEN "error" ELSE status,
                         provider |-> provider]]
        /\ Over(t)
    BY <1>2 DEF Raise
  <2>2. result' \in [Threads -> ResultType]
    BY <2>1 DEF ThreadsTyped, ResultType
  <2>3. /\ pc' = [pc EXCEPT ![t] = "back"] /\ pc' \in [Threads -> PcType]
        /\ wake' = wake /\ call' \in [Threads -> CallType]
    BY <2>1, OverTyped DEF ThreadsTyped
  <2> QED BY <2>2, <2>3
<1> QED BY <1>1, <1>2

\* What is remembered of the requests, after one more.
LEMMA RememberTyped ==
  ASSUME LimiterTyped
  PROVE  /\ Remember \in Seq(Ages) /\ Len(Remember) <= MaxRpm + 1 /\ Len(Remember) >= 1
         /\ Len(sent) <= MaxRpm =>
              /\ Len(Remember) = Len(sent) + 1
              /\ \A i \in 1 .. Len(sent) : Remember[i] = sent[i]
         /\ Len(sent) > MaxRpm =>
              /\ Len(Remember) = Len(sent)
              /\ \A i \in 1 .. Len(sent) - 1 : Remember[i] = sent[i + 1]
         /\ Remember[Len(Remember)] = 0
<1>0. sent \in Seq(Ages) /\ Len(sent) \in Nat /\ Len(sent) <= MaxRpm + 1 /\ 0 \in Ages
      /\ DOMAIN sent = 1 .. Len(sent)
  BY AgesGrow DEF LimiterTyped
<1> DEFINE R == Remember
           n == Len(sent)
<1>n. MaxRpm \in Nat /\ n \in Nat /\ n <= MaxRpm + 1
  BY <1>0, Numbers
<1>1. CASE n <= MaxRpm
  <2>1. Remember = Append(sent, 0)
    BY <1>0, <1>1, Numbers DEF Remember
  <2>2. Len(Remember) = Len(sent) + 1 /\ Remember[Len(sent) + 1] = 0
        /\ Remember \in Seq(Ages) /\ \A i \in 1 .. Len(sent) : Remember[i] = sent[i]
    BY <1>0, <2>1, AppendIsIn
  <2>3. Len(R) = n + 1 /\ R[n + 1] = 0 /\ R \in Seq(Ages) /\ \A i \in 1 .. n : R[i] = sent[i]
    BY <2>2
  <2> HIDE DEF R, n
  <2>4. Len(R) <= MaxRpm + 1 /\ Len(R) >= 1 /\ R[Len(R)] = 0 /\ ~(n > MaxRpm)
    BY <1>n, <1>1, <2>3
  <2> QED BY <2>3, <2>4 DEF R, n
<1>2. CASE n > MaxRpm
  <2>1. Remember = Append(Tail(sent), 0) /\ sent # <<>>
    BY <1>0, <1>2, Numbers DEF Remember
  <2>2. Tail(sent) \in Seq(Ages) /\ Len(Tail(sent)) = Len(sent) - 1
        /\ \A i \in 1 .. Len(sent) - 1 : Tail(sent)[i] = sent[i + 1]
    BY <1>0, <2>1, TailIsIn
  <2>3. Len(Remember) = Len(sent) /\ Remember[Len(sent)] = 0 /\ Remember \in Seq(Ages)
        /\ \A i \in 1 .. Len(sent) - 1 : Remember[i] = sent[i + 1]
    <3>1. /\ Append(Tail(sent), 0) \in Seq(Ages)
          /\ Len(Append(Tail(sent), 0)) = (Len(sent) - 1) + 1
          /\ Append(Tail(sent), 0)[(Len(sent) - 1) + 1] = 0
          /\ \A i \in 1 .. Len(sent) - 1 : Append(Tail(sent), 0)[i] = Tail(sent)[i]
      BY <1>0, <2>2, AppendIsIn
    <3>2. (Len(sent) - 1) + 1 = Len(sent)
      BY <1>0
    <3> QED BY <2>1, <2>2, <3>1, <3>2
  <2>4. Len(R) = n /\ R[n] = 0 /\ R \in Seq(Ages) /\ \A i \in 1 .. n - 1 : R[i] = sent[i + 1]
    BY <2>3
  <2> HIDE DEF R, n
  <2>5. Len(R) <= MaxRpm + 1 /\ Len(R) >= 1 /\ R[Len(R)] = 0 /\ ~(n <= MaxRpm)
    BY <1>n, <1>2, <2>4
  <2> QED BY <2>4, <2>5 DEF R, n
<1> QED BY <1>n, <1>1, <1>2

\* What a check of the limiter or a request does.
LEMMA AcquireTyped ==
  ASSUME ThreadsTyped, LimiterTyped, NEW t \in Threads, Acquires(t)
  PROVE  ThreadsTyped' /\ LimiterTyped'
<1>0. /\ pc \in [Threads -> PcType] /\ call \in [Threads -> CallType]
      /\ result \in [Threads -> ResultType] /\ wake \in [Threads -> Ages]
      /\ left \in [Threads -> 0 .. MaxCalls]
  BY DEF ThreadsTyped
<1>1. ASSUME NEW place \in PcType, Goto(t, place), UNCHANGED <<call, result, left>>
      PROVE  ThreadsTyped'
  BY <1>0, <1>1, MoveTyped DEF Goto, ThreadsTyped
<1>2. ASSUME NEW ticks \in Ages, Sleep(t, ticks), UNCHANGED <<call, result, left>>
      PROVE  ThreadsTyped'
  BY <1>0, <1>2 DEF Sleep, ThreadsTyped, PcType
<1>3. ASSUME Raise(t, "error", FALSE), left' = left
      PROVE  ThreadsTyped'
  BY <1>0, <1>3, RaiseTyped DEF ThreadsTyped
<1>4. \A p \in {"requests", "pop", "tokens", "tpop", "spacing", "rpm", "tpm", "send", "await"} :
        p \in PcType
  BY DEF PcType
<1>5. ASSUME UNCHANGED limiter
      PROVE  LimiterTyped'
  BY <1>5 DEF LimiterTyped, limiter
<1>6. CASE CheckRequests(t)
  BY <1>1, <1>4, <1>5, <1>6 DEF CheckRequests
<1>7. CASE PopRequest(t)
  <2>1. CASE requests = <<>>
    BY <1>3, <1>7, <2>1 DEF PopRequest, LimiterTyped
  <2>2. CASE requests # <<>>
    <3>1. requests' \in Seq(Ages)
      BY <1>7, <2>2, TailIsIn DEF PopRequest, LimiterTyped
    <3> QED BY <1>1, <1>4, <1>7, <2>2, <3>1 DEF PopRequest, LimiterTyped
  <2> QED BY <2>1, <2>2
<1>8. CASE CheckTokens(t)
  BY <1>1, <1>4, <1>5, <1>8 DEF CheckTokens
<1>9. CASE PopToken(t)
  <2>1. CASE tokens = <<>>
    BY <1>3, <1>9, <2>1 DEF PopToken, LimiterTyped
  <2>2. CASE tokens # <<>>
    <3>1. tokens' \in Seq(TokenType)
      BY <1>9, <2>2, TailIsIn DEF PopToken, LimiterTyped
    <3> QED BY <1>1, <1>4, <1>9, <2>2, <3>1 DEF PopToken, LimiterTyped
  <2> QED BY <2>1, <2>2
<1>10. CASE CheckSpacing(t)
  <2>1. last < MinInterval => MinInterval - last \in Ages
    BY Numbers DEF Ages, LimiterTyped
  <2> QED BY <1>1, <1>2, <1>4, <1>5, <1>10, <2>1 DEF CheckSpacing
<1>11. CASE CheckRpm(t)
  <2>1. CASE Full /\ ~Expired(Head(requests))
    <3>1. requests # <<>>
      BY <2>1, Numbers DEF Full, LimiterTyped
    <3>2. Head(requests) \in Ages
      BY <3>1, TailIsIn DEF LimiterTyped
    <3>3. Window + 1 - Head(requests) \in Ages
      BY <3>2, Numbers DEF Ages
    <3> QED BY <1>2, <1>5, <1>11, <2>1, <3>3 DEF CheckRpm
  <2> QED BY <1>1, <1>4, <1>5, <1>11, <2>1 DEF CheckRpm
<1>12. CASE CheckTpm(t)
  <2>1. CASE Raise(t, "error", FALSE)
    BY <1>3, <1>5, <1>12, <2>1 DEF CheckTpm
  <2>2. CASE Goto(t, "send") /\ UNCHANGED <<call, result>>
    BY <1>1, <1>4, <1>5, <1>12, <2>2 DEF CheckTpm
  <2>3. CASE /\ tokens # <<>> /\ Sleep(t, Window + 1 - Head(tokens).age)
             /\ UNCHANGED <<call, result>>
    <3>1. Head(tokens) \in TokenType
      BY <2>3, TailIsIn DEF LimiterTyped
    <3>2. Window + 1 - Head(tokens).age \in Ages
      BY <3>1, Numbers DEF Ages, TokenType
    <3> QED BY <1>2, <1>5, <1>12, <2>3, <3>2 DEF CheckTpm
  <2> QED BY <1>12, <2>1, <2>2, <2>3 DEF CheckTpm
<1>13. CASE Send(t)
  <2>1. requests' \in Seq(Ages) /\ last' \in Ages /\ tokens' = tokens
    BY <1>13, AgesGrow DEF Send, LimiterTyped
  <2>2. sent' \in Seq(Ages) /\ Len(sent') <= MaxRpm + 1
    BY <1>13, RememberTyped DEF Send, LimiterTyped
  <2>3. LimiterTyped'
    BY <2>1, <2>2 DEF LimiterTyped
  <2> QED BY <1>1, <1>4, <1>13, <2>3 DEF Send
<1> QED BY <1>6, <1>7, <1>8, <1>9, <1>10, <1>11, <1>12, <1>13 DEF Acquires

LEMMA CallTyped ==
  ASSUME ThreadsTyped, LimiterTyped, NEW t \in Threads,
         StartCall(t) \/ Return(t) \/ Calls(t)
  PROVE  ThreadsTyped' /\ LimiterTyped'
<1>0. /\ pc \in [Threads -> PcType] /\ call \in [Threads -> CallType]
      /\ result \in [Threads -> ResultType] /\ wake \in [Threads -> Ages]
      /\ left \in [Threads -> 0 .. MaxCalls]
  BY DEF ThreadsTyped
<1>1. \A p \in {"requests", "idle", "back", "sleep"} : p \in PcType
  BY DEF PcType
<1>2. ASSUME UNCHANGED limiter
      PROVE  LimiterTyped'
  BY <1>2 DEF LimiterTyped, limiter
<1>3. CASE StartCall(t)
  <2>1. left' \in [Threads -> 0 .. MaxCalls]
    <3>1. left' = left \/ (left[t] > 0 /\ left' = [left EXCEPT ![t] = left[t] - 1])
      BY <1>3 DEF StartCall
    <3> QED BY <1>0, <3>1, Numbers
  <2>2. call' \in [Threads -> CallType]
    <3>1. PICK kind \in Callers(t) :
            call' = [call EXCEPT ![t] = [kind |-> kind, attempt |-> 1, try |-> 1]]
      BY <1>3 DEF StartCall
    <3>2. kind \in Kinds
      BY <3>1 DEF Callers, Kinds
    <3>3. [kind |-> kind, attempt |-> 1, try |-> 1] \in CallType
      BY <3>2, Numbers DEF CallType
    <3> QED BY <1>0, <3>1, <3>3
  <2>3. pc' \in [Threads -> PcType] /\ wake' = wake /\ result' = result
    BY <1>0, <1>1, <1>3, MoveTyped DEF StartCall, Goto
  <2> QED BY <1>0, <1>2, <1>3, <2>1, <2>2, <2>3 DEF StartCall, ThreadsTyped
<1>4. CASE Return(t)
  <2>1. result' \in [Threads -> ResultType]
    BY <1>0, <1>4 DEF Return, NoResult, ResultType
  <2>2. pc' \in [Threads -> PcType] /\ wake' = wake
    BY <1>0, <1>1, <1>4, MoveTyped DEF Return, Goto
  <2> QED BY <1>0, <1>2, <1>4, <2>1, <2>2 DEF Return, ThreadsTyped
<1>5. CASE Wake(t)
  BY <1>0, <1>1, <1>2, <1>5, MoveTyped DEF Wake, Goto, ThreadsTyped
<1>6. CASE Acquires(t)
  BY <1>6, AcquireTyped
<1>7. CASE Answered(t)
  <2>1. LimiterTyped'
    <3>1. PICK used \in Usages : tokens' = Append(tokens, [age |-> 0, used |-> used])
      BY <1>7 DEF Answered
    <3>2. [age |-> 0, used |-> used] \in TokenType
      BY AgesGrow DEF TokenType
    <3>3. tokens' \in Seq(TokenType)
      BY <3>1, <3>2 DEF LimiterTyped
    <3> QED BY <1>7, <3>3 DEF Answered, LimiterTyped
  <2>2. ThreadsTyped'
    <3>1. CASE Raise(t, "error", FALSE)
      BY <1>0, <1>7, <3>1, RaiseTyped DEF Answered, ThreadsTyped
    <3>2. CASE /\ result' = [result EXCEPT ![t] = [status |-> "ok", provider |-> FALSE]]
               /\ Over(t)
      <4>1. result' \in [Threads -> ResultType]
        BY <1>0, <3>2 DEF ResultType
      <4>2. /\ pc' \in [Threads -> PcType] /\ wake' = wake
            /\ call' \in [Threads -> CallType]
        BY <1>0, <3>2, OverTyped
      <4> QED BY <1>0, <1>7, <4>1, <4>2 DEF Answered, ThreadsTyped
    <3> QED BY <1>7, <3>1, <3>2 DEF Answered
  <2> QED BY <2>1, <2>2
<1>8. CASE Transient(t)
  <2>1. CASE call[t].attempt < MaxAttempts
    <3>1. call[t] \in CallType
      BY <1>0
    <3>a. call[t].attempt + 1 \in 1 .. MaxAttempts
      BY <2>1, <3>1, Numbers DEF CallType
    <3>b. [call[t] EXCEPT !.attempt = call[t].attempt + 1] \in CallType
      BY <3>1, <3>a DEF CallType
    <3>2. Again(call[t]) \in CallType
      BY <3>b DEF Again
    <3>3. call' \in [Threads -> CallType]
      BY <1>0, <1>8, <2>1, <3>2 DEF Transient
    <3>4. MinInterval \in Ages
      BY Numbers DEF Ages
    <3>5. pc' \in [Threads -> PcType] /\ wake' \in [Threads -> Ages]
      BY <1>0, <1>1, <1>8, <2>1, <3>4, MoveTyped DEF Transient, Sleep
    <3> QED BY <1>0, <1>2, <1>8, <2>1, <3>3, <3>5 DEF Transient, ThreadsTyped
  <2>2. CASE ~(call[t].attempt < MaxAttempts)
    BY <1>0, <1>2, <1>8, <2>2, RaiseTyped DEF Transient, ThreadsTyped
  <2> QED BY <2>1, <2>2
<1>9. CASE Refused(t)
  BY <1>0, <1>2, <1>9, RaiseTyped DEF Refused, ThreadsTyped
<1> QED BY <1>3, <1>4, <1>5, <1>6, <1>7, <1>8, <1>9 DEF Calls

LEMMA TickTyped ==
  ASSUME ThreadsTyped, LimiterTyped, Tick
  PROVE  ThreadsTyped' /\ LimiterTyped' /\ UNCHANGED bench
<1>1. wake' \in [Threads -> Ages]
  <2>1. \A t \in Threads : wake[t] \in Ages
    BY DEF ThreadsTyped
  <2>2. \A t \in Threads : (IF pc[t] = "sleep" THEN wake[t] - 1 ELSE 0) \in Ages
    BY <2>1, Numbers DEF Tick, Ages
  <2> QED BY <2>2 DEF Tick
<1>2. requests' \in Seq(Ages)
  <2>1. requests' = [i \in DOMAIN requests |-> Older(requests[i])]
    BY DEF Tick
  <2>2. \A i \in DOMAIN requests : requests[i] \in Ages
    BY ElementIsIn DEF LimiterTyped
  <2>3. \A i \in DOMAIN requests : requests'[i] \in Ages
    BY <2>1, <2>2, AgesGrow
  <2> QED BY <2>1, <2>3, MappedIsIn DEF LimiterTyped
<1>3. tokens' \in Seq(TokenType)
  <2>1. tokens' = [i \in DOMAIN tokens |->
                     [tokens[i] EXCEPT !.age = Older(tokens[i].age)]]
    BY DEF Tick
  <2>2. ASSUME NEW i \in DOMAIN tokens
        PROVE  tokens'[i] \in TokenType
    <3>1. tokens[i] \in TokenType
      BY ElementIsIn DEF LimiterTyped
    <3>2. Older(tokens[i].age) \in Ages
      BY <3>1, AgesGrow DEF TokenType
    <3> QED BY <2>1, <3>1, <3>2 DEF TokenType
  <2> QED BY <2>1, <2>2, MappedIsIn DEF LimiterTyped
<1>4. sent' \in Seq(Ages) /\ Len(sent') = Len(sent)
  <2>1. sent' = [i \in DOMAIN sent |-> Older(sent[i])]
    BY DEF Tick
  <2>2. \A i \in DOMAIN sent : sent[i] \in Ages
    BY ElementIsIn DEF LimiterTyped
  <2>3. \A i \in DOMAIN sent : sent'[i] \in Ages
    BY <2>1, <2>2, AgesGrow
  <2> QED BY <2>1, <2>3, MappedIsIn DEF LimiterTyped
<1>5. last' \in Ages
  BY AgesGrow DEF Tick, LimiterTyped
<1> QED BY <1>1, <1>2, <1>3, <1>4, <1>5 DEF Tick, ThreadsTyped, LimiterTyped

LEMMA FreshTyped ==
  ASSUME FreshProcess, left' \in [Threads -> 0 .. MaxCalls]
  PROVE  ThreadsTyped' /\ LimiterTyped'
<1>1. NoCall \in CallType /\ NoResult \in ResultType
  BY Numbers DEF NoCall, CallType, Kinds, NoResult, ResultType
<1>2. ThreadsTyped'
  BY <1>1, AgesGrow DEF FreshProcess, ThreadsTyped, PcType
<1>3. requests' \in Seq(Ages) /\ tokens' \in Seq(TokenType)
  BY DEF FreshProcess
<1>4. last' \in Ages /\ sent' \in Seq(Ages) /\ Len(sent') <= MaxRpm + 1
  BY AgesGrow, Numbers DEF FreshProcess
<1> QED BY <1>2, <1>3, <1>4 DEF LimiterTyped

\* The trajectory that is run next is open, and those before it are not.
LEMMA FirstOpenIsNext ==
  ASSUME BenchTyped,
         NEW open, open = {i \in item .. Len(Schedule) : ~Recorded(i)}, open # {}
  PROVE  /\ Min(open) \in DOMAIN Schedule
         /\ \A i \in item .. Len(Schedule) : i < Min(open) => Recorded(i)
<1>1. item \in Nat /\ item >= 1 /\ open \in SUBSET Nat
  BY Numbers DEF BenchTyped
<1>2. Min(open) \in open /\ \A y \in open : Min(open) <= y
  BY <1>1, MinIsLeast
<1>3. Min(open) \in DOMAIN Schedule
  BY <1>1, <1>2, Numbers
<1>4. ASSUME NEW i \in item .. Len(Schedule), i < Min(open)
      PROVE  Recorded(i)
  BY <1>1, <1>2, <1>3, <1>4, Numbers
<1> QED BY <1>3, <1>4

LEMMA EndTrajectoryTyped ==
  ASSUME BenchTyped, PassedAreAccounted, phase = "run",
         NEW status \in {"successful", "failed"}, EndTrajectory(status),
         spoiled' \subseteq DOMAIN Schedule
  PROVE  BenchTyped' /\ PassedAreAccounted'
<1>1. item \in DOMAIN Schedule
  BY DEF PassedAreAccounted
<1>2. files' = [files EXCEPT ![item] = "partial"]
  BY DEF EndTrajectory
<1>3. BenchTyped'
  BY <1>1, <1>2 DEF EndTrajectory, BenchTyped
<1>4. ASSUME NEW i \in DOMAIN Schedule, i < item
      PROVE  Recorded(i)' \/ i \in invalid'
  <2>1. i # item /\ (Recorded(i) \/ i \in invalid)
    BY <1>1, <1>4, Numbers DEF PassedAreAccounted
  <2>2. files'[i] = files[i] /\ invalid' = invalid
    BY <1>2, <2>1 DEF BenchTyped, EndTrajectory
  <2> QED BY <2>1, <2>2 DEF Recorded
<1> QED BY <1>1, <1>3, <1>4 DEF EndTrajectory, PassedAreAccounted

LEMMA RunsAccounted ==
  ASSUME BenchTyped, PassedAreAccounted, Runs
  PROVE  BenchTyped' /\ PassedAreAccounted'
<1>0. item \in Nat /\ item >= 1 /\ Len(Schedule) \in Nat
      /\ DOMAIN Schedule = 1 .. Len(Schedule)
  BY Numbers DEF BenchTyped
<1>1. CASE NextTrajectory
  <2> DEFINE open == {i \in item .. Len(Schedule) : ~Recorded(i)}
  <2>1. \A i : Recorded(i)' = Recorded(i)
    BY <1>1 DEF NextTrajectory, Recorded
  <2>2. CASE open = {}
    <3>1. item' = Len(Schedule) + 1 /\ phase' = "ended" /\ infra' = infra
      BY <1>1, <2>2 DEF NextTrajectory
    <3>2. \A i \in DOMAIN Schedule : Recorded(i) \/ i \in invalid
      BY <1>0, <2>2 DEF PassedAreAccounted
    <3>3. BenchTyped'
      BY <1>0, <1>1, <3>1 DEF NextTrajectory, BenchTyped
    <3> QED BY <1>1, <2>1, <3>1, <3>2, <3>3 DEF NextTrajectory, PassedAreAccounted
  <2>3. CASE open # {}
    <3>1. item' = Min(open) /\ phase' = "run" /\ infra' = 1
      BY <1>1, <2>3 DEF NextTrajectory, Start
    <3>2. /\ Min(open) \in DOMAIN Schedule
          /\ \A i \in item .. Len(Schedule) : i < Min(open) => Recorded(i)
      BY <2>3, FirstOpenIsNext
    <3> HIDE DEF open
    <3>3. BenchTyped'
      BY <1>0, <1>1, <3>1, <3>2, Numbers DEF NextTrajectory, BenchTyped
    <3>4. ASSUME NEW i \in DOMAIN Schedule, i < item'
          PROVE  Recorded(i)' \/ i \in invalid'
      <4>1. CASE i < item
        BY <1>1, <2>1, <4>1 DEF PassedAreAccounted, NextTrajectory
      <4>2. CASE ~(i < item)
        BY <1>0, <2>1, <3>1, <3>2, <3>4, <4>2
      <4> QED BY <4>1, <4>2
    <3> QED BY <3>1, <3>2, <3>3, <3>4 DEF PassedAreAccounted
  <2> QED BY <2>2, <2>3
<1>2. CASE Finish
  BY <1>2, EndTrajectoryTyped DEF Finish, BenchTyped
<1>3. CASE Fail
  <2>1. item \in DOMAIN Schedule
    BY <1>3 DEF Fail, PassedAreAccounted
  <2>2. spoiled' \subseteq DOMAIN Schedule
    BY <1>3, <2>1 DEF Fail, BenchTyped
  <2> QED BY <1>3, <2>2, EndTrajectoryTyped DEF Fail
<1>4. CASE Write
  <2>1. item \in DOMAIN Schedule
    BY <1>4 DEF Write, PassedAreAccounted
  <2>2. BenchTyped'
    BY <1>0, <1>4, <2>1 DEF Write, BenchTyped
  <2>3. ASSUME NEW i \in DOMAIN Schedule, i < item'
        PROVE  Recorded(i)' \/ i \in invalid'
    <3>1. files' = [files EXCEPT ![item] = record] /\ item' = item + 1 /\ invalid' = invalid
      BY <1>4 DEF Write
    <3>2. CASE i = item
      BY <2>1, <3>1, <3>2 DEF BenchTyped, Recorded
    <3>3. CASE i # item
      <4>1. i < item
        BY <1>0, <2>3, <3>1, <3>3
      <4>2. files'[i] = files[i]
        BY <3>1, <3>3 DEF BenchTyped
      <4> QED BY <3>1, <4>1, <4>2 DEF PassedAreAccounted, Recorded
    <3> QED BY <3>2, <3>3
  <2> QED BY <1>4, <2>2, <2>3 DEF Write, PassedAreAccounted
<1>5. CASE InvalidAttempt
  <2>1. item \in DOMAIN Schedule
    BY <1>5 DEF InvalidAttempt, PassedAreAccounted
  <2>2. \A i : Recorded(i)' = Recorded(i)
    BY <1>5 DEF InvalidAttempt, Recorded
  <2>3. CASE infra < MaxInfra
    <3>1. UNCHANGED <<phase, item, invalid, record, files, spoiled, crashes, process>>
          /\ infra' = infra + 1
      BY <1>5, <2>3 DEF InvalidAttempt
    <3>2. BenchTyped'
      BY <2>3, <3>1, Numbers DEF BenchTyped
    <3> QED BY <2>2, <3>1, <3>2 DEF PassedAreAccounted
  <2>4. CASE ~(infra < MaxInfra)
    <3>1. /\ phase' = "loop" /\ item' = item + 1 /\ invalid' = invalid \cup {item}
          /\ UNCHANGED <<infra, record, files, spoiled, crashes, process>>
      BY <1>5, <2>4 DEF InvalidAttempt
    <3>2. BenchTyped'
      BY <1>0, <2>1, <3>1 DEF BenchTyped
    <3>3. ASSUME NEW i \in DOMAIN Schedule, i < item'
          PROVE  Recorded(i)' \/ i \in invalid'
      BY <1>0, <2>2, <3>1, <3>3 DEF PassedAreAccounted
    <3> QED BY <3>1, <3>2, <3>3 DEF PassedAreAccounted
  <2> QED BY <2>3, <2>4
<1> QED BY <1>1, <1>2, <1>3, <1>4, <1>5 DEF Runs

\* The runner leaves the limiter alone, and puts its thread to rest.
LEMMA RunsTyped ==
  ASSUME ThreadsTyped, LimiterTyped, Runs
  PROVE  /\ ThreadsTyped' /\ LimiterTyped' /\ requests' = requests
         /\ pc' = pc \/ pc' = [pc EXCEPT ![Runner] = "idle"]
<1>0. /\ pc \in [Threads -> PcType] /\ call \in [Threads -> CallType]
      /\ result \in [Threads -> ResultType] /\ wake \in [Threads -> Ages]
      /\ left \in [Threads -> 0 .. MaxCalls]
  BY DEF ThreadsTyped
<1>1. LimiterTyped' /\ requests' = requests
  BY DEF Runs, NextTrajectory, Finish, Fail, Write, InvalidAttempt, EndTrajectory,
         LimiterTyped, limiter
<1>2. [left EXCEPT ![Runner] = MaxCalls] \in [Threads -> 0 .. MaxCalls]
  <2>1. MaxCalls \in 0 .. MaxCalls
    BY Numbers
  <2> QED BY <1>0, <2>1, Zenon
<1>3. left' \in [Threads -> 0 .. MaxCalls]
  BY <1>0, <1>2 DEF Runs, NextTrajectory, Start, Finish, Fail, Write, InvalidAttempt, EndTrajectory
<1>4. /\ pc' = pc \/ pc' = [pc EXCEPT ![Runner] = "idle"]
      /\ wake' = wake /\ call' = call
      /\ result' = result \/ result' = [result EXCEPT ![Runner] = NoResult]
  BY DEF Runs, NextTrajectory, Finish, Fail, Write, InvalidAttempt, EndTrajectory
<1>5. pc' \in [Threads -> PcType]
  BY <1>0, <1>4 DEF PcType
<1>6. result' \in [Threads -> ResultType]
  <2>1. NoResult \in ResultType
    BY DEF NoResult, ResultType
  <2>2. CASE result' = [result EXCEPT ![Runner] = NoResult]
    BY <1>0, <2>1, <2>2
  <2> QED BY <1>0, <1>4, <2>2
<1> QED BY <1>0, <1>1, <1>3, <1>4, <1>5, <1>6 DEF ThreadsTyped

LEMMA RestartKept ==
  ASSUME ThreadsTyped, BenchTyped, Restart
  PROVE  ThreadsTyped' /\ LimiterTyped' /\ BenchTyped' /\ PassedAreAccounted'
<1>1. left' \in [Threads -> 0 .. MaxCalls]
  <2>1. 0 \in 0 .. MaxCalls
    BY Numbers
  <2> QED BY <2>1, Zenon DEF Restart, ThreadsTyped
<1>2. ThreadsTyped' /\ LimiterTyped'
  BY <1>1, FreshTyped DEF Restart
<1>3. BenchTyped'
  BY Numbers DEF Restart, BenchTyped
<1>4. PassedAreAccounted'
  BY Numbers DEF Restart, PassedAreAccounted
<1> QED BY <1>2, <1>3, <1>4
-----------------------------------------------------------------------------
(* The deque of requests *)

\* What the steps of a thread do to the deque.
LEMMA HeadIsOldest ==
  ASSUME LimiterTyped, Sorted, requests # <<>>
  PROVE  /\ Head(requests) = requests[1] /\ Head(requests) \in Ages
         /\ \A j \in DOMAIN requests : requests[j] <= Head(requests)
<1>1. Head(requests) = requests[1] /\ 1 \in DOMAIN requests /\ Head(requests) \in Ages
  BY TailIsIn DEF LimiterTyped
<1>2. \A j \in DOMAIN requests : 1 <= j
  BY DEF LimiterTyped
<1> QED BY <1>1, <1>2 DEF Sorted

\* A deque without its oldest request is sorted, and if the oldest had not
\* expired, nothing in it has.
LEMMA TailKept ==
  ASSUME LimiterTyped, Sorted, requests # <<>>, requests' = Tail(requests)
  PROVE  /\ Sorted' /\ Len(requests') <= Len(requests)
         /\ ~Expired(Head(requests)) => requests' = <<>> \/ ~Expired(Head(requests'))
<1>1. /\ requests' \in Seq(Ages) /\ Len(requests') = Len(requests) - 1
      /\ \A i \in DOMAIN requests' :
           i \in Nat /\ i + 1 \in DOMAIN requests /\ requests'[i] = requests[i + 1]
  BY TailIsIn DEF LimiterTyped
<1>2. Sorted'
  <2>1. ASSUME NEW i \in DOMAIN requests', NEW j \in DOMAIN requests', i <= j
        PROVE  requests'[j] <= requests'[i]
    <3>1. i + 1 <= j + 1
      BY <1>1, <2>1
    <3> QED BY <1>1, <3>1 DEF Sorted
  <2> QED BY <2>1 DEF Sorted
<1>3. ASSUME ~Expired(Head(requests)), requests' # <<>>
      PROVE  ~Expired(Head(requests'))
  <2>1. 1 \in DOMAIN requests' /\ Head(requests') = requests'[1]
    BY <1>1, <1>3, TailIsIn
  <2>2. Head(requests') \in Ages /\ Head(requests') <= Head(requests)
    BY <1>1, <2>1, HeadIsOldest, ElementIsIn DEF LimiterTyped
  <2> QED BY <1>3, <2>2, HeadIsOldest, Numbers DEF Expired, Ages
<1> QED BY <1>1, <1>2, <1>3 DEF LimiterTyped

LEMMA TickKept ==
  ASSUME LimiterTyped, Sorted, Tick
  PROVE  /\ Sorted' /\ NoneExpired' /\ Passing' = {} /\ Len(requests') = Len(requests)
<1>1. requests' = [i \in DOMAIN requests |-> Older(requests[i])]
  BY DEF Tick
<1>2. Sorted'
  <2>1. ASSUME NEW i \in DOMAIN requests, NEW j \in DOMAIN requests, i <= j
        PROVE  requests'[j] <= requests'[i]
    <3>1. requests[j] <= requests[i] /\ requests[i] \in Ages /\ requests[j] \in Ages
      BY <2>1, ElementIsIn DEF Sorted, LimiterTyped
    <3> QED BY <1>1, <3>1, AgesGrow
  <2> QED BY <1>1, <2>1 DEF Sorted
<1>3. \A t \in Threads : pc'[t] \notin Checks
  BY DEF Tick
<1>4. Len(requests') = Len(requests)
  BY <1>1 DEF LimiterTyped
<1> QED BY <1>2, <1>3, <1>4 DEF NoneExpired, Passing, Checks

Inv ==
  /\ ThreadsTyped /\ LimiterTyped /\ BenchTyped /\ PassedAreAccounted
  /\ Sorted /\ NoneExpired /\ RequestsAreFew

LEMMA PassingIsFinite ==
  ASSUME NEW S \in SUBSET Threads
  PROVE  /\ IsFiniteSet(S) /\ Cardinality(S) \in Nat
         /\ Cardinality(Threads) \in Nat /\ Cardinality(S) <= Cardinality(Threads)
BY CallsAssumption, FS_Subset, FS_CardinalityType

\* A step that leaves the deque alone, and lets no thread pass.
LEMMA QuietStep ==
  ASSUME Inv, requests' = requests, NEW t \in Threads,
         NEW place \in {"idle", "requests", "tokens", "tpop", "spacing", "rpm", "send",
                        "sleep", "await", "back", "pop"},
         pc' = [pc EXCEPT ![t] = place],
         place \in {"tokens", "tpop", "spacing", "rpm", "send"} =>
           requests = <<>> \/ ~Expired(Head(requests)),
         place = "send" => pc[t] = "tpm"
  PROVE  Sorted' /\ NoneExpired' /\ RequestsAreFew'
<1>1. pc \in [Threads -> PcType]
  BY DEF Inv, ThreadsTyped
<1>2. \A u \in Threads : pc'[u] = IF u = t THEN place ELSE pc[u]
  BY <1>1
<1>3. Sorted'
  BY DEF Inv, Sorted
<1>4. NoneExpired'
  <2>1. \A u \in Threads : pc'[u] \in Checks \ {"requests", "pop"} =>
          \/ pc[u] \in Checks \ {"requests", "pop"}
          \/ place \in {"tokens", "tpop", "spacing", "rpm", "send"}
    BY <1>2 DEF Checks
  <2> QED BY <2>1 DEF Inv, NoneExpired, Expired
<1>5. RequestsAreFew'
  <2>1. Passing' \subseteq Passing /\ Passing \subseteq Threads
    BY <1>2 DEF Passing
  <2>2. Cardinality(Passing') <= Cardinality(Passing) /\ Cardinality(Passing') \in Nat
        /\ Cardinality(Passing) \in Nat /\ Cardinality(Threads) \in Nat
    BY <2>1, PassingIsFinite, FS_Subset
  <2>3. Len(requests) \in Nat
    BY DEF Inv, LimiterTyped
  <2> QED BY <2>2, <2>3, Numbers DEF Inv, RequestsAreFew
<1> QED BY <1>3, <1>4, <1>5

LEMMA AcquireKept ==
  ASSUME Inv, NEW t \in Threads, Acquires(t)
  PROVE  Sorted' /\ NoneExpired' /\ RequestsAreFew'
<1>0. /\ ThreadsTyped /\ LimiterTyped /\ Sorted /\ NoneExpired /\ RequestsAreFew
      /\ pc \in [Threads -> PcType] /\ requests \in Seq(Ages) /\ Len(requests) \in Nat
  <2>1. ThreadsTyped /\ LimiterTyped /\ Sorted /\ NoneExpired /\ RequestsAreFew
    BY DEF Inv
  <2>2. pc \in [Threads -> PcType] /\ requests \in Seq(Ages)
    BY <2>1 DEF ThreadsTyped, LimiterTyped
  <2>3. Len(requests) \in Nat
    BY <2>2
  <2> QED BY <2>1, <2>2, <2>3
<1>1. pc[t] \in Checks \ {"requests", "pop"} => requests = <<>> \/ ~Expired(Head(requests))
  BY <1>0 DEF NoneExpired
<1>2. CASE CheckRequests(t)
  BY <1>2, QuietStep DEF CheckRequests, Goto, limiter
<1>3. CASE PopRequest(t)
  <2>1. CASE requests = <<>>
    BY <1>0, <1>3, <2>1, RaiseTyped, QuietStep DEF PopRequest
  <2>2. CASE requests # <<>>
    <3>1. requests' = Tail(requests) /\ pc' = [pc EXCEPT ![t] = "requests"]
      BY <1>3, <2>2 DEF PopRequest, Goto
    <3>2. /\ Sorted' /\ Len(requests') <= Len(requests) /\ Len(requests') \in Nat
          /\ ~Expired(Head(requests)) => requests' = <<>> \/ ~Expired(Head(requests'))
      BY <1>0, <2>2, <3>1, TailKept, TailIsIn DEF LimiterTyped
    <3>3. \A u \in Threads : pc'[u] = IF u = t THEN "requests" ELSE pc[u]
      BY <1>0, <3>1
    <3>4. NoneExpired'
      <4>1. \A u \in Threads : pc'[u] \in Checks \ {"requests", "pop"} =>
              pc[u] \in Checks \ {"requests", "pop"}
        BY <3>3
      <4> QED BY <1>0, <2>2, <3>2, <4>1 DEF NoneExpired, Expired
    <3>5. Passing' = Passing
      BY <1>3, <3>3 DEF Passing, PopRequest
    <3>6. RequestsAreFew'
      <4>1. Cardinality(Passing) \in Nat /\ Cardinality(Threads) \in Nat
        BY PassingIsFinite DEF Passing
      <4> QED BY <1>0, <3>2, <3>5, <4>1, Numbers DEF RequestsAreFew
    <3> QED BY <3>2, <3>4, <3>6
  <2> QED BY <2>1, <2>2
<1>4. CASE CheckTokens(t)
  BY <1>1, <1>4, QuietStep DEF CheckTokens, Goto, limiter, Checks
<1>5. CASE PopToken(t)
  <2>1. CASE tokens = <<>>
    BY <1>0, <1>5, <2>1, RaiseTyped, QuietStep DEF PopToken
  <2>2. CASE tokens # <<>>
    BY <1>1, <1>5, <2>2, QuietStep DEF PopToken, Goto, Checks
  <2> QED BY <2>1, <2>2
<1>6. CASE CheckSpacing(t)
  BY <1>1, <1>6, QuietStep DEF CheckSpacing, Goto, Sleep, limiter, Checks
<1>7. CASE CheckRpm(t)
  <2>0. pc[t] = "rpm" /\ requests' = requests
    BY <1>7 DEF CheckRpm, limiter
  <2>1. requests = <<>> \/ ~Expired(Head(requests))
    BY <1>1, <2>0 DEF Checks
  <2>2. CASE Full
    <3>1. requests # <<>>
      BY <1>0, <2>2, Numbers DEF Full
    <3>2. pc' = [pc EXCEPT ![t] = "sleep"]
      BY <1>7, <2>1, <2>2, <3>1 DEF CheckRpm, Sleep
    <3> QED BY <2>0, <3>2, QuietStep
  <2>3. CASE ~Full
    <3>1. pc' = [pc EXCEPT ![t] = "tpm"] /\ Len(requests) < MaxRpm
      BY <1>0, <1>7, <2>3, Numbers DEF CheckRpm, Goto, Full
    <3>2. Sorted' /\ NoneExpired'
      BY <1>0, <2>0, <2>1 DEF Sorted, NoneExpired, Expired
    <3>3. RequestsAreFew'
      <4>1. Passing' \subseteq Threads
        BY DEF Passing
      <4>2. Cardinality(Passing') \in Nat /\ Cardinality(Threads) \in Nat
            /\ Cardinality(Passing') <= Cardinality(Threads)
        BY <4>1, PassingIsFinite
      <4> QED BY <1>0, <2>0, <3>1, <4>2, Numbers DEF RequestsAreFew
    <3> QED BY <3>2, <3>3
  <2> QED BY <2>2, <2>3
<1>8. CASE CheckTpm(t)
  <2>0. pc[t] = "tpm" /\ requests' = requests
    BY <1>8 DEF CheckTpm, limiter
  <2>1. CASE Raise(t, "error", FALSE)
    BY <1>0, <2>0, <2>1, RaiseTyped, QuietStep
  <2>2. CASE pc' = [pc EXCEPT ![t] = "send"] \/ pc' = [pc EXCEPT ![t] = "sleep"]
    BY <1>1, <2>0, <2>2, QuietStep DEF Checks
  <2> QED BY <1>8, <2>1, <2>2 DEF CheckTpm, Goto, Sleep
<1>9. CASE Send(t)
  <2>0. /\ pc[t] = "send" /\ requests' = Append(requests, 0)
        /\ pc' = [pc EXCEPT ![t] = "await"]
    BY <1>9 DEF Send, Goto
  <2>1. \A u \in Threads : pc'[u] = IF u = t THEN "await" ELSE pc[u]
    BY <1>0, <2>0
  <2>2. requests = <<>> \/ ~Expired(Head(requests))
    BY <1>1, <2>0 DEF Checks
  <2>3. /\ Len(requests') = Len(requests) + 1
        /\ \A i \in DOMAIN requests' :
             /\ i \in Nat /\ i <= Len(requests) + 1
             /\ i \in DOMAIN requests => requests'[i] = requests[i]
             /\ i \notin DOMAIN requests => requests'[i] = 0 /\ i = Len(requests) + 1
        /\ Head(requests') = IF requests = <<>> THEN 0 ELSE Head(requests)
        /\ DOMAIN requests = 1 .. Len(requests)
    BY <1>0, <2>0 DEF LimiterTyped
  <2>4. Sorted'
    <3>1. ASSUME NEW i \in DOMAIN requests', NEW j \in DOMAIN requests', i <= j
          PROVE  requests'[j] <= requests'[i]
      <4>1. \A k \in DOMAIN requests : requests[k] \in Nat
        <5>1. \A k \in DOMAIN requests : requests[k] \in Ages
          BY <1>0, ElementIsIn
        <5> QED BY <5>1, Numbers DEF Ages
      <4>2. CASE j \in DOMAIN requests
        <5>1. i \in DOMAIN requests
          BY <1>0, <2>3, <3>1, <4>2
        <5> QED BY <1>0, <2>3, <3>1, <4>2, <5>1 DEF Sorted
      <4>3. CASE j \notin DOMAIN requests
        BY <1>0, <2>3, <3>1, <4>1, <4>3
      <4> QED BY <4>2, <4>3
    <3> QED BY <3>1 DEF Sorted
  <2>5. ~Expired(Head(requests'))
    BY <2>2, <2>3, Numbers DEF Expired
  <2>6. RequestsAreFew'
    <3>1. Passing' = Passing \ {t} /\ t \in Passing /\ Passing \subseteq Threads
      BY <2>0, <2>1 DEF Passing
    <3>2. Cardinality(Passing') = Cardinality(Passing) - 1
          /\ Cardinality(Passing) \in Nat /\ Cardinality(Threads) \in Nat
      BY <3>1, PassingIsFinite, FS_RemoveElement
    <3> QED BY <1>0, <2>3, <3>2, Numbers DEF RequestsAreFew
  <2>7. NoneExpired'
    BY <2>5 DEF NoneExpired, Expired
  <2> QED BY <2>4, <2>6, <2>7
<1> QED BY <1>2, <1>3, <1>4, <1>5, <1>6, <1>7, <1>8, <1>9 DEF Acquires

\* The steps of a thread outside of the limiter.
LEMMA CallKept ==
  ASSUME Inv, NEW t \in Threads, StartCall(t) \/ Return(t) \/ Calls(t)
  PROVE  Sorted' /\ NoneExpired' /\ RequestsAreFew'
<1>0. ThreadsTyped
  BY DEF Inv
<1>1. CASE StartCall(t) \/ Return(t) \/ Wake(t)
  <2>1. /\ requests' = requests
        /\ \E place \in {"idle", "requests"} : pc' = [pc EXCEPT ![t] = place]
    BY <1>1 DEF StartCall, Return, Wake, Goto, limiter
  <2> QED BY <2>1, QuietStep
<1>2. CASE Acquires(t)
  BY <1>2, AcquireKept
<1>3. CASE Answered(t) \/ Transient(t) \/ Refused(t)
  <2>1. requests' = requests
    BY <1>3 DEF Answered, Transient, Refused, limiter
  <2>2. \E place \in {"requests", "back", "sleep"} : pc' = [pc EXCEPT ![t] = place]
    <3>1. ASSUME NEW status \in {"InfrastructureError", "error"}, NEW provider \in BOOLEAN,
                 Raise(t, status, provider)
          PROVE  \E place \in {"requests", "back"} : pc' = [pc EXCEPT ![t] = place]
      BY <1>0, <3>1, RaiseTyped
    <3>2. CASE Answered(t)
      BY <3>1, <3>2 DEF Answered, Over, Goto
    <3>3. CASE Transient(t)
      BY <3>1, <3>3 DEF Transient, Sleep
    <3>4. CASE Refused(t)
      BY <3>1, <3>4 DEF Refused
    <3> QED BY <1>3, <3>2, <3>3, <3>4
  <2> QED BY <2>1, <2>2, QuietStep
<1> QED BY <1>1, <1>2, <1>3 DEF Calls

-----------------------------------------------------------------------------
(* The invariant *)

\* A process that starts has sent nothing.
LEMMA EmptyDeque ==
  ASSUME requests = <<>>, \A t \in Threads : pc[t] = "idle"
  PROVE  Sorted /\ NoneExpired /\ RequestsAreFew
<1>1. Passing = {} /\ Len(requests) = 0 /\ DOMAIN requests = {}
  BY DEF Passing
<1>2. Cardinality(Passing) = 0 /\ Cardinality(Threads) \in Nat
  BY <1>1, PassingIsFinite, FS_EmptySet
<1> QED BY <1>1, <1>2, Numbers DEF Sorted, NoneExpired, RequestsAreFew

LEMMA InitInv ==
  ASSUME Init
  PROVE  Inv
<1>1. ThreadsTyped
  <2>1. NoCall \in CallType /\ NoResult \in ResultType
    BY Numbers DEF NoCall, CallType, Kinds, NoResult, ResultType
  <2>2. left \in [Threads -> 0 .. MaxCalls]
    BY Numbers DEF Init
  <2> QED BY <2>1, <2>2, AgesGrow DEF Init, ThreadsTyped, PcType
<1>2. LimiterTyped
  <2>1. requests \in Seq(Ages) /\ tokens \in Seq(TokenType)
    BY DEF Init
  <2>2. last \in Ages /\ sent \in Seq(Ages) /\ Len(sent) <= MaxRpm + 1
    BY AgesGrow, Numbers DEF Init
  <2> QED BY <2>1, <2>2 DEF LimiterTyped
<1>3. BenchTyped /\ PassedAreAccounted
  BY Numbers DEF Init, BenchTyped, PassedAreAccounted
<1>4. Sorted /\ NoneExpired /\ RequestsAreFew
  BY EmptyDeque DEF Init
<1> QED BY <1>1, <1>2, <1>3, <1>4 DEF Inv

LEMMA NextInv ==
  ASSUME Inv, [Next]_vars
  PROVE  Inv'
<1>0. /\ ThreadsTyped /\ LimiterTyped /\ BenchTyped /\ PassedAreAccounted
      /\ Sorted /\ NoneExpired /\ RequestsAreFew
  BY DEF Inv
<1>1. ASSUME UNCHANGED bench, process' = process
      PROVE  BenchTyped' /\ PassedAreAccounted'
  BY <1>0, <1>1 DEF bench, BenchTyped, PassedAreAccounted, Recorded
<1>2. CASE Tick
  <2>1. ThreadsTyped' /\ LimiterTyped' /\ UNCHANGED bench /\ process' = process
    BY <1>0, <1>2, TickTyped DEF Tick
  <2>2. Sorted' /\ NoneExpired' /\ Passing' = {} /\ Len(requests') = Len(requests)
    BY <1>0, <1>2, TickKept
  <2>3. RequestsAreFew'
    <3>1. Cardinality(Passing) \in Nat /\ Cardinality(Threads) \in Nat
      BY PassingIsFinite DEF Passing
    <3>2. Cardinality(Passing') = 0 /\ Len(requests) \in Nat
      BY <1>0, <2>2, FS_EmptySet DEF LimiterTyped
    <3> QED BY <1>0, <2>2, <3>1, <3>2, Numbers DEF RequestsAreFew
  <2> QED BY <1>1, <2>1, <2>2, <2>3 DEF Inv
<1>3. CASE Runs
  <2>1. ThreadsTyped' /\ LimiterTyped' /\ BenchTyped' /\ PassedAreAccounted'
    BY <1>0, <1>3, RunsTyped, RunsAccounted
  <2>2. Sorted' /\ NoneExpired' /\ RequestsAreFew'
    <3>1. requests' = requests
      BY <1>0, <1>3, RunsTyped
    <3>2. CASE pc' = pc
      <4>1. Passing' = Passing
        BY <3>2 DEF Passing
      <4> QED BY <1>0, <3>1, <3>2, <4>1 DEF Sorted, NoneExpired, RequestsAreFew, Expired
    <3>3. CASE pc' = [pc EXCEPT ![Runner] = "idle"]
      BY <3>1, <3>3, QuietStep, CallsAssumption
    <3> QED BY <1>0, <1>3, <3>2, <3>3, RunsTyped
  <2> QED BY <2>1, <2>2 DEF Inv
<1>4. CASE Restart
  <2>1. ThreadsTyped' /\ LimiterTyped' /\ BenchTyped' /\ PassedAreAccounted'
    BY <1>0, <1>4, RestartKept
  <2>2. requests' = <<>> /\ \A t \in Threads : pc'[t] = "idle"
    BY <1>4 DEF Restart, FreshProcess
  <2>3. Sorted' /\ NoneExpired' /\ RequestsAreFew'
    <3>1. Passing' = {} /\ Len(requests') = 0 /\ DOMAIN requests' = {}
      BY <2>2 DEF Passing
    <3>2. Cardinality(Passing') = 0 /\ Cardinality(Threads) \in Nat
      BY <3>1, PassingIsFinite, FS_EmptySet
    <3> QED BY <2>2, <3>1, <3>2, Numbers DEF Sorted, NoneExpired, RequestsAreFew
  <2> QED BY <2>1, <2>3 DEF Inv
<1>5. ASSUME NEW t \in Threads, StartCall(t) \/ Return(t) \/ Calls(t)
      PROVE  Inv'
  <2>1. ThreadsTyped' /\ LimiterTyped'
    BY <1>0, <1>5, CallTyped
  <2>2. Sorted' /\ NoneExpired' /\ RequestsAreFew'
    BY <1>5, CallKept
  <2>3. UNCHANGED bench /\ process' = process
    BY <1>5 DEF StartCall, Return, Calls, Wake, Acquires, Answered, Transient, Refused,
                CheckRequests, PopRequest, CheckTokens, PopToken, CheckSpacing,
                CheckRpm, CheckTpm, Send
  <2> QED BY <1>1, <2>1, <2>2, <2>3 DEF Inv
<1>6. CASE UNCHANGED vars
  <2>1. UNCHANGED <<process, pc, call, wake, result, left, requests, tokens, last, sent, bench>>
    BY <1>6 DEF vars, limiter
  <2>2. ThreadsTyped' /\ LimiterTyped' /\ Passing' = Passing
    BY <1>0, <2>1 DEF ThreadsTyped, LimiterTyped, Passing
  <2>3. Sorted' /\ NoneExpired' /\ RequestsAreFew'
    BY <1>0, <2>1, <2>2 DEF Sorted, NoneExpired, RequestsAreFew, Expired
  <2> QED BY <1>1, <2>1, <2>2, <2>3 DEF Inv
<1> QED BY <1>2, <1>3, <1>4, <1>5, <1>6 DEF Next

LEMMA InvHolds == Spec => []Inv
BY InitInv, NextInv, PTL DEF Spec

-----------------------------------------------------------------------------
(* A process with one thread *)

\* The requests that are remembered and no longer in the deque.
Gone == Len(sent) - Len(requests)

\* The deque is what was sent, up to requests that have left the window.
DequeIsSent ==
  /\ Len(requests) <= Len(sent)
  /\ \A i \in 1 .. Len(requests) : requests[i] = sent[i + Gone]
  /\ \A i \in 1 .. Len(sent) : i <= Gone => sent[i] > Window

\* The last call is the latest request, and the others came in time before.
SentIsSpaced ==
  /\ Len(sent) > 0 => last = sent[Len(sent)]
  /\ \A i \in 1 .. Len(sent) : i < Len(sent) => sent[i] >= MinInterval

\* What the runner has checked still holds when it acts on it: nobody else
\* touches the limiter, and a pass through the checks takes no time.
RunnerHasChecked ==
  /\ \A t \in Threads \ {Runner} : pc[t] = "idle"
  /\ Len(requests) <= MaxRpm
  /\ pc[Runner] \in {"tpm", "send"} => Len(requests) < MaxRpm
  /\ pc[Runner] \in {"rpm", "tpm", "send"} => last >= MinInterval
  /\ pc[Runner] = "pop" => requests # <<>> /\ Expired(Head(requests))

AloneIsLimited ==
  process = "benchmark" => DequeIsSent /\ SentIsSpaced /\ RunnerHasChecked

\* The lengths and elements that the proofs below reckon with.
LEMMA LimiterNumbers ==
  ASSUME LimiterTyped
  PROVE  /\ Len(sent) \in Nat /\ Len(requests) \in Nat /\ Len(sent) <= MaxRpm + 1
         /\ DOMAIN sent = 1 .. Len(sent) /\ DOMAIN requests = 1 .. Len(requests)
         /\ \A i \in 1 .. Len(sent) : sent[i] \in Ages /\ sent[i] \in Nat
         /\ \A i \in 1 .. Len(requests) : requests[i] \in Ages /\ requests[i] \in Nat
         /\ last \in Ages /\ last \in Nat
<1>1. /\ sent \in Seq(Ages) /\ requests \in Seq(Ages) /\ last \in Ages
      /\ Len(sent) <= MaxRpm + 1
  BY DEF LimiterTyped
<1>2. \A a \in Ages : a \in Nat
  BY Numbers DEF Ages
<1>3. /\ Len(sent) \in Nat /\ Len(requests) \in Nat
      /\ DOMAIN sent = 1 .. Len(sent) /\ DOMAIN requests = 1 .. Len(requests)
  BY <1>1
<1>4. /\ \A i \in 1 .. Len(sent) : sent[i] \in Ages
      /\ \A i \in 1 .. Len(requests) : requests[i] \in Ages
  BY <1>1, <1>3, ElementIsIn
<1> QED BY <1>1, <1>2, <1>3, <1>4

\* What is over the window, or over the interval, stays over it.
LEMMA OldStaysOld ==
  ASSUME NEW a \in Ages
  PROVE  /\ Older(a) \in Ages /\ a <= Older(a)
         /\ a > Window => Older(a) > Window
         /\ a >= MinInterval => Older(a) >= MinInterval
BY Numbers DEF Ages, Older

LEMMA TickRemembers ==
  ASSUME LimiterTyped, DequeIsSent, SentIsSpaced, Tick
  PROVE  DequeIsSent' /\ SentIsSpaced' /\ Len(requests') = Len(requests)
<1>0. /\ Len(sent) \in Nat /\ Len(requests) \in Nat
      /\ DOMAIN sent = 1 .. Len(sent) /\ DOMAIN requests = 1 .. Len(requests)
      /\ \A i \in 1 .. Len(sent) : sent[i] \in Ages
      /\ requests \in Seq(Ages) /\ sent \in Seq(Ages)
  BY LimiterNumbers DEF LimiterTyped
<1>1. /\ requests' = [i \in 1 .. Len(requests) |-> Older(requests[i])]
      /\ sent' = [i \in 1 .. Len(sent) |-> Older(sent[i])]
      /\ last' = Older(last)
  BY <1>0 DEF Tick
<1>2. Len(requests') = Len(requests) /\ Len(sent') = Len(sent)
  BY <1>0, <1>1
<1>3. DequeIsSent'
  <2>1. ASSUME NEW i \in 1 .. Len(requests)
        PROVE  requests'[i] = sent'[i + Gone]
    <3>1. requests[i] = sent[i + Gone] /\ i + Gone \in 1 .. Len(sent)
      BY <1>0 DEF DequeIsSent, Gone
    <3> QED BY <1>1, <3>1
  <2>2. ASSUME NEW i \in 1 .. Len(sent), i <= Gone
        PROVE  sent'[i] > Window
    <3>1. sent[i] > Window /\ sent[i] \in Ages /\ sent'[i] = Older(sent[i])
      BY <1>0, <1>1, <2>2 DEF DequeIsSent
    <3>2. Older(sent[i]) > Window
      BY <3>1, OldStaysOld
    <3> QED BY <3>1, <3>2
  <2>3. Gone' = Gone
    BY <1>2 DEF Gone
  <2> QED BY <1>2, <2>1, <2>2, <2>3 DEF DequeIsSent
<1>4. SentIsSpaced'
  <2>1. Len(sent) > 0 => Len(sent) \in 1 .. Len(sent)
    BY <1>0
  <2>2. Len(sent) > 0 => last' = sent'[Len(sent)]
    BY <1>1, <2>1 DEF SentIsSpaced
  <2>3. ASSUME NEW i \in 1 .. Len(sent), i < Len(sent)
        PROVE  sent'[i] >= MinInterval
    <3>1. sent[i] >= MinInterval /\ sent[i] \in Ages /\ sent'[i] = Older(sent[i])
      BY <1>0, <1>1, <2>3 DEF SentIsSpaced
    <3>2. Older(sent[i]) >= MinInterval
      BY <3>1, OldStaysOld
    <3> QED BY <3>1, <3>2
  <2> QED BY <1>2, <2>2, <2>3 DEF SentIsSpaced
<1> QED BY <1>2, <1>3, <1>4

LEMMA PopRemembers ==
  ASSUME LimiterTyped, DequeIsSent, requests # <<>>, Expired(Head(requests)),
         requests' = Tail(requests), sent' = sent
  PROVE  DequeIsSent' /\ Len(requests') < Len(requests)
<1>0. /\ Len(sent) \in Nat /\ Len(requests) \in Nat /\ requests \in Seq(Ages)
  BY LimiterNumbers DEF LimiterTyped
<1>1. /\ Len(requests') = Len(requests) - 1 /\ Len(requests) >= 1
      /\ Head(requests) = requests[1]
      /\ \A i \in 1 .. Len(requests) - 1 : requests'[i] = requests[i + 1]
  BY <1>0, TailIsIn
<1>2. Gone' = Gone + 1 /\ Gone \in Nat
  BY <1>0, <1>1 DEF Gone, DequeIsSent
<1>3. ASSUME NEW i \in 1 .. Len(requests')
      PROVE  requests'[i] = sent[i + Gone']
  <2>1. i + 1 \in 1 .. Len(requests) /\ i \in 1 .. Len(requests) - 1
    BY <1>0, <1>1
  <2>2. requests'[i] = sent[(i + 1) + Gone]
    BY <1>1, <2>1 DEF DequeIsSent
  <2>3. (i + 1) + Gone = i + Gone'
    BY <1>2
  <2> QED BY <2>2, <2>3
<1>4. ASSUME NEW i \in 1 .. Len(sent), i <= Gone'
      PROVE  sent[i] > Window
  <2>1. CASE i <= Gone
    BY <2>1 DEF DequeIsSent
  <2>2. CASE i = Gone + 1
    <3>1. 1 \in 1 .. Len(requests)
      BY <1>0, <1>1
    <3>2. requests[1] = sent[1 + Gone] /\ requests[1] > Window
      BY <1>1, <3>1 DEF DequeIsSent, Expired
    <3>3. 1 + Gone = i
      BY <1>2, <2>2
    <3> QED BY <3>2, <3>3
  <2> QED BY <1>2, <1>4, <2>1, <2>2
<1> QED BY <1>0, <1>1, <1>3, <1>4 DEF DequeIsSent

\* A request is remembered when the deque has room and the last one is old enough.
LEMMA SendRemembers ==
  ASSUME LimiterTyped, DequeIsSent, SentIsSpaced, Len(requests) < MaxRpm,
         last >= MinInterval,
         requests' = Append(requests, 0), sent' = Remember, last' = 0
  PROVE  DequeIsSent' /\ SentIsSpaced' /\ Len(requests') <= MaxRpm
<1> DEFINE n == Len(sent)
           k == Len(requests)
<1>0. /\ n \in Nat /\ k \in Nat /\ MaxRpm \in Nat /\ n <= MaxRpm + 1 /\ k <= n
      /\ k < MaxRpm /\ Gone = n - k
  BY LimiterNumbers, Numbers DEF DequeIsSent, Gone
<1>1. /\ Len(requests') = k + 1 /\ requests'[k + 1] = 0
      /\ \A i \in 1 .. k : requests'[i] = requests[i]
  BY AppendIsIn, AgesGrow DEF LimiterTyped
<1>2. sent'[Len(sent')] = 0 /\ Len(sent') \in Nat /\ Len(sent') >= 1
  BY RememberTyped
<1>a. n > 0 => sent[n] >= MinInterval
  BY DEF SentIsSpaced
<1>b. \A i \in 1 .. n : sent[i] >= MinInterval
  BY <1>0, <1>a DEF SentIsSpaced
<1>3. CASE n <= MaxRpm
  <2>1. Len(sent') = n + 1 /\ \A i \in 1 .. n : sent'[i] = sent[i]
    BY <1>3, RememberTyped
  <2>2. Gone' = Gone
    BY <1>0, <1>1, <2>1 DEF Gone
  <2>3. ASSUME NEW i \in 1 .. k + 1
        PROVE  requests'[i] = sent'[i + Gone']
    <3>1. CASE i = k + 1
      <4>1. i + Gone' = n + 1
        BY <1>0, <2>2, <3>1
      <4> QED BY <1>1, <1>2, <2>1, <3>1, <4>1
    <3>2. CASE i # k + 1
      <4>1. i \in 1 .. k /\ i + Gone \in 1 .. n
        BY <1>0, <3>2
      <4> QED BY <1>1, <2>1, <2>2, <4>1 DEF DequeIsSent
    <3> QED BY <3>1, <3>2
  <2>4. ASSUME NEW i \in 1 .. n + 1, i <= Gone'
        PROVE  sent'[i] > Window
    <3>1. i \in 1 .. n /\ i <= Gone
      BY <1>0, <2>2, <2>4
    <3> QED BY <2>1, <3>1 DEF DequeIsSent
  <2>5. \A i \in 1 .. n + 1 : i < n + 1 => sent'[i] >= MinInterval
    BY <1>0, <1>b, <2>1
  <2>6. DequeIsSent'
    BY <1>0, <1>1, <2>1, <2>3, <2>4 DEF DequeIsSent
  <2> QED BY <1>0, <1>1, <1>2, <2>1, <2>5, <2>6 DEF SentIsSpaced
<1>4. CASE n > MaxRpm
  <2>1. Len(sent') = n /\ \A i \in 1 .. n - 1 : sent'[i] = sent[i + 1]
    BY <1>4, RememberTyped
  <2>2. Gone' = Gone - 1 /\ Gone' \in Nat
    BY <1>0, <1>1, <1>4, <2>1 DEF Gone
  <2>3. ASSUME NEW i \in 1 .. k + 1
        PROVE  requests'[i] = sent'[i + Gone']
    <3>1. CASE i = k + 1
      <4>1. i + Gone' = n
        BY <1>0, <2>2, <3>1
      <4> QED BY <1>1, <1>2, <2>1, <3>1, <4>1
    <3>2. CASE i # k + 1
      <4>1. i \in 1 .. k /\ i + Gone' \in 1 .. n - 1 /\ (i + Gone') + 1 = i + Gone
        BY <1>0, <2>2, <3>2
      <4> QED BY <1>1, <2>1, <4>1 DEF DequeIsSent
    <3> QED BY <3>1, <3>2
  <2>4. ASSUME NEW i \in 1 .. n, i <= Gone'
        PROVE  sent'[i] > Window
    <3>1. i \in 1 .. n - 1 /\ i + 1 \in 1 .. n /\ i + 1 <= Gone
      BY <1>0, <2>2, <2>4
    <3> QED BY <2>1, <3>1 DEF DequeIsSent
  <2>5. \A i \in 1 .. n : i < n => sent'[i] >= MinInterval
    <3>1. \A i \in 1 .. n : i < n => i \in 1 .. n - 1 /\ i + 1 \in 1 .. n
      BY <1>0
    <3> QED BY <1>b, <2>1, <3>1
  <2>6. DequeIsSent'
    BY <1>0, <1>1, <1>4, <2>1, <2>3, <2>4 DEF DequeIsSent
  <2> QED BY <1>0, <1>1, <1>2, <2>1, <2>5, <2>6 DEF SentIsSpaced
<1> QED BY <1>0, <1>3, <1>4

\* A step of the runner's call that leaves the limiter alone: what it has
\* checked, if anything, is what its new place needs.
LEMMA RunnerMoves ==
  ASSUME ThreadsTyped, RunnerHasChecked, UNCHANGED <<requests, last>>,
         NEW t \in Threads, NEW place \in PcType, pc' = [pc EXCEPT ![t] = place],
         t = Runner \/ place = "idle",
         place = "pop" => requests # <<>> /\ Expired(Head(requests)),
         place \in {"rpm", "tpm", "send"} => last >= MinInterval,
         place \in {"tpm", "send"} => Len(requests) < MaxRpm
  PROVE  RunnerHasChecked'
<1>1. Runner \in Threads /\ pc \in [Threads -> PcType]
  BY CallsAssumption DEF ThreadsTyped
<1>2. \A u \in Threads : pc'[u] = IF u = t THEN place ELSE pc[u]
  BY <1>1
<1>3. \A u \in Threads \ {Runner} : pc'[u] = "idle"
  BY <1>2 DEF RunnerHasChecked
<1>4. CASE t = Runner
  BY <1>1, <1>2, <1>3, <1>4 DEF RunnerHasChecked, Expired
<1>5. CASE t # Runner
  BY <1>1, <1>2, <1>3, <1>5 DEF RunnerHasChecked, Expired
<1> QED BY <1>4, <1>5

\* The checks of the limiter, with nobody else about.
LEMMA AcquireAlone ==
  ASSUME ThreadsTyped, LimiterTyped, NoneExpired, DequeIsSent, SentIsSpaced,
         RunnerHasChecked, process = "benchmark", Acquires(Runner)
  PROVE  DequeIsSent' /\ SentIsSpaced' /\ RunnerHasChecked'
<1> DEFINE t == Runner
<1>0. t \in Threads /\ pc \in [Threads -> PcType]
  BY CallsAssumption DEF ThreadsTyped
<1>1. ASSUME UNCHANGED <<requests, sent, last>>
      PROVE  DequeIsSent' /\ SentIsSpaced'
  BY <1>1 DEF DequeIsSent, SentIsSpaced, Gone
<1>2. ASSUME Raise(t, "error", FALSE), UNCHANGED <<requests, last>>
      PROVE  RunnerHasChecked'
  <2>1. PICK place \in {"requests", "back"} : pc' = [pc EXCEPT ![t] = place]
    BY <1>0, <1>2, RaiseTyped
  <2> QED BY <1>0, <1>2, <2>1, RunnerMoves DEF PcType
<1>3. CASE CheckRequests(t)
  <2>1. UNCHANGED <<requests, sent, last>>
    BY <1>3 DEF CheckRequests, limiter
  <2>2. CASE requests # <<>> /\ Expired(Head(requests))
    <3>1. pc' = [pc EXCEPT ![t] = "pop"]
      BY <1>3, <2>2 DEF CheckRequests, Goto
    <3> QED BY <1>0, <1>1, <2>1, <2>2, <3>1, RunnerMoves DEF PcType
  <2>3. CASE ~(requests # <<>> /\ Expired(Head(requests)))
    <3>1. pc' = [pc EXCEPT ![t] = "tokens"]
      BY <1>3, <2>3 DEF CheckRequests, Goto
    <3> QED BY <1>0, <1>1, <2>1, <3>1, RunnerMoves DEF PcType
  <2> QED BY <2>2, <2>3
<1>4. CASE PopRequest(t)
  <2>1. requests # <<>> /\ Expired(Head(requests))
    BY <1>4 DEF PopRequest, RunnerHasChecked
  <2>2. /\ requests' = Tail(requests) /\ UNCHANGED <<sent, last>>
        /\ pc' = [pc EXCEPT ![t] = "requests"]
    BY <1>4, <2>1 DEF PopRequest, Goto
  <2>3. DequeIsSent' /\ Len(requests') < Len(requests)
    BY <2>1, <2>2, PopRemembers
  <2>4. SentIsSpaced'
    BY <2>2 DEF SentIsSpaced
  <2>5. Len(requests') <= MaxRpm
    <3>1. requests' \in Seq(Ages)
      BY <2>1, <2>2, TailIsIn DEF LimiterTyped
    <3>2. Len(requests') \in Nat /\ Len(requests) \in Nat
      BY <3>1, LimiterNumbers
    <3> QED BY <2>3, <3>2, Numbers DEF RunnerHasChecked
  <2> QED BY <1>0, <2>2, <2>3, <2>4, <2>5 DEF RunnerHasChecked
<1>5. CASE CheckTokens(t)
  <2>1. \E place \in {"tpop", "spacing"} : pc' = [pc EXCEPT ![t] = place]
    BY <1>5 DEF CheckTokens, Goto
  <2>2. UNCHANGED <<requests, sent, last>>
    BY <1>5 DEF CheckTokens, limiter
  <2> QED BY <1>0, <1>1, <2>1, <2>2, RunnerMoves DEF PcType
<1>6. CASE PopToken(t)
  <2>1. UNCHANGED <<requests, sent, last>>
    BY <1>6 DEF PopToken
  <2>2. CASE tokens = <<>>
    BY <1>1, <1>2, <1>6, <2>1, <2>2 DEF PopToken
  <2>3. CASE tokens # <<>>
    <3>1. pc' = [pc EXCEPT ![t] = "tokens"]
      BY <1>6, <2>3 DEF PopToken, Goto
    <3> QED BY <1>0, <1>1, <2>1, <3>1, RunnerMoves DEF PcType
  <2> QED BY <2>2, <2>3
<1>7. CASE CheckSpacing(t)
  <2>1. UNCHANGED <<requests, sent, last>>
    BY <1>7 DEF CheckSpacing, limiter
  <2>2. CASE last < MinInterval
    <3>1. pc' = [pc EXCEPT ![t] = "sleep"]
      BY <1>7, <2>2 DEF CheckSpacing, Sleep
    <3> QED BY <1>0, <1>1, <2>1, <3>1, RunnerMoves DEF PcType
  <2>3. CASE ~(last < MinInterval)
    <3>1. pc' = [pc EXCEPT ![t] = "rpm"]
      BY <1>7, <2>3 DEF CheckSpacing, Goto
    <3>2. last >= MinInterval
      BY <2>3, LimiterNumbers, Numbers
    <3> QED BY <1>0, <1>1, <2>1, <3>1, <3>2, RunnerMoves DEF PcType
  <2> QED BY <2>2, <2>3
<1>8. CASE CheckRpm(t)
  <2>1. UNCHANGED <<requests, sent, last>> /\ last >= MinInterval
    BY <1>8 DEF CheckRpm, limiter, RunnerHasChecked
  <2>2. CASE pc' = [pc EXCEPT ![t] = "sleep"]
    BY <1>0, <1>1, <2>1, <2>2, RunnerMoves DEF PcType
  <2>3. CASE pc' = [pc EXCEPT ![t] = "tpm"] /\ ~Full
    <3>1. Len(requests) < MaxRpm
      BY <2>3, LimiterNumbers, Numbers DEF Full
    <3> QED BY <1>0, <1>1, <2>1, <2>3, <3>1, RunnerMoves DEF PcType
  <2>4. ~(Full /\ Expired(Head(requests)))
    <3>1. requests = <<>> \/ ~Expired(Head(requests))
      BY <1>0, <1>8 DEF CheckRpm, NoneExpired, Checks
    <3>2. requests = <<>> => ~Full
      BY Numbers DEF Full
    <3> QED BY <3>1, <3>2
  <2> QED BY <1>8, <2>2, <2>3, <2>4 DEF CheckRpm, Goto, Sleep
<1>9. CASE CheckTpm(t)
  <2>1. /\ UNCHANGED <<requests, sent, last>> /\ last >= MinInterval
        /\ Len(requests) < MaxRpm
    BY <1>9 DEF CheckTpm, limiter, RunnerHasChecked
  <2>2. CASE Raise(t, "error", FALSE)
    BY <1>1, <1>2, <2>1, <2>2
  <2>3. CASE \E place \in {"sleep", "send"} : pc' = [pc EXCEPT ![t] = place]
    BY <1>0, <1>1, <2>1, <2>3, RunnerMoves DEF PcType
  <2> QED BY <1>9, <2>2, <2>3 DEF CheckTpm, Goto, Sleep
<1>10. CASE Send(t)
  <2>1. /\ requests' = Append(requests, 0) /\ sent' = Remember /\ last' = 0
        /\ pc' = [pc EXCEPT ![t] = "await"]
    BY <1>10 DEF Send, Goto
  <2>2. Len(requests) < MaxRpm /\ last >= MinInterval
    BY <1>10 DEF Send, RunnerHasChecked
  <2>3. DequeIsSent' /\ SentIsSpaced' /\ Len(requests') <= MaxRpm
    BY <2>1, <2>2, SendRemembers
  <2> QED BY <1>0, <2>1, <2>3 DEF RunnerHasChecked
<1> QED BY <1>3, <1>4, <1>5, <1>6, <1>7, <1>8, <1>9, <1>10 DEF Acquires

\* A process with one thread keeps what it knows of its limiter.
LEMMA AloneNext ==
  ASSUME Inv, AloneIsLimited, [Next]_vars
  PROVE  AloneIsLimited'
<1>0. /\ ThreadsTyped /\ LimiterTyped /\ NoneExpired /\ Runner \in Threads
      /\ pc \in [Threads -> PcType]
  BY CallsAssumption DEF Inv, ThreadsTyped
<1>1. process' = process
  BY DEF Next, Tick, Runs, NextTrajectory, Finish, Fail, Write, InvalidAttempt,
         EndTrajectory, Restart, StartCall, Return, Calls, Wake, Acquires, CheckRequests,
         PopRequest, CheckTokens, PopToken, CheckSpacing, CheckRpm, CheckTpm, Send,
         Answered, Transient, Refused, vars
<1> SUFFICES ASSUME process = "benchmark", DequeIsSent, SentIsSpaced, RunnerHasChecked
             PROVE  DequeIsSent' /\ SentIsSpaced' /\ RunnerHasChecked'
  BY <1>1 DEF AloneIsLimited
<1>2. ASSUME UNCHANGED <<requests, sent, last>>
      PROVE  DequeIsSent' /\ SentIsSpaced'
  BY <1>2 DEF DequeIsSent, SentIsSpaced, Gone
<1>3. CASE Tick
  <2>1. DequeIsSent' /\ SentIsSpaced' /\ Len(requests') = Len(requests)
    BY <1>0, <1>3, TickRemembers
  <2>2. pc' = pc /\ pc[Runner] \notin Checks
    BY <1>0, <1>3 DEF Tick
  <2> QED BY <2>1, <2>2 DEF RunnerHasChecked, Checks
<1>4. CASE Runs
  <2>1. UNCHANGED <<requests, sent, last>>
    BY <1>4 DEF Runs, NextTrajectory, Finish, Fail, Write, InvalidAttempt, EndTrajectory,
                limiter
  <2>2. CASE pc' = pc
    BY <1>2, <2>1, <2>2 DEF RunnerHasChecked, Expired
  <2>3. CASE pc' = [pc EXCEPT ![Runner] = "idle"]
    BY <1>0, <1>2, <2>1, <2>3, RunnerMoves DEF PcType
  <2> QED BY <1>0, <1>2, <1>4, <2>1, <2>2, <2>3, RunsTyped
<1>5. CASE Restart
  <2>1. /\ requests' = <<>> /\ sent' = <<>>
        /\ \A t \in Threads : pc'[t] = "idle"
    BY <1>5 DEF Restart, FreshProcess
  <2>2. Len(requests') = 0 /\ Len(sent') = 0
    BY <2>1
  <2> QED BY <1>0, <2>1, <2>2, Numbers DEF DequeIsSent, SentIsSpaced, RunnerHasChecked
<1>6. ASSUME NEW t \in Threads, StartCall(t) \/ Return(t) \/ Calls(t)
      PROVE  DequeIsSent' /\ SentIsSpaced' /\ RunnerHasChecked'
  <2>1. t = Runner
    <3>1. CASE StartCall(t)
      BY <3>1 DEF StartCall, Callers
    <3>2. CASE Return(t) \/ Calls(t)
      <4>1. pc[t] # "idle"
        BY <3>2 DEF Return, Calls, Wake, Acquires, CheckRequests, PopRequest, CheckTokens,
                    PopToken, CheckSpacing, CheckRpm, CheckTpm, Send, Answered, Transient,
                    Refused
      <4> QED BY <4>1 DEF RunnerHasChecked
    <3> QED BY <1>6, <3>1, <3>2
  <2>2. CASE Acquires(t)
    BY <1>0, <2>1, <2>2, AcquireAlone
  <2>3. CASE StartCall(t) \/ Return(t) \/ Wake(t)
    <3>1. /\ UNCHANGED <<requests, sent, last>>
          /\ \E place \in {"idle", "requests"} : pc' = [pc EXCEPT ![t] = place]
      BY <2>3 DEF StartCall, Return, Wake, Goto, limiter
    <3> QED BY <1>0, <1>2, <2>1, <3>1, RunnerMoves DEF PcType
  <2>4. CASE Answered(t) \/ Transient(t) \/ Refused(t)
    <3>1. UNCHANGED <<requests, sent, last>>
      BY <2>4 DEF Answered, Transient, Refused, limiter
    <3>2. \E place \in {"requests", "back", "sleep"} : pc' = [pc EXCEPT ![t] = place]
      <4>1. ASSUME NEW status \in {"InfrastructureError", "error"}, NEW provider \in BOOLEAN,
                   Raise(t, status, provider)
            PROVE  \E place \in {"requests", "back"} : pc' = [pc EXCEPT ![t] = place]
        BY <1>0, <4>1, RaiseTyped
      <4> QED BY <2>4, <4>1 DEF Answered, Transient, Refused, Over, Goto, Sleep
    <3> QED BY <1>0, <1>2, <2>1, <3>1, <3>2, RunnerMoves DEF PcType
  <2> QED BY <1>6, <2>2, <2>3, <2>4 DEF Calls
<1>7. CASE UNCHANGED vars
  <2>1. UNCHANGED <<requests, sent, last, pc>>
    BY <1>7 DEF vars, limiter
  <2> QED BY <1>2, <2>1 DEF RunnerHasChecked, Expired
<1> QED BY <1>3, <1>4, <1>5, <1>6, <1>7 DEF Next

-----------------------------------------------------------------------------
(* Theorems *)

\* Every variable keeps its type, whatever threads, limits and retries there
\* are: the deque of requests stays shorter than max_rpm and the number of
\* threads together (acquire).  That bounds the deque and not the requests of
\* a window: a thread that has seen an expired head may take off another.
THEOREM TypeCorrect == Spec => []TypeOK
<1>1. Inv => TypeOK
  <2>1. ASSUME Inv
        PROVE  Len(requests) < MaxRpm + Cardinality(Threads)
    <3>1. Cardinality(Passing) \in Nat /\ Cardinality(Threads) \in Nat
      BY PassingIsFinite DEF Passing
    <3>2. Len(requests) \in Nat /\ RequestsAreFew
      BY <2>1 DEF Inv, LimiterTyped
    <3> QED BY <3>1, <3>2, Numbers DEF RequestsAreFew
  <2> QED BY <2>1 DEF Inv, TypeOK, ThreadsTyped, LimiterTyped, BenchTyped,
                      PcType, CallType, ResultType, TokenType
<1> QED BY <1>1, InvHolds, PTL

\* For any schedule: when the runner is through, no trajectory was passed over
\* without a readable record or the finding of this process that its attempts
\* were invalid, whatever process died while it wrote (main).
THEOREM TrajectoriesAreAccounted == Spec => []EveryTrajectoryIsAccounted
<1>1. Inv => EveryTrajectoryIsAccounted
  <2>1. SUFFICES ASSUME Inv, process = "benchmark", phase = "ended",
                        NEW i \in DOMAIN Schedule
                 PROVE  files[i] \in {"successful", "failed"} \/ i \in invalid
    BY DEF EveryTrajectoryIsAccounted
  <2>2. item = Len(Schedule) + 1 /\ i < item
    BY <2>1, Numbers DEF Inv, PassedAreAccounted
  <2> QED BY <2>1, <2>2 DEF Inv, PassedAreAccounted, Recorded
<1> QED BY <1>1, InvHolds, PTL

\* For any limits, retries and schedule: a process with one thread never has more
\* than max_rpm requests in a window, nor two closer than the minimal interval
\* (acquire).
THEOREM AloneKeepsLimits == Spec => []LimitsHoldAlone
<1>1. Init => AloneIsLimited
  <2>1. ASSUME Init
        PROVE  AloneIsLimited
    <3>1. /\ requests = <<>> /\ sent = <<>> /\ Runner \in Threads
          /\ \A t \in Threads : pc[t] = "idle"
      BY <2>1, CallsAssumption DEF Init
    <3>2. Len(requests) = 0 /\ Len(sent) = 0
      BY <3>1
    <3> QED BY <3>1, <3>2, Numbers
            DEF AloneIsLimited, DequeIsSent, SentIsSpaced, RunnerHasChecked
  <2> QED BY <2>1
<1>2. Inv /\ AloneIsLimited /\ [Next]_vars => AloneIsLimited'
  BY AloneNext
<1>3. Inv /\ AloneIsLimited => LimitsHoldAlone
  <2> SUFFICES ASSUME Inv, DequeIsSent, SentIsSpaced, RunnerHasChecked
               PROVE  /\ Len(sent) = MaxRpm + 1 => sent[1] > Window
                      /\ \A i \in DOMAIN sent : i < Len(sent) => sent[i] >= MinInterval
    BY DEF AloneIsLimited, LimitsHoldAlone
  <2>1. /\ Len(sent) \in Nat /\ Len(requests) \in Nat /\ DOMAIN sent = 1 .. Len(sent)
        /\ Len(requests) <= MaxRpm /\ MaxRpm \in Nat
    BY LimiterNumbers, Numbers DEF Inv, RunnerHasChecked
  <2>2. Len(sent) = MaxRpm + 1 => 1 \in 1 .. Len(sent) /\ 1 <= Gone
    BY <2>1 DEF Gone
  <2> QED BY <2>1, <2>2 DEF DequeIsSent, SentIsSpaced
<1> QED BY <1>1, <1>2, <1>3, InvHolds, PTL DEF Spec
=============================================================================
