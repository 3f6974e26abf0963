---------------------------- MODULE ServerProofs ----------------------------
(* Proofs about SocketServer and about the CircuitBreaker of its request    *)
(* handler, for every number of connections, workers, requests and callers  *)
(* and every capacity and limit.                                            *)
EXTENDS CircuitBreaker, SocketServer, FiniteSetTheorems, SequenceTheorems, TLAPS

-----------------------------------------------------------------------------
(* The circuit breaker.                                                    *)

\* In a half-open period requests counts every probe but the first.
ProbesCounted == state = "HALF_OPEN" => probes = requests + 1

\* The inductive invariant, without the metrics.
IInv == TypeOK /\ QuotaUsedMeansInFlight /\ ClosedIsBelowLimit /\ ProbesCounted

\* Counting one more call keeps the metrics well-typed.
LEMMA MetricsType ==
    ASSUME NEW t \in Metrics
    PROVE  /\ t.requests < MaxCalls => [t EXCEPT !.requests = @ + 1] \in Metrics
           /\ t.requests < MaxCalls =>
                 [t EXCEPT !.requests = @ + 1, !.rejected = @ + 1] \in Metrics
           /\ [t EXCEPT !.successes = @ + 1] \in Metrics
           /\ [t EXCEPT !.failures = @ + 1] \in Metrics
<1>1. t.requests < MaxCalls => t.requests + 1 \in 0..MaxCalls
  BY BreakerAssumption DEF Metrics
<1>2. t.failures + 1 \in Nat /\ t.successes + 1 \in Nat /\ t.rejected + 1 \in Nat
  BY DEF Metrics
<1> QED BY <1>1, <1>2 DEF Metrics

\* Every step preserves the invariant.
LEMMA IInvStep == IInv /\ [Next]_vars => IInv'
<1> SUFFICES ASSUME IInv, [Next]_vars PROVE IInv'
  OBVIOUS
<1> USE BreakerAssumption
<1>0. total \in Metrics
  BY DEF IInv, TypeOK
<1>1. ASSUME NEW c \in Callers, CanExecuteClosed(c) PROVE IInv'
  <2>1. total' \in Metrics
    BY <1>0, <1>1, MetricsType DEF CanExecuteClosed, Asks, Admit
  <2> QED BY <1>1, <2>1 DEF IInv, TypeOK, QuotaUsedMeansInFlight, ClosedIsBelowLimit,
               ProbesCounted, CanExecuteClosed, Asks, Admit
<1>2. ASSUME NEW c \in Callers, CanExecuteOpen(c) PROVE IInv'
  <2>1. total' \in Metrics
    BY <1>0, <1>2, MetricsType DEF CanExecuteOpen, Asks, Admit, Reject
  <2>2. CASE cooled
    BY <1>2, <2>1, <2>2 DEF IInv, TypeOK, QuotaUsedMeansInFlight, ClosedIsBelowLimit,
       ProbesCounted, CanExecuteOpen, Asks, Admit
  <2>3. CASE ~cooled
    BY <1>2, <2>1, <2>3 DEF IInv, TypeOK, QuotaUsedMeansInFlight, ClosedIsBelowLimit,
       ProbesCounted, CanExecuteOpen, Asks, Reject
  <2> QED BY <2>2, <2>3
<1>3. ASSUME NEW c \in Callers, CanExecuteHalfOpen(c) PROVE IInv'
  <2>1. total' \in Metrics
    BY <1>0, <1>3, MetricsType DEF CanExecuteHalfOpen, Asks, Admit, Reject
  <2>2. CASE requests < MaxRequests
    BY <1>3, <2>1, <2>2 DEF IInv, TypeOK, QuotaUsedMeansInFlight, ClosedIsBelowLimit,
       ProbesCounted, CanExecuteHalfOpen, Asks, Admit
  <2>3. CASE requests >= MaxRequests
    BY <1>3, <2>1, <2>3 DEF IInv, TypeOK, QuotaUsedMeansInFlight, ClosedIsBelowLimit,
       ProbesCounted, CanExecuteHalfOpen, Asks, Reject
  <2> QED BY <2>2, <2>3 DEF IInv, TypeOK
<1>4. ASSUME NEW c \in Callers, RecordSuccess(c) PROVE IInv'
  <2>1. total' \in Metrics
    BY <1>0, <1>4, MetricsType DEF RecordSuccess
  <2> QED BY <1>4, <2>1 DEF IInv, TypeOK, QuotaUsedMeansInFlight, ClosedIsBelowLimit,
               ProbesCounted, RecordSuccess
<1>5. ASSUME NEW c \in Callers, RecordFailure(c) PROVE IInv'
  <2>1. total' \in Metrics
    BY <1>0, <1>5, MetricsType DEF RecordFailure
  <2>2. TypeOK'
    <3>1. requests' \in 0..MaxRequests /\ state' \in {"CLOSED", "OPEN", "HALF_OPEN"}
      BY <1>5 DEF IInv, TypeOK, RecordFailure
    <3>2. failures' \in Nat /\ inFlight' \in SUBSET Callers /\ probes' \in Nat
      BY <1>5 DEF IInv, TypeOK, RecordFailure
    <3>3. cooled' \in BOOLEAN
      BY <1>5 DEF RecordFailure
    <3> QED BY <2>1, <3>1, <3>2, <3>3 DEF TypeOK
  <2>3. state' # "HALF_OPEN"
    BY <1>5 DEF IInv, TypeOK, RecordFailure
  <2>4. ClosedIsBelowLimit'
    BY <1>5 DEF IInv, TypeOK, ClosedIsBelowLimit, RecordFailure
  <2> QED BY <2>2, <2>3, <2>4 DEF IInv, QuotaUsedMeansInFlight, ProbesCounted
<1>6. CASE Reset
  BY <1>6 DEF IInv, TypeOK, QuotaUsedMeansInFlight, ClosedIsBelowLimit, ProbesCounted, Reset
<1>7. CASE CoolDown
  BY <1>7 DEF IInv, TypeOK, QuotaUsedMeansInFlight, ClosedIsBelowLimit, ProbesCounted, CoolDown
<1>8. CASE UNCHANGED vars
  BY <1>8 DEF IInv, TypeOK, QuotaUsedMeansInFlight, ClosedIsBelowLimit, ProbesCounted, vars
<1> QED BY <1>1, <1>2, <1>3, <1>4, <1>5, <1>6, <1>7, <1>8 DEF Next

\* A new breaker satisfies it.
LEMMA IInvInit == Init => IInv
<1> SUFFICES ASSUME Init PROVE IInv
  OBVIOUS
<1>1. total \in Metrics
  BY BreakerAssumption DEF Init, Metrics
<1> QED BY <1>1, BreakerAssumption
        DEF Init, IInv, TypeOK, QuotaUsedMeansInFlight, ClosedIsBelowLimit, ProbesCounted

\* The invariant holds in every reachable state.
LEMMA Inductive == Spec => []IInv
  BY IInvInit, IInvStep, PTL DEF Spec

\* Type correctness; in particular requests never exceeds maxRequests.
THEOREM TypeCorrect == Spec => []TypeOK
<1>1. IInv => TypeOK
  BY DEF IInv
<1> QED BY <1>1, Inductive, PTL

\* The half-open period cannot wedge.
THEOREM NeverWedged == Spec => []QuotaUsedMeansInFlight
<1>1. IInv => QuotaUsedMeansInFlight
  BY DEF IInv
<1> QED BY <1>1, Inductive, PTL

\* A closed circuit is below its failure limit.
THEOREM ClosedBelowLimit == Spec => []ClosedIsBelowLimit
<1>1. IInv => ClosedIsBelowLimit
  BY DEF IInv
<1> QED BY <1>1, Inductive, PTL

\* A half-open period admits at most maxRequests + 1 callers.
THEOREM HalfOpenBound == Spec => []HalfOpenAdmitsAtMost
<1>1. IInv => HalfOpenAdmitsAtMost
  BY BreakerAssumption DEF IInv, TypeOK, ProbesCounted, HalfOpenAdmitsAtMost
<1> QED BY <1>1, Inductive, PTL

-----------------------------------------------------------------------------
(* The metrics.                                                            *)

\* The callers in flight are finitely many, and one joins or leaves at a time.
LEMMA InFlightCount ==
    ASSUME TypeOK, NEW c \in Callers
    PROVE  /\ Cardinality(inFlight) \in Nat
           /\ c \notin inFlight =>
                 Cardinality(inFlight \cup {c}) = Cardinality(inFlight) + 1
           /\ c \in inFlight =>
                 Cardinality(inFlight \ {c}) = Cardinality(inFlight) - 1
<1>1. IsFiniteSet(inFlight)
  BY BreakerAssumption, FS_Subset DEF TypeOK
<1> QED BY <1>1, FS_CardinalityType, FS_AddElement, FS_RemoveElement

\* What counting does to the metrics of a call.
LEMMA MetricsUpdate ==
    ASSUME NEW t \in Metrics
    PROVE  /\ t.requests \in Nat /\ t.failures \in Nat
           /\ t.successes \in Nat /\ t.rejected \in Nat
  BY BreakerAssumption DEF Metrics

\* Every step keeps the books balanced.
LEMMA MetricsStep == TypeOK /\ MetricsAddUp /\ [Next]_vars => MetricsAddUp'
<1> SUFFICES ASSUME TypeOK, MetricsAddUp, [Next]_vars PROVE MetricsAddUp'
  OBVIOUS
<1> DEFINE n == Cardinality(inFlight)
<1>0. /\ total.requests \in Nat /\ total.failures \in Nat
      /\ total.successes \in Nat /\ total.rejected \in Nat
      /\ total \in Metrics
  BY MetricsUpdate DEF TypeOK
<1>a. ASSUME NEW c \in Callers, c \notin inFlight, Admit(c) PROVE MetricsAddUp'
  <2>1. Cardinality(inFlight') = n + 1 /\ n \in Nat
    BY <1>a, InFlightCount DEF Admit
  <2>2. /\ total'.requests = total.requests + 1 /\ total'.failures = total.failures
        /\ total'.successes = total.successes /\ total'.rejected = total.rejected
    BY <1>0, <1>a DEF Admit, Metrics
  <2> QED BY <1>0, <2>1, <2>2 DEF MetricsAddUp
<1>b. ASSUME NEW c \in Callers, Reject PROVE MetricsAddUp'
  <2>1. inFlight' = inFlight /\ n \in Nat
    BY <1>b, InFlightCount DEF Reject
  <2>2. /\ total'.requests = total.requests + 1 /\ total'.failures = total.failures
        /\ total'.successes = total.successes /\ total'.rejected = total.rejected + 1
    BY <1>0, <1>b DEF Reject, Metrics
  <2> QED BY <1>0, <2>1, <2>2 DEF MetricsAddUp
<1>1. ASSUME NEW c \in Callers, CanExecuteClosed(c) PROVE MetricsAddUp'
  BY <1>1, <1>a DEF CanExecuteClosed, Asks
<1>2. ASSUME NEW c \in Callers, CanExecuteOpen(c) PROVE MetricsAddUp'
  BY <1>2, <1>a, <1>b DEF CanExecuteOpen, Asks
<1>3. ASSUME NEW c \in Callers, CanExecuteHalfOpen(c) PROVE MetricsAddUp'
  BY <1>3, <1>a, <1>b DEF CanExecuteHalfOpen, Asks
<1>4. ASSUME NEW c \in Callers, RecordSuccess(c) PROVE MetricsAddUp'
  <2>1. Cardinality(inFlight') = n - 1 /\ n \in Nat
    BY <1>4, InFlightCount DEF RecordSuccess
  <2>2. /\ total'.requests = total.requests /\ total'.failures = total.failures
        /\ total'.successes = total.successes + 1 /\ total'.rejected = total.rejected
    BY <1>0, <1>4 DEF RecordSuccess, Metrics
  <2>3. total.requests = total.rejected + total.successes + total.failures + n
    BY DEF MetricsAddUp
  <2>4. total.requests = total.rejected + (total.successes + 1) + total.failures + (n - 1)
    BY <1>0, <2>1, <2>3
  <2> QED BY <2>1, <2>2, <2>4 DEF MetricsAddUp
<1>5. ASSUME NEW c \in Callers, RecordFailure(c) PROVE MetricsAddUp'
  <2>1. Cardinality(inFlight') = n - 1 /\ n \in Nat
    BY <1>5, InFlightCount DEF RecordFailure
  <2>2. /\ total'.requests = total.requests /\ total'.failures = total.failures + 1
        /\ total'.successes = total.successes /\ total'.rejected = total.rejected
    BY <1>0, <1>5 DEF RecordFailure, Metrics
  <2> QED BY <1>0, <2>1, <2>2 DEF MetricsAddUp
<1>6. CASE Reset \/ CoolDown \/ UNCHANGED vars
  BY <1>6 DEF Reset, CoolDown, vars, MetricsAddUp
<1> QED BY <1>1, <1>2, <1>3, <1>4, <1>5, <1>6 DEF Next

\* The metrics of GetStats add up in every reachable state.
THEOREM MetricsBalance == Spec => []MetricsAddUp
<1>1. Init => MetricsAddUp
  BY FS_EmptySet DEF Init, MetricsAddUp
<1> QED BY <1>1, MetricsStep, TypeCorrect, PTL DEF Spec

-----------------------------------------------------------------------------
(* The server's request objects.                                           *)

\* The objects in each kind of place.
Inboxed == {o \in Objects : \E c \in Conns : \E i \in 1..Len(inbox[c]) : inbox[c][i] = o}
Queued == {o \in Objects : \E i \in 1..Len(queue) : queue[i] = o}
Handed == {o \in Objects : \E c \in Conns : hand[c] = o}
Worked == {o \in Objects : \E w \in Workers : work[w] = o}

\* No object is in two places of one kind.
Once ==
    /\ \A c, d \in Conns : \A i \in 1..Len(inbox[c]), j \in 1..Len(inbox[d]) :
          inbox[c][i] = inbox[d][j] => c = d /\ i = j
    /\ \A i, j \in 1..Len(queue) : queue[i] = queue[j] => i = j
    /\ \A c, d \in Conns : (hand[c] = hand[d] /\ hand[c] # Nothing) => c = d
    /\ \A w, v \in Workers : (work[w] = work[v] /\ work[w] # Nothing) => w = v

\* Every object is in a place of one kind.
Parts(a, b, c, d, e) ==
    /\ a \cup b \cup c \cup d \cup e = Objects
    /\ a \cap (b \cup c \cup d \cup e) = {}
    /\ b \cap (c \cup d \cup e) = {}
    /\ c \cap (d \cup e) = {}
    /\ d \cap e = {}

Placed == Parts(free, Inboxed, Queued, Handed, Worked)

\* A goroutine holds an object exactly while it has one to pass on or to handle.
HoldInv ==
    /\ \A c \in Conns : handler[c] = "forward" <=> hand[c] # Nothing
    /\ \A c \in Conns : link[c] = "unused" => handler[c] = "none"
    /\ \A w \in Workers : worker[w] = "handle" <=> work[w] # Nothing
    /\ listen = "no" => \A w \in Workers : worker[w] = "none"

ServerInv == ServerTypeOK /\ HoldInv /\ Once /\ Placed

-----------------------------------------------------------------------------
\* Moving objects from one part to another keeps the parts apart.
LEMMA MoveKeepsParts ==
    ASSUME NEW a, NEW b, NEW c, NEW d, NEW e, NEW S, Parts(a, b, c, d, e)
    PROVE  /\ S \subseteq a => Parts(a \ S, b \cup S, c, d, e)
           /\ S \subseteq b => Parts(a \cup S, b \ S, c, d, e)
           /\ S \subseteq b => Parts(a, b \ S, c, d \cup S, e)
           /\ S \subseteq d => Parts(a, b, c \cup S, d \ S, e)
           /\ S \subseteq d => Parts(a \cup S, b, c, d \ S, e)
           /\ S \subseteq c => Parts(a, b, c \ S, d, e \cup S)
           /\ S \subseteq e => Parts(a \cup S, b, c, d, e \ S)
<1> USE DEF Parts
<1>1. S \subseteq a => Parts(a \ S, b \cup S, c, d, e)
  OBVIOUS
<1>2. S \subseteq b => Parts(a \cup S, b \ S, c, d, e)
  OBVIOUS
<1>3. S \subseteq b => Parts(a, b \ S, c, d \cup S, e)
  OBVIOUS
<1>4. S \subseteq d => Parts(a, b, c \cup S, d \ S, e)
  OBVIOUS
<1>5. S \subseteq d => Parts(a \cup S, b, c, d \ S, e)
  OBVIOUS
<1>6. S \subseteq c => Parts(a, b, c \ S, d, e \cup S)
  OBVIOUS
<1>7. S \subseteq e => Parts(a \cup S, b, c, d, e \ S)
  OBVIOUS
<1> HIDE DEF Parts
<1> QED BY <1>1, <1>2, <1>3, <1>4, <1>5, <1>6, <1>7

\* What Append, Head and Tail do to a channel, position by position.
LEMMA ChannelFacts ==
    ASSUME NEW s \in Seq(Objects), NEW o \in Objects
    PROVE  /\ Len(s) \in Nat /\ \A i \in 1..Len(s) : s[i] \in Objects
           /\ Append(s, o) \in Seq(Objects) /\ Len(Append(s, o)) = Len(s) + 1
           /\ \A i \in 1..Len(s) : Append(s, o)[i] = s[i]
           /\ Append(s, o)[Len(s) + 1] = o
           /\ s # <<>> => /\ Len(s) >= 1 /\ Head(s) = s[1] /\ Tail(s) \in Seq(Objects)
                          /\ Len(Tail(s)) = Len(s) - 1
                          /\ \A i \in 1..(Len(s) - 1) : Tail(s)[i] = s[i + 1]
<1>1. Len(s) \in Nat /\ \A i \in 1..Len(s) : s[i] \in Objects
  OBVIOUS
<1>2. /\ Append(s, o) \in Seq(Objects) /\ Len(Append(s, o)) = Len(s) + 1
      /\ \A i \in 1..Len(s) : Append(s, o)[i] = s[i]
      /\ Append(s, o)[Len(s) + 1] = o
  BY AppendProperties
<1>3. ASSUME s # <<>>
      PROVE  /\ Len(s) >= 1 /\ Head(s) = s[1] /\ Tail(s) \in Seq(Objects)
             /\ Len(Tail(s)) = Len(s) - 1
             /\ \A i \in 1..(Len(s) - 1) : Tail(s)[i] = s[i + 1]
  BY <1>3, HeadTailProperties, EmptySeq
<1> QED BY <1>1, <1>2, <1>3

\* Type correctness.
LEMMA ServerType ==
    ASSUME ServerInv, [ServerNext]_serverVars PROVE ServerTypeOK'
<1> USE ServerAssumption
<1>0. ServerTypeOK /\ HoldInv
  BY DEF ServerInv
<1>1. ASSUME NEW c \in Conns, Attach(c) \/ Accept(c) \/ Break(c) PROVE ServerTypeOK'
  BY <1>0, <1>1 DEF Attach, Accept, Break, ListenGoes, ServerTypeOK
<1>2. ASSUME NEW c \in Conns, NEW o \in Objects, Read(c, o) PROVE ServerTypeOK'
  <2>1. Append(inbox[c], o) \in Seq(Objects) /\ Len(Append(inbox[c], o)) <= ConnCap
    BY <1>0, <1>2, ChannelFacts DEF Read, ServerTypeOK
  <2> QED BY <1>0, <1>2, <2>1 DEF Read, ServerTypeOK
<1>3. ASSUME NEW c \in Conns, Take(c) PROVE ServerTypeOK'
  <2>1. /\ Head(inbox[c]) \in Objects /\ Tail(inbox[c]) \in Seq(Objects)
        /\ Len(Tail(inbox[c])) <= ConnCap
    BY <1>0, <1>3 DEF Take, ServerTypeOK
  <2> QED BY <1>0, <1>3, <2>1 DEF Take, ServerTypeOK
<1>4. ASSUME NEW c \in Conns, Forward(c) \/ Refuse(c) PROVE ServerTypeOK'
  <2>1. hand[c] \in Objects
    BY <1>0, <1>4 DEF Forward, Refuse, HandsOn, HoldInv, ServerTypeOK
  <2>2. CASE Forward(c)
    <3>1. Append(queue, hand[c]) \in Seq(Objects) /\ Len(Append(queue, hand[c])) <= QueueCap
      BY <1>0, <2>1, <2>2, ChannelFacts DEF Forward, ServerTypeOK
    <3> QED BY <1>0, <2>2, <3>1 DEF Forward, HandsOn, ServerTypeOK
  <2>3. CASE Refuse(c)
    BY <1>0, <2>1, <2>3 DEF Refuse, HandsOn, ServerTypeOK
  <2> QED BY <1>4, <2>2, <2>3
<1>5. ASSUME NEW c \in Conns, ForwardPanics(c) PROVE ServerTypeOK'
  BY <1>0, <1>5 DEF ForwardPanics, ServerTypeOK
<1>6. ASSUME NEW c \in Conns, Leave(c) PROVE ServerTypeOK'
  <2>1. {inbox[c][i] : i \in DOMAIN inbox[c]} \subseteq Objects
    BY <1>0 DEF ServerTypeOK
  <2>2. <<>> \in Seq(Objects) /\ Len(<<>>) <= ConnCap
    OBVIOUS
  <2> QED BY <1>0, <1>6, <2>1, <2>2 DEF Leave, ServerTypeOK
<1>7. ASSUME NEW w \in Workers, WorkerLoop(w) \/ WorkerDone(w) PROVE ServerTypeOK'
  <2>1. CASE WorkerTakes(w)
    <3>1. Head(queue) \in Objects /\ Tail(queue) \in Seq(Objects) /\ Len(Tail(queue)) <= QueueCap
      BY <1>0, <2>1 DEF WorkerTakes, ServerTypeOK
    <3> QED BY <1>0, <2>1, <3>1 DEF WorkerTakes, ServerTypeOK
  <2>2. CASE WorkerDone(w)
    <3>1. work[w] \in Objects
      BY <1>0, <2>2 DEF WorkerDone, HoldInv, ServerTypeOK
    <3> QED BY <1>0, <2>2, <3>1 DEF WorkerDone, ServerTypeOK
  <2>3. CASE WorkerExits(w)
    BY <1>0, <2>3 DEF WorkerExits, ServerTypeOK
  <2> QED BY <1>7, <2>1, <2>2, <2>3 DEF WorkerLoop
<1>8. CASE ListenStep
  BY <1>0, <1>8 DEF ListenStep, ListenStarts, ListenOpens, ListenChecks, AcceptFails,
     ListenGoes, ServerTypeOK
<1>9. CASE StopCancels \/ StopStep
  BY <1>0, <1>9 DEF StopCancels, StopStep, StopCloses, StopReturns, StopGoes, ServerTypeOK
<1>10. CASE UNCHANGED serverVars
  BY <1>0, <1>10 DEF serverVars, ServerTypeOK
<1> QED BY <1>1, <1>2, <1>3, <1>4, <1>5, <1>6, <1>7, <1>8, <1>9, <1>10 DEF ServerNext, HandlerStep

\* Who holds an object is where it passes it on.
LEMMA HoldStep ==
    ASSUME ServerInv, [ServerNext]_serverVars PROVE HoldInv'
<1> USE ServerAssumption
<1>0. ServerTypeOK /\ HoldInv
  BY DEF ServerInv
<1>1. ASSUME NEW c \in Conns, Attach(c) \/ Accept(c) PROVE HoldInv'
  <2>1. /\ handler[c] = "none" /\ hand[c] = Nothing /\ hand' = hand
        /\ UNCHANGED <<worker, work>> /\ (listen' = "no" => listen = "no")
    BY <1>0, <1>1 DEF Attach, Accept, ListenGoes, HoldInv
  <2>2. /\ handler'[c] = "select" /\ link'[c] = "up"
        /\ \A d \in Conns : d # c => handler'[d] = handler[d] /\ link'[d] = link[d]
    BY <1>0, <1>1 DEF Attach, Accept, ServerTypeOK
  <2> QED BY <1>0, <2>1, <2>2 DEF HoldInv
<1>2. ASSUME NEW c \in Conns, Take(c) PROVE HoldInv'
  <2>1. Head(inbox[c]) \in Objects
    BY <1>0, <1>2 DEF Take, ServerTypeOK
  <2> QED BY <1>0, <1>2, <2>1 DEF Take, ServerTypeOK, HoldInv
<1>3. ASSUME NEW c \in Conns, HandsOn(c) PROVE HoldInv'
  BY <1>0, <1>3 DEF HandsOn, ServerTypeOK, HoldInv
<1>4. ASSUME NEW c \in Conns, Leave(c) PROVE HoldInv'
  BY <1>0, <1>4 DEF Leave, ServerTypeOK, HoldInv
<1>5. ASSUME NEW w \in Workers, WorkerLoop(w) \/ WorkerDone(w) PROVE HoldInv'
  <2>1. CASE WorkerTakes(w)
    <3>1. Head(queue) \in Objects
      BY <1>0, <2>1 DEF WorkerTakes, ServerTypeOK
    <3> QED BY <1>0, <2>1, <3>1 DEF WorkerTakes, ServerTypeOK, HoldInv
  <2>2. CASE WorkerDone(w) \/ WorkerExits(w)
    <3>1. /\ \A v \in Workers : v # w => worker'[v] = worker[v] /\ work'[v] = work[v]
          /\ worker'[w] \in {"select", "exited"} /\ work'[w] = Nothing
          /\ worker[w] # "none" /\ UNCHANGED <<link, handler, hand, listen>>
      <4>1. CASE WorkerDone(w)
        BY <1>0, <4>1 DEF WorkerDone, ServerTypeOK
      <4>2. CASE WorkerExits(w)
        BY <1>0, <4>2 DEF WorkerExits, ServerTypeOK, HoldInv
      <4> QED BY <2>2, <4>1, <4>2
    <3> QED BY <1>0, <3>1 DEF HoldInv
  <2> QED BY <1>5, <2>1, <2>2 DEF WorkerLoop
<1>6. CASE ListenStarts
  BY <1>0, <1>6 DEF ListenStarts, ListenGoes, ServerTypeOK, HoldInv
<1>7. CASE UNCHANGED <<link, handler, hand, worker, work>> /\ (listen' = "no" => listen = "no")
  BY <1>0, <1>7 DEF HoldInv
<1>8. ASSUME NEW c \in Conns, Break(c) PROVE HoldInv'
  BY <1>0, <1>8 DEF Break, ServerTypeOK, HoldInv
<1> QED
  BY <1>1, <1>2, <1>3, <1>4, <1>5, <1>6, <1>7, <1>8
  DEF ServerNext, HandlerStep, Read, Forward, Refuse, ForwardPanics, ListenStep, ListenOpens,
      ListenChecks, AcceptFails, ListenGoes, StopCancels, StopStep, StopCloses, StopReturns,
      StopGoes, serverVars

\* The objects of the two kinds of channels are the ones at their positions.
LEMMA PlaceFacts ==
    ASSUME ServerTypeOK
    PROVE  /\ \A c \in Conns : \A i \in 1..Len(inbox[c]) : inbox[c][i] \in Inboxed
           /\ \A i \in 1..Len(queue) : queue[i] \in Queued
           /\ \A c \in Conns : hand[c] # Nothing => hand[c] \in Handed
           /\ \A w \in Workers : work[w] # Nothing => work[w] \in Worked
<1>1. ASSUME NEW c \in Conns, NEW i \in 1..Len(inbox[c]) PROVE inbox[c][i] \in Inboxed
  <2>1. inbox[c][i] \in Objects
    BY DEF ServerTypeOK
  <2> QED BY <2>1 DEF Inboxed
<1>2. ASSUME NEW i \in 1..Len(queue) PROVE queue[i] \in Queued
  <2>1. queue[i] \in Objects
    BY DEF ServerTypeOK
  <2> QED BY <2>1 DEF Queued
<1>3. ASSUME NEW c \in Conns, hand[c] # Nothing PROVE hand[c] \in Handed
  BY <1>3 DEF ServerTypeOK, Handed
<1>4. ASSUME NEW w \in Workers, work[w] # Nothing PROVE work[w] \in Worked
  BY <1>4 DEF ServerTypeOK, Worked
<1> QED BY <1>1, <1>2, <1>3, <1>4

\* The reader takes an object from the pool.
LEMMA ReadPlaces ==
    ASSUME ServerInv, NEW c \in Conns, NEW o \in Objects, Read(c, o) PROVE Once' /\ Placed'
<1>0. ServerTypeOK /\ Once /\ Placed /\ o \in free /\ free' = free \ {o}
      /\ UNCHANGED <<hand, queue, work>>
  BY DEF ServerInv, Read
<1>1. inbox[c] \in Seq(Objects) /\ inbox \in [Conns -> Seq(Objects)]
  BY <1>0 DEF ServerTypeOK
<1>2. /\ \A d \in Conns : d # c => inbox'[d] = inbox[d]
      /\ inbox'[c] = Append(inbox[c], o)
  BY <1>1 DEF Read
<1>3. /\ Len(inbox[c]) \in Nat /\ Len(inbox'[c]) = Len(inbox[c]) + 1
      /\ \A i \in 1..Len(inbox[c]) : inbox'[c][i] = inbox[c][i]
      /\ inbox'[c][Len(inbox[c]) + 1] = o
  BY <1>1, <1>2, ChannelFacts
<1>4. \A d \in Conns : \A i \in 1..Len(inbox[d]) : inbox[d][i] # o
  BY <1>0, PlaceFacts DEF Placed, Parts
<1>5. \A d \in Conns : \A i \in 1..Len(inbox'[d]) :
          \/ d = c /\ i = Len(inbox[c]) + 1 /\ inbox'[d][i] = o
          \/ i \in 1..Len(inbox[d]) /\ inbox'[d][i] = inbox[d][i]
  BY <1>2, <1>3
<1>6. \A d, e \in Conns : \A i \in 1..Len(inbox'[d]), j \in 1..Len(inbox'[e]) :
          inbox'[d][i] = inbox'[e][j] => d = e /\ i = j
  BY <1>0, <1>4, <1>5 DEF Once
<1>7. Inboxed' = Inboxed \cup {o}
  <2>1. Inboxed' \subseteq Inboxed \cup {o}
    BY <1>5 DEF Inboxed
  <2>2. o \in Inboxed'
    <3>1. Len(inbox[c]) + 1 \in 1..Len(inbox'[c])
      BY <1>3
    <3> QED BY <1>3, <3>1 DEF Inboxed
  <2>3. Inboxed \subseteq Inboxed'
    <3> SUFFICES ASSUME NEW x \in Inboxed PROVE x \in Inboxed'
      OBVIOUS
    <3>1. PICK d \in Conns : \E i \in 1..Len(inbox[d]) : inbox[d][i] = x
      BY DEF Inboxed
    <3>2. PICK i \in 1..Len(inbox[d]) : inbox[d][i] = x
      BY <3>1
    <3>3. i \in 1..Len(inbox'[d]) /\ inbox'[d][i] = x
      BY <1>2, <1>3, <3>2
    <3> QED BY <3>3 DEF Inboxed
  <2> QED BY <2>1, <2>2, <2>3
<1>8. Queued' = Queued /\ Handed' = Handed /\ Worked' = Worked
  BY <1>0 DEF Queued, Handed, Worked
<1>9. Once'
  BY <1>0, <1>6 DEF Once
<1>10. Placed'
  BY <1>0, <1>7, <1>8, MoveKeepsParts DEF Placed
<1> QED BY <1>9, <1>10

\* The handler takes the oldest object of its inbox.
LEMMA TakePlaces ==
    ASSUME ServerInv, NEW c \in Conns, Take(c) PROVE Once' /\ Placed'
<1> USE ServerAssumption
<1> DEFINE o == Head(inbox[c])
<1>0. /\ ServerTypeOK /\ HoldInv /\ Once /\ Placed /\ UNCHANGED <<free, queue, work>>
      /\ inbox[c] \in Seq(Objects) /\ inbox \in [Conns -> Seq(Objects)] /\ inbox[c] # <<>>
      /\ hand \in [Conns -> Objects \cup {Nothing}] /\ hand[c] = Nothing
  BY DEF ServerInv, Take, ServerTypeOK, HoldInv
<1>1. /\ \A d \in Conns : d # c => inbox'[d] = inbox[d] /\ hand'[d] = hand[d]
      /\ inbox'[c] = Tail(inbox[c]) /\ hand'[c] = o
  BY <1>0 DEF Take
<1>2. /\ Len(inbox[c]) \in Nat /\ Len(inbox[c]) >= 1 /\ o = inbox[c][1]
      /\ Len(inbox'[c]) = Len(inbox[c]) - 1 /\ o \in Objects
      /\ \A i \in 1..(Len(inbox[c]) - 1) : inbox'[c][i] = inbox[c][i + 1]
  BY <1>0, <1>1, ChannelFacts
<1> HIDE DEF o
<1>3. o \in Inboxed /\ o \notin Handed
  BY <1>0, <1>2, PlaceFacts DEF Placed, Parts
<1>4. \A d \in Conns : \A i \in 1..Len(inbox'[d]) :
          \/ d # c /\ inbox'[d] = inbox[d]
          \/ d = c /\ i + 1 \in 1..Len(inbox[c]) /\ inbox'[d][i] = inbox[c][i + 1]
  <2> SUFFICES ASSUME NEW i \in 1..Len(inbox'[c])
               PROVE  i + 1 \in 1..Len(inbox[c]) /\ inbox'[c][i] = inbox[c][i + 1]
    BY <1>1
  <2> QED BY <1>2
<1>5. \A d, e \in Conns : \A i \in 1..Len(inbox'[d]), j \in 1..Len(inbox'[e]) :
          inbox'[d][i] = inbox'[e][j] => d = e /\ i = j
  <2> SUFFICES ASSUME NEW d \in Conns, NEW e \in Conns, NEW i \in 1..Len(inbox'[d]),
                      NEW j \in 1..Len(inbox'[e]), inbox'[d][i] = inbox'[e][j]
               PROVE  d = e /\ i = j
    OBVIOUS
  <2>1. CASE d # c /\ e # c
    BY <1>0, <1>4, <2>1 DEF Once
  <2>2. CASE d = c /\ e = c
    <3>1. /\ i + 1 \in 1..Len(inbox[c]) /\ inbox'[d][i] = inbox[c][i + 1]
          /\ j + 1 \in 1..Len(inbox[c]) /\ inbox'[e][j] = inbox[c][j + 1]
      BY <1>4, <2>2
    <3>2. inbox[c][i + 1] = inbox[c][j + 1]
      BY <3>1
    <3>3. \A k, l \in 1..Len(inbox[c]) : inbox[c][k] = inbox[c][l] => k = l
      BY <1>0 DEF Once
    <3>4. i + 1 = j + 1
      BY <3>1, <3>2, <3>3
    <3> QED BY <2>2, <3>4
  <2>3. CASE d = c /\ e # c
    <3>1. i + 1 \in 1..Len(inbox[c]) /\ inbox[c][i + 1] = inbox[e][j] /\ j \in 1..Len(inbox[e])
      BY <1>4, <2>3
    <3> QED BY <1>0, <2>3, <3>1 DEF Once
  <2>4. CASE d # c /\ e = c
    <3>1. j + 1 \in 1..Len(inbox[c]) /\ inbox[c][j + 1] = inbox[d][i] /\ i \in 1..Len(inbox[d])
      BY <1>4, <2>4
    <3> QED BY <1>0, <2>4, <3>1 DEF Once
  <2> QED BY <2>1, <2>2, <2>3, <2>4
<1>6. Inboxed' = Inboxed \ {o}
  <2>1. Inboxed' \subseteq Inboxed \ {o}
    <3> SUFFICES ASSUME NEW x \in Inboxed' PROVE x \in Inboxed /\ x # o
      OBVIOUS
    <3>1. x \in Objects /\ \E d \in Conns : \E i \in 1..Len(inbox'[d]) : inbox'[d][i] = x
      BY DEF Inboxed
    <3>2. PICK d \in Conns : \E i \in 1..Len(inbox'[d]) : inbox'[d][i] = x
      BY <3>1
    <3>3. PICK i \in 1..Len(inbox'[d]) : inbox'[d][i] = x
      BY <3>2
    <3>4. CASE d # c
      BY <1>0, <1>2, <1>4, <3>1, <3>3, <3>4 DEF Inboxed, Once
    <3>5. CASE d = c
      <4>1. i + 1 \in 1..Len(inbox[c]) /\ inbox[c][i + 1] = x /\ i + 1 # 1 /\ 1 \in 1..Len(inbox[c])
        BY <1>2, <1>4, <3>3, <3>5
      <4> QED BY <1>0, <1>2, <3>1, <4>1 DEF Inboxed, Once
    <3> QED BY <3>4, <3>5
  <2>2. Inboxed \ {o} \subseteq Inboxed'
    <3> SUFFICES ASSUME NEW x \in Inboxed, x # o PROVE x \in Inboxed'
      OBVIOUS
    <3>1. PICK d \in Conns : x \in Objects /\ \E i \in 1..Len(inbox[d]) : inbox[d][i] = x
      BY DEF Inboxed
    <3>2. PICK i \in 1..Len(inbox[d]) : inbox[d][i] = x
      BY <3>1
    <3>3. CASE d # c
      BY <1>1, <3>1, <3>2, <3>3 DEF Inboxed
    <3>4. CASE d = c
      <4>1. i # 1
        BY <1>2, <3>2, <3>4
      <4>2. i - 1 \in 1..Len(inbox'[c]) /\ inbox'[c][i - 1] = x
        BY <1>2, <3>2, <3>4, <4>1
      <4> QED BY <3>1, <4>2 DEF Inboxed
    <3> QED BY <3>3, <3>4
  <2> QED BY <2>1, <2>2
<1>7. Handed' = Handed \cup {o} /\ Queued' = Queued /\ Worked' = Worked
  BY <1>0, <1>1, <1>2 DEF Queued, Handed, Worked
<1>8. \A d, e \in Conns : (hand'[d] = hand'[e] /\ hand'[d] # Nothing) => d = e
  <2>1. \A d \in Conns : hand[d] # o
    BY <1>2, <1>3 DEF Handed
  <2> QED BY <1>0, <1>1, <2>1 DEF Once
<1>9. Once'
  BY <1>0, <1>5, <1>8 DEF Once
<1>10. Placed'
  BY <1>0, <1>3, <1>6, <1>7, MoveKeepsParts DEF Placed
<1> QED BY <1>9, <1>10

\* The handler passes its object on, or puts it back.
LEMMA HandPlaces ==
    ASSUME ServerInv, NEW c \in Conns, Forward(c) \/ Refuse(c)
    PROVE  Once' /\ Placed'
<1> USE ServerAssumption
<1> DEFINE o == hand[c]
<1>0. /\ ServerTypeOK /\ HoldInv /\ Once /\ Placed /\ UNCHANGED <<inbox, work>>
      /\ queue \in Seq(Objects) /\ hand \in [Conns -> Objects \cup {Nothing}]
      /\ o # Nothing /\ o \in Objects
  BY DEF ServerInv, Forward, Refuse, HandsOn, ServerTypeOK, HoldInv
<1>1. hand'[c] = Nothing /\ \A d \in Conns : d # c => hand'[d] = hand[d]
  BY <1>0 DEF Forward, Refuse, HandsOn
<1>2. o \in Handed /\ o \notin Queued
  BY <1>0, PlaceFacts DEF Placed, Parts
<1>3. Handed' = Handed \ {o} /\ Inboxed' = Inboxed /\ Worked' = Worked
  <2>1. \A d \in Conns : hand[d] = o => d = c
    BY <1>0 DEF Once
  <2> QED BY <1>0, <1>1, <2>1 DEF Inboxed, Handed, Worked
<1>4. \A d, e \in Conns : (hand'[d] = hand'[e] /\ hand'[d] # Nothing) => d = e
  BY <1>0, <1>1 DEF Once
<1>5. CASE Refuse(c)
  <2>1. free' = free \cup {o} /\ queue' = queue
    BY <1>5 DEF Refuse
  <2>2. Queued' = Queued
    BY <2>1 DEF Queued
  <2>3. Once'
    BY <1>0, <1>4, <2>1 DEF Once
  <2>4. Placed'
    BY <1>0, <1>2, <1>3, <2>1, <2>2, MoveKeepsParts DEF Placed
  <2> QED BY <2>3, <2>4
<1>6. CASE Forward(c)
  <2>1. free' = free /\ queue' = Append(queue, o)
    BY <1>6 DEF Forward
  <2>2. /\ Len(queue) \in Nat /\ Len(queue') = Len(queue) + 1
        /\ \A i \in 1..Len(queue) : queue'[i] = queue[i]
        /\ queue'[Len(queue) + 1] = o
    BY <1>0, <2>1, ChannelFacts
  <2> HIDE DEF o
  <2>3. \A i \in 1..Len(queue) : queue[i] # o
    BY <1>0, <1>2, PlaceFacts
  <2>4. \A i \in 1..Len(queue') :
            \/ i = Len(queue) + 1 /\ queue'[i] = o
            \/ i \in 1..Len(queue) /\ queue'[i] = queue[i]
    BY <2>2
  <2>5. Queued' = Queued \cup {o}
    <3>1. Queued' \subseteq Queued \cup {o}
      BY <2>4 DEF Queued
    <3>2. Len(queue) + 1 \in 1..Len(queue') /\ \A i \in 1..Len(queue) : i \in 1..Len(queue')
      BY <2>2
    <3>3. Queued \cup {o} \subseteq Queued'
      BY <1>0, <2>2, <3>2 DEF Queued
    <3> QED BY <3>1, <3>3
  <2>6. \A i, j \in 1..Len(queue') : queue'[i] = queue'[j] => i = j
    BY <1>0, <2>3, <2>4 DEF Once
  <2>7. Once'
    BY <1>0, <1>4, <2>6 DEF Once
  <2>8. Placed'
    BY <1>0, <1>2, <1>3, <2>1, <2>5, MoveKeepsParts DEF Placed
  <2> QED BY <2>7, <2>8
<1> QED BY <1>5, <1>6

\* A handler that leaves gives up what is left in its inbox.
LEMMA LeavePlaces ==
    ASSUME ServerInv, NEW c \in Conns, Leave(c) PROVE Once' /\ Placed'
<1> DEFINE S == {inbox[c][i] : i \in DOMAIN inbox[c]}
<1>0. /\ ServerTypeOK /\ Once /\ Placed /\ UNCHANGED <<hand, queue, work>> /\ free' = free \cup S
      /\ inbox \in [Conns -> Seq(Objects)] /\ inbox[c] \in Seq(Objects)
  BY DEF ServerInv, Leave, ServerTypeOK
<1>1. /\ \A d \in Conns : d # c => inbox'[d] = inbox[d]
      /\ inbox'[c] = <<>> /\ Len(inbox'[c]) = 0
  BY <1>0 DEF Leave
<1>2. DOMAIN inbox[c] = 1..Len(inbox[c])
  BY <1>0
<1>3. S \subseteq Inboxed
  BY <1>0, <1>2, PlaceFacts
<1>4. \A d \in Conns : \A i \in 1..Len(inbox'[d]) : d # c
  BY <1>1
<1>5. \A d \in Conns : d # c => \A i \in 1..Len(inbox[d]) : inbox[d][i] \notin S
  BY <1>0, <1>2 DEF Once
<1>6. Inboxed' = Inboxed \ S
  <2>1. Inboxed' \subseteq Inboxed \ S
    BY <1>1, <1>4, <1>5 DEF Inboxed
  <2>2. Inboxed \ S \subseteq Inboxed'
    BY <1>1, <1>2 DEF Inboxed
  <2> QED BY <2>1, <2>2
<1>7. Queued' = Queued /\ Handed' = Handed /\ Worked' = Worked
  BY <1>0 DEF Queued, Handed, Worked
<1>8. Once'
  BY <1>0, <1>1, <1>4 DEF Once
<1>9. Placed'
  <2> HIDE DEF S
  <2> QED BY <1>0, <1>3, <1>6, <1>7, MoveKeepsParts DEF Placed
<1> QED BY <1>8, <1>9

\* A worker takes the oldest object of the central channel.
LEMMA WorkerTakesPlaces ==
    ASSUME ServerInv, NEW w \in Workers, WorkerTakes(w)
    PROVE  Once' /\ Placed'
<1> USE ServerAssumption
<1> DEFINE o == Head(queue)
<1>0. /\ ServerTypeOK /\ HoldInv /\ Once /\ Placed /\ UNCHANGED <<free, inbox, hand>>
      /\ queue \in Seq(Objects) /\ queue # <<>> /\ queue' = Tail(queue)
      /\ work \in [Workers -> Objects \cup {Nothing}] /\ work[w] = Nothing
  BY DEF ServerInv, WorkerTakes, ServerTypeOK, HoldInv
<1>1. work'[w] = o /\ \A v \in Workers : v # w => work'[v] = work[v]
  BY <1>0 DEF WorkerTakes
<1>2. /\ Len(queue) \in Nat /\ Len(queue) >= 1 /\ o = queue[1] /\ o \in Objects
      /\ Len(queue') = Len(queue) - 1
      /\ \A i \in 1..(Len(queue) - 1) : queue'[i] = queue[i + 1]
  BY <1>0, ChannelFacts
<1> HIDE DEF o
<1>3. o \in Queued /\ o \notin Worked
  BY <1>0, <1>2, PlaceFacts DEF Placed, Parts
<1>4. \A i \in 1..Len(queue') : i + 1 \in 1..Len(queue) /\ queue'[i] = queue[i + 1]
  BY <1>2
<1>5. \A i, j \in 1..Len(queue') : queue'[i] = queue'[j] => i = j
  <2> SUFFICES ASSUME NEW i \in 1..Len(queue'), NEW j \in 1..Len(queue'), queue'[i] = queue'[j]
               PROVE  i = j
    OBVIOUS
  <2>1. i + 1 = j + 1
    BY <1>0, <1>4 DEF Once
  <2> QED BY <2>1
<1>6. Queued' = Queued \ {o}
  <2>1. \A i \in 1..Len(queue') : queue'[i] # o
    <3> SUFFICES ASSUME NEW i \in 1..Len(queue') PROVE queue[i + 1] # queue[1]
      BY <1>2, <1>4
    <3>1. i + 1 \in 1..Len(queue) /\ 1 \in 1..Len(queue) /\ i + 1 # 1
      BY <1>2, <1>4
    <3> QED BY <1>0, <3>1 DEF Once
  <2>2. Queued' \subseteq Queued \ {o}
    BY <1>4, <2>1 DEF Queued
  <2>3. Queued \ {o} \subseteq Queued'
    <3> SUFFICES ASSUME NEW x \in Queued, x # o PROVE x \in Queued'
      OBVIOUS
    <3>1. PICK i \in 1..Len(queue) : queue[i] = x
      BY DEF Queued
    <3>2. i - 1 \in 1..Len(queue') /\ queue'[i - 1] = x
      BY <1>2, <3>1
    <3> QED BY <3>2 DEF Queued
  <2> QED BY <2>2, <2>3
<1>7. Worked' = Worked \cup {o} /\ Inboxed' = Inboxed /\ Handed' = Handed
  BY <1>0, <1>1, <1>2 DEF Inboxed, Handed, Worked
<1>8. \A u, v \in Workers : (work'[u] = work'[v] /\ work'[u] # Nothing) => u = v
  <2>1. \A v \in Workers : work[v] # o
    BY <1>2, <1>3 DEF Worked
  <2> QED BY <1>0, <1>1, <2>1 DEF Once
<1>9. Once'
  BY <1>0, <1>5, <1>8 DEF Once
<1>10. Placed'
  BY <1>0, <1>3, <1>6, <1>7, MoveKeepsParts DEF Placed
<1> QED BY <1>9, <1>10

\* A worker that is done puts its object back.
LEMMA WorkerDonePlaces ==
    ASSUME ServerInv, NEW w \in Workers, WorkerDone(w)
    PROVE  Once' /\ Placed'
<1> USE ServerAssumption
<1> DEFINE o == work[w]
<1>0. /\ ServerTypeOK /\ HoldInv /\ Once /\ Placed /\ UNCHANGED <<inbox, hand, queue>>
      /\ work \in [Workers -> Objects \cup {Nothing}] /\ o # Nothing /\ o \in Objects
      /\ free' = free \cup {o}
  BY DEF ServerInv, WorkerDone, ServerTypeOK, HoldInv
<1>1. work'[w] = Nothing /\ \A v \in Workers : v # w => work'[v] = work[v]
  BY <1>0 DEF WorkerDone
<1>2. o \in Worked
  BY <1>0, PlaceFacts
<1>3. Worked' = Worked \ {o} /\ Inboxed' = Inboxed /\ Queued' = Queued /\ Handed' = Handed
  <2>1. \A v \in Workers : work[v] = o => v = w
    BY <1>0 DEF Once
  <2> QED BY <1>0, <1>1, <2>1 DEF Inboxed, Queued, Handed, Worked
<1>4. \A u, v \in Workers : (work'[u] = work'[v] /\ work'[u] # Nothing) => u = v
  BY <1>0, <1>1 DEF Once
<1>5. Once'
  BY <1>0, <1>4 DEF Once
<1>6. Placed'
  BY <1>0, <1>2, <1>3, MoveKeepsParts DEF Placed
<1> QED BY <1>5, <1>6

\* The server keeps its invariant.
LEMMA ServerInductive == ServerSpec => []ServerInv
<1> USE ServerAssumption
<1>1. ServerInit => ServerInv
  <2> SUFFICES ASSUME ServerInit PROVE ServerInv
    OBVIOUS
  <2>0. <<>> \in Seq(Objects) /\ Len(<<>>) = 0
    OBVIOUS
  <2>1. ServerTypeOK
    <3>1. \A c \in Conns : inbox[c] = <<>> /\ Len(inbox[c]) = 0
      BY <2>0 DEF ServerInit
    <3>2. inbox \in [Conns -> Seq(Objects)] /\ \A c \in Conns : Len(inbox[c]) <= ConnCap
      BY <2>0, <3>1 DEF ServerInit
    <3>3. queue \in Seq(Objects) /\ Len(queue) <= QueueCap
      BY <2>0 DEF ServerInit
    <3> QED BY <3>2, <3>3 DEF ServerInit, ServerTypeOK
  <2>2. HoldInv
    BY DEF ServerInit, HoldInv
  <2>3. Once
    BY <2>0 DEF ServerInit, Once
  <2>4. Inboxed = {} /\ Queued = {} /\ Handed = {} /\ Worked = {}
    BY <2>0 DEF ServerInit, Inboxed, Queued, Handed, Worked
  <2>5. Placed
    BY <2>4 DEF ServerInit, Placed, Parts
  <2> QED BY <2>1, <2>2, <2>3, <2>5 DEF ServerInv
<1>2. ServerInv /\ [ServerNext]_serverVars => ServerInv'
  <2> SUFFICES ASSUME ServerInv, [ServerNext]_serverVars PROVE ServerInv'
    OBVIOUS
  <2>1. ServerTypeOK' /\ HoldInv'
    BY ServerType, HoldStep
  <2>2. Once' /\ Placed'
    <3>1. CASE UNCHANGED <<free, inbox, hand, queue, work>>
      <4>1. Inboxed' = Inboxed /\ Queued' = Queued /\ Handed' = Handed /\ Worked' = Worked
        BY <3>1 DEF Inboxed, Queued, Handed, Worked
      <4>2. Once'
        BY <3>1 DEF ServerInv, Once
      <4>3. Placed'
        BY <3>1, <4>1 DEF ServerInv, Placed
      <4> QED BY <4>2, <4>3
    <3>2. ASSUME NEW c \in Conns, HandlerStep(c) PROVE Once' /\ Placed'
      <4>1. CASE ForwardPanics(c)
        BY <3>1, <4>1 DEF ForwardPanics
      <4> QED BY <3>2, <4>1, TakePlaces, HandPlaces, LeavePlaces DEF HandlerStep
    <3>3. ASSUME NEW w \in Workers, WorkerLoop(w) \/ WorkerDone(w) PROVE Once' /\ Placed'
      <4>1. CASE WorkerExits(w)
        BY <3>1, <4>1 DEF WorkerExits
      <4> QED BY <3>3, <4>1, WorkerTakesPlaces, WorkerDonePlaces DEF WorkerLoop
    <3> QED
      BY <3>1, <3>2, <3>3, ReadPlaces
      DEF ServerNext, Attach, Accept, Break, ListenStep, ListenStarts, ListenOpens, ListenChecks,
          AcceptFails, StopCancels, StopStep, StopCloses, StopReturns, StopGoes, serverVars
  <2> QED BY <2>1, <2>2 DEF ServerInv
<1> QED BY <1>1, <1>2, PTL DEF ServerSpec

\* A request object is never in two hands: whatever is read, refused, handled or
\* left behind while the server stops, each object is in the pool or in exactly
\* one place.
THEOREM RequestsHaveOneHolder == ServerSpec => []OneHolder
<1> USE ServerAssumption
<1>1. ServerInv => OneHolder
  <2> SUFFICES ASSUME ServerInv, NEW o \in Objects
               PROVE  Cardinality(InInbox(o)) + Cardinality(InQueue(o))
                      + Cardinality(InHand(o)) + Cardinality(InWork(o))
                      = (IF o \in free THEN 0 ELSE 1)
    BY DEF OneHolder
  <2>0. ServerTypeOK /\ Once /\ Placed /\ o # Nothing
    BY DEF ServerInv
  <2>1. Cardinality({}) = 0 /\ \A x : Cardinality({x}) = 1
    BY FS_EmptySet, FS_Singleton
  <2>2. Cardinality(InInbox(o)) = (IF o \in Inboxed THEN 1 ELSE 0)
    <3>1. ASSUME NEW p \in InInbox(o), NEW q \in InInbox(o) PROVE p = q
      <4>1. /\ p \in Conns \X (1..ConnCap) /\ q \in Conns \X (1..ConnCap)
            /\ inbox[p[1]][p[2]] = o /\ inbox[q[1]][q[2]] = o
            /\ p[2] <= Len(inbox[p[1]]) /\ q[2] <= Len(inbox[q[1]])
        BY <3>1 DEF InInbox
      <4>2. /\ p[1] \in Conns /\ q[1] \in Conns
            /\ p[2] \in 1..Len(inbox[p[1]]) /\ q[2] \in 1..Len(inbox[q[1]])
        BY <2>0, <4>1 DEF ServerTypeOK
      <4>3. p[1] = q[1] /\ p[2] = q[2]
        BY <2>0, <4>1, <4>2 DEF Once
      <4> QED BY <4>1, <4>3
    <3>2. CASE o \in Inboxed
      <4>1. PICK c \in Conns : \E i \in 1..Len(inbox[c]) : inbox[c][i] = o
        BY <3>2 DEF Inboxed
      <4>2. PICK i \in 1..Len(inbox[c]) : inbox[c][i] = o
        BY <4>1
      <4>3. i \in 1..ConnCap /\ i <= Len(inbox[c])
        BY <2>0 DEF ServerTypeOK
      <4>4. <<c, i>> \in InInbox(o)
        BY <4>2, <4>3 DEF InInbox
      <4>5. InInbox(o) = {<<c, i>>}
        BY <3>1, <4>4
      <4> QED BY <2>1, <3>2, <4>5
    <3>3. CASE o \notin Inboxed
      <4>1. InInbox(o) = {}
        <5> SUFFICES ASSUME NEW p \in InInbox(o) PROVE FALSE
          OBVIOUS
        <5>1. /\ p \in Conns \X (1..ConnCap) /\ inbox[p[1]][p[2]] = o /\ p[2] <= Len(inbox[p[1]])
          BY DEF InInbox
        <5>2. p[1] \in Conns /\ p[2] \in 1..Len(inbox[p[1]])
          BY <2>0, <5>1 DEF ServerTypeOK
        <5> QED BY <3>3, <5>1, <5>2 DEF Inboxed
      <4> QED BY <2>1, <3>3, <4>1
    <3> QED BY <3>2, <3>3
  <2>3. Cardinality(InQueue(o)) = (IF o \in Queued THEN 1 ELSE 0)
    <3>0. DOMAIN queue = 1..Len(queue)
      BY <2>0 DEF ServerTypeOK
    <3>1. CASE o \in Queued
      <4>1. PICK i \in 1..Len(queue) : queue[i] = o
        BY <3>1 DEF Queued
      <4>2. InQueue(o) = {i}
        BY <2>0, <3>0, <4>1 DEF InQueue, Once
      <4> QED BY <2>1, <3>1, <4>2
    <3>2. CASE o \notin Queued
      <4>1. InQueue(o) = {}
        BY <3>0, <3>2 DEF InQueue, Queued
      <4> QED BY <2>1, <3>2, <4>1
    <3> QED BY <3>1, <3>2
  <2>4. Cardinality(InHand(o)) = (IF o \in Handed THEN 1 ELSE 0)
    <3>1. CASE o \in Handed
      <4>1. PICK c \in Conns : hand[c] = o
        BY <3>1 DEF Handed
      <4>2. InHand(o) = {c}
        BY <2>0, <4>1 DEF InHand, Once
      <4> QED BY <2>1, <3>1, <4>2
    <3>2. CASE o \notin Handed
      <4>1. InHand(o) = {}
        BY <3>2 DEF InHand, Handed
      <4> QED BY <2>1, <3>2, <4>1
    <3> QED BY <3>1, <3>2
  <2>5. Cardinality(InWork(o)) = (IF o \in Worked THEN 1 ELSE 0)
    <3>1. CASE o \in Worked
      <4>1. PICK w \in Workers : work[w] = o
        BY <3>1 DEF Worked
      <4>2. InWork(o) = {w}
        BY <2>0, <4>1 DEF InWork, Once
      <4> QED BY <2>1, <3>1, <4>2
    <3>2. CASE o \notin Worked
      <4>1. InWork(o) = {}
        BY <3>2 DEF InWork, Worked
      <4> QED BY <2>1, <3>2, <4>1
    <3> QED BY <3>1, <3>2
  <2> QED BY <2>0, <2>2, <2>3, <2>4, <2>5 DEF Placed, Parts
<1> QED BY <1>1, ServerInductive, PTL
=============================================================================
