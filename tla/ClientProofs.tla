---------------------------- MODULE ClientProofs ----------------------------
(* Proofs about the TCP client: ReceiptRouter, for every number of calls    *)
(* and hashes, and ParentReconnect, for every number of connections that    *)
(* break and of addresses.                                                  *)
EXTENDS ReceiptRouter, ParentReconnect, FiniteSetTheorems, SequenceTheorems, TLAPS

-----------------------------------------------------------------------------
(* The receipt router.                                                     *)

\* A receipt seen by an unfinished call sits in its channel.
SeenIsServed ==
    \A w \in Waiters : call[w].pc # "idle" /\ seen[w] =>
        resp[w] # NoReceipt \/ orphaned[w]

\* Only what has the asked-for hash is kept under a hash.
PendingKey == \A h \in Hashes : pending[h] # NoReceipt => pending[h].rec.tx = h

\* An idle call has an empty channel.
IdleIsEmpty == \A w \in Waiters : call[w].pc = "idle" => resp[w] = NoReceipt

\* The inductive invariant.
IInv ==
    /\ RightReceipt /\ NoStaleEntry /\ RegisteredIsUnserved /\ WaitingIsKnown
    /\ TimeoutMeansNotSeen /\ SeenIsServed /\ PendingKey /\ IdleIsEmpty

-----------------------------------------------------------------------------
(* Type correctness.                                                       *)

\* A queue of capacity 1 that is not full is empty.
LEMMA EmptyQueue ==
    ASSUME NEW S, NEW q \in Seq(S), Len(q) < 1 PROVE q = <<>>
  OBVIOUS

\* The only element of a queue of capacity 1.
LEMMA OneQueue ==
    ASSUME NEW S, NEW q \in Seq(S), Len(q) <= 1, q # <<>>
    PROVE  Head(q) \in S /\ Tail(q) \in Seq(S) /\ Len(Tail(q)) <= 1
  OBVIOUS

\* Calls stay calls.
LEMMA CallUpdates ==
    ASSUME NEW x \in Call
    PROVE  /\ [x EXCEPT !.pc = "idle"] \in Call
           /\ [x EXCEPT !.pc = "cancelError"] \in Call
           /\ [x EXCEPT !.pc = "cancelTimeout"] \in Call
           /\ [x EXCEPT !.pc = "check"] \in Call
  BY DEF Call

\* Every step keeps the types.
LEMMA TypeStep == TypeOK /\ [Next]_vars => TypeOK'
<1> SUFFICES ASSUME TypeOK, [Next]_vars PROVE TypeOK'
  OBVIOUS
<1> USE RouterAssumption
<1>1. ASSUME NEW rc \in Receipts, HandleReceipt(rc) PROVE TypeOK'
  <2>1. receiptChan' \in Seq(Receipts) /\ Len(receiptChan') <= 1
    BY <1>1 DEF TypeOK, HandleReceipt
  <2>2. sent' \in 0..MaxMessages
    BY <1>1 DEF TypeOK, HandleReceipt
  <2> QED BY <1>1, <2>1, <2>2 DEF TypeOK, HandleReceipt
<1>2. ASSUME NEW h \in Hashes, HandleTransactionError(h) PROVE TypeOK'
  <2>1. errorChan' \in Seq(Hashes) /\ Len(errorChan') <= 1
    BY <1>2 DEF TypeOK, HandleTransactionError
  <2>2. sent' \in 0..MaxMessages
    BY <1>2 DEF TypeOK, HandleTransactionError
  <2> QED BY <1>2, <2>1, <2>2 DEF TypeOK, HandleTransactionError
<1>3. CASE RouteReceipt
  <2> DEFINE rc == Head(receiptChan)
  <2>1. rc \in Receipts /\ receiptChan' \in Seq(Receipts) /\ Len(receiptChan') <= 1
    BY <1>3, OneQueue DEF TypeOK, RouteReceipt
  <2>2. rc.tx \in Hashes /\ [rec |-> rc, expired |-> FALSE] \in [rec : Receipts, expired : BOOLEAN]
    BY <2>1 DEF Receipts
  <2> HIDE DEF rc
  <2>3. pending' \in [Hashes -> [rec : Receipts, expired : BOOLEAN] \cup {NoReceipt}]
    BY <1>3, <2>2 DEF TypeOK, RouteReceipt, rc
  <2>4. resp' \in [Waiters -> Receipts \cup {NoReceipt}]
    BY <1>3, <2>1 DEF TypeOK, RouteReceipt, rc
  <2>5. seen' \in [Waiters -> BOOLEAN] /\ waiters' \in SUBSET Waiters
    BY <1>3 DEF TypeOK, RouteReceipt
  <2> QED BY <1>3, <2>1, <2>3, <2>4, <2>5 DEF TypeOK, RouteReceipt
<1>4. ASSUME NEW h \in Hashes, PendingExpires(h) PROVE TypeOK'
  <2>1. pending[h] \in [rec : Receipts, expired : BOOLEAN]
    BY <1>4 DEF TypeOK, PendingExpires
  <2>2. [pending[h] EXCEPT !.expired = TRUE] \in [rec : Receipts, expired : BOOLEAN]
    BY <2>1
  <2>3. pending' \in [Hashes -> [rec : Receipts, expired : BOOLEAN] \cup {NoReceipt}]
    BY <1>4, <2>2 DEF TypeOK, PendingExpires
  <2> QED BY <1>4, <2>3 DEF TypeOK, PendingExpires
<1>5. CASE CleanupTick
  <2>1. pending' \in [Hashes -> [rec : Receipts, expired : BOOLEAN] \cup {NoReceipt}]
    BY <1>5 DEF TypeOK, CleanupTick
  <2> QED BY <1>5, <2>1 DEF TypeOK, CleanupTick
<1>6. ASSUME NEW w \in Waiters, NEW h \in Hashes, NEW m \in {"tx", "rhash"}, NEW t \in BOOLEAN,
             Register(w, h, m, t) \/ RegisterServed(w, h, m, t) \/ RegisterOrphaned(w, h, m, t)
      PROVE  TypeOK'
  <2>1. Starts(w, h, m, t)
    BY <1>6 DEF Register, RegisterServed, RegisterOrphaned
  <2>2. [pc |-> "wait", hash |-> h, match |-> m, timed |-> t] \in Call
    BY DEF Call
  <2>3. call' \in [Waiters -> Call]
    BY <2>1, <2>2 DEF TypeOK, Starts
  <2>4. CASE Register(w, h, m, t)
    BY <2>1, <2>3, <2>4 DEF TypeOK, Register, Starts
  <2>5. CASE RegisterServed(w, h, m, t)
    <3>1. pending[h].rec \in Receipts
      BY <2>5 DEF TypeOK, RegisterServed
    <3>2. resp' \in [Waiters -> Receipts \cup {NoReceipt}]
      BY <2>5, <3>1 DEF TypeOK, RegisterServed
    <3>3. pending' \in [Hashes -> [rec : Receipts, expired : BOOLEAN] \cup {NoReceipt}]
      BY <2>5 DEF TypeOK, RegisterServed
    <3> QED BY <2>1, <2>3, <2>5, <3>2, <3>3 DEF TypeOK, RegisterServed, Starts
  <2>6. CASE RegisterOrphaned(w, h, m, t)
    BY <2>1, <2>3, <2>6 DEF TypeOK, RegisterOrphaned, Starts
  <2> QED BY <1>6, <2>4, <2>5, <2>6
<1>7. ASSUME NEW w \in Waiters, WaiterStep(w) PROVE TypeOK'
  <2>0. call[w] \in Call
    BY DEF TypeOK
  <2>a. ASSUME NEW how \in {"receipt", "timeout", "error"}, Returns(w, how)
        PROVE  /\ call' \in [Waiters -> Call]
               /\ resp' \in [Waiters -> Receipts \cup {NoReceipt}]
               /\ result' \in [Waiters -> {"none", "receipt", "timeout", "error"}]
    <3>1. [call[w] EXCEPT !.pc = "idle"] \in Call
      BY <2>0, CallUpdates
    <3> QED BY <2>a, <3>1 DEF TypeOK, Returns
  <2>1. CASE Receive(w)
    BY <2>1, <2>a DEF TypeOK, Receive
  <2>2. CASE TakeError(w)
    <3>1. errorChan' \in Seq(Hashes) /\ Len(errorChan') <= 1
      BY <2>2, OneQueue DEF TypeOK, TakeError
    <3>2. [call[w] EXCEPT !.pc = "cancelError"] \in Call
      BY <2>0, CallUpdates
    <3>3. call' \in [Waiters -> Call]
      BY <2>2, <3>2 DEF TypeOK, TakeError
    <3> QED BY <2>2, <3>1, <3>3 DEF TypeOK, TakeError
  <2>3. CASE TimerFires(w)
    <3>1. [call[w] EXCEPT !.pc = "cancelTimeout"] \in Call
      BY <2>0, CallUpdates
    <3> QED BY <2>3, <3>1 DEF TypeOK, TimerFires
  <2>4. CASE CancelAfterError(w)
    BY <2>4, <2>a DEF TypeOK, CancelAfterError, RouterCancels
  <2>5. CASE CancelAfterTimeout(w)
    <3>1. [call[w] EXCEPT !.pc = "check"] \in Call
      BY <2>0, CallUpdates
    <3> QED BY <2>5, <3>1 DEF TypeOK, CancelAfterTimeout, RouterCancels
  <2>6. CASE FinalCheck(w)
    BY <2>6, <2>a DEF TypeOK, FinalCheck
  <2> QED BY <1>7, <2>1, <2>2, <2>3, <2>4, <2>5, <2>6 DEF WaiterStep
<1>8. CASE UNCHANGED vars
  BY <1>8 DEF TypeOK, vars
<1> QED BY <1>1, <1>2, <1>3, <1>4, <1>5, <1>6, <1>7, <1>8 DEF Next

\* The client starts well-typed.
LEMMA InitType == Init => TypeOK
<1> SUFFICES ASSUME Init PROVE TypeOK
  OBVIOUS
<1>1. call \in [Waiters -> Call]
  BY DEF Init, Call
<1> QED BY <1>1, RouterAssumption DEF Init, TypeOK

\* Type correctness; the two shared channels never hold more than one message.
THEOREM TypeCorrect == Spec => []TypeOK
  BY InitType, TypeStep, PTL DEF Spec

-----------------------------------------------------------------------------
(* Routing.                                                                *)

\* What the invariant says of one call.
CallInv(w) ==
    /\ resp[w] # NoReceipt =>
          \/ resp[w].tx = call[w].hash
          \/ call[w].match = "rhash" /\ resp[w].rhash = call[w].hash
    /\ w \in waiters => Listening(w) /\ resp[w] = NoReceipt
    /\ Listening(w) => w \in waiters \/ resp[w] # NoReceipt \/ orphaned[w]
    /\ result[w] = "timeout" /\ call[w].pc = "idle" => ~seen[w] \/ orphaned[w]
    /\ call[w].pc # "idle" /\ seen[w] => resp[w] # NoReceipt \/ orphaned[w]
    /\ call[w].pc = "idle" => resp[w] = NoReceipt

\* The invariant, call by call.
LEMMA ByCall == TypeOK => (IInv <=> PendingKey /\ \A w \in Waiters : CallInv(w))
  BY DEF TypeOK, IInv, CallInv, RightReceipt, NoStaleEntry, RegisteredIsUnserved,
       WaitingIsKnown, TimeoutMeansNotSeen, SeenIsServed, IdleIsEmpty

\* A step leaves the calls of other goroutines alone.
Alone(w) ==
    /\ call'[w] = call[w] /\ resp'[w] = resp[w] /\ result'[w] = result[w]
    /\ seen'[w] = seen[w] /\ orphaned'[w] = orphaned[w]
    /\ (w \in waiters') = (w \in waiters)

\* What is left alone keeps its invariant.
LEMMA AloneKeeps == ASSUME NEW w, CallInv(w), Alone(w) PROVE CallInv(w)'
  BY DEF CallInv, Alone, Listening

\* Every step preserves the invariant.
LEMMA IInvStep == TypeOK /\ IInv /\ [Next]_vars => IInv'
<1> SUFFICES ASSUME TypeOK, IInv, [Next]_vars PROVE IInv'
  OBVIOUS
<1>a. TypeOK'
  BY TypeStep
<1>b. PendingKey /\ \A w \in Waiters : CallInv(w)
  BY ByCall
<1>c. SUFFICES PendingKey' /\ \A w \in Waiters : CallInv(w)'
  BY <1>a, <1>c DEF TypeOK, IInv, CallInv, RightReceipt, NoStaleEntry, RegisteredIsUnserved,
       WaitingIsKnown, TimeoutMeansNotSeen, SeenIsServed, IdleIsEmpty
<1> DEFINE Goal == PendingKey' /\ \A w \in Waiters : CallInv(w)'
<1>d. ASSUME UNCHANGED <<pending, waiters, call, resp, result, seen, orphaned>> PROVE Goal
  BY <1>b, <1>d DEF PendingKey, CallInv, Listening
<1>1. ASSUME NEW rc \in Receipts, HandleReceipt(rc) PROVE Goal
  BY <1>1, <1>d DEF HandleReceipt
<1>2. ASSUME NEW h \in Hashes, HandleTransactionError(h) PROVE Goal
  BY <1>2, <1>d DEF HandleTransactionError
<1>3. CASE RouteReceipt
  <2> DEFINE rc == Head(receiptChan)
  <2>1. rc \in Receipts
    BY <1>3, OneQueue DEF TypeOK, RouteReceipt
  <2>2. rc.tx \in Hashes /\ rc # NoReceipt
    BY <2>1, RouterAssumption DEF Receipts
  <2> HIDE DEF rc
  <2>3. PendingKey'
    BY <1>3, <1>b, <2>2 DEF TypeOK, RouteReceipt, PendingKey, rc
  <2>4. ASSUME NEW w \in Waiters PROVE CallInv(w)'
    <3>1. /\ call'[w] = call[w] /\ result'[w] = result[w] /\ orphaned'[w] = orphaned[w]
          /\ seen'[w] = (seen[w] \/ (Listening(w) /\ Matches(w, rc)))
          /\ resp'[w] = IF w \in waiters /\ Matches(w, rc) /\ resp[w] = NoReceipt
                        THEN rc ELSE resp[w]
          /\ w \in waiters' <=> w \in waiters /\ ~Matches(w, rc)
      BY <1>3 DEF TypeOK, RouteReceipt, rc
    <3>2. seen[w] \in BOOLEAN /\ CallInv(w)
      BY <1>b DEF TypeOK
    <3>3. CASE w \in waiters /\ Matches(w, rc)
      BY <2>2, <3>1, <3>2, <3>3 DEF CallInv, Listening, Matches
    <3>4. CASE w \notin waiters /\ Matches(w, rc)
      BY <3>1, <3>2, <3>4 DEF CallInv, Listening
    <3>5. CASE ~Matches(w, rc)
      <4>1. Alone(w)
        BY <3>1, <3>2, <3>5 DEF Alone
      <4> QED BY <3>2, <4>1, AloneKeeps
    <3> QED BY <3>3, <3>4, <3>5
  <2> QED BY <2>3, <2>4
<1>4. ASSUME NEW h \in Hashes, PendingExpires(h) PROVE Goal
  <2>1. pending[h] \in [rec : Receipts, expired : BOOLEAN]
    BY <1>4 DEF TypeOK, PendingExpires
  <2>2. pending'[h] = [pending[h] EXCEPT !.expired = TRUE]
    BY <1>4 DEF TypeOK, PendingExpires
  <2>3. pending'[h].rec = pending[h].rec
    BY <2>1, <2>2
  <2>4. \A g \in Hashes : g # h => pending'[g] = pending[g]
    BY <1>4 DEF TypeOK, PendingExpires
  <2>5. PendingKey'
    BY <1>4, <1>b, <2>3, <2>4 DEF PendingKey, PendingExpires
  <2>6. \A w \in Waiters : CallInv(w)'
    BY <1>4, <1>b DEF PendingExpires, CallInv, Listening
  <2> QED BY <2>5, <2>6
<1>5. CASE CleanupTick
  <2>1. PendingKey'
    BY <1>5, <1>b DEF PendingKey, CleanupTick
  <2>2. \A w \in Waiters : CallInv(w)'
    BY <1>5, <1>b DEF CleanupTick, CallInv, Listening
  <2> QED BY <2>1, <2>2
<1>6. ASSUME NEW w \in Waiters, NEW h \in Hashes, NEW m \in {"tx", "rhash"}, NEW t \in BOOLEAN,
             Register(w, h, m, t) \/ RegisterServed(w, h, m, t) \/ RegisterOrphaned(w, h, m, t)
      PROVE  Goal
  <2>1. Starts(w, h, m, t) /\ CallInv(w)
    BY <1>6, <1>b DEF Register, RegisterServed, RegisterOrphaned
  <2>2. /\ call[w].pc = "idle"
        /\ call'[w].pc = "wait" /\ call'[w].hash = h /\ call'[w].match = m
        /\ \A v \in Waiters : v # w => call'[v] = call[v]
        /\ result' = result
    BY <2>1 DEF TypeOK, Starts
  <2>3. resp[w] = NoReceipt /\ w \notin waiters
    BY <2>1, <2>2 DEF CallInv, Listening
  <2>4. CASE Register(w, h, m, t)
    <3>1. /\ w \in waiters' /\ resp' = resp /\ pending' = pending
          /\ seen'[w] = FALSE /\ orphaned'[w] = FALSE
      BY <2>4 DEF TypeOK, Register
    <3>2. CallInv(w)'
      BY <2>2, <2>3, <3>1 DEF CallInv, Listening
    <3>3. ASSUME NEW v \in Waiters, v # w PROVE Alone(v)
      BY <2>2, <2>4, <3>3 DEF TypeOK, Register, Alone
    <3> QED BY <1>b, <3>1, <3>2, <3>3, AloneKeeps DEF PendingKey
  <2>5. CASE RegisterServed(w, h, m, t)
    <3>1. /\ waiters' = waiters /\ resp'[w] = pending[h].rec
          /\ seen'[w] = TRUE /\ orphaned'[w] = FALSE
          /\ pending[h] # NoReceipt
      BY <2>5 DEF TypeOK, RegisterServed
    <3>2. pending[h].rec \in Receipts /\ pending[h].rec.tx = h
      BY <1>b, <3>1 DEF TypeOK, PendingKey
    <3>3. CallInv(w)'
      BY <2>2, <2>3, <3>1, <3>2, RouterAssumption DEF CallInv, Listening
    <3>4. ASSUME NEW v \in Waiters, v # w PROVE Alone(v)
      BY <2>2, <2>5, <3>4 DEF TypeOK, RegisterServed, Alone
    <3>5. PendingKey'
      BY <1>b, <2>5 DEF TypeOK, PendingKey, RegisterServed
    <3> QED BY <1>b, <3>3, <3>4, <3>5, AloneKeeps
  <2>6. CASE RegisterOrphaned(w, h, m, t)
    <3>1. /\ waiters' = waiters /\ resp' = resp
          /\ seen'[w] = FALSE /\ orphaned'[w] = TRUE
      BY <2>6 DEF TypeOK, RegisterOrphaned
    <3>2. CallInv(w)'
      BY <2>2, <2>3, <3>1 DEF CallInv, Listening
    <3>3. ASSUME NEW v \in Waiters, v # w PROVE Alone(v)
      BY <2>2, <2>6, <3>3 DEF TypeOK, RegisterOrphaned, Alone
    <3>4. PendingKey'
      BY <1>b, <2>6 DEF TypeOK, PendingKey, RegisterOrphaned
    <3> QED BY <1>b, <3>2, <3>3, <3>4, AloneKeeps
  <2> QED BY <1>6, <2>4, <2>5, <2>6
<1>7. ASSUME NEW w \in Waiters, WaiterStep(w) PROVE Goal
  <2>0. /\ CallInv(w) /\ call[w] \in Call /\ seen[w] \in BOOLEAN
        /\ UNCHANGED <<pending, seen, orphaned>>
    BY <1>7, <1>b DEF TypeOK, WaiterStep, Receive, TakeError, TimerFires, CancelAfterError,
       CancelAfterTimeout, FinalCheck
  <2>a. ASSUME NEW how, Returns(w, how)
        PROVE  /\ call'[w].pc = "idle" /\ resp'[w] = NoReceipt /\ result'[w] = how
               /\ \A v \in Waiters : v # w => /\ call'[v] = call[v] /\ resp'[v] = resp[v]
                                             /\ result'[v] = result[v]
    BY <2>0, <2>a DEF TypeOK, Returns, Call
  <2>b. ASSUME NEW pc, call' = [call EXCEPT ![w].pc = pc]
        PROVE  /\ call'[w].pc = pc /\ call'[w].hash = call[w].hash
               /\ call'[w].match = call[w].match
               /\ \A v \in Waiters : v # w => call'[v] = call[v]
    BY <2>0, <2>b DEF TypeOK, Call
  <2>c. SUFFICES ASSUME NEW v \in Waiters PROVE CallInv(v)'
    BY <1>b, <2>0 DEF PendingKey
  <2>d. CallInv(v)
    BY <1>b
  <2>1. CASE Receive(w)
    <3>1. CASE v = w
      BY <2>0, <2>1, <2>a, <3>1 DEF Receive, CallInv, Listening
    <3>2. CASE v # w
      BY <2>0, <2>1, <2>a, <2>d, <3>2, AloneKeeps DEF Receive, Alone
    <3> QED BY <3>1, <3>2
  <2>2. CASE TakeError(w)
    <3>1. CASE call' = call
      BY <2>0, <2>2, <2>d, <3>1, AloneKeeps DEF TakeError, Alone
    <3>2. CASE v = w /\ call' # call
      BY <2>0, <2>2, <2>b, <2>d, <3>2 DEF TakeError, CallInv, Listening
    <3>3. CASE v # w /\ call' # call
      BY <2>0, <2>2, <2>b, <2>d, <3>3, AloneKeeps DEF TakeError, Alone
    <3> QED BY <3>1, <3>2, <3>3
  <2>3. CASE TimerFires(w)
    <3>1. CASE v = w
      BY <2>0, <2>3, <2>b, <3>1 DEF TimerFires, CallInv, Listening
    <3>2. CASE v # w
      BY <2>0, <2>3, <2>b, <2>d, <3>2, AloneKeeps DEF TimerFires, Alone
    <3> QED BY <3>1, <3>2
  <2>4. CASE CancelAfterError(w)
    <3>1. CASE v = w
      BY <2>0, <2>4, <2>a, <3>1 DEF CancelAfterError, RouterCancels, CallInv, Listening
    <3>2. CASE v # w
      BY <2>0, <2>4, <2>a, <2>d, <3>2, AloneKeeps DEF CancelAfterError, RouterCancels, Alone
    <3> QED BY <3>1, <3>2
  <2>5. CASE CancelAfterTimeout(w)
    <3>1. CASE v = w
      BY <2>0, <2>5, <2>b, <3>1 DEF CancelAfterTimeout, RouterCancels, CallInv, Listening
    <3>2. CASE v # w
      BY <2>0, <2>5, <2>b, <2>d, <3>2, AloneKeeps DEF CancelAfterTimeout, RouterCancels, Alone
    <3> QED BY <3>1, <3>2
  <2>6. CASE FinalCheck(w)
    <3>1. CASE v = w
      BY <2>0, <2>6, <2>a, <3>1 DEF FinalCheck, CallInv, Listening
    <3>2. CASE v # w
      BY <2>0, <2>6, <2>a, <2>d, <3>2, AloneKeeps DEF FinalCheck, Alone
    <3> QED BY <3>1, <3>2
  <2> QED BY <1>7, <2>1, <2>2, <2>3, <2>4, <2>5, <2>6 DEF WaiterStep
<1>8. CASE UNCHANGED vars
  BY <1>8, <1>d DEF vars
<1> QED BY <1>1, <1>2, <1>3, <1>4, <1>5, <1>6, <1>7, <1>8 DEF Next

\* The invariant holds in every reachable state.
LEMMA Inductive == Spec => []IInv
<1>1. Init => IInv
  BY DEF Init, IInv, RightReceipt, NoStaleEntry, RegisteredIsUnserved, WaitingIsKnown,
       TimeoutMeansNotSeen, SeenIsServed, PendingKey, IdleIsEmpty, Listening
<1> QED BY <1>1, TypeCorrect, IInvStep, PTL DEF Spec

\* No call gets another transaction's receipt.
THEOREM RoutedRight == Spec => []RightReceipt
<1>1. IInv => RightReceipt
  BY DEF IInv
<1> QED BY <1>1, Inductive, PTL

\* The router keeps no entry of a call that has returned.
THEOREM NoEntryLeaks == Spec => []NoStaleEntry
<1>1. IInv => NoStaleEntry
  BY DEF IInv
<1> QED BY <1>1, Inductive, PTL

\* The router's non-blocking send never drops a receipt.
THEOREM NothingDropped == Spec => []RegisteredIsUnserved
<1>1. IInv => RegisteredIsUnserved
  BY DEF IInv
<1> QED BY <1>1, Inductive, PTL

\* A timeout is reported only when no receipt was seen in time, but for calls
\* orphaned by an expired pending receipt.
THEOREM TimeoutIsHonest == Spec => []TimeoutMeansNotSeen
<1>1. IInv => TimeoutMeansNotSeen
  BY DEF IInv
<1> QED BY <1>1, Inductive, PTL

\* An expired pending receipt is the only way to wait without an entry.
THEOREM WaitersAreKnown == Spec => []WaitingIsKnown
<1>1. IInv => WaitingIsKnown
  BY DEF IInv
<1> QED BY <1>1, Inductive, PTL

-----------------------------------------------------------------------------
(* The parent's reconnect.                                                 *)

\* The goroutines that have dialled successfully, and those that hold a
\* connection whose handler is not running yet.
Dialled == {g \in Conn : retry[g].conn # None}
Starting == {g \in Conn : retry[g].pc \in {"add", "handle"}}

\* The same of the calls that reconnect.
CallDialled == {k \in Calls : caller[k].conn # None}
CallStarting == {k \in Calls : caller[k].pc \in {"add", "handle"}}

\* Connections are numbered as they are made, and NewClient makes the first.
NumberInv ==
    /\ \A c \in Conn : link[c] = "unused" <=> c > made
    /\ \A c \in Conn : handler[c] # "none" => c <= made
    /\ boot = "dial" => made = 0
    /\ boot # "dial" => made > 0
    /\ boot \in {"dial", "add", "handle"} => \A c \in Conn : handler[c] = "none"

\* A lost connection has one goroutine, which is started after the handler has
\* removed it, and which brings a connection of its own that nobody handles yet.
RetryInv ==
    /\ \A g \in Conn : retry[g].pc # "none" => handler[g] \in {"called", "left"}
    /\ \A g \in Conn : retry[g].pc \in {"none", "check", "dial"} => retry[g].conn = None
    /\ \A g \in Conn : retry[g].pc \in {"add", "handle", "target", "resub"} =>
                           retry[g].conn # None
    /\ \A g \in Starting : retry[g].conn <= made /\ handler[retry[g].conn] = "none"
    /\ \A g, h \in Starting : retry[g].conn = retry[h].conn => g = h

\* A call dials at most once, when NewClient is done, and nobody else starts a handler
\* on the connection it brings.
RequesterInv ==
    /\ \A k \in Calls : caller[k].pc # "no" => boot = "done"
    /\ \A k \in Calls : caller[k].pc \in {"no", "dial"} => caller[k].conn = None
    /\ \A k \in CallStarting : /\ caller[k].conn \in Conn /\ caller[k].conn <= made
                               /\ handler[caller[k].conn] = "none"
    /\ \A k, l \in CallStarting : caller[k].conn = caller[l].conn => k = l
    /\ \A k \in CallStarting, g \in Starting : caller[k].conn # retry[g].conn

\* The connections that broke are as many as breaks says.  Until Close, only they
\* lose their handlers, and only their goroutines dial.
BrokenInv(B) ==
    /\ Cardinality(B) = breaks
    /\ \A c \in Conn : link[c] = "broken" => c \in B
    /\ \A c \in Conn : link[c] \in {"unused", "up"} => c \notin B
    /\ \A c \in Conn : (~stopped /\ handler[c] \in {"removed", "called", "left"}) => c \in B
    /\ \A g \in Conn : retry[g].pc = "dial" \/ retry[g].conn # None => g \in B

\* The connections to the parent: the first one, one for each that broke, and one for
\* each call that reconnected.
CountInv ==
    /\ toParent \subseteq 1..made
    /\ Cardinality((1..made) \ toParent) <= MaxOthers
    /\ Cardinality(toParent) = Cardinality(Dialled) + Cardinality(CallDialled)
                                  + (IF boot = "dial" THEN 0 ELSE 1)
    /\ \E B \in SUBSET Conn : BrokenInv(B)

ReconnectInv ==
    /\ ReconnectTypeOK /\ NumberInv /\ RetryInv /\ RequesterInv /\ CountInv
    /\ ParentIsWatched

-----------------------------------------------------------------------------
\* The numbers of connections.
LEMMA ConnNumbers == Cardinality(Calls) \in Nat /\ IsFiniteSet(Conn) /\ 1 \in Conn
<1> USE ReconnectAssumption
<1>1. Cardinality(Calls) \in Nat
  BY FS_CardinalityType
<1>2. 1 + MaxOthers + MaxBreaks + Cardinality(Calls) \in Nat \ {0}
  BY <1>1
<1> QED BY <1>1, <1>2, FS_Interval DEF Conn

\* Each connection that a goroutine brings replaces one that broke.
LEMMA DialledBound ==
    ASSUME ReconnectTypeOK, CountInv
    PROVE  /\ IsFiniteSet(Dialled) /\ Cardinality(Dialled) <= breaks
           /\ \A g \in Conn : (retry[g].pc = "dial" /\ retry[g].conn = None) =>
                  Cardinality(Dialled) < breaks
<1> USE ReconnectAssumption
<1>1. PICK B \in SUBSET Conn : BrokenInv(B)
  BY DEF CountInv
<1>2. IsFiniteSet(Conn)
  BY ConnNumbers
<1>3. IsFiniteSet(B) /\ Cardinality(B) \in Nat
  BY <1>2, FS_Subset, FS_CardinalityType
<1>4. Dialled \subseteq B
  BY <1>1 DEF Dialled, BrokenInv
<1>5. IsFiniteSet(Dialled) /\ Cardinality(Dialled) <= Cardinality(B)
  BY <1>3, <1>4, FS_Subset
<1>6. ASSUME NEW g \in Conn, retry[g].pc = "dial", retry[g].conn = None
      PROVE  Cardinality(Dialled) < breaks
  <2>1. g \in B /\ g \notin Dialled
    BY <1>1, <1>6 DEF BrokenInv, Dialled
  <2>2. Cardinality(Dialled \cup {g}) = Cardinality(Dialled) + 1
    BY <1>5, <2>1, FS_AddElement
  <2>3. Cardinality(Dialled \cup {g}) <= Cardinality(B)
    BY <1>3, <1>4, <2>1, FS_Subset
  <2>4. Cardinality(Dialled) \in Nat
    BY <1>5, FS_CardinalityType
  <2> QED BY <1>1, <1>3, <2>2, <2>3, <2>4 DEF BrokenInv
<1> QED BY <1>1, <1>5, <1>6 DEF BrokenInv

\* The calls are finitely many, and one that is about to dial has not dialled yet.
LEMMA CallDialledBound ==
    ASSUME RequesterInv
    PROVE  /\ IsFiniteSet(CallDialled) /\ Cardinality(CallDialled) \in Nat
           /\ Cardinality(Calls) \in Nat /\ Cardinality(CallDialled) <= Cardinality(Calls)
           /\ \A k \in Calls : caller[k].pc = "dial" =>
                  Cardinality(CallDialled) < Cardinality(Calls)
<1> USE ReconnectAssumption
<1>1. CallDialled \subseteq Calls /\ IsFiniteSet(Calls)
  BY DEF CallDialled
<1>2. IsFiniteSet(CallDialled) /\ Cardinality(CallDialled) <= Cardinality(Calls)
  BY <1>1, FS_Subset
<1>3. Cardinality(CallDialled) \in Nat /\ Cardinality(Calls) \in Nat
  BY <1>1, <1>2, FS_CardinalityType
<1>4. ASSUME NEW k \in Calls, caller[k].pc = "dial"
      PROVE  Cardinality(CallDialled) < Cardinality(Calls)
  <2>1. k \notin CallDialled
    BY <1>4 DEF RequesterInv, CallDialled
  <2>2. Cardinality(CallDialled \cup {k}) = Cardinality(CallDialled) + 1
    BY <1>2, <2>1, FS_AddElement
  <2>3. Cardinality(CallDialled \cup {k}) <= Cardinality(Calls)
    BY <1>1, FS_Subset
  <2> QED BY <1>3, <2>2, <2>3
<1> QED BY <1>2, <1>3, <1>4

\* What is left of a finite set without one of its subsets.
LEMMA RestCount ==
    ASSUME NEW S, IsFiniteSet(S), NEW T, T \subseteq S
    PROVE  Cardinality(S \ T) = Cardinality(S) - Cardinality(T)
<1>1. S \cap T = T
  OBVIOUS
<1>2. Cardinality(S \ T) = Cardinality(S) - Cardinality(S \cap T)
  BY FS_Difference
<1> QED BY <1>1, <1>2

\* The connections made are those to the parent and the others.
LEMMA MadeIsSum ==
    ASSUME ReconnectTypeOK, CountInv
    PROVE  /\ IsFiniteSet(toParent) /\ Cardinality(toParent) \in Nat
           /\ IsFiniteSet((1..made) \ toParent)
           /\ Cardinality((1..made) \ toParent) \in Nat
           /\ made = Cardinality(toParent) + Cardinality((1..made) \ toParent)
<1> USE ReconnectAssumption
<1>1. made \in Nat
  BY DEF ReconnectTypeOK
<1>2. IsFiniteSet(1..made) /\ Cardinality(1..made) = made
  BY <1>1, FS_Interval
<1>3. toParent \subseteq 1..made
  BY DEF CountInv
<1>4. IsFiniteSet(toParent) /\ IsFiniteSet((1..made) \ toParent)
  BY <1>2, <1>3, FS_Subset
<1>5. Cardinality(toParent) \in Nat /\ Cardinality((1..made) \ toParent) \in Nat
  BY <1>4, FS_CardinalityType
<1>6. Cardinality((1..made) \ toParent) = Cardinality(1..made) - Cardinality(toParent)
  BY <1>2, <1>3, RestCount
<1>7. Cardinality((1..made) \ toParent) = made - Cardinality(toParent)
  BY <1>2, <1>6
<1> QED BY <1>1, <1>4, <1>5, <1>7

\* There is a number for every connection that is made.
LEMMA RoomForNew ==
    ASSUME ReconnectInv,
           \/ BootDial \/ OpenOther \/ (\E g \in Conn : RetryDial(g))
           \/ \E k \in Calls : CallDial(k)
    PROVE  Fresh \in Conn
<1> USE ReconnectAssumption
<1> DEFINE o == Cardinality((1..made) \ toParent)
           p == Cardinality(toParent)
           d == Cardinality(Dialled)
           e == Cardinality(CallDialled)
           n == Cardinality(Calls)
<1>1. ReconnectTypeOK /\ RequesterInv /\ CountInv
  BY DEF ReconnectInv
<1>2. /\ o \in Nat /\ p \in Nat /\ made = p + o /\ made \in Nat
      /\ o <= MaxOthers /\ breaks \in Nat /\ breaks <= MaxBreaks
  BY <1>1, MadeIsSum DEF ReconnectTypeOK, CountInv
<1>3. d \in Nat /\ d <= breaks
  BY <1>1, DialledBound, FS_CardinalityType
<1>3a. e \in Nat /\ n \in Nat /\ e <= n
  BY <1>1, CallDialledBound
<1>4. p <= d + e + 1
  BY <1>1, <1>3, <1>3a DEF CountInv
<1>5. CASE BootDial
  <2>1. made = 0
    BY <1>5 DEF BootDial, ReconnectInv, NumberInv
  <2> QED BY <1>3a, <2>1 DEF Fresh, Conn
<1>6. CASE OpenOther
  <2>1. o < MaxOthers
    BY <1>6 DEF OpenOther
  <2> HIDE DEF o, p, d, e, n
  <2>2. 1 + MaxOthers + MaxBreaks + n \in Nat /\ Fresh <= 1 + MaxOthers + MaxBreaks + n
    BY <1>2, <1>3, <1>3a, <1>4, <2>1 DEF Fresh
  <2> QED BY <1>2, <2>2 DEF Fresh, Conn, n
<1>7. ASSUME NEW g \in Conn, RetryDial(g) PROVE Fresh \in Conn
  <2>1. retry[g].pc = "dial"
    BY <1>7 DEF RetryDial
  <2>2. retry[g].conn = None
    BY <2>1 DEF ReconnectInv, RetryInv
  <2>3. d < breaks
    BY <1>1, <2>1, <2>2, DialledBound
  <2> HIDE DEF o, p, d, e, n
  <2>4. 1 + MaxOthers + MaxBreaks + n \in Nat /\ Fresh <= 1 + MaxOthers + MaxBreaks + n
    BY <1>2, <1>3, <1>3a, <1>4, <2>3 DEF Fresh
  <2> QED BY <1>2, <2>4 DEF Fresh, Conn, n
<1>8. ASSUME NEW k \in Calls, CallDial(k) PROVE Fresh \in Conn
  <2>1. e < n
    BY <1>1, <1>8, CallDialledBound DEF CallDial
  <2> HIDE DEF o, p, d, e, n
  <2>2. 1 + MaxOthers + MaxBreaks + n \in Nat /\ Fresh <= 1 + MaxOthers + MaxBreaks + n
    BY <1>2, <1>3, <1>3a, <1>4, <2>1 DEF Fresh
  <2> QED BY <1>2, <2>2 DEF Fresh, Conn, n
<1> QED BY <1>5, <1>6, <1>7, <1>8

\* Type correctness, the bound on the connections included.
LEMMA ReconnectType ==
    ASSUME ReconnectInv, [ReconnectNext]_reconnectVars PROVE ReconnectTypeOK'
<1> USE ReconnectAssumption
<1> DEFINE R == [pc : {"none", "check", "dial", "add", "handle", "target", "resub", "end"},
                 conn : Conn \cup {None}]
           Q == [pc : {"no", "dial", "add", "handle", "done"}, conn : Conn \cup {None}]
<1>0. /\ ReconnectTypeOK /\ retry \in [Conn -> R] /\ made \in Nat
  BY DEF ReconnectInv, ReconnectTypeOK
<1>1. ASSUME NEW g \in Conn, NEW v \in R, retry' = [retry EXCEPT ![g] = v]
      PROVE  retry' \in [Conn -> R]
  BY <1>0, <1>1
<1>2. ASSUME NEW g \in Conn, NEW to \in {"check", "dial", "handle", "target", "end"},
             retry' = [retry EXCEPT ![g].pc = to]
      PROVE  retry' \in [Conn -> R]
  BY <1>0, <1>2
<1>3. ASSUME Fresh \in Conn, Connects
      PROVE  /\ made' \in 0..(1 + MaxOthers + MaxBreaks + Cardinality(Calls))
             /\ link' \in [Conn -> {"unused", "up", "broken", "closed"}]
  BY <1>0, <1>3 DEF Connects, Fresh, Conn, ReconnectTypeOK
<1>4. CASE BootDial
  <2>1. Fresh \in Conn
    BY <1>4, RoomForNew
  <2> QED BY <1>0, <1>3, <1>4, <2>1 DEF BootDial, ReconnectTypeOK
<1>5. CASE OpenOther
  <2>1. Fresh \in Conn
    BY <1>5, RoomForNew
  <2> QED BY <1>0, <1>3, <1>5, <2>1 DEF OpenOther, ReconnectTypeOK
<1>6. ASSUME NEW g \in Conn, RetryDial(g) PROVE ReconnectTypeOK'
  <2>1. Fresh \in Conn
    BY <1>6, RoomForNew
  <2>2. retry' \in [Conn -> R]
    BY <1>1, <1>6, <2>1 DEF RetryDial
  <2> QED BY <1>0, <1>3, <1>6, <2>1, <2>2 DEF RetryDial, ReconnectTypeOK
<1>7. CASE BootAdd \/ BootHandle \/ BootRegister \/ Close
  <2>1. 1 \in Conn
    BY ConnNumbers
  <2> QED BY <1>0, <1>7, <2>1 DEF BootAdd, BootHandle, BootRegister, Close, ReconnectTypeOK
<1>8. ASSUME NEW c \in Conn, Break(c) PROVE ReconnectTypeOK'
  BY <1>0, <1>8 DEF Break, ReconnectTypeOK
<1>9. ASSUME NEW c \in Conn, HandlerStep(c) PROVE ReconnectTypeOK'
  <2>1. CASE HandlerLeaves(c) \/ DisconnectLast(c)
    BY <1>0, <2>1 DEF HandlerLeaves, DisconnectLast, ReconnectTypeOK
  <2>2. CASE RunCallbacks(c)
    <3>1. retry' \in [Conn -> R]
      BY <1>0, <1>2, <2>2 DEF RunCallbacks
    <3> QED BY <1>0, <2>2, <3>1 DEF RunCallbacks, ReconnectTypeOK
  <2> QED BY <1>9, <2>1, <2>2 DEF HandlerStep
<1>10. ASSUME NEW g \in Conn, RetryStep(g) PROVE ReconnectTypeOK'
  <2>1. CASE RetryCheck(g) \/ RetryDialFails(g)
    <3>1. retry' \in [Conn -> R]
      BY <1>2, <2>1 DEF RetryCheck, RetryDialFails, RetryGoes
    <3> QED BY <1>0, <2>1, <3>1 DEF RetryCheck, RetryDialFails, ReconnectTypeOK
  <2>2. CASE RetryAdd(g)
    <3>1. retry' \in [Conn -> R]
      BY <1>2, <2>2 DEF RetryAdd, RetryGoes
    <3> QED BY <1>0, <2>2, <3>1 DEF RetryAdd, ReconnectTypeOK
  <2>3. CASE RetryHandle(g)
    <3>1. retry' \in [Conn -> R]
      BY <1>2, <2>3 DEF RetryHandle, RetryGoes
    <3> QED BY <1>0, <2>3, <3>1 DEF RetryHandle, ReconnectTypeOK
  <2>4. CASE ResubTarget(g)
    <3>1. retry' \in [Conn -> R]
      <4>1. CASE parent # None /\ IsConnect(parent)
        BY <1>0, <1>1, <2>4, <4>1 DEF ResubTarget, ReconnectTypeOK
      <4>2. CASE ~(parent # None /\ IsConnect(parent))
        <5>1. retry' = [retry EXCEPT ![g] = [retry[g] EXCEPT !.pc = "end"]]
          BY <2>4, <4>2 DEF ResubTarget
        <5>2. [retry[g] EXCEPT !.pc = "end"] \in R
          BY <1>0
        <5> QED BY <1>1, <5>1, <5>2
      <4> QED BY <4>1, <4>2
    <3> QED BY <1>0, <2>4, <3>1 DEF ResubTarget, ReconnectTypeOK
  <2>5. CASE ResubSend(g)
    <3>1. retry' \in [Conn -> R]
      BY <1>2, <2>5 DEF ResubSend, RetryGoes
    <3>2. subscribed' \in [Conn -> SUBSET Addrs]
      BY <1>0, <2>5 DEF ResubSend, ReconnectTypeOK
    <3> QED BY <1>0, <2>5, <3>1, <3>2 DEF ResubSend, ReconnectTypeOK
  <2> QED BY <1>6, <1>10, <2>1, <2>2, <2>3, <2>4, <2>5 DEF RetryStep
<1>11. ASSUME NEW a \in Addrs, SubscribeAppend(a) \/ SubscribeSend(a) PROVE ReconnectTypeOK'
  BY <1>0, <1>11 DEF SubscribeAppend, SubscribeSend, ReconnectTypeOK
<1>12. CASE UNCHANGED reconnectVars
  BY <1>0, <1>12 DEF reconnectVars, ReconnectTypeOK
<1>13. ASSUME NEW k \in Calls, CallBegins(k) \/ CallStep(k) PROVE ReconnectTypeOK'
  <2>0. caller \in [Calls -> Q]
    BY <1>0 DEF ReconnectTypeOK
  <2>1. CASE CallDial(k)
    <3>1. Fresh \in Conn
      BY <2>1, RoomForNew
    <3>2. caller' \in [Calls -> Q]
      BY <2>0, <2>1, <3>1 DEF CallDial
    <3> QED BY <1>0, <1>3, <2>1, <3>1, <3>2 DEF CallDial, ReconnectTypeOK
  <2>2. ASSUME CallBegins(k) \/ CallDialFails(k) \/ CallAdd(k) \/ CallHandle(k)
        PROVE  caller' \in [Calls -> Q]
    <3>1. PICK to \in {"dial", "handle", "done"} : caller' = [caller EXCEPT ![k].pc = to]
      BY <2>2 DEF CallBegins, CallDialFails, CallAdd, CallHandle, CallGoes
    <3> QED BY <2>0, <3>1
  <2>3. CASE CallBegins(k) \/ CallDialFails(k)
    BY <1>0, <2>2, <2>3 DEF CallBegins, CallDialFails, ReconnectTypeOK
  <2>4. CASE CallAdd(k)
    <3>1. caller[k].conn \in Conn \cup {None}
      BY <2>0
    <3> QED BY <1>0, <2>2, <2>4, <3>1 DEF CallAdd, ReconnectTypeOK
  <2>5. CASE CallHandle(k)
    BY <1>0, <2>2, <2>5 DEF CallHandle, ReconnectTypeOK
  <2> QED BY <1>13, <2>1, <2>3, <2>4, <2>5 DEF CallStep
<1> QED
  BY <1>4, <1>5, <1>7, <1>8, <1>9, <1>10, <1>11, <1>12, <1>13
  DEF ReconnectNext, GoroutineStep, BootStep

\* The numbering of the connections.
LEMMA NumberStep ==
    ASSUME ReconnectInv, [ReconnectNext]_reconnectVars PROVE NumberInv'
<1> USE ReconnectAssumption
<1>0. ReconnectTypeOK /\ NumberInv /\ made \in Nat /\ Conn \subseteq Nat \ {0}
  BY DEF ReconnectInv, ReconnectTypeOK, Conn
<1>1. ASSUME Fresh \in Conn, Connects
      PROVE  made' = made + 1 /\ \A c \in Conn : link'[c] = "unused" <=> c > made'
  BY <1>0, <1>1 DEF Connects, Fresh, ReconnectTypeOK, NumberInv
<1>2. CASE BootDial
  <2>1. Fresh \in Conn
    BY <1>2, RoomForNew
  <2> QED BY <1>0, <1>1, <1>2, <2>1 DEF BootDial, NumberInv
<1>3. CASE OpenOther
  <2>1. Fresh \in Conn
    BY <1>3, RoomForNew
  <2>2. made' = made + 1 /\ \A c \in Conn : link'[c] = "unused" <=> c > made'
    BY <1>1, <1>3, <2>1 DEF OpenOther
  <2>3. \A c \in Conn : handler'[c] # "none" => c <= made'
    BY <1>0, <1>3, <2>1, <2>2 DEF OpenOther, NumberInv, ReconnectTypeOK, Fresh
  <2> QED BY <1>0, <1>3, <2>2, <2>3 DEF OpenOther, NumberInv
<1>4. ASSUME NEW g \in Conn, RetryDial(g) PROVE NumberInv'
  <2>1. Fresh \in Conn
    BY <1>4, RoomForNew
  <2>2. handler[g] # "none"
    BY <1>4 DEF RetryDial, ReconnectInv, RetryInv
  <2> QED BY <1>0, <1>1, <1>4, <2>1, <2>2 DEF RetryDial, NumberInv
<1>5. CASE BootAdd \/ BootRegister \/ Close
  BY <1>0, <1>5 DEF BootAdd, BootRegister, Close, NumberInv
<1>6. CASE BootHandle
  BY <1>0, <1>6 DEF BootHandle, NumberInv, ReconnectTypeOK, Conn
<1>7. ASSUME NEW c \in Conn, Break(c) PROVE NumberInv'
  BY <1>0, <1>7 DEF Break, NumberInv, ReconnectTypeOK
<1>8. ASSUME NEW c \in Conn, HandlerStep(c) PROVE NumberInv'
  BY <1>0, <1>8 DEF HandlerStep, HandlerLeaves, RunCallbacks, DisconnectLast, NumberInv, ReconnectTypeOK
<1>9. ASSUME NEW g \in Conn, RetryHandle(g) PROVE NumberInv'
  <2>1. handler[g] # "none" /\ retry[g].conn <= made
    BY <1>9 DEF RetryHandle, RetryGoes, ReconnectInv, RetryInv, Starting
  <2> QED BY <1>0, <1>9, <2>1 DEF RetryHandle, NumberInv, ReconnectTypeOK
<1>10. CASE UNCHANGED <<link, handler, made, boot>>
  BY <1>0, <1>10 DEF NumberInv
<1>11. ASSUME NEW k \in Calls, CallDial(k) PROVE NumberInv'
  <2>1. Fresh \in Conn
    BY <1>11, RoomForNew
  <2>2. boot = "done"
    BY <1>11 DEF CallDial, ReconnectInv, RequesterInv
  <2> QED BY <1>0, <1>1, <1>11, <2>1, <2>2 DEF CallDial, NumberInv
<1>12. ASSUME NEW k \in Calls, CallHandle(k) PROVE NumberInv'
  <2>1. boot = "done" /\ caller[k].conn \in Conn /\ caller[k].conn <= made
    BY <1>12 DEF CallHandle, CallGoes, ReconnectInv, RequesterInv, CallStarting
  <2> QED BY <1>0, <1>12, <2>1 DEF CallHandle, NumberInv, ReconnectTypeOK
<1> QED
  BY <1>2, <1>3, <1>4, <1>5, <1>6, <1>7, <1>8, <1>9, <1>10, <1>11, <1>12
  DEF ReconnectNext, GoroutineStep, BootStep, RetryStep, RetryCheck, RetryDialFails, RetryAdd,
      ResubTarget, ResubSend, CallBegins, CallStep, CallDialFails, CallAdd, SubscribeAppend,
      SubscribeSend, reconnectVars

\* What the goroutine of one lost connection does leaves the others alone.
LEMMA RetryInvStep ==
    ASSUME ReconnectInv, [ReconnectNext]_reconnectVars PROVE RetryInv'
<1> USE ReconnectAssumption
<1>0. /\ ReconnectTypeOK /\ NumberInv /\ RetryInv /\ RequesterInv
      /\ made \in Nat /\ Conn \subseteq Nat \ {0}
      /\ \A g \in Conn : /\ retry[g].conn \in Nat
                         /\ retry[g].conn # None => retry[g].conn \in Conn
      /\ retry \in [Conn -> [pc : {"none", "check", "dial", "add", "handle", "target",
                                   "resub", "end"}, conn : Conn \cup {None}]]
      /\ handler \in [Conn -> {"none", "run", "removed", "called", "left"}]
  BY DEF ReconnectInv, ReconnectTypeOK, Conn, None
<1>1. CASE UNCHANGED <<retry, handler, made>>
  BY <1>0, <1>1 DEF RetryInv, Starting
<1>2. CASE BootDial
  BY <1>0, <1>2 DEF BootDial, RetryInv, Starting, Connects, Fresh
<1>3. CASE BootHandle
  <2>1. \A g \in Conn : retry[g].pc = "none"
    BY <1>0, <1>3 DEF BootHandle, NumberInv, RetryInv
  <2> QED BY <1>0, <1>3, <2>1 DEF BootHandle, RetryInv, Starting
<1>4. CASE OpenOther
  <2>1. Fresh \in Conn /\ Fresh > made /\ made' = made + 1
    BY <1>0, <1>4, RoomForNew DEF Fresh, OpenOther, Connects
  <2>2. \A c \in Conn : c # Fresh => handler'[c] = handler[c]
    BY <1>0, <1>4, <2>1 DEF OpenOther
  <2>3. \A g \in Conn : retry[g].pc # "none" => g # Fresh
    BY <1>0, <2>1 DEF RetryInv, NumberInv
  <2>4. \A g \in Starting : retry[g].conn # Fresh /\ retry[g].conn \in Conn
    BY <1>0, <2>1 DEF RetryInv, Starting
  <2>5. retry' = retry
    BY <1>4 DEF OpenOther
  <2> QED BY <1>0, <2>1, <2>2, <2>3, <2>4, <2>5 DEF RetryInv, Starting
<1>5. ASSUME NEW c \in Conn, HandlerStep(c) PROVE RetryInv'
  <2>1. \A g \in Starting : retry[g].conn # c
    BY <1>0, <1>5 DEF RetryInv, HandlerStep, HandlerLeaves, RunCallbacks, DisconnectLast
  <2>2. CASE HandlerLeaves(c) \/ DisconnectLast(c)
    BY <1>0, <2>1, <2>2 DEF HandlerLeaves, DisconnectLast, RetryInv, Starting
  <2>3. CASE RunCallbacks(c)
    <3>1. retry[c].pc = "none" /\ retry[c].conn = None
      BY <1>0, <2>3 DEF RunCallbacks, RetryInv
    <3>2. /\ \A g \in Conn : g # c => retry'[g] = retry[g] /\ handler'[g] = handler[g]
          /\ retry'[c].pc \in {"none", "check"} /\ retry'[c].conn = None
          /\ handler'[c] = "called" /\ made' = made
      BY <1>0, <2>3, <3>1 DEF RunCallbacks
    <3>3. Starting' \subseteq Starting /\ c \notin Starting'
      BY <3>2 DEF Starting
    <3>4. \A g \in Starting' : retry'[g] = retry[g] /\ g \in Conn
      BY <3>2, <3>3 DEF Starting
    <3>5. \A g \in Starting' : retry'[g].conn <= made' /\ handler'[retry'[g].conn] = "none"
      <4> SUFFICES ASSUME NEW g \in Starting'
                   PROVE  retry'[g].conn <= made' /\ handler'[retry'[g].conn] = "none"
        OBVIOUS
      <4>1. g \in Starting /\ retry'[g].conn = retry[g].conn /\ g \in Conn
        BY <3>3, <3>4
      <4>2. retry[g].conn \in Conn /\ retry[g].conn # c
        BY <1>0, <2>1, <4>1 DEF RetryInv, Starting
      <4> QED BY <1>0, <3>2, <4>1, <4>2 DEF RetryInv
    <3>6. \A g, h \in Starting' : retry'[g].conn = retry'[h].conn => g = h
      BY <1>0, <3>3, <3>4 DEF RetryInv
    <3>7. \A g \in Conn : retry'[g].pc # "none" => handler'[g] \in {"called", "left"}
      BY <1>0, <3>2 DEF RetryInv
    <3>8. \A g \in Conn : retry'[g].pc \in {"none", "check", "dial"} => retry'[g].conn = None
      BY <1>0, <3>2 DEF RetryInv
    <3>9. \A g \in Conn : retry'[g].pc \in {"add", "handle", "target", "resub"} =>
                              retry'[g].conn # None
      BY <1>0, <3>2 DEF RetryInv
    <3> QED BY <3>5, <3>6, <3>7, <3>8, <3>9 DEF RetryInv
  <2> QED BY <1>5, <2>2, <2>3 DEF HandlerStep
<1>6. ASSUME NEW g \in Conn, RetryStep(g) PROVE RetryInv'
  <2>1. CASE RetryCheck(g) \/ RetryDialFails(g) \/ ResubSend(g) \/ ResubTarget(g)
    <3>1. /\ \A h \in Conn : h # g => retry'[h] = retry[h]
          /\ UNCHANGED <<handler, made>> /\ retry[g].pc # "none"
      BY <1>0, <2>1 DEF RetryCheck, RetryDialFails, ResubSend, ResubTarget, RetryGoes
    <3>2. \/ retry'[g].pc \in {"check", "dial"} /\ retry'[g].conn = None
          \/ retry'[g].pc = "end"
          \/ retry'[g].pc = "resub" /\ retry'[g].conn # None
      <4>1. CASE RetryCheck(g)
        BY <1>0, <4>1 DEF RetryCheck, RetryGoes, RetryInv
      <4>2. CASE RetryDialFails(g)
        BY <1>0, <4>2 DEF RetryDialFails, RetryGoes, RetryInv
      <4>3. CASE ResubSend(g)
        BY <1>0, <4>3 DEF ResubSend, RetryGoes, RetryInv
      <4>4. CASE ResubTarget(g)
        <5>1. CASE parent # None /\ IsConnect(parent)
          BY <1>0, <4>4, <5>1 DEF ResubTarget
        <5>2. CASE ~(parent # None /\ IsConnect(parent))
          BY <1>0, <4>4, <5>2 DEF ResubTarget
        <5> QED BY <5>1, <5>2
      <4> QED BY <2>1, <4>1, <4>2, <4>3, <4>4
    <3> QED BY <1>0, <3>1, <3>2 DEF RetryInv, Starting
  <2>2. CASE RetryDial(g)
    <3>0. Fresh \in Conn
      BY <2>2, RoomForNew
    <3>1. Fresh \in Conn /\ Fresh > made /\ made' = made + 1 /\ Fresh # None
      BY <1>0, <2>2, <3>0 DEF Fresh, RetryDial, Connects, None
    <3>2. /\ \A h \in Conn : h # g => retry'[h] = retry[h]
          /\ retry'[g] = [pc |-> "add", conn |-> Fresh] /\ handler' = handler
          /\ retry[g].pc # "none"
      BY <1>0, <2>2 DEF RetryDial
    <3>3. handler[Fresh] = "none" /\ \A h \in Starting : retry[h].conn # Fresh
      BY <1>0, <3>1 DEF NumberInv, RetryInv, Starting
    <3>4. \A h \in Starting' : h \in Conn /\ (h # g => h \in Starting)
      BY <3>2 DEF Starting
    <3>5. \A h \in Starting' : retry'[h].conn <= made' /\ handler'[retry'[h].conn] = "none"
      <4>1. Fresh <= made'
        BY <1>0, <3>1 DEF Fresh
      <4>2. \A h \in Starting : retry[h].conn <= made /\ retry[h].conn \in Nat
        BY <1>0 DEF RetryInv, Starting
      <4>3. \A h \in Starting : retry[h].conn <= made'
        BY <1>0, <3>1, <4>2
      <4>4. \A h \in Starting : handler[retry[h].conn] = "none"
        BY <1>0 DEF RetryInv
      <4>5. retry'[g].conn = Fresh /\ \A h \in Conn : h # g => retry'[h].conn = retry[h].conn
        BY <3>2
      <4> QED BY <3>2, <3>3, <3>4, <4>1, <4>3, <4>4, <4>5
    <3>6. \A h, k \in Starting' : retry'[h].conn = retry'[k].conn => h = k
      <4>1. retry'[g].conn = Fresh /\ \A h \in Conn : h # g => retry'[h].conn = retry[h].conn
        BY <3>2
      <4>2. \A h, k \in Starting : retry[h].conn = retry[k].conn => h = k
        BY <1>0 DEF RetryInv
      <4> QED BY <3>3, <3>4, <4>1, <4>2
    <3>7. \A h \in Conn : retry'[h].pc # "none" => handler'[h] \in {"called", "left"}
      BY <1>0, <3>2 DEF RetryInv
    <3>8. \A h \in Conn :
             /\ retry'[h].pc \in {"none", "check", "dial"} => retry'[h].conn = None
             /\ retry'[h].pc \in {"add", "handle", "target", "resub"} => retry'[h].conn # None
      BY <1>0, <3>1, <3>2 DEF RetryInv
    <3> QED BY <3>5, <3>6, <3>7, <3>8 DEF RetryInv
  <2>3. CASE RetryAdd(g)
    <3>1. /\ \A h \in Conn : h # g => retry'[h] = retry[h]
          /\ retry'[g].pc = "handle" /\ retry'[g].conn = retry[g].conn
          /\ retry[g].pc = "add" /\ UNCHANGED <<handler, made>>
      BY <1>0, <2>3 DEF RetryAdd, RetryGoes
    <3>2. Starting' = Starting /\ \A h \in Conn : retry'[h].conn = retry[h].conn
      BY <3>1 DEF Starting
    <3>3. \A h \in Starting : h \in Conn
      BY DEF Starting
    <3>4. \A h \in Starting' : retry'[h].conn <= made' /\ handler'[retry'[h].conn] = "none"
      <4>1. \A h \in Starting : retry[h].conn <= made /\ handler[retry[h].conn] = "none"
        BY <1>0 DEF RetryInv
      <4> QED BY <3>1, <3>2, <3>3, <4>1
    <3>5. \A h, k \in Starting' : retry'[h].conn = retry'[k].conn => h = k
      <4>1. \A h, k \in Starting : retry[h].conn = retry[k].conn => h = k
        BY <1>0 DEF RetryInv
      <4> QED BY <3>2, <3>3, <4>1
    <3>6. \A h \in Conn :
             /\ retry'[h].pc # "none" => handler'[h] \in {"called", "left"}
             /\ retry'[h].pc \in {"none", "check", "dial"} => retry'[h].conn = None
             /\ retry'[h].pc \in {"add", "handle", "target", "resub"} => retry'[h].conn # None
      <4>1. ASSUME NEW h \in Conn
            PROVE  /\ retry[h].pc # "none" => handler[h] \in {"called", "left"}
                   /\ retry[h].pc \in {"none", "check", "dial"} => retry[h].conn = None
                   /\ retry[h].pc \in {"add", "handle", "target", "resub"} => retry[h].conn # None
        BY <1>0 DEF RetryInv
      <4> QED BY <3>1, <4>1
    <3> QED BY <3>4, <3>5, <3>6 DEF RetryInv
  <2>4. CASE RetryHandle(g)
    <3>1. /\ \A h \in Conn : h # g => retry'[h] = retry[h]
          /\ retry'[g].pc \in {"end", "target"} /\ retry'[g].conn = retry[g].conn
          /\ retry[g].pc = "handle" /\ made' = made
      BY <1>0, <2>4 DEF RetryHandle, RetryGoes
    <3>2. retry[g].conn \in Conn /\ handler[retry[g].conn] = "none"
      BY <1>0, <3>1 DEF RetryInv, Starting
    <3>3. \A c \in Conn : c # retry[g].conn => handler'[c] = handler[c]
      BY <1>0, <2>4, <3>2 DEF RetryHandle
    <3>4. \A h \in Conn : retry[h].pc # "none" => handler'[h] = handler[h]
      BY <1>0, <3>2, <3>3 DEF RetryInv
    <3>5. \A h \in Starting : h # g => handler'[retry[h].conn] = "none"
      BY <1>0, <3>1, <3>3 DEF RetryInv, Starting
    <3> QED BY <1>0, <3>1, <3>4, <3>5 DEF RetryInv, Starting
  <2> QED BY <1>6, <2>1, <2>2, <2>3, <2>4 DEF RetryStep
<1>7. ASSUME NEW k \in Calls, CallDial(k) PROVE RetryInv'
  BY <1>0, <1>7 DEF CallDial, RetryInv, Starting, Connects, Fresh
<1>8. ASSUME NEW k \in Calls, CallHandle(k) PROVE RetryInv'
  <2>1. /\ caller[k].conn \in Conn /\ handler[caller[k].conn] = "none"
        /\ \A g \in Starting : retry[g].conn # caller[k].conn /\ retry[g].conn \in Conn
    BY <1>0, <1>8 DEF CallHandle, CallGoes, RequesterInv, CallStarting, RetryInv, Starting
  <2>2. /\ \A c \in Conn : c # caller[k].conn => handler'[c] = handler[c]
        /\ UNCHANGED <<retry, made>>
    BY <1>0, <1>8, <2>1 DEF CallHandle
  <2>3. Starting' = Starting
    BY <2>2 DEF Starting
  <2>4. \A g \in Conn : retry'[g].pc # "none" => handler'[g] \in {"called", "left"}
    BY <1>0, <2>1, <2>2 DEF RetryInv
  <2>5. \A g \in Starting' : retry'[g].conn <= made' /\ handler'[retry'[g].conn] = "none"
    BY <1>0, <2>1, <2>2, <2>3 DEF RetryInv
  <2>6. \A g, h \in Starting' : retry'[g].conn = retry'[h].conn => g = h
    <3>1. \A g, h \in Starting : retry[g].conn = retry[h].conn => g = h
      BY <1>0 DEF RetryInv
    <3> QED BY <2>2, <2>3, <3>1
  <2>7. \A g \in Conn :
           /\ retry'[g].pc \in {"none", "check", "dial"} => retry'[g].conn = None
           /\ retry'[g].pc \in {"add", "handle", "target", "resub"} => retry'[g].conn # None
    BY <1>0, <2>2 DEF RetryInv
  <2> QED BY <2>4, <2>5, <2>6, <2>7 DEF RetryInv
<1> QED
  BY <1>1, <1>2, <1>3, <1>4, <1>5, <1>6, <1>7, <1>8
  DEF ReconnectNext, GoroutineStep, BootStep, BootAdd, BootRegister, Close, Break, CallBegins, CallStep,
      CallDialFails, CallAdd, SubscribeAppend, SubscribeSend, reconnectVars

\* A call's connection is its own until its handler is started.
LEMMA RequesterInvStep ==
    ASSUME ReconnectInv, [ReconnectNext]_reconnectVars PROVE RequesterInv'
<1> USE ReconnectAssumption
<1>0. /\ NumberInv /\ RetryInv /\ RequesterInv /\ made \in Nat /\ Conn \subseteq Nat \ {0}
      /\ \A g \in Starting : retry[g].conn \in Conn
      /\ retry \in [Conn -> [pc : {"none", "check", "dial", "add", "handle", "target",
                                   "resub", "end"}, conn : Conn \cup {None}]]
      /\ caller \in [Calls -> [pc : {"no", "dial", "add", "handle", "done"},
                               conn : Conn \cup {None}]]
      /\ handler \in [Conn -> {"none", "run", "removed", "called", "left"}]
  BY DEF ReconnectInv, ReconnectTypeOK, Conn, None, RetryInv, Starting
<1>1. ASSUME UNCHANGED caller, boot = "done" => boot' = "done", made' \in Nat, made' >= made,
             \A g \in Starting' : \/ g \in Starting /\ retry'[g].conn = retry[g].conn
                                 \/ retry'[g].conn > made,
             \A k \in CallStarting : handler'[caller[k].conn] = "none"
      PROVE  RequesterInv'
  <2>1. CallStarting' = CallStarting /\ CallStarting \subseteq Calls
    BY <1>1 DEF CallStarting
  <2>2. \A k \in CallStarting : /\ caller[k].conn \in Conn /\ caller[k].conn \in Nat
                                /\ caller[k].conn <= made
    BY <1>0 DEF RequesterInv
  <2>3. \A k \in CallStarting', g \in Starting' : caller'[k].conn # retry'[g].conn
    <3> SUFFICES ASSUME NEW k \in CallStarting, NEW g \in Starting'
                 PROVE  caller[k].conn # retry'[g].conn
      BY <1>1, <2>1
    <3>1. CASE g \in Starting /\ retry'[g].conn = retry[g].conn
      BY <1>0, <3>1 DEF RequesterInv
    <3>2. CASE retry'[g].conn > made
      BY <1>0, <2>2, <3>2
    <3> QED BY <1>1, <3>1, <3>2
  <2>4. \A k \in CallStarting' : /\ caller'[k].conn \in Conn /\ caller'[k].conn <= made'
                                 /\ handler'[caller'[k].conn] = "none"
    <3> SUFFICES ASSUME NEW k \in CallStarting
                 PROVE  /\ caller[k].conn \in Conn /\ caller[k].conn <= made'
                        /\ handler'[caller[k].conn] = "none"
      BY <1>1, <2>1
    <3>1. caller[k].conn <= made'
      BY <1>0, <1>1, <2>2
    <3> QED BY <1>1, <2>2, <3>1
  <2> QED BY <1>0, <1>1, <2>1, <2>3, <2>4 DEF RequesterInv
<1>2. CASE UNCHANGED <<caller, retry, handler, made, boot>>
  BY <1>0, <1>2 DEF RequesterInv, CallStarting, Starting
<1>3. CASE BootStep
  <2>1. \A k \in Calls : caller[k].pc = "no"
    BY <1>0, <1>3 DEF BootStep, BootDial, BootAdd, BootHandle, BootRegister, RequesterInv
  <2>2. CallStarting = {} /\ CallStarting' = {} /\ caller' = caller
    BY <1>3, <2>1 DEF CallStarting, BootStep, BootDial, BootAdd, BootHandle, BootRegister
  <2> QED BY <1>0, <2>1, <2>2 DEF RequesterInv
<1>4. CASE OpenOther
  <2>1. Fresh \in Conn /\ made' = made + 1
    BY <1>4, RoomForNew DEF Fresh, OpenOther, Connects
  <2>2. \A k \in CallStarting : caller[k].conn # Fresh /\ handler'[caller[k].conn] = "none"
    BY <1>0, <1>4, <2>1 DEF RequesterInv, Fresh, OpenOther
  <2>3. UNCHANGED <<caller, retry, boot>> /\ Starting' = Starting
    BY <1>4 DEF OpenOther, Starting
  <2> QED BY <1>0, <1>1, <2>1, <2>2, <2>3
<1>5. ASSUME NEW c \in Conn, HandlerStep(c) PROVE RequesterInv'
  <2>1. handler[c] # "none" /\ UNCHANGED <<caller, boot, made>>
    BY <1>5 DEF HandlerStep, HandlerLeaves, RunCallbacks, DisconnectLast
  <2>2. \A x \in Conn : x # c => handler'[x] = handler[x]
    BY <1>0, <1>5 DEF HandlerStep, HandlerLeaves, RunCallbacks, DisconnectLast
  <2>3. \A k \in CallStarting : handler'[caller[k].conn] = "none"
    BY <1>0, <2>1, <2>2 DEF RequesterInv
  <2>4. \A g \in Starting' : g \in Starting /\ retry'[g].conn = retry[g].conn
    BY <1>0, <1>5 DEF HandlerStep, HandlerLeaves, RunCallbacks, DisconnectLast, Starting
  <2> QED BY <1>0, <1>1, <2>1, <2>3, <2>4
<1>6. ASSUME NEW g \in Conn, RetryStep(g) PROVE RequesterInv'
  <2>1. CASE RetryDial(g)
    <3>1. /\ made' = made + 1 /\ UNCHANGED <<caller, boot, handler>>
          /\ retry' = [retry EXCEPT ![g] = [pc |-> "add", conn |-> made + 1]]
      BY <2>1 DEF RetryDial, Connects, Fresh
    <3>2. \A h \in Starting' : \/ h \in Starting /\ retry'[h].conn = retry[h].conn
                               \/ retry'[h].conn > made
      BY <1>0, <3>1 DEF Starting
    <3> QED BY <1>0, <1>1, <3>1, <3>2 DEF RequesterInv
  <2>2. CASE RetryHandle(g)
    <3>1. retry[g].conn \in Conn /\ UNCHANGED <<caller, boot, made>> /\ g \in Starting
      BY <1>0, <2>2 DEF RetryHandle, RetryGoes, Starting
    <3>2. \A h \in Starting' : h \in Starting /\ retry'[h].conn = retry[h].conn
      BY <1>0, <2>2 DEF RetryHandle, RetryGoes, Starting
    <3>3. \A k \in CallStarting : handler'[caller[k].conn] = "none"
      BY <1>0, <2>2, <3>1 DEF RequesterInv, RetryHandle
    <3> QED BY <1>0, <1>1, <3>1, <3>2, <3>3
  <2>3. CASE RetryCheck(g) \/ RetryDialFails(g) \/ RetryAdd(g) \/ ResubTarget(g) \/ ResubSend(g)
    <3>1. UNCHANGED <<caller, boot, made, handler>>
      BY <2>3 DEF RetryCheck, RetryDialFails, RetryAdd, ResubTarget, ResubSend
    <3>2. \A h \in Starting' : h \in Starting /\ retry'[h].conn = retry[h].conn
      <4>1. CASE RetryCheck(g) \/ RetryDialFails(g) \/ RetryAdd(g) \/ ResubSend(g)
        BY <1>0, <4>1 DEF RetryCheck, RetryDialFails, RetryAdd, ResubSend, RetryGoes, Starting
      <4>2. CASE ResubTarget(g)
        <5>1. /\ \A h \in Conn : h # g => retry'[h] = retry[h]
              /\ retry'[g].pc \in {"resub", "end"}
          <6>1. CASE parent # None /\ IsConnect(parent)
            BY <1>0, <4>2, <6>1 DEF ResubTarget
          <6>2. CASE ~(parent # None /\ IsConnect(parent))
            BY <1>0, <4>2, <6>2 DEF ResubTarget
          <6> QED BY <6>1, <6>2
        <5> QED BY <5>1 DEF Starting
      <4> QED BY <2>3, <4>1, <4>2
    <3> QED BY <1>0, <1>1, <3>1, <3>2 DEF RequesterInv
  <2> QED BY <1>6, <2>1, <2>2, <2>3 DEF RetryStep
<1>7. ASSUME NEW k \in Calls, CallBegins(k) \/ CallDialFails(k) PROVE RequesterInv'
  <2>1. /\ boot = "done" /\ UNCHANGED <<retry, handler, made, boot>>
        /\ caller[k].pc \in {"no", "dial"} /\ caller[k].conn = None
    BY <1>0, <1>7 DEF CallBegins, CallDialFails, CallGoes, RequesterInv
  <2>2. /\ \A l \in Calls : l # k => caller'[l] = caller[l]
        /\ caller'[k].pc \in {"dial", "done"} /\ caller'[k].conn = None
    BY <1>0, <1>7, <2>1 DEF CallBegins, CallDialFails, CallGoes
  <2>3. CallStarting' = CallStarting /\ Starting' = Starting /\ k \notin CallStarting
    BY <2>1, <2>2 DEF CallStarting, Starting
  <2>4. \A l \in CallStarting : caller'[l] = caller[l]
    BY <2>2, <2>3 DEF CallStarting
  <2> QED BY <1>0, <2>1, <2>2, <2>3, <2>4 DEF RequesterInv
<1>8. ASSUME NEW k \in Calls, CallDial(k) PROVE RequesterInv'
  <2>0. Fresh \in Conn
    BY <1>8, RoomForNew
  <2>1. /\ Fresh = made + 1 /\ made' = made + 1 /\ UNCHANGED <<retry, handler, boot>>
        /\ \A l \in Calls : l # k => caller'[l] = caller[l]
        /\ caller'[k] = [pc |-> "add", conn |-> Fresh] /\ caller[k].pc = "dial"
    BY <1>0, <1>8 DEF CallDial, Connects, Fresh
  <2>2. /\ CallStarting' = CallStarting \cup {k} /\ Starting' = Starting /\ k \notin CallStarting
        /\ CallStarting \subseteq Calls
    BY <2>1 DEF CallStarting, Starting
  <2>3. \A l \in CallStarting : /\ caller'[l] = caller[l] /\ caller[l].conn \in Conn
                                /\ caller[l].conn # Fresh /\ caller[l].conn <= made'
                                /\ handler[caller[l].conn] = "none"
    <3>1. \A l \in CallStarting : /\ caller[l].conn \in Conn /\ caller[l].conn <= made
                                  /\ handler[caller[l].conn] = "none"
      BY <1>0 DEF RequesterInv
    <3>2. \A c \in Conn : c <= made => c # Fresh /\ c <= made'
      BY <1>0, <2>1
    <3> QED BY <2>1, <2>2, <3>1, <3>2
  <2>4. handler[Fresh] = "none" /\ Fresh <= made'
    BY <1>0, <2>0, <2>1 DEF NumberInv
  <2>5. \A g \in Starting : retry[g].conn # Fresh
    BY <1>0, <2>1 DEF RetryInv
  <2>6. boot = "done"
    BY <1>0, <2>1 DEF RequesterInv
  <2>7. \A l, j \in CallStarting' : caller'[l].conn = caller'[j].conn => l = j
    <3>1. \A l, j \in CallStarting : caller[l].conn = caller[j].conn => l = j
      BY <1>0 DEF RequesterInv
    <3> QED BY <2>1, <2>2, <2>3, <3>1
  <2>8. \A l \in CallStarting', g \in Starting' : caller'[l].conn # retry'[g].conn
    <3>1. \A l \in CallStarting, g \in Starting : caller[l].conn # retry[g].conn
      BY <1>0 DEF RequesterInv
    <3> QED BY <2>1, <2>2, <2>3, <2>5, <3>1
  <2>9. \A l \in CallStarting' : /\ caller'[l].conn \in Conn /\ caller'[l].conn <= made'
                                 /\ handler'[caller'[l].conn] = "none"
    BY <2>0, <2>1, <2>2, <2>3, <2>4
  <2>10. \A l \in Calls : caller'[l].pc \in {"no", "dial"} => caller'[l].conn = None
    BY <1>0, <2>1 DEF RequesterInv
  <2> QED BY <2>1, <2>6, <2>7, <2>8, <2>9, <2>10 DEF RequesterInv
<1>9. ASSUME NEW k \in Calls, CallAdd(k) \/ CallHandle(k) PROVE RequesterInv'
  <2>1. /\ k \in CallStarting /\ UNCHANGED <<retry, made, boot>> /\ boot = "done"
        /\ \A l \in Calls : caller'[l].conn = caller[l].conn
        /\ \A l \in Calls : l # k => caller'[l] = caller[l]
        /\ caller'[k].pc \in {"handle", "done"}
        /\ caller'[k].pc = "handle" => UNCHANGED handler
    BY <1>0, <1>9 DEF CallAdd, CallHandle, CallGoes, CallStarting, RequesterInv
  <2>2. /\ CallStarting' \subseteq CallStarting /\ Starting' = Starting
        /\ k \in CallStarting' => UNCHANGED handler
        /\ CallStarting \subseteq Calls
    BY <2>1 DEF CallStarting, Starting
  <2>3. \A c \in Conn : c # caller[k].conn => handler'[c] = handler[c]
    BY <1>0, <1>9 DEF CallAdd, CallHandle
  <2>4. \A l \in CallStarting' : handler'[caller[l].conn] = "none"
    <3>1. \A l \in CallStarting : caller[l].conn \in Conn /\ handler[caller[l].conn] = "none"
      BY <1>0 DEF RequesterInv
    <3>2. \A l \in CallStarting : l # k => caller[l].conn # caller[k].conn
      BY <1>0, <2>1 DEF RequesterInv
    <3> QED BY <2>2, <2>3, <3>1, <3>2
  <2>5. \A l \in CallStarting' : /\ caller'[l].conn \in Conn /\ caller'[l].conn <= made'
                                 /\ handler'[caller'[l].conn] = "none"
    BY <1>0, <2>1, <2>2, <2>4 DEF RequesterInv
  <2>6. \A l, j \in CallStarting' : caller'[l].conn = caller'[j].conn => l = j
    <3>1. \A l, j \in CallStarting : caller[l].conn = caller[j].conn => l = j
      BY <1>0 DEF RequesterInv
    <3> QED BY <2>1, <2>2, <3>1
  <2>7. \A l \in CallStarting', g \in Starting' : caller'[l].conn # retry'[g].conn
    BY <1>0, <2>1, <2>2 DEF RequesterInv
  <2>8. \A l \in Calls : caller'[l].pc \in {"no", "dial"} => caller'[l].conn = None
    BY <1>0, <2>1 DEF RequesterInv
  <2> QED BY <2>1, <2>5, <2>6, <2>7, <2>8 DEF RequesterInv
<1> QED
  BY <1>2, <1>3, <1>4, <1>5, <1>6, <1>7, <1>8, <1>9
  DEF ReconnectNext, GoroutineStep, Close, Break, CallStep, SubscribeAppend, SubscribeSend, reconnectVars

\* Whoever is the parent is watched: only its own handler ends the watch.
LEMMA WatchedStep ==
    ASSUME ReconnectInv, [ReconnectNext]_reconnectVars
    PROVE  ParentIsWatched'
<1> USE ReconnectAssumption
<1>0. /\ ReconnectTypeOK /\ NumberInv /\ RetryInv /\ RequesterInv /\ ParentIsWatched
      /\ caller \in [Calls -> [pc : {"no", "dial", "add", "handle", "done"},
                               conn : Conn \cup {None}]]
      /\ \A g \in Conn : retry[g].conn # None => retry[g].conn \in Conn
      /\ retry \in [Conn -> [pc : {"none", "check", "dial", "add", "handle", "target",
                                   "resub", "end"}, conn : Conn \cup {None}]]
      /\ handler \in [Conn -> {"none", "run", "removed", "called", "left"}]
      /\ parent \in Conn \cup {None} /\ 1 \in Conn
  BY ConnNumbers DEF ReconnectInv, ReconnectTypeOK
<1>1. CASE UNCHANGED <<parent, handler, retry, caller>> /\ (boot = "handle" => boot' = "handle")
  BY <1>0, <1>1 DEF ParentIsWatched
<1>2. CASE BootAdd
  BY <1>2 DEF BootAdd, ParentIsWatched
<1>3. CASE BootHandle
  <2>1. handler'[1] = "run" /\ \A c \in Conn : handler[c] = "run" => handler'[c] = "run"
    BY <1>0, <1>3 DEF BootHandle
  <2> QED BY <1>0, <1>3, <2>1 DEF BootHandle, ParentIsWatched
<1>4. CASE OpenOther
  <2>1. \A c \in Conn : handler[c] = "run" => handler'[c] = "run"
    BY <1>0, <1>4 DEF OpenOther
  <2> QED BY <1>0, <1>4, <2>1 DEF OpenOther, ParentIsWatched
<1>5. ASSUME NEW c \in Conn, HandlerLeaves(c) PROVE ParentIsWatched'
  <2>1. /\ parent' # None => parent' = parent /\ parent # c
        /\ UNCHANGED <<retry, caller, boot>>
        /\ \A x \in Conn : x # c => handler'[x] = handler[x]
    BY <1>0, <1>5 DEF HandlerLeaves
  <2> QED BY <1>0, <2>1 DEF ParentIsWatched
<1>6. ASSUME NEW c \in Conn, RunCallbacks(c) PROVE ParentIsWatched'
  <2>1. retry[c].pc = "none"
    BY <1>0, <1>6 DEF RunCallbacks, RetryInv
  <2>2. /\ \A g \in Conn : g # c => retry'[g] = retry[g] /\ handler'[g] = handler[g]
        /\ handler[c] # "run" /\ UNCHANGED <<parent, caller, boot>>
    BY <1>0, <1>6 DEF RunCallbacks
  <2> QED BY <1>0, <2>1, <2>2 DEF ParentIsWatched
<1>7. ASSUME NEW c \in Conn, DisconnectLast(c) PROVE ParentIsWatched'
  <2>1. \A g \in Conn : handler[g] = "run" => handler'[g] = "run"
    BY <1>0, <1>7 DEF DisconnectLast
  <2> QED BY <1>0, <1>7, <2>1 DEF DisconnectLast, ParentIsWatched
<1>8. ASSUME NEW g \in Conn, RetryStep(g) PROVE ParentIsWatched'
  <2>1. CASE RetryAdd(g)
    <3>1. retry'[g].pc = "handle" /\ retry'[g].conn = parent'
      BY <1>0, <2>1 DEF RetryAdd, RetryGoes
    <3> QED BY <3>1 DEF ParentIsWatched
  <2>2. CASE RetryHandle(g)
    <3>1. /\ retry[g].conn \in Conn
          /\ \A h \in Conn : h # g => retry'[h] = retry[h]
          /\ UNCHANGED <<parent, caller, boot>>
      BY <1>0, <2>2 DEF RetryHandle, RetryGoes, RetryInv
    <3>2. /\ handler'[retry[g].conn] = "run"
          /\ \A c \in Conn : handler[c] = "run" => handler'[c] = "run"
      BY <1>0, <2>2, <3>1 DEF RetryHandle
    <3> QED BY <1>0, <3>1, <3>2 DEF ParentIsWatched
  <2>3. CASE RetryCheck(g) \/ RetryDial(g) \/ RetryDialFails(g) \/ ResubTarget(g) \/ ResubSend(g)
    <3>1. /\ retry[g].pc # "handle"
          /\ \A h \in Conn : h # g => retry'[h] = retry[h]
          /\ UNCHANGED <<parent, caller, boot, handler>>
      BY <1>0, <2>3 DEF RetryCheck, RetryDial, RetryDialFails, ResubTarget, ResubSend, RetryGoes
    <3> QED BY <1>0, <3>1 DEF ParentIsWatched
  <2> QED BY <1>8, <2>1, <2>2, <2>3 DEF RetryStep
<1>9. ASSUME NEW k \in Calls, CallBegins(k) \/ CallStep(k) PROVE ParentIsWatched'
  <2>1. CASE CallAdd(k)
    <3>1. caller'[k].pc = "handle" /\ caller'[k].conn = parent'
      BY <1>0, <2>1 DEF CallAdd, CallGoes
    <3> QED BY <3>1 DEF ParentIsWatched
  <2>2. CASE CallHandle(k)
    <3>1. /\ caller[k].conn \in Conn
          /\ \A l \in Calls : l # k => caller'[l] = caller[l]
          /\ UNCHANGED <<parent, retry, boot>>
      BY <1>0, <2>2 DEF CallHandle, CallGoes, RequesterInv, CallStarting
    <3>2. /\ handler'[caller[k].conn] = "run"
          /\ \A c \in Conn : handler[c] = "run" => handler'[c] = "run"
      BY <1>0, <2>2, <3>1 DEF CallHandle
    <3> QED BY <1>0, <3>1, <3>2 DEF ParentIsWatched
  <2>3. CASE CallBegins(k) \/ CallDial(k) \/ CallDialFails(k)
    <3>1. /\ caller[k].pc # "handle"
          /\ \A l \in Calls : l # k => caller'[l] = caller[l]
          /\ UNCHANGED <<parent, boot, handler, retry>>
      BY <1>0, <2>3 DEF CallBegins, CallDial, CallDialFails, CallGoes
    <3> QED BY <1>0, <3>1 DEF ParentIsWatched
  <2> QED BY <1>9, <2>1, <2>2, <2>3 DEF CallStep
<1> QED
  BY <1>1, <1>2, <1>3, <1>4, <1>5, <1>6, <1>7, <1>8, <1>9
  DEF ReconnectNext, GoroutineStep, BootStep, BootDial, BootRegister, Close, Break, HandlerStep,
      SubscribeAppend, SubscribeSend, reconnectVars

\* What BrokenInv says of a set carries over to a step that keeps these facts.
LEMMA BrokenKept ==
    ASSUME ReconnectTypeOK, NEW B \in SUBSET Conn, BrokenInv(B), breaks' = breaks,
           \A c \in Conn : link'[c] = "broken" => link[c] = "broken",
           \A c \in Conn : link'[c] \in {"unused", "up"} => link[c] \in {"unused", "up"},
           \A c \in Conn : (~stopped' /\ handler'[c] \in {"removed", "called", "left"}) =>
                              c \in B,
           \A g \in Conn : (retry'[g].pc = "dial" \/ retry'[g].conn # None) => g \in B
    PROVE  BrokenInv(B)'
  BY DEF BrokenInv

\* A goroutine dials only for a connection that broke, once.
LEMMA BrokenStep ==
    ASSUME ReconnectInv, [ReconnectNext]_reconnectVars
    PROVE  \E B \in SUBSET Conn : BrokenInv(B)'
<1> USE ReconnectAssumption
<1>0. /\ ReconnectTypeOK /\ NumberInv /\ RetryInv
      /\ retry \in [Conn -> [pc : {"none", "check", "dial", "add", "handle", "target",
                                   "resub", "end"}, conn : Conn \cup {None}]]
      /\ handler \in [Conn -> {"none", "run", "removed", "called", "left"}]
      /\ link \in [Conn -> {"unused", "up", "broken", "closed"}]
  BY DEF ReconnectInv, ReconnectTypeOK
<1>1. PICK B \in SUBSET Conn : BrokenInv(B)
  BY DEF ReconnectInv, CountInv
<1>2. CASE UNCHANGED <<link, breaks, handler, retry>> /\ (stopped => stopped')
  BY <1>0, <1>1, <1>2, BrokenKept DEF BrokenInv
<1>3. CASE BootDial \/ BootHandle \/ OpenOther \/ \E k \in Calls : CallDial(k) \/ CallHandle(k)
  <2>1. UNCHANGED <<retry, breaks, stopped>>
    BY <1>3 DEF BootDial, BootHandle, OpenOther, CallDial, CallHandle
  <2>2. \A c \in Conn : link'[c] = link[c] \/ (link[c] = "unused" /\ link'[c] = "up")
    <3>1. CASE BootDial \/ OpenOther \/ \E k \in Calls : CallDial(k)
      <4>1. Fresh \in Conn /\ link' = [link EXCEPT ![Fresh] = "up"]
        BY <3>1, RoomForNew DEF BootDial, OpenOther, CallDial, Connects
      <4>2. link[Fresh] = "unused"
        BY <1>0, <4>1 DEF NumberInv, Fresh, ReconnectTypeOK
      <4> QED BY <1>0, <4>1, <4>2
    <3>2. CASE BootHandle \/ \E k \in Calls : CallHandle(k)
      BY <3>2 DEF BootHandle, CallHandle
    <3> QED BY <1>3, <3>1, <3>2
  <2>3. \A c \in Conn : handler'[c] = handler[c] \/ handler'[c] = "run"
    BY <1>0, <1>3 DEF BootDial, BootHandle, OpenOther, CallDial, CallHandle
  <2> QED BY <1>0, <1>1, <2>1, <2>2, <2>3, BrokenKept DEF BrokenInv
<1>4. ASSUME NEW c \in Conn, Break(c) PROVE \E D \in SUBSET Conn : BrokenInv(D)'
  <2>1. c \notin B /\ breaks' = breaks + 1 /\ UNCHANGED <<handler, retry, stopped>>
    BY <1>1, <1>4 DEF Break, BrokenInv
  <2>2. link'[c] = "broken" /\ \A x \in Conn : x # c => link'[x] = link[x]
    BY <1>0, <1>4 DEF Break
  <2>3. IsFiniteSet(B)
    <3>1. IsFiniteSet(Conn)
      BY ConnNumbers
    <3> QED BY <3>1, FS_Subset
  <2>4. Cardinality(B \cup {c}) = breaks'
    BY <1>1, <2>1, <2>3, FS_AddElement DEF BrokenInv
  <2>5. BrokenInv(B \cup {c})'
    BY <1>0, <1>1, <2>1, <2>2, <2>4 DEF BrokenInv
  <2> QED BY <2>5
<1>5. ASSUME NEW c \in Conn, HandlerStep(c) PROVE \E D \in SUBSET Conn : BrokenInv(D)'
  <2>1. ~stopped => c \in B
    BY <1>0, <1>1, <1>5 DEF HandlerStep, HandlerLeaves, RunCallbacks, DisconnectLast, BrokenInv
  <2>2. /\ \A x \in Conn : x # c => handler'[x] = handler[x] /\ link'[x] = link[x]
        /\ UNCHANGED <<breaks, stopped>> /\ (link'[c] = link[c] \/ link'[c] = "closed")
    BY <1>0, <1>5 DEF HandlerStep, HandlerLeaves, RunCallbacks, DisconnectLast
  <2>3. \A g \in Conn : retry'[g] = retry[g] \/ (retry'[g].pc = "check" /\ retry'[g].conn = None)
    <3>1. CASE RunCallbacks(c)
      <4>1. retry[c].conn = None
        BY <1>0, <3>1 DEF RunCallbacks, RetryInv
      <4> QED BY <1>0, <3>1, <4>1 DEF RunCallbacks
    <3>2. CASE HandlerLeaves(c) \/ DisconnectLast(c)
      BY <3>2 DEF HandlerLeaves, DisconnectLast
    <3> QED BY <1>5, <3>1, <3>2 DEF HandlerStep
  <2> QED BY <1>0, <1>1, <2>1, <2>2, <2>3, BrokenKept DEF BrokenInv
<1>6. ASSUME NEW g \in Conn, RetryStep(g) PROVE \E D \in SUBSET Conn : BrokenInv(D)'
  <2>1. UNCHANGED <<breaks, stopped>> /\ \A h \in Conn : h # g => retry'[h] = retry[h]
    BY <1>0, <1>6 DEF RetryStep, RetryCheck, RetryDial, RetryDialFails, RetryAdd, RetryHandle,
       ResubTarget, ResubSend, RetryGoes
  <2>2. (retry'[g].pc = "dial" \/ retry'[g].conn # None) => g \in B
    <3>1. CASE RetryCheck(g)
      <4>1. retry'[g].conn = None /\ (retry'[g].pc = "dial" => ~stopped)
        BY <1>0, <3>1 DEF RetryCheck, RetryGoes, RetryInv
      <4>2. handler[g] \in {"called", "left"}
        BY <1>0, <3>1 DEF RetryCheck, RetryGoes, RetryInv
      <4> QED BY <1>1, <4>1, <4>2 DEF BrokenInv
    <3>2. CASE RetryDial(g) \/ RetryDialFails(g)
      BY <1>1, <3>2 DEF RetryDial, RetryDialFails, RetryGoes, BrokenInv
    <3>3. CASE RetryAdd(g) \/ RetryHandle(g) \/ ResubTarget(g) \/ ResubSend(g)
      <4>1. retry[g].conn # None
        BY <1>0, <3>3 DEF RetryAdd, RetryHandle, ResubTarget, ResubSend, RetryGoes, RetryInv
      <4> QED BY <1>1, <4>1 DEF BrokenInv
    <3> QED BY <1>6, <3>1, <3>2, <3>3 DEF RetryStep
  <2>3. \A c \in Conn : link'[c] = link[c] \/ (link[c] = "unused" /\ link'[c] = "up")
    <3>1. CASE RetryDial(g)
      <4>1. Fresh \in Conn /\ link' = [link EXCEPT ![Fresh] = "up"]
        BY <3>1, RoomForNew DEF RetryDial, Connects
      <4>2. link[Fresh] = "unused"
        BY <1>0, <4>1 DEF NumberInv, Fresh, ReconnectTypeOK
      <4> QED BY <1>0, <4>1, <4>2
    <3>2. CASE link' = link
      BY <3>2
    <3> QED BY <1>6, <3>1, <3>2 DEF RetryStep, RetryCheck, RetryDialFails, RetryAdd, RetryHandle,
            ResubTarget, ResubSend
  <2>4. \A c \in Conn : handler'[c] = handler[c] \/ handler'[c] = "run"
    BY <1>0, <1>6 DEF RetryStep, RetryCheck, RetryDial, RetryDialFails, RetryAdd, RetryHandle,
       ResubTarget, ResubSend
  <2> QED BY <1>0, <1>1, <2>1, <2>2, <2>3, <2>4, BrokenKept DEF BrokenInv
<1> QED
  BY <1>2, <1>3, <1>4, <1>5, <1>6
  DEF ReconnectNext, GoroutineStep, BootStep, BootAdd, BootRegister, Close, CallBegins, CallStep,
      CallDialFails, CallAdd, SubscribeAppend, SubscribeSend, reconnectVars

\* The counts of the connections made.
LEMMA CountStep ==
    ASSUME ReconnectInv, [ReconnectNext]_reconnectVars PROVE CountInv'
<1> USE ReconnectAssumption
<1>0. /\ ReconnectTypeOK /\ CountInv /\ RetryInv /\ RequesterInv /\ made \in Nat
      /\ caller \in [Calls -> [pc : {"no", "dial", "add", "handle", "done"},
                               conn : Conn \cup {None}]]
      /\ retry \in [Conn -> [pc : {"none", "check", "dial", "add", "handle", "target",
                                   "resub", "end"}, conn : Conn \cup {None}]]
      /\ IsFiniteSet(toParent) /\ Cardinality(toParent) \in Nat
      /\ IsFiniteSet((1..made) \ toParent) /\ Cardinality((1..made) \ toParent) \in Nat
      /\ IsFiniteSet(Dialled) /\ Cardinality(Dialled) \in Nat
      /\ IsFiniteSet(CallDialled) /\ Cardinality(CallDialled) \in Nat
  BY MadeIsSum, DialledBound, CallDialledBound, FS_CardinalityType DEF ReconnectInv, ReconnectTypeOK
<1>1. \E B \in SUBSET Conn : BrokenInv(B)'
  BY BrokenStep
<1>2. ASSUME UNCHANGED <<toParent, made>>, Dialled' = Dialled, CallDialled' = CallDialled,
             boot = "dial" <=> boot' = "dial"
      PROVE  CountInv'
  BY <1>0, <1>1, <1>2 DEF CountInv
<1>3. Fresh = made + 1 /\ Fresh \notin 1..made /\ Fresh \in 1..(made + 1)
  BY <1>0 DEF Fresh
<1>4. (1..(made + 1)) \ (toParent \cup {Fresh}) = (1..made) \ toParent
  BY <1>0, <1>3
<1>5. Fresh \notin toParent /\ toParent \subseteq 1..made
  BY <1>0, <1>3 DEF CountInv
<1>6. Cardinality(toParent \cup {Fresh}) = Cardinality(toParent) + 1
  BY <1>0, <1>5, FS_AddElement
<1>7. CASE BootDial
  <2>1. made' = made + 1 /\ toParent' = toParent \cup {Fresh} /\ boot = "dial" /\ boot' = "add"
        /\ retry' = retry /\ caller' = caller
    BY <1>7 DEF BootDial, Connects, Fresh
  <2>2. Dialled' = Dialled /\ CallDialled' = CallDialled
    BY <2>1 DEF Dialled, CallDialled
  <2>3. toParent' \subseteq 1..made'
    BY <1>0, <1>3, <1>5, <2>1
  <2>4. Cardinality((1..made') \ toParent') <= MaxOthers
    BY <1>0, <1>4, <2>1 DEF CountInv
  <2>5. Cardinality(toParent') = Cardinality(Dialled') + Cardinality(CallDialled') + 1
    BY <1>0, <1>6, <2>1, <2>2 DEF CountInv
  <2> QED BY <1>1, <2>1, <2>3, <2>4, <2>5 DEF CountInv
<1>8. ASSUME NEW g \in Conn, RetryDial(g) PROVE CountInv'
  <2>1. /\ made' = made + 1 /\ toParent' = toParent \cup {Fresh} /\ boot' = boot
        /\ retry' = [retry EXCEPT ![g] = [pc |-> "add", conn |-> Fresh]]
        /\ CallDialled' = CallDialled
    BY <1>8 DEF RetryDial, Connects, Fresh, CallDialled
  <2>2. g \notin Dialled
    BY <1>0, <1>8 DEF RetryDial, RetryInv, Dialled
  <2>3. Dialled' = Dialled \cup {g}
    <3>1. Fresh # None
      BY <1>0, <1>3 DEF None
    <3> QED BY <1>0, <2>1, <3>1 DEF Dialled
  <2>4. Cardinality(Dialled') = Cardinality(Dialled) + 1
    BY <1>0, <2>2, <2>3, FS_AddElement
  <2>5. toParent' \subseteq 1..made'
    BY <1>0, <1>3, <1>5, <2>1
  <2>6. Cardinality((1..made') \ toParent') <= MaxOthers
    BY <1>0, <1>4, <2>1 DEF CountInv
  <2>7. Cardinality(toParent') = Cardinality(Dialled') + Cardinality(CallDialled')
                                   + (IF boot' = "dial" THEN 0 ELSE 1)
    BY <1>0, <1>6, <2>1, <2>4 DEF CountInv
  <2> QED BY <1>1, <2>5, <2>6, <2>7 DEF CountInv
<1>9. CASE OpenOther
  <2>1. made' = made + 1 /\ UNCHANGED <<toParent, boot, retry, caller>>
        /\ Cardinality((1..made) \ toParent) < MaxOthers
    BY <1>9 DEF OpenOther, Connects, Fresh
  <2>2. (1..(made + 1)) \ toParent = ((1..made) \ toParent) \cup {Fresh}
    BY <1>0, <1>3, <1>5
  <2>3. Fresh \notin (1..made) \ toParent
    BY <1>3
  <2>4. Cardinality((1..(made + 1)) \ toParent) = Cardinality((1..made) \ toParent) + 1
    BY <1>0, <2>2, <2>3, FS_AddElement
  <2>5. Cardinality((1..made') \ toParent') <= MaxOthers
    BY <1>0, <2>1, <2>4
  <2>6. toParent' \subseteq 1..made'
    BY <1>0, <1>5, <2>1
  <2>7. Dialled' = Dialled /\ CallDialled' = CallDialled
    BY <2>1 DEF Dialled, CallDialled
  <2> QED BY <1>0, <1>1, <2>1, <2>5, <2>6, <2>7 DEF CountInv
<1>10. ASSUME NEW c \in Conn, RunCallbacks(c) PROVE CountInv'
  <2>1. \A g \in Conn : retry'[g].conn = retry[g].conn
    BY <1>0, <1>10 DEF RunCallbacks
  <2>2. Dialled' = Dialled
    BY <2>1 DEF Dialled
  <2> QED BY <1>2, <1>10, <2>2 DEF RunCallbacks, CallDialled
<1>11. ASSUME NEW g \in Conn, RetryStep(g), ~RetryDial(g) PROVE CountInv'
  <2>1. \A h \in Conn : retry'[h].conn # None <=> retry[h].conn # None
    <3>1. CASE ResubTarget(g)
      <4>1. retry[g].conn # None
        BY <1>0, <3>1 DEF ResubTarget, RetryInv
      <4>2. CASE parent # None /\ IsConnect(parent)
        BY <1>0, <3>1, <4>1, <4>2 DEF ResubTarget
      <4>3. CASE ~(parent # None /\ IsConnect(parent))
        BY <1>0, <3>1, <4>1, <4>3 DEF ResubTarget
      <4> QED BY <4>2, <4>3
    <3>2. CASE RetryCheck(g) \/ RetryDialFails(g) \/ RetryAdd(g) \/ RetryHandle(g) \/ ResubSend(g)
      BY <1>0, <3>2 DEF RetryCheck, RetryDialFails, RetryAdd, RetryHandle, ResubSend, RetryGoes
    <3> QED BY <1>11, <3>1, <3>2 DEF RetryStep
  <2>2. Dialled' = Dialled
    BY <2>1 DEF Dialled
  <2>3. CallDialled' = CallDialled
    BY <1>11 DEF CallDialled, RetryStep, RetryCheck, RetryDialFails, RetryAdd, RetryHandle,
       ResubTarget, ResubSend
  <2> QED BY <1>2, <1>11, <2>2, <2>3 DEF RetryStep, RetryCheck, RetryDialFails, RetryAdd,
          RetryHandle, ResubTarget, ResubSend
<1>12. CASE UNCHANGED <<toParent, made, retry, caller>> /\ (boot = "dial" <=> boot' = "dial")
  <2>1. Dialled' = Dialled /\ CallDialled' = CallDialled
    BY <1>12 DEF Dialled, CallDialled
  <2> QED BY <1>2, <1>12, <2>1
<1>13. ASSUME NEW k \in Calls, CallDial(k) PROVE CountInv'
  <2>1. /\ made' = made + 1 /\ toParent' = toParent \cup {Fresh} /\ UNCHANGED <<boot, retry>>
        /\ caller' = [caller EXCEPT ![k] = [pc |-> "add", conn |-> Fresh]]
    BY <1>13 DEF CallDial, Connects, Fresh
  <2>2. k \notin CallDialled /\ Dialled' = Dialled
    BY <1>0, <1>13, <2>1 DEF CallDial, RequesterInv, CallDialled, Dialled
  <2>3. CallDialled' = CallDialled \cup {k}
    <3>1. Fresh # None
      BY <1>0, <1>3 DEF None
    <3> QED BY <1>0, <2>1, <3>1 DEF CallDialled
  <2>4. Cardinality(CallDialled') = Cardinality(CallDialled) + 1
    BY <1>0, <2>2, <2>3, FS_AddElement
  <2>5. toParent' \subseteq 1..made'
    BY <1>0, <1>3, <1>5, <2>1
  <2>6. Cardinality((1..made') \ toParent') <= MaxOthers
    BY <1>0, <1>4, <2>1 DEF CountInv
  <2>7. Cardinality(toParent') = Cardinality(Dialled') + Cardinality(CallDialled')
                                   + (IF boot' = "dial" THEN 0 ELSE 1)
    BY <1>0, <1>6, <2>1, <2>2, <2>4 DEF CountInv
  <2> QED BY <1>1, <2>5, <2>6, <2>7 DEF CountInv
<1>14. ASSUME NEW k \in Calls, CallBegins(k) \/ CallDialFails(k) \/ CallAdd(k) \/ CallHandle(k)
       PROVE  CountInv'
  <2>1. /\ UNCHANGED <<toParent, made, retry, boot>>
        /\ \A l \in Calls : caller'[l].conn = caller[l].conn
    BY <1>0, <1>14 DEF CallBegins, CallDialFails, CallAdd, CallHandle, CallGoes
  <2>2. Dialled' = Dialled /\ CallDialled' = CallDialled
    BY <2>1 DEF Dialled, CallDialled
  <2> QED BY <1>2, <2>1, <2>2
<1> QED
  BY <1>7, <1>8, <1>9, <1>10, <1>11, <1>12, <1>13, <1>14
  DEF ReconnectNext, GoroutineStep, BootStep, BootAdd, BootHandle, BootRegister, Close, Break, HandlerStep,
      HandlerLeaves, DisconnectLast, CallStep, SubscribeAppend, SubscribeSend, reconnectVars

\* The link to the parent keeps its invariant.
LEMMA ReconnectInductive == ReconnectSpec => []ReconnectInv
<1> USE ReconnectAssumption
<1>1. ReconnectInit => ReconnectInv
  <2> SUFFICES ASSUME ReconnectInit PROVE ReconnectInv
    OBVIOUS
  <2>0. Conn \subseteq Nat \ {0}
    BY DEF Conn
  <2>1. ReconnectTypeOK
    <3>0. Cardinality(Calls) \in Nat
      BY FS_CardinalityType
    <3>1. /\ 0 \in 0..(1 + MaxOthers + MaxBreaks + Cardinality(Calls)) /\ 0 \in 0..MaxBreaks
          /\ [pc |-> "none", conn |-> None] \in
                [pc : {"none", "check", "dial", "add", "handle", "target", "resub", "end"},
                 conn : Conn \cup {None}]
          /\ [pc |-> "no", conn |-> None] \in
                [pc : {"no", "dial", "add", "handle", "done"}, conn : Conn \cup {None}]
      BY <3>0
    <3> QED BY <3>1 DEF ReconnectInit, ReconnectTypeOK
  <2>2. NumberInv
    BY <2>0 DEF ReconnectInit, NumberInv
  <2>3. RetryInv
    BY DEF ReconnectInit, RetryInv, Starting
  <2>3a. RequesterInv
    BY DEF ReconnectInit, RequesterInv, CallStarting
  <2>4. CountInv
    <3>1. Dialled = {} /\ CallDialled = {} /\ toParent = {} /\ made = 0 /\ boot = "dial"
      BY DEF ReconnectInit, Dialled, CallDialled
    <3>2. (1..made) \ toParent = {}
      BY <3>1
    <3>3. Cardinality({}) = 0
      BY FS_EmptySet
    <3>4. BrokenInv({})
      BY <3>3 DEF ReconnectInit, BrokenInv
    <3> QED BY <3>1, <3>2, <3>3, <3>4 DEF CountInv
  <2>5. ParentIsWatched
    BY DEF ReconnectInit, ParentIsWatched
  <2> QED BY <2>1, <2>2, <2>3, <2>3a, <2>4, <2>5 DEF ReconnectInv
<1>2. ReconnectInv /\ [ReconnectNext]_reconnectVars => ReconnectInv'
  BY ReconnectType, NumberStep, RetryInvStep, RequesterInvStep, CountStep, WatchedStep DEF ReconnectInv
<1> QED BY <1>1, <1>2, PTL DEF ReconnectSpec

\* The goroutine of a lost connection replaces it at most once and a call that finds no
\* connected parent makes at most one connection, whatever breaks and whoever reconnects
\* meanwhile: the connections made never exceed the first, the others, one for each break
\* and one for each such call.
THEOREM ReplacedOnce == ReconnectSpec => []ReconnectTypeOK
<1> USE ReconnectAssumption
<1>1. ReconnectInv => ReconnectTypeOK
  BY DEF ReconnectInv
<1> QED BY <1>1, ReconnectInductive, PTL

\* A dead connection never stays registered as the parent: reconnects that overlap
\* each leave a parent whose handler will take it out again.
THEOREM ParentStaysWatched == ReconnectSpec => []ParentIsWatched
<1> USE ReconnectAssumption
<1>1. ReconnectInv => ParentIsWatched
  BY DEF ReconnectInv
<1> QED BY <1>1, ReconnectInductive, PTL
=============================================================================
