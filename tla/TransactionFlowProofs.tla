------------------------ MODULE TransactionFlowProofs ------------------------
(***************************************************************************)
(* Proofs about TransactionFlow, for any senders, calls and breaks of the  *)
(* connection: answers are conserved, a device key call signs with the     *)
(* answer to its own question, and the helpers' nonces advance.  Each      *)
(* result has an invariant of its own on top of the types.                 *)
(***************************************************************************)
EXTENDS TransactionFlow, FiniteSetTheorems, SequenceTheorems, TLAPS

CallIds == [of : Senders, number : Nat]

Answers == [of : Senders, number : Nat, nonce : Nat]

Stages == {"idle", "ask", "wait", "put", "askkey", "key", "submit", "ack", "receipt"}

CallRecords ==
    [pc : Stages, kind : Kinds \cup {"none"}, number : Nat, conn : Nat, cached : Nat,
     state : Answers \cup {NoState}, nonce : Nat, out : {"none", "executed", "refused"}]

\* Types, and which calls are at which stage.
Types ==
    /\ call \in [Senders -> CallRecords]
    /\ asks \in SUBSET CallIds /\ IsFiniteSet(asks)
    /\ keyAsks \in SUBSET CallIds /\ IsFiniteSet(keyAsks)
    /\ late \in SUBSET CallIds /\ stray \in SUBSET CallIds /\ IsFiniteSet(stray)
    /\ stateCh \in Seq(Answers) /\ keyCh \in Seq(CallIds) /\ Len(keyCh) <= 1
    /\ cache \in [Senders -> Nat] /\ chain \in [Senders -> Nat]
    /\ link \in [up : BOOLEAN, gen : Nat]
    /\ last \in [Senders -> Int]
    /\ lost \in [states : Nat, keys : Nat]
    /\ stolen \in BOOLEAN
    /\ \A s \in Senders :
          /\ call[s].pc \in {"put", "askkey", "key"} => call[s].kind = "device"
          /\ call[s].pc \in {"put", "askkey", "key"} => call[s].state \in Answers
          /\ call[s].pc = "ack" => call[s].kind = "secp"
          /\ call[s].pc = "idle" => call[s].kind = "none"

\* A helper's call that has not stored its nonce yet.
Holds(c) ==
    \/ c.kind = "secp" /\ c.pc \in {"ask", "wait", "submit", "ack"}
    \/ c.kind = "plain" /\ c.pc \in {"ask", "submit", "receipt"}

\* The cache is one past the highest nonce that was accepted, and a helper's call uses
\* no lower nonce than the one it found there.
NonceInv ==
    \A s \in Senders :
        /\ cache[s] = last[s] + 1
        /\ Holds(call[s]) => call[s].cached = cache[s]
        /\ Holds(call[s]) /\ call[s].pc \in {"submit", "ack", "receipt"} =>
              call[s].nonce >= cache[s]

-----------------------------------------------------------------------------
(* Types.                                                                  *)

LEMMA NoncesAreNat == Nonces \subseteq Nat
<1>1. Cardinality(Senders) \in Nat
  BY FlowAssumption, FS_CardinalityType
<1>2. MaxCalls * Cardinality(Senders) \in Int
  BY <1>1, FlowAssumption
<1> QED BY <1>2 DEF Nonces

LEMMA IdleType ==
  ASSUME NEW n \in Nat
  PROVE  /\ Idle(n) \in CallRecords /\ Idle(n).pc = "idle" /\ Idle(n).kind = "none"
         /\ Idle(n).number = n
  BY DEF Idle, CallRecords, Stages

LEMMA StartedType ==
  ASSUME Types, NEW s \in Senders, NEW k \in Kinds, NEW n \in Nat
  PROVE  LET c == Started(s, k, n) IN
         /\ c \in CallRecords /\ c.pc = "ask" /\ c.kind = k /\ c.number = call[s].number + 1
         /\ k \in {"secp", "plain"} => c.cached = cache[s]
<1> DEFINE i == Idle(call[s].number + 1)
           x == IF k \in {"secp", "plain"} THEN cache[s] ELSE 0
           c == [i EXCEPT !.pc = "ask", !.kind = k, !.conn = n, !.cached = x]
<1>1. call[s].number + 1 \in Nat /\ x \in Nat
  BY DEF Types, CallRecords
<1>2. i \in CallRecords /\ i.number = call[s].number + 1
  BY <1>1, IdleType
<1>3. Started(s, k, n) = c
  BY DEF Started
<1> HIDE DEF i, x
<1>4. c \in CallRecords /\ c.pc = "ask" /\ c.kind = k /\ c.number = i.number /\ c.cached = x
  BY <1>1, <1>2 DEF CallRecords, Stages, Kinds
<1>5. k \in {"secp", "plain"} => x = cache[s]
  BY DEF x
<1> QED BY <1>2, <1>3, <1>4, <1>5

\* One call changes.
LEMMA Moved ==
  ASSUME Types, NEW s \in Senders, NEW c, Goes(s, c)
  PROVE  /\ call'[s] = c /\ \A t \in Senders \ {s} : call'[t] = call[t]
         /\ c \in CallRecords => call' \in [Senders -> CallRecords]
  BY DEF Types, Goes

\* A call goes on: its kind, number and cached nonce stay.
Same(d, c) ==
    /\ d \in CallRecords
    /\ d.kind = c.kind /\ d.number = c.number /\ d.cached = c.cached

LEMMA SetPc ==
  ASSUME NEW c \in CallRecords, NEW p \in Stages, NEW d, d = [c EXCEPT !.pc = p]
  PROVE  Same(d, c) /\ d.pc = p /\ d.state = c.state
  BY DEF Same, CallRecords

\* The channel of states, before and after one is taken or added.
LEMMA Taken ==
  ASSUME NEW q \in Seq(Answers), q # <<>>
  PROVE  /\ Head(q) \in Answers /\ Tail(q) \in Seq(Answers) /\ Len(Tail(q)) = Len(q) - 1
         /\ Head(q) = q[1] /\ 1 \in DOMAIN q
         /\ \A i \in DOMAIN Tail(q) : i + 1 \in DOMAIN q /\ Tail(q)[i] = q[i + 1]
  OBVIOUS

LEMMA Added ==
  ASSUME NEW q \in Seq(Answers), NEW a \in Answers
  PROVE  /\ Append(q, a) \in Seq(Answers) /\ Len(Append(q, a)) = Len(q) + 1
         /\ DOMAIN Append(q, a) = DOMAIN q \cup {Len(q) + 1}
         /\ Append(q, a)[Len(q) + 1] = a
         /\ \A i \in DOMAIN q : Append(q, a)[i] = q[i]
  OBVIOUS

LEMMA ChosenIsNat ==
  ASSUME Types, NEW s \in Senders, NEW n \in Nat
  PROVE  ChosenNonce(s, n) \in Nat /\ ChosenNonce(s, n) >= call[s].cached
  BY DEF ChosenNonce, Types, CallRecords

\* What each step of a call does to the record of the call.
LEMMA StepEffects ==
  ASSUME Types, NEW s \in Senders
  PROVE  /\ Ask(s) => Same(call'[s], call[s]) /\ call'[s].pc = "wait"
         /\ TakeOwn(s) =>
               /\ Same(call'[s], call[s]) /\ call'[s].pc = "askkey"
               /\ call'[s].state = Head(stateCh)
         /\ TakeForeign(s) =>
               /\ Same(call'[s], call[s]) /\ call'[s].pc = "put"
               /\ call'[s].state = Head(stateCh)
         /\ PutBack(s) => Same(call'[s], call[s]) /\ call'[s].pc = "wait"
         /\ TakeAny(s) =>
               /\ Same(call'[s], call[s]) /\ call'[s].pc = "submit"
               /\ call'[s].nonce >= call[s].cached
         /\ \A n \in Nonces : AskById(s, n) =>
               /\ Same(call'[s], call[s]) /\ call'[s].pc = "submit"
               /\ call'[s].nonce >= call[s].cached
         /\ AskKey(s) =>
               /\ Same(call'[s], call[s]) /\ call'[s].pc = "key"
               /\ call'[s].state = call[s].state
         /\ TakeKey(s) =>
               /\ Same(call'[s], call[s]) /\ call'[s].pc = "submit"
               /\ call'[s].state = call[s].state
         /\ Submit(s) =>
               /\ Same(call'[s], call[s]) /\ call'[s].nonce = call[s].nonce
               /\ call'[s].pc = IF call[s].kind = "secp" THEN "ack" ELSE "receipt"
         /\ Ack(s) => Same(call'[s], call[s]) /\ call'[s].pc = "receipt"
<1>0. call[s] \in CallRecords /\ {"wait", "askkey", "put", "submit", "key", "ack", "receipt"} \subseteq Stages
  BY DEF Types, Stages
<1>1. Ask(s) => Same(call'[s], call[s]) /\ call'[s].pc = "wait"
  BY <1>0, SetPc, Moved DEF Ask
<1>2. ASSUME TakeOwn(s) \/ TakeForeign(s)
      PROVE  /\ Same(call'[s], call[s]) /\ call'[s].state = Head(stateCh)
             /\ call'[s].pc = IF TakeOwn(s) THEN "askkey" ELSE "put"
  <2> DEFINE p == IF TakeOwn(s) THEN "askkey" ELSE "put"
  <2>1. call'[s] = [call[s] EXCEPT !.pc = p, !.state = Head(stateCh)]
    BY <1>2, Moved DEF TakeOwn, TakeForeign
  <2>2. Head(stateCh) \in Answers /\ p \in Stages
    BY <1>0, <1>2, Taken DEF TakeOwn, TakeForeign, Types
  <2> QED BY <1>0, <2>1, <2>2 DEF Same, CallRecords
<1>3. TakeForeign(s) => ~TakeOwn(s)
  BY DEF TakeOwn, TakeForeign
<1>4. ASSUME PutBack(s) PROVE Same(call'[s], call[s]) /\ call'[s].pc = "wait"
  <2>1. call'[s] = [call[s] EXCEPT !.pc = "wait", !.state = NoState]
    BY <1>4, Moved DEF PutBack
  <2> QED BY <1>0, <2>1 DEF Same, CallRecords
<1>5. ASSUME TakeAny(s)
      PROVE  /\ Same(call'[s], call[s]) /\ call'[s].pc = "submit"
             /\ call'[s].nonce >= call[s].cached
  <2>1. Head(stateCh) \in Answers
    BY <1>5, Taken DEF TakeAny, Types
  <2>2. Head(stateCh).nonce \in Nat
    BY <2>1 DEF Answers
  <2>3. /\ ChosenNonce(s, Head(stateCh).nonce) \in Nat
        /\ ChosenNonce(s, Head(stateCh).nonce) >= call[s].cached
    BY <2>2, ChosenIsNat
  <2>4. call'[s] = [call[s] EXCEPT !.pc = "submit", !.state = Head(stateCh),
                                   !.nonce = ChosenNonce(s, Head(stateCh).nonce)]
    BY <1>5, Moved DEF TakeAny
  <2> QED BY <1>0, <2>1, <2>3, <2>4 DEF Same, CallRecords
<1>6. ASSUME NEW n \in Nonces, AskById(s, n)
      PROVE  /\ Same(call'[s], call[s]) /\ call'[s].pc = "submit"
             /\ call'[s].nonce >= call[s].cached
  <2>1. ChosenNonce(s, n) \in Nat /\ ChosenNonce(s, n) >= call[s].cached /\ n \in Nat
    BY NoncesAreNat, ChosenIsNat
  <2>2. [of |-> s, number |-> call[s].number, nonce |-> n] \in Answers
    BY <1>0, <2>1 DEF Answers, CallRecords
  <2>3. call'[s] = [call[s] EXCEPT !.pc = "submit", !.nonce = ChosenNonce(s, n),
                         !.state = [of |-> s, number |-> call[s].number, nonce |-> n]]
    BY <1>6, Moved DEF AskById
  <2> QED BY <1>0, <2>1, <2>2, <2>3 DEF Same, CallRecords
<1>7. AskKey(s) =>
          /\ Same(call'[s], call[s]) /\ call'[s].pc = "key"
          /\ call'[s].state = call[s].state
  BY <1>0, SetPc, Moved DEF AskKey
<1>8. ASSUME TakeKey(s)
      PROVE  /\ Same(call'[s], call[s]) /\ call'[s].pc = "submit"
             /\ call'[s].state = call[s].state
  <2>1. call[s].state.nonce \in Nat
    BY <1>0 DEF CallRecords, Answers, NoState
  <2>2. call'[s] = [call[s] EXCEPT !.pc = "submit", !.nonce = call[s].state.nonce]
    BY <1>8, Moved DEF TakeKey
  <2> QED BY <1>0, <2>1, <2>2 DEF Same, CallRecords
<1>9. ASSUME Submit(s)
      PROVE  /\ Same(call'[s], call[s]) /\ call'[s].nonce = call[s].nonce
             /\ call'[s].pc = IF call[s].kind = "secp" THEN "ack" ELSE "receipt"
  <2> DEFINE p == IF call[s].kind = "secp" THEN "ack" ELSE "receipt"
             r == IF call[s].kind = "read" \/ call[s].nonce = chain[s]
                  THEN "executed" ELSE "refused"
  <2>1. p \in Stages /\ r \in {"none", "executed", "refused"}
    BY <1>0
  <2>2. call'[s] = [call[s] EXCEPT !.pc = p, !.out = r]
    BY <1>9, Moved DEF Submit
  <2> HIDE DEF p, r
  <2>3. Same(call'[s], call[s]) /\ call'[s].nonce = call[s].nonce /\ call'[s].pc = p
    BY <1>0, <2>1, <2>2 DEF Same, CallRecords
  <2> QED BY <2>3 DEF p
<1>10. Ack(s) => Same(call'[s], call[s]) /\ call'[s].pc = "receipt"
  BY <1>0, SetPc, Moved DEF Ack
<1> QED BY <1>1, <1>2, <1>3, <1>4, <1>5, <1>6, <1>7, <1>8, <1>9, <1>10

LEMMA ReturnEffect ==
  ASSUME Types, NEW s \in Senders, Returns(s)
  PROVE  /\ call'[s] \in CallRecords /\ call'[s].pc = "idle" /\ call'[s].kind = "none"
         /\ call'[s].number = call[s].number
<1>1. call[s].number \in Nat
  BY DEF Types, CallRecords
<1> QED BY <1>1, IdleType, Moved DEF Returns

LEMMA BeginEffects ==
  ASSUME Types, NEW s \in Senders, NEW k \in Kinds
  PROVE  /\ Begin(s, k) \/ BeginReconnects(s, k) =>
               /\ call'[s] \in CallRecords /\ call'[s].pc = "ask" /\ call'[s].kind = k
               /\ call'[s].number = call[s].number + 1
               /\ k \in {"secp", "plain"} => call'[s].cached = cache[s]
         /\ BeginFails(s, k) =>
               /\ call'[s] \in CallRecords /\ call'[s].pc = "idle" /\ call'[s].kind = "none"
               /\ call'[s].number = call[s].number + 1
<1>0. call[s].number + 1 \in Nat /\ link.gen \in Nat /\ link.gen + 1 \in Nat
  BY DEF Types, CallRecords
<1>1. Begin(s, k) \/ BeginReconnects(s, k) => \E n \in Nat : Goes(s, Started(s, k, n))
  BY <1>0 DEF Begin, BeginReconnects
<1>2. BeginFails(s, k) => Goes(s, Idle(call[s].number + 1))
  BY DEF BeginFails
<1> QED BY <1>0, <1>1, <1>2, StartedType, IdleType, Moved

\* The part of Types about calls, when one call changes.
CallTypes ==
    /\ call \in [Senders -> CallRecords]
    /\ \A s \in Senders :
          /\ call[s].pc \in {"put", "askkey", "key"} => call[s].kind = "device"
          /\ call[s].pc \in {"put", "askkey", "key"} => call[s].state \in Answers
          /\ call[s].pc = "ack" => call[s].kind = "secp"
          /\ call[s].pc = "idle" => call[s].kind = "none"

LEMMA CallTypesKeep ==
  ASSUME Types, NEW s \in Senders, NEW c, Goes(s, c), call'[s] \in CallRecords,
         call'[s].pc \in {"put", "askkey", "key"} =>
             call'[s].kind = "device" /\ call'[s].state \in Answers,
         call'[s].pc = "ack" => call'[s].kind = "secp",
         call'[s].pc = "idle" => call'[s].kind = "none"
  PROVE  CallTypes'
<1>1. call'[s] = c /\ \A t \in Senders \ {s} : call'[t] = call[t]
  BY Moved
<1>2. call' \in [Senders -> CallRecords]
  BY <1>1, Moved
<1>3. \A t \in Senders :
          /\ call'[t].pc \in {"put", "askkey", "key"} => call'[t].kind = "device"
          /\ call'[t].pc \in {"put", "askkey", "key"} => call'[t].state \in Answers
          /\ call'[t].pc = "ack" => call'[t].kind = "secp"
          /\ call'[t].pc = "idle" => call'[t].kind = "none"
  BY <1>1 DEF Types
<1> QED BY <1>2, <1>3 DEF CallTypes

LEMMA TypesSplit ==
    Types <=>
        /\ CallTypes
        /\ asks \in SUBSET CallIds /\ IsFiniteSet(asks)
        /\ keyAsks \in SUBSET CallIds /\ IsFiniteSet(keyAsks)
        /\ late \in SUBSET CallIds /\ stray \in SUBSET CallIds /\ IsFiniteSet(stray)
        /\ stateCh \in Seq(Answers) /\ keyCh \in Seq(CallIds) /\ Len(keyCh) <= 1
        /\ cache \in [Senders -> Nat] /\ chain \in [Senders -> Nat]
        /\ link \in [up : BOOLEAN, gen : Nat]
        /\ last \in [Senders -> Int]
        /\ lost \in [states : Nat, keys : Nat]
        /\ stolen \in BOOLEAN
  BY DEF Types, CallTypes

LEMMA ThisCallType ==
  ASSUME Types, NEW s \in Senders
  PROVE  ThisCall(s) \in CallIds
  BY DEF Types, CallRecords, ThisCall, CallIds

LEMMA InitTypes == Init => Types
<1> SUFFICES ASSUME Init PROVE Types
  OBVIOUS
<1>1. \A s \in Senders : /\ call[s] \in CallRecords /\ call[s].pc = "idle"
                         /\ call[s].kind = "none"
  BY IdleType DEF Init
<1>2. call \in [Senders -> CallRecords]
  BY <1>1 DEF Init
<1>3. IsFiniteSet({})
  BY FS_EmptySet
<1>4. last \in [Senders -> Int] /\ cache \in [Senders -> Nat] /\ chain \in [Senders -> Nat]
  BY DEF Init
<1>5. lost \in [states : Nat, keys : Nat] /\ link \in [up : BOOLEAN, gen : Nat]
  BY DEF Init
<1>6. stateCh \in Seq(Answers) /\ keyCh \in Seq(CallIds) /\ Len(keyCh) <= 1
  BY DEF Init
<1>7. CallTypes
  BY <1>1, <1>2 DEF CallTypes
<1>8. asks = {} /\ keyAsks = {} /\ late = {} /\ stray = {} /\ stolen = FALSE
  BY DEF Init
<1> QED BY <1>3, <1>4, <1>5, <1>6, <1>7, <1>8, TypesSplit

LEMMA BeginTypes ==
  ASSUME Types, NEW s \in Senders, NEW k \in Kinds,
         Begin(s, k) \/ BeginReconnects(s, k) \/ BeginFails(s, k)
  PROVE  Types'
<1>1. \E c : Goes(s, c)
  BY DEF Begin, BeginReconnects, BeginFails
<1>2. CallTypes'
  BY <1>1, BeginEffects, CallTypesKeep
<1>3. link' \in [up : BOOLEAN, gen : Nat]
  <2>1. link \in [up : BOOLEAN, gen : Nat]
    BY DEF Types
  <2>2. link' = link \/ link' = [up |-> TRUE, gen |-> link.gen + 1]
    BY DEF Begin, BeginReconnects, BeginFails
  <2>3. [up |-> TRUE, gen |-> link.gen + 1] \in [up : BOOLEAN, gen : Nat]
    BY <2>1
  <2> QED BY <2>1, <2>2, <2>3
<1> QED BY <1>2, <1>3 DEF Types, CallTypes, Begin, BeginReconnects, BeginFails

LEMMA AskTypes ==
  ASSUME Types, NEW s \in Senders, Ask(s) \/ AskKey(s)
  PROVE  Types'
<1>1. \E c : Goes(s, c)
  BY DEF Ask, AskKey
<1>2. CallTypes'
  <2>1. CASE Ask(s)
    BY <1>1, <2>1, StepEffects, CallTypesKeep DEF Same
  <2>2. CASE AskKey(s)
    <3>1. call[s].kind = "device" /\ call[s].state \in Answers
      BY <2>2 DEF AskKey, At, Types
    <3> QED BY <1>1, <2>2, <3>1, StepEffects, CallTypesKeep DEF Same
  <2> QED BY <2>1, <2>2
<1>3. lost' \in [states : Nat, keys : Nat]
  <2>1. lost \in [states : Nat, keys : Nat]
    BY DEF Types
  <2> QED BY <2>1 DEF Ask, AskKey
<1>4. /\ IsFiniteSet(asks \cup {ThisCall(s)}) /\ IsFiniteSet(keyAsks \cup {ThisCall(s)})
  BY FS_AddElement DEF Types
<1>5. /\ asks' \in SUBSET CallIds /\ IsFiniteSet(asks')
      /\ keyAsks' \in SUBSET CallIds /\ IsFiniteSet(keyAsks')
  <2>1. asks \in SUBSET CallIds /\ IsFiniteSet(asks) /\ keyAsks \in SUBSET CallIds /\ IsFiniteSet(keyAsks)
    BY DEF Types
  <2>2. /\ asks' \in {asks, asks \cup {ThisCall(s)}}
        /\ keyAsks' \in {keyAsks, keyAsks \cup {ThisCall(s)}}
    BY DEF Ask, AskKey
  <2> QED BY <1>4, <2>1, <2>2, ThisCallType
<1> QED BY <1>2, <1>3, <1>5 DEF Types, CallTypes, Ask, AskKey

LEMMA ArriveTypes ==
  ASSUME Types
  PROVE  /\ \A c \in asks, n \in Nonces : StateArrives(c, n) => Types'
         /\ \A c \in late, n \in Nonces : LateStateArrives(c, n) => Types'
         /\ \A c \in keyAsks : KeyArrives(c) => Types'
<1>1. ASSUME NEW c \in asks, NEW n \in Nonces, StateArrives(c, n) PROVE Types'
  <2>1. c \in CallIds /\ n \in Nat
    BY NoncesAreNat DEF Types
  <2>2. [of |-> c.of, number |-> c.number, nonce |-> n] \in Answers
    BY <2>1 DEF CallIds, Answers
  <2>3. stateCh' \in Seq(Answers)
    BY <1>1, <2>2, Added DEF StateArrives, Types
  <2>4. IsFiniteSet(asks') /\ asks' \in SUBSET CallIds
    BY <1>1, FS_RemoveElement DEF StateArrives, Types
  <2> QED BY <1>1, <2>3, <2>4 DEF Types, StateArrives
<1>2. ASSUME NEW c \in keyAsks, KeyArrives(c) PROVE Types'
  <2>1. IsFiniteSet(keyAsks') /\ keyAsks' \in SUBSET CallIds
    BY <1>2, FS_RemoveElement DEF KeyArrives, Types
  <2>2. c \in CallIds
    BY DEF Types
  <2>3. keyCh' \in Seq(CallIds) /\ Len(keyCh') <= 1
    BY <1>2, <2>2 DEF KeyArrives
  <2> QED BY <1>2, <2>1, <2>3 DEF Types, KeyArrives
<1>3. ASSUME NEW c \in late, NEW n \in Nonces, LateStateArrives(c, n) PROVE Types'
  <2>1. c \in CallIds /\ n \in Nat
    BY NoncesAreNat DEF Types
  <2>2. [of |-> c.of, number |-> c.number, nonce |-> n] \in Answers
    BY <2>1 DEF CallIds, Answers
  <2>3. stateCh' \in Seq(Answers)
    BY <1>3, <2>2, Added DEF LateStateArrives, Types
  <2>4. /\ late' \in SUBSET CallIds /\ stray' \in SUBSET CallIds /\ IsFiniteSet(stray')
    BY <1>3, <2>1, FS_AddElement DEF LateStateArrives, Types
  <2> QED BY <1>3, <2>3, <2>4 DEF Types, LateStateArrives
<1> QED BY <1>1, <1>2, <1>3

LEMMA TakeTypes ==
  ASSUME Types, NEW s \in Senders, TakeOwn(s) \/ TakeForeign(s) \/ TakeAny(s)
  PROVE  Types'
<1>1. \E c : Goes(s, c)
  BY DEF TakeOwn, TakeForeign, TakeAny
<1>2. stateCh # <<>>
  BY DEF TakeOwn, TakeForeign, TakeAny
<1>3. Head(stateCh) \in Answers /\ Tail(stateCh) \in Seq(Answers)
  BY <1>2, Taken DEF Types
<1>4. CallTypes'
  <2>1. CASE TakeOwn(s) \/ TakeForeign(s)
    <3>1. call[s].kind = "device"
      BY <2>1 DEF TakeOwn, TakeForeign
    <3> QED BY <1>1, <1>3, <2>1, <3>1, StepEffects, CallTypesKeep DEF Same
  <2>2. CASE TakeAny(s)
    BY <1>1, <2>2, StepEffects, CallTypesKeep DEF Same
  <2> QED BY <2>1, <2>2
<1>5. stolen' \in BOOLEAN
  BY DEF Types, TakeOwn, TakeForeign, TakeAny
<1> QED BY <1>3, <1>4, <1>5 DEF Types, CallTypes, TakeOwn, TakeForeign, TakeAny

LEMMA PutBackTypes ==
  ASSUME Types, NEW s \in Senders, PutBack(s)
  PROVE  Types'
<1>1. \E c : Goes(s, c)
  BY DEF PutBack
<1>2. CallTypes'
  BY <1>1, StepEffects, CallTypesKeep DEF Same
<1>3. call[s].state \in Answers
  BY DEF PutBack, At, Types
<1>4. stateCh' \in Seq(Answers)
  BY <1>3, Added DEF PutBack, Types
<1> QED BY <1>2, <1>4 DEF Types, CallTypes, PutBack

LEMMA GoOnTypes ==
  ASSUME Types, NEW s \in Senders,
         TakeKey(s) \/ Submit(s) \/ Ack(s) \/ \E n \in Nonces : AskById(s, n)
  PROVE  Types'
<1>1. \E c : Goes(s, c)
  BY DEF TakeKey, Submit, Ack, AskById
<1>2. CallTypes'
  <2>1. CASE TakeKey(s)
    BY <1>1, <2>1, StepEffects, CallTypesKeep DEF Same
  <2>2. CASE Submit(s)
    BY <1>1, <2>2, StepEffects, CallTypesKeep DEF Same
  <2>3. CASE Ack(s)
    BY <1>1, <2>3, StepEffects, CallTypesKeep DEF Same
  <2>4. CASE \E n \in Nonces : AskById(s, n)
    BY <1>1, <2>4, StepEffects, CallTypesKeep DEF Same
  <2> QED BY <2>1, <2>2, <2>3, <2>4
<1>3. chain' \in [Senders -> Nat]
  <2>1. chain \in [Senders -> Nat]
    BY DEF Types
  <2>2. \/ chain' = chain
        \/ chain' = [chain EXCEPT ![s] = IF call[s].kind # "read" /\ call[s].nonce = @
                                        THEN @ + 1 ELSE @]
    BY DEF TakeKey, Submit, Ack, AskById
  <2> QED BY <2>1, <2>2
<1>4. cache' \in [Senders -> Nat] /\ last' \in [Senders -> Int]
  <2>1. call[s].nonce \in Nat /\ cache \in [Senders -> Nat] /\ last \in [Senders -> Int]
    BY DEF Types, CallRecords
  <2>2. UNCHANGED <<cache, last>> \/ Accepted(s)
    BY DEF TakeKey, Submit, Ack, AskById
  <2> QED BY <2>1, <2>2 DEF Accepted
<1>5. keyCh' \in Seq(CallIds) /\ Len(keyCh') <= 1
  <2>1. keyCh \in Seq(CallIds) /\ Len(keyCh) <= 1
    BY DEF Types
  <2>2. keyCh' = keyCh \/ keyCh' = <<>>
    BY DEF TakeKey, Submit, Ack, AskById
  <2>3. <<>> \in Seq(CallIds) /\ Len(<<>>) <= 1
    OBVIOUS
  <2> QED BY <2>1, <2>2, <2>3
<1> QED BY <1>2, <1>3, <1>4, <1>5 DEF Types, CallTypes, TakeKey, Submit, Ack, AskById

\* The steps that end a call.
Ends(s) ==
    \/ AskByIdFails(s) \/ AskKeyFails(s) \/ SubmitFails(s) \/ Save(s) \/ Receipt(s)
    \/ NoAnswer(s)

LEMMA EndTypes ==
  ASSUME Types, NEW s \in Senders, Ends(s)
  PROVE  /\ Types' /\ Returns(s) /\ UNCHANGED <<asks, stateCh, keyAsks, keyCh, lost, stray, stolen>>
         /\ late' = late \/ late' = late \cup {ThisCall(s)}
<1>1. /\ Returns(s) /\ UNCHANGED <<asks, stateCh, keyAsks, keyCh, chain, link, lost, stray, stolen>>
      /\ late' = late \/ late' = late \cup {ThisCall(s)}
  BY DEF Ends, AskByIdFails, AskKeyFails, SubmitFails, Save, Receipt, NoAnswer
<1>2. CallTypes'
  BY <1>1, ReturnEffect, CallTypesKeep DEF Returns
<1>3. cache' \in [Senders -> Nat] /\ last' \in [Senders -> Int]
  <2>1. call[s].nonce \in Nat /\ cache \in [Senders -> Nat] /\ last \in [Senders -> Int]
    BY DEF Types, CallRecords
  <2>2. UNCHANGED <<cache, last>> \/ Accepted(s)
    BY DEF Ends, AskByIdFails, AskKeyFails, SubmitFails, Save, Receipt, NoAnswer
  <2> QED BY <2>1, <2>2 DEF Accepted
<1>4. late' \in SUBSET CallIds
  BY <1>1, ThisCallType DEF Types
<1> QED BY <1>1, <1>2, <1>3, <1>4 DEF Types, CallTypes

LEMMA LinkTypes ==
  ASSUME Types, Break \/ Reconnects
  PROVE  Types'
<1>1. IsFiniteSet({}) /\ Cardinality(asks) \in Nat /\ Cardinality(keyAsks) \in Nat
  BY FS_EmptySet, FS_CardinalityType DEF Types
<1>2. lost' \in [states : Nat, keys : Nat] /\ link' \in [up : BOOLEAN, gen : Nat]
  <2>1. lost \in [states : Nat, keys : Nat] /\ link \in [up : BOOLEAN, gen : Nat]
    BY DEF Types
  <2>2. CASE Break
    <3>1. lost' \in [states : Nat, keys : Nat]
      BY <1>1, <2>1, <2>2 DEF Break
    <3> QED BY <2>1, <2>2, <3>1 DEF Break
  <2>3. CASE Reconnects
    BY <2>1, <2>3 DEF Reconnects
  <2> QED BY <2>2, <2>3
<1> QED BY <1>1, <1>2 DEF Types, Break, Reconnects

LEMMA TypesStep ==
  ASSUME Types, [Next]_vars
  PROVE  Types'
<1>1. ASSUME NEW s \in Senders, SenderStep(s) PROVE Types'
  BY <1>1, AskTypes, TakeTypes, PutBackTypes, GoOnTypes, EndTypes DEF SenderStep, Ends
<1>2. CASE UNCHANGED vars
  BY <1>2 DEF Types, vars
<1> QED BY <1>1, <1>2, BeginTypes, ArriveTypes, LinkTypes DEF Next

-----------------------------------------------------------------------------
(* The helpers' nonces.                                                    *)

LEMMA NonceQuiet ==
  ASSUME Types, NonceInv, NEW s \in Senders, NEW c, Goes(s, c), UNCHANGED <<cache, last>>,
         Holds(call'[s]) =>
             /\ call'[s].cached = cache[s]
             /\ call'[s].pc \in {"submit", "ack", "receipt"} => call'[s].nonce >= cache[s]
  PROVE  NonceInv'
<1>1. \A t \in Senders \ {s} : call'[t] = call[t]
  BY Moved
<1> QED BY <1>1 DEF NonceInv

LEMMA NonceAccepted ==
  ASSUME Types, NonceInv, NEW s \in Senders, NEW c, Goes(s, c), Accepted(s),
         call[s].nonce >= cache[s], ~Holds(call'[s])
  PROVE  NonceInv'
<1>1. \A t \in Senders \ {s} : call'[t] = call[t]
  BY Moved
<1>2. /\ cache \in [Senders -> Nat] /\ last \in [Senders -> Int] /\ call[s].nonce \in Nat
      /\ cache[s] = last[s] + 1
  BY DEF Types, CallRecords, NonceInv
<1>3. cache'[s] = call[s].nonce + 1 /\ last'[s] = call[s].nonce
  BY <1>2 DEF Accepted
<1>4. \A t \in Senders \ {s} : cache'[t] = cache[t] /\ last'[t] = last[t]
  BY <1>2 DEF Accepted
<1> QED BY <1>1, <1>3, <1>4 DEF NonceInv

LEMMA NonceStep ==
  ASSUME Types, NonceInv, [Next]_vars
  PROVE  NonceInv'
<1>1. ASSUME NEW s \in Senders, NEW k \in Kinds,
             Begin(s, k) \/ BeginReconnects(s, k) \/ BeginFails(s, k)
      PROVE  NonceInv'
  <2>1. (\E c : Goes(s, c)) /\ UNCHANGED <<cache, last>>
    BY <1>1 DEF Begin, BeginReconnects, BeginFails
  <2>2. Holds(call'[s]) => call'[s].pc = "ask" /\ call'[s].cached = cache[s]
    BY <1>1, BeginEffects DEF Holds
  <2> QED BY <2>1, <2>2, NonceQuiet
<1>2. ASSUME NEW s \in Senders,
             TakeOwn(s) \/ TakeForeign(s) \/ PutBack(s) \/ AskKey(s) \/ TakeKey(s)
      PROVE  NonceInv'
  <2>1. (\E c : Goes(s, c)) /\ UNCHANGED <<cache, last>>
    BY <1>2 DEF TakeOwn, TakeForeign, PutBack, AskKey, TakeKey
  <2>2. call[s].kind = "device"
    BY <1>2 DEF Types, TakeOwn, TakeForeign, PutBack, AskKey, TakeKey, At
  <2>3. call'[s].kind = call[s].kind
    BY <1>2, StepEffects DEF Same
  <2>4. ~Holds(call'[s])
    BY <2>2, <2>3 DEF Holds
  <2> QED BY <2>1, <2>4, NonceQuiet
<1>3. ASSUME NEW s \in Senders, Ask(s) PROVE NonceInv'
  <2>1. (\E c : Goes(s, c)) /\ UNCHANGED <<cache, last>>
    BY <1>3 DEF Ask
  <2>2. Same(call'[s], call[s]) /\ call'[s].pc = "wait" /\ call[s].pc = "ask"
    BY <1>3, StepEffects DEF Ask, At
  <2>3. Holds(call'[s]) => Holds(call[s])
    BY <2>2 DEF Holds, Same
  <2> QED BY <2>1, <2>2, <2>3, NonceQuiet DEF NonceInv, Same
<1>4. ASSUME NEW s \in Senders, TakeAny(s) \/ \E n \in Nonces : AskById(s, n) PROVE NonceInv'
  <2>1. (\E c : Goes(s, c)) /\ UNCHANGED <<cache, last>>
    BY <1>4 DEF TakeAny, AskById
  <2>2. /\ Same(call'[s], call[s]) /\ call'[s].pc = "submit"
        /\ call'[s].nonce >= call[s].cached
    BY <1>4, StepEffects
  <2>3. (call[s].pc = "wait" /\ call[s].kind # "plain") \/ call[s].pc = "ask"
    BY <1>4 DEF TakeAny, AskById, At
  <2>4. Holds(call'[s]) => Holds(call[s])
    BY <2>2, <2>3 DEF Holds, Same
  <2> QED BY <2>1, <2>2, <2>4, NonceQuiet DEF NonceInv, Same
<1>5. ASSUME NEW s \in Senders, Submit(s) PROVE NonceInv'
  <2>1. (\E c : Goes(s, c)) /\ UNCHANGED <<cache, last>>
    BY <1>5 DEF Submit
  <2>2. /\ Same(call'[s], call[s]) /\ call'[s].nonce = call[s].nonce /\ call[s].pc = "submit"
        /\ call'[s].pc = IF call[s].kind = "secp" THEN "ack" ELSE "receipt"
    BY <1>5, StepEffects DEF Submit, At
  <2>3. Holds(call'[s]) => Holds(call[s])
    BY <2>2 DEF Holds, Same
  <2> QED BY <2>1, <2>2, <2>3, NonceQuiet DEF NonceInv, Same
<1>6. ASSUME NEW s \in Senders, Ack(s) PROVE NonceInv'
  <2>1. (\E c : Goes(s, c)) /\ Accepted(s)
    BY <1>6 DEF Ack
  <2>2. call[s].pc = "ack" /\ call[s].kind = "secp"
    BY <1>6 DEF Ack, At, Types
  <2>3. call[s].nonce >= cache[s]
    BY <2>2 DEF NonceInv, Holds
  <2>4. ~Holds(call'[s])
    BY <1>6, <2>2, StepEffects DEF Holds, Same
  <2> QED BY <2>1, <2>3, <2>4, NonceAccepted
<1>7. ASSUME NEW s \in Senders, Ends(s) PROVE NonceInv'
  <2>1. Returns(s) /\ (\E c : Goes(s, c))
    BY <1>7, EndTypes DEF Returns
  <2>2. ~Holds(call'[s])
    BY <2>1, ReturnEffect DEF Holds
  <2>3. CASE Receipt(s) /\ call[s].kind = "plain"
    <3>1. Accepted(s) /\ call[s].pc = "receipt"
      BY <2>3 DEF Receipt, At
    <3>2. call[s].nonce >= cache[s]
      BY <2>3, <3>1 DEF NonceInv, Holds
    <3> QED BY <2>1, <2>2, <3>1, <3>2, NonceAccepted
  <2>4. CASE ~(Receipt(s) /\ call[s].kind = "plain")
    <3>1. UNCHANGED <<cache, last>>
      BY <1>7, <2>4 DEF Ends, AskByIdFails, AskKeyFails, SubmitFails, Save, Receipt, NoAnswer
    <3> QED BY <2>1, <2>2, <3>1, NonceQuiet
  <2> QED BY <2>3, <2>4
<1>8. ASSUME UNCHANGED <<call, cache, last>> PROVE NonceInv'
  BY <1>8 DEF NonceInv
<1>9. ASSUME \/ \E c \in asks, n \in Nonces : StateArrives(c, n)
             \/ \E c \in late, n \in Nonces : LateStateArrives(c, n)
             \/ \E c \in keyAsks : KeyArrives(c)
             \/ Break \/ Reconnects \/ UNCHANGED vars
      PROVE  NonceInv'
  BY <1>8, <1>9 DEF StateArrives, LateStateArrives, KeyArrives, Break, Reconnects, vars
<1> QED BY <1>1, <1>2, <1>3, <1>4, <1>5, <1>6, <1>7, <1>9 DEF Next, SenderStep, Ends

\* After a call of a helper was accepted, no later call of a helper for the account
\* uses its nonce again, however far the node lags behind and however many calls,
\* errors and timeouts there are: what nonceCache in tx_helper.go is for.
THEOREM NoncesAdvance == Spec => []NonceAdvances
<1>1. Init => Types /\ NonceInv
  <2>1. Init => NonceInv
    BY IdleType DEF Init, NonceInv, Holds
  <2> QED BY <2>1, InitTypes
<1>2. Types /\ NonceInv /\ [Next]_vars => (Types /\ NonceInv)'
  BY TypesStep, NonceStep
<1>3. Types /\ NonceInv => NonceAdvances
  <2> SUFFICES ASSUME Types, NonceInv, NEW s \in Senders,
                      call[s].kind \in {"secp", "plain"}, At(s, "submit")
               PROVE  call[s].nonce > last[s]
    BY DEF NonceAdvances
  <2>1. Holds(call[s]) /\ call[s].pc = "submit"
    BY DEF Holds, At
  <2>2. cache[s] = last[s] + 1 /\ call[s].nonce >= cache[s]
    BY <2>1 DEF NonceInv
  <2>3. call[s].nonce \in Nat /\ last[s] \in Int
    BY DEF Types, CallRecords
  <2> QED BY <2>2, <2>3
<1> QED BY <1>1, <1>2, <1>3, PTL DEF Spec

-----------------------------------------------------------------------------
(* The answers in the channels.                                            *)

Putting == {s \in Senders : At(s, "put")}

Keying == {s \in Senders : At(s, "key")}

BeforeKey == {"ask", "wait", "put", "askkey"}

\* A question that is on its way was asked by a call that is past asking: no call asks
\* the same question twice.
NumberInv ==
    /\ \A c \in asks :
          /\ c.number <= call[c.of].number
          /\ c.number = call[c.of].number => call[c.of].pc # "ask"
    /\ \A c \in keyAsks :
          /\ c.number <= call[c.of].number
          /\ c.number = call[c.of].number => call[c.of].pc \notin BeforeKey

LEMMA NumberMoves ==
  ASSUME Types, NumberInv, NEW s \in Senders, NEW c, Goes(s, c), call'[s] \in CallRecords,
         \/ call'[s].number = call[s].number + 1
         \/ /\ call'[s].number = call[s].number
            /\ call'[s].pc = "ask" => call[s].pc = "ask"
            /\ call'[s].pc \in BeforeKey => call[s].pc \in BeforeKey,
         \/ asks' \subseteq asks
         \/ /\ asks' = asks \cup {ThisCall(s)} /\ call'[s].pc # "ask"
            /\ call'[s].number = call[s].number,
         \/ keyAsks' \subseteq keyAsks
         \/ /\ keyAsks' = keyAsks \cup {ThisCall(s)} /\ call'[s].pc \notin BeforeKey
            /\ call'[s].number = call[s].number
  PROVE  NumberInv'
<1>0. /\ \A t \in Senders \ {s} : call'[t] = call[t]
      /\ call[s].number \in Nat /\ call'[s].number \in Nat
  BY Moved DEF Types, CallRecords
<1>1. /\ ThisCall(s).of = s /\ ThisCall(s).number = call[s].number
  BY DEF ThisCall
<1>2. ASSUME NEW d \in asks'
      PROVE  /\ d.number <= call'[d.of].number
             /\ d.number = call'[d.of].number => call'[d.of].pc # "ask"
  <2>1. CASE d \in asks
    <3>1. d.of \in Senders /\ d.number \in Nat
      BY <2>1 DEF Types, CallIds
    <3>2. /\ d.number <= call[d.of].number
          /\ d.number = call[d.of].number => call[d.of].pc # "ask"
      BY <2>1 DEF NumberInv
    <3>3. CASE d.of # s
      BY <1>0, <3>1, <3>2, <3>3
    <3>4. CASE d.of = s
      BY <1>0, <3>1, <3>2, <3>4
    <3> QED BY <3>3, <3>4
  <2>2. CASE d \notin asks
    BY <1>0, <1>1, <1>2, <2>2
  <2> QED BY <2>1, <2>2
<1>3. ASSUME NEW d \in keyAsks'
      PROVE  /\ d.number <= call'[d.of].number
             /\ d.number = call'[d.of].number => call'[d.of].pc \notin BeforeKey
  <2>1. CASE d \in keyAsks
    <3>1. d.of \in Senders /\ d.number \in Nat
      BY <2>1 DEF Types, CallIds
    <3>2. /\ d.number <= call[d.of].number
          /\ d.number = call[d.of].number => call[d.of].pc \notin BeforeKey
      BY <2>1 DEF NumberInv
    <3>3. CASE d.of # s
      BY <1>0, <3>1, <3>2, <3>3
    <3>4. CASE d.of = s
      BY <1>0, <3>1, <3>2, <3>4
    <3> QED BY <3>3, <3>4
  <2>2. CASE d \notin keyAsks
    BY <1>0, <1>1, <1>3, <2>2
  <2> QED BY <2>1, <2>2
<1> QED BY <1>2, <1>3 DEF NumberInv

\* How the numbers of waiting calls change when one call goes on.
One(x, S) == IF x \in S THEN 1 ELSE 0

LEMMA CountOne ==
  ASSUME NEW S, NEW T, IsFiniteSet(S), NEW x, \A y : y # x => (y \in S <=> y \in T)
  PROVE  /\ IsFiniteSet(T) /\ Cardinality(S) \in Nat /\ Cardinality(T) \in Nat
         /\ Cardinality(T) = Cardinality(S) + One(x, T) - One(x, S)
<1>1. CASE x \in T
  <2>1. T = S \cup {x}
    BY <1>1
  <2> QED BY <1>1, <2>1, FS_AddElement, FS_CardinalityType DEF One
<1>2. CASE x \notin T
  <2>1. T = S \ {x}
    BY <1>2
  <2> QED BY <1>2, <2>1, FS_RemoveElement, FS_CardinalityType DEF One
<1> QED BY <1>1, <1>2

LEMMA CountMoves ==
  ASSUME Types, NEW s \in Senders, NEW c, Goes(s, c)
  PROVE  /\ Cardinality(Waiting) \in Nat /\ Cardinality(Waiting') \in Nat
         /\ Cardinality(Putting) \in Nat /\ Cardinality(Putting') \in Nat
         /\ Cardinality(Keying) \in Nat /\ Cardinality(Keying') \in Nat
         /\ Cardinality(Waiting') = Cardinality(Waiting)
                + One(call'[s].pc, {"wait", "put"}) - One(call[s].pc, {"wait", "put"})
         /\ Cardinality(Putting') = Cardinality(Putting)
                + One(call'[s].pc, {"put"}) - One(call[s].pc, {"put"})
         /\ Cardinality(Keying') = Cardinality(Keying)
                + One(call'[s].pc, {"key"}) - One(call[s].pc, {"key"})
<1>0. \A t \in Senders \ {s} : call'[t] = call[t]
  BY Moved
<1>1. IsFiniteSet(Waiting) /\ IsFiniteSet(Putting) /\ IsFiniteSet(Keying)
  BY FlowAssumption, FS_Subset DEF Waiting, Putting, Keying
<1>2. /\ Cardinality(Waiting) \in Nat /\ Cardinality(Waiting') \in Nat
      /\ Cardinality(Waiting') = Cardinality(Waiting) + One(s, Waiting') - One(s, Waiting)
  <2>1. \A t : t # s => (t \in Waiting <=> t \in Waiting')
    BY <1>0 DEF Waiting
  <2> QED BY <1>1, <2>1, CountOne
<1>3. /\ Cardinality(Putting) \in Nat /\ Cardinality(Putting') \in Nat
      /\ Cardinality(Putting') = Cardinality(Putting) + One(s, Putting') - One(s, Putting)
  <2>1. \A t : t # s => (t \in Putting <=> t \in Putting')
    BY <1>0 DEF Putting, At
  <2> QED BY <1>1, <2>1, CountOne
<1>4. /\ Cardinality(Keying) \in Nat /\ Cardinality(Keying') \in Nat
      /\ Cardinality(Keying') = Cardinality(Keying) + One(s, Keying') - One(s, Keying)
  <2>1. \A t : t # s => (t \in Keying <=> t \in Keying')
    BY <1>0 DEF Keying, At
  <2> QED BY <1>1, <2>1, CountOne
<1>5. /\ s \in Waiting <=> call[s].pc \in {"wait", "put"}
      /\ s \in Waiting' <=> call'[s].pc \in {"wait", "put"}
      /\ s \in Putting <=> call[s].pc = "put"
      /\ s \in Putting' <=> call'[s].pc = "put"
      /\ s \in Keying <=> call[s].pc = "key"
      /\ s \in Keying' <=> call'[s].pc = "key"
  BY DEF Waiting, Putting, Keying, At
<1> QED BY <1>2, <1>3, <1>4, <1>5 DEF One

LEMMA CountsAreNat ==
  ASSUME Types
  PROVE  /\ Cardinality(asks) \in Nat /\ Cardinality(keyAsks) \in Nat
         /\ Len(stateCh) \in Nat /\ Len(keyCh) \in Nat /\ Len(keyCh) <= 1
         /\ lost.states \in Nat /\ lost.keys \in Nat /\ Cardinality(stray) \in Nat
<1>1. IsFiniteSet(asks) /\ IsFiniteSet(keyAsks) /\ IsFiniteSet(stray)
  BY DEF Types
<1>2. Cardinality(asks) \in Nat /\ Cardinality(keyAsks) \in Nat /\ Cardinality(stray) \in Nat
  BY <1>1, FS_CardinalityType
<1>3. Len(stateCh) \in Nat /\ Len(keyCh) \in Nat /\ Len(keyCh) <= 1
  BY DEF Types
<1>4. lost.states \in Nat /\ lost.keys \in Nat
  BY DEF Types
<1> QED BY <1>2, <1>3, <1>4

\* An ask by id that timed out belongs to a call that is over, and is answered once.
LateInv ==
    /\ late \cap stray = {}
    /\ \A c \in late \cup stray :
          \/ c.number < call[c.of].number
          \/ c.number = call[c.of].number /\ call[c.of].pc = "idle"

LEMMA LateMoves ==
  ASSUME Types, LateInv, NEW s \in Senders, NEW c, Goes(s, c), stray' = stray,
         \/ late' = late
         \/ /\ late' = late \cup {ThisCall(s)} /\ call[s].pc # "idle"
            /\ call'[s].pc = "idle" /\ call'[s].number = call[s].number,
         \/ call'[s].number = call[s].number + 1
         \/ call'[s].number = call[s].number /\ call[s].pc # "idle"
  PROVE  LateInv'
<1>1. \A t \in Senders \ {s} : call'[t] = call[t]
  BY Moved
<1>2. ThisCall(s).of = s /\ ThisCall(s).number = call[s].number /\ call[s].number \in Nat
  BY DEF ThisCall, Types, CallRecords
<1>3. ASSUME NEW d \in late \cup stray
      PROVE  /\ \/ d.number < call'[d.of].number
                \/ d.number = call'[d.of].number /\ call'[d.of].pc = "idle"
             /\ call[s].pc # "idle" => d # ThisCall(s)
  <2>1. d.of \in Senders /\ d.number \in Nat /\ call[d.of].number \in Nat
    BY DEF Types, CallIds, CallRecords
  <2>2. \/ d.number < call[d.of].number
        \/ d.number = call[d.of].number /\ call[d.of].pc = "idle"
    BY DEF LateInv
  <2>3. CASE d.of = s
    BY <1>2, <2>1, <2>2, <2>3
  <2>4. CASE d.of # s
    BY <1>1, <1>2, <2>1, <2>2, <2>4
  <2> QED BY <2>3, <2>4
<1>4. late' \cap stray' = {}
  BY <1>3 DEF LateInv
<1>5. ASSUME NEW d \in late' \cup stray'
      PROVE  \/ d.number < call'[d.of].number
             \/ d.number = call'[d.of].number /\ call'[d.of].pc = "idle"
  <2>1. CASE d \in late \cup stray
    BY <1>3, <2>1
  <2>2. CASE d \notin late \cup stray
    BY <1>2, <1>5, <2>2
  <2> QED BY <2>1, <2>2
<1> QED BY <1>4, <1>5 DEF LateInv

LEMMA LateStill ==
  ASSUME LateInv, call' = call, late' \subseteq late,
         stray' = stray \/ \E c \in late : stray' = stray \cup {c} /\ late' = late \ {c}
  PROVE  LateInv'
  BY DEF LateInv

LEMMA LateStep ==
  ASSUME Types, LateInv, [Next]_vars
  PROVE  LateInv'
<1>1. ASSUME NEW s \in Senders, NEW k \in Kinds,
             Begin(s, k) \/ BeginReconnects(s, k) \/ BeginFails(s, k)
      PROVE  LateInv'
  <2>1. (\E c : Goes(s, c)) /\ late' = late /\ stray' = stray
    BY <1>1 DEF Begin, BeginReconnects, BeginFails
  <2>2. call'[s].number = call[s].number + 1
    BY <1>1, BeginEffects
  <2> QED BY <2>1, <2>2, LateMoves
<1>2. ASSUME NEW s \in Senders,
             \/ Ask(s) \/ TakeOwn(s) \/ TakeForeign(s) \/ PutBack(s) \/ TakeAny(s)
             \/ AskKey(s) \/ TakeKey(s) \/ Submit(s) \/ Ack(s)
             \/ \E n \in Nonces : AskById(s, n)
      PROVE  LateInv'
  <2>1. /\ (\E c : Goes(s, c)) /\ late' = late /\ stray' = stray /\ call[s].pc # "idle"
    BY <1>2 DEF Ask, TakeOwn, TakeForeign, PutBack, TakeAny, AskKey, TakeKey, Submit, Ack,
                AskById, At
  <2>2. call'[s].number = call[s].number
    BY <1>2, StepEffects DEF Same
  <2> QED BY <2>1, <2>2, LateMoves
<1>3. ASSUME NEW s \in Senders, Ends(s) PROVE LateInv'
  <2>1. /\ Returns(s) /\ stray' = stray
        /\ late' = late \/ late' = late \cup {ThisCall(s)}
    BY <1>3, EndTypes
  <2>2. call'[s].pc = "idle" /\ call'[s].number = call[s].number
    BY <2>1, ReturnEffect
  <2>3. call[s].pc # "idle"
    BY <1>3 DEF Ends, AskByIdFails, AskKeyFails, SubmitFails, Save, Receipt, NoAnswer, At
  <2> QED BY <2>1, <2>2, <2>3, LateMoves DEF Returns
<1>4. ASSUME \/ \E c \in asks, n \in Nonces : StateArrives(c, n)
             \/ \E c \in late, n \in Nonces : LateStateArrives(c, n)
             \/ \E c \in keyAsks : KeyArrives(c)
             \/ Break \/ Reconnects \/ UNCHANGED vars
      PROVE  LateInv'
  BY <1>4, LateStill DEF StateArrives, LateStateArrives, KeyArrives, Break, Reconnects, vars
<1> QED BY <1>1, <1>2, <1>3, <1>4 DEF Next, SenderStep, Ends

Conserved == AnswersConserved /\ NumberInv

LEMMA ConservedDef ==
    /\ AnswersConserved <=>
          /\ Cardinality(asks) + Len(stateCh) + Cardinality(Putting) + lost.states
                = Cardinality(Waiting) + Cardinality(stray)
          /\ Cardinality(keyAsks) + Len(keyCh) + lost.keys = Cardinality(Keying)
    /\ AnswersConserved' <=>
          /\ Cardinality(asks') + Len(stateCh') + Cardinality(Putting') + lost'.states
                = Cardinality(Waiting') + Cardinality(stray')
          /\ Cardinality(keyAsks') + Len(keyCh') + lost'.keys = Cardinality(Keying')
  BY DEF AnswersConserved, StatesConserved, KeysConserved, Putting, Keying

\* A call goes on, and the numbers stay equal.
LEMMA Balance ==
  ASSUME Types, Types', AnswersConserved, NEW s \in Senders, NEW c, Goes(s, c), stray' = stray,
         Cardinality(asks') + Len(stateCh') + One(call'[s].pc, {"put"}) + lost'.states
             - One(call'[s].pc, {"wait", "put"})
         = Cardinality(asks) + Len(stateCh) + One(call[s].pc, {"put"}) + lost.states
             - One(call[s].pc, {"wait", "put"}),
         Cardinality(keyAsks') + Len(keyCh') + lost'.keys - One(call'[s].pc, {"key"})
         = Cardinality(keyAsks) + Len(keyCh) + lost.keys - One(call[s].pc, {"key"})
  PROVE  AnswersConserved'
<1>1. /\ Cardinality(asks) \in Nat /\ Cardinality(keyAsks) \in Nat
      /\ Len(stateCh) \in Nat /\ Len(keyCh) \in Nat /\ Len(keyCh) <= 1
      /\ lost.states \in Nat /\ lost.keys \in Nat /\ Cardinality(stray) \in Nat
  BY CountsAreNat
<1>2. /\ Cardinality(asks') \in Nat /\ Cardinality(keyAsks') \in Nat
      /\ Len(stateCh') \in Nat /\ Len(keyCh') \in Nat
      /\ lost'.states \in Nat /\ lost'.keys \in Nat
  <2>1. IsFiniteSet(asks') /\ IsFiniteSet(keyAsks')
    BY DEF Types
  <2>2. Cardinality(asks') \in Nat /\ Cardinality(keyAsks') \in Nat
    BY <2>1, FS_CardinalityType
  <2>3. Len(stateCh') \in Nat /\ Len(keyCh') \in Nat
    BY DEF Types
  <2>4. lost'.states \in Nat /\ lost'.keys \in Nat
    BY DEF Types
  <2> QED BY <2>2, <2>3, <2>4
<1>3. /\ One(call[s].pc, {"put"}) \in Nat /\ One(call'[s].pc, {"put"}) \in Nat
      /\ One(call[s].pc, {"key"}) \in Nat /\ One(call'[s].pc, {"key"}) \in Nat
      /\ One(call[s].pc, {"wait", "put"}) \in Nat /\ One(call'[s].pc, {"wait", "put"}) \in Nat
  BY DEF One
<1>4. /\ Cardinality(Waiting) \in Nat /\ Cardinality(Waiting') \in Nat
      /\ Cardinality(Putting) \in Nat /\ Cardinality(Putting') \in Nat
      /\ Cardinality(Keying) \in Nat /\ Cardinality(Keying') \in Nat
      /\ Cardinality(Waiting') = Cardinality(Waiting)
             + One(call'[s].pc, {"wait", "put"}) - One(call[s].pc, {"wait", "put"})
      /\ Cardinality(Putting') = Cardinality(Putting)
             + One(call'[s].pc, {"put"}) - One(call[s].pc, {"put"})
      /\ Cardinality(Keying') = Cardinality(Keying)
             + One(call'[s].pc, {"key"}) - One(call[s].pc, {"key"})
  BY CountMoves
<1>5. /\ Cardinality(asks) + Len(stateCh) + Cardinality(Putting) + lost.states
             = Cardinality(Waiting) + Cardinality(stray)
      /\ Cardinality(keyAsks) + Len(keyCh) + lost.keys = Cardinality(Keying)
  BY ConservedDef
<1>6. Cardinality(asks') + Len(stateCh') + Cardinality(Putting') + lost'.states
          = Cardinality(Waiting') + Cardinality(stray')
  <2>1. PICK a \in Nat, l \in Nat, p \in Nat, x \in Nat, w \in Nat :
            /\ a = Cardinality(asks) /\ l = Len(stateCh) /\ x = lost.states
            /\ p = One(call[s].pc, {"put"}) /\ w = One(call[s].pc, {"wait", "put"})
    BY <1>1, <1>3
  <2>2. PICK ap \in Nat, lp \in Nat, pp \in Nat, xp \in Nat, wp \in Nat :
            /\ ap = Cardinality(asks') /\ lp = Len(stateCh') /\ xp = lost'.states
            /\ pp = One(call'[s].pc, {"put"}) /\ wp = One(call'[s].pc, {"wait", "put"})
    BY <1>2, <1>3
  <2>3. PICK P \in Nat, W \in Nat, Pp \in Nat, Wp \in Nat, z \in Nat :
            /\ P = Cardinality(Putting) /\ W = Cardinality(Waiting) /\ z = Cardinality(stray)
            /\ Pp = Cardinality(Putting') /\ Wp = Cardinality(Waiting')
    BY <1>1, <1>4
  <2>4. /\ ap + lp + pp + xp - wp = a + l + p + x - w
        /\ Wp = W + wp - w /\ Pp = P + pp - p /\ a + l + P + x = W + z
    BY <1>4, <1>5, <2>1, <2>2, <2>3
  <2>6. /\ a \in Nat /\ l \in Nat /\ p \in Nat /\ x \in Nat /\ w \in Nat
        /\ ap \in Nat /\ lp \in Nat /\ pp \in Nat /\ xp \in Nat /\ wp \in Nat
        /\ P \in Nat /\ W \in Nat /\ Pp \in Nat /\ Wp \in Nat /\ z \in Nat
    BY <2>1, <2>2, <2>3
  <2>5. ap + lp + Pp + xp = Wp + z
    BY <2>4, <2>6
  <2> QED BY <2>2, <2>3, <2>5
<1>7. Cardinality(keyAsks') + Len(keyCh') + lost'.keys = Cardinality(Keying')
  <2>1. PICK q \in Nat, h \in Nat, y \in Nat, k \in Nat, K \in Nat :
            /\ q = Cardinality(keyAsks) /\ h = Len(keyCh) /\ y = lost.keys
            /\ k = One(call[s].pc, {"key"}) /\ K = Cardinality(Keying)
    BY <1>1, <1>3, <1>4
  <2>2. PICK qp \in Nat, hp \in Nat, yp \in Nat, kp \in Nat, Kp \in Nat :
            /\ qp = Cardinality(keyAsks') /\ hp = Len(keyCh') /\ yp = lost'.keys
            /\ kp = One(call'[s].pc, {"key"}) /\ Kp = Cardinality(Keying')
    BY <1>2, <1>3, <1>4
  <2>3. qp + hp + yp - kp = q + h + y - k /\ Kp = K + kp - k /\ q + h + y = K
    BY <1>4, <1>5, <2>1, <2>2
  <2>4. qp + hp + yp = Kp
    BY <2>3
  <2> QED BY <2>2, <2>4
<1> QED BY <1>6, <1>7, ConservedDef

\* Steps of a call that touch neither the questions nor the answers.
LEMMA QuietBalance ==
  ASSUME Types, Types', Conserved, NEW s \in Senders, NEW c, Goes(s, c),
         UNCHANGED <<asks, stateCh, keyAsks, keyCh, lost, stray>>,
         call[s].pc \notin {"wait", "put", "key"}, call'[s].pc \notin {"wait", "put", "key"},
         \/ call'[s].number = call[s].number + 1
         \/ /\ call'[s].number = call[s].number
            /\ call'[s].pc = "ask" => call[s].pc = "ask"
            /\ call'[s].pc \in BeforeKey => call[s].pc \in BeforeKey
  PROVE  Conserved'
<1>1. call'[s] \in CallRecords
  BY DEF Types
<1>2. NumberInv'
  BY <1>1, NumberMoves DEF Conserved
<1>3. AnswersConserved'
  BY Balance DEF Conserved, One
<1> QED BY <1>2, <1>3 DEF Conserved

LEMMA BeginConserves ==
  ASSUME Types, Types', Conserved, NEW s \in Senders, NEW k \in Kinds,
         Begin(s, k) \/ BeginReconnects(s, k) \/ BeginFails(s, k)
  PROVE  Conserved'
<1>1. /\ \E c : Goes(s, c)
      /\ UNCHANGED <<asks, stateCh, keyAsks, keyCh, lost, stray>> /\ call[s].pc = "idle"
  BY DEF Begin, BeginReconnects, BeginFails, At
<1>2. call'[s].pc \in {"ask", "idle"} /\ call'[s].number = call[s].number + 1
  BY BeginEffects
<1> QED BY <1>1, <1>2, QuietBalance

LEMMA AskConserves ==
  ASSUME Types, Types', Conserved, NEW s \in Senders, Ask(s)
  PROVE  Conserved'
<1>1. /\ (\E c : Goes(s, c)) /\ UNCHANGED <<stateCh, keyAsks, keyCh, stray>> /\ call[s].pc = "ask"
      /\ \/ asks' = asks \cup {ThisCall(s)} /\ lost' = lost
         \/ lost' = [lost EXCEPT !.states = @ + 1] /\ asks' = asks
  BY DEF Ask, At
<1>2. Same(call'[s], call[s]) /\ call'[s].pc = "wait"
  BY StepEffects
<1>3. ThisCall(s) \notin asks
  BY <1>1 DEF Conserved, NumberInv, ThisCall
<1>4. NumberInv'
  BY <1>1, <1>2, NumberMoves DEF Conserved, Same, BeforeKey
<1>5. /\ Cardinality(asks) \in Nat /\ Cardinality(keyAsks) \in Nat
      /\ Len(stateCh) \in Nat /\ Len(keyCh) \in Nat
      /\ lost.states \in Nat /\ lost.keys \in Nat
  BY CountsAreNat
<1>6. /\ Cardinality(asks') + lost'.states = Cardinality(asks) + lost.states + 1
      /\ lost'.keys = lost.keys /\ Cardinality(asks') \in Nat /\ lost'.states \in Nat
  <2>1. CASE asks' = asks \cup {ThisCall(s)} /\ lost' = lost
    <3>1. Cardinality(asks') = Cardinality(asks) + 1
      BY <1>3, <2>1, FS_AddElement DEF Types
    <3> QED BY <1>5, <2>1, <3>1
  <2>2. CASE lost' = [lost EXCEPT !.states = @ + 1] /\ asks' = asks
    <3>1. lost \in [states : Nat, keys : Nat]
      BY DEF Types
    <3> QED BY <1>5, <2>2, <3>1
  <2> QED BY <1>1, <2>1, <2>2
<1>7. /\ One(call'[s].pc, {"put"}) = 0 /\ One(call'[s].pc, {"wait", "put"}) = 1
      /\ One(call[s].pc, {"put"}) = 0 /\ One(call[s].pc, {"wait", "put"}) = 0
      /\ One(call'[s].pc, {"key"}) = 0 /\ One(call[s].pc, {"key"}) = 0
  BY <1>1, <1>2 DEF One
<1>8. /\ Cardinality(asks') + Len(stateCh') + 0 + lost'.states - One(call'[s].pc, {"wait", "put"})
             = Cardinality(asks) + Len(stateCh) + 0 + lost.states
                   - One(call[s].pc, {"wait", "put"})
      /\ Cardinality(keyAsks') + Len(keyCh') + lost'.keys - One(call'[s].pc, {"key"})
             = Cardinality(keyAsks) + Len(keyCh) + lost.keys - One(call[s].pc, {"key"})
  <2>1. /\ Len(stateCh') = Len(stateCh) /\ Len(keyCh') = Len(keyCh)
        /\ Cardinality(keyAsks') = Cardinality(keyAsks)
    BY <1>1
  <2>2. Cardinality(asks') + Len(stateCh') + 0 + lost'.states - 1
            = Cardinality(asks) + Len(stateCh) + 0 + lost.states - 0
    <3>1. PICK a \in Nat, x \in Nat, ap \in Nat, xp \in Nat, l \in Nat :
             /\ a = Cardinality(asks) /\ x = lost.states /\ l = Len(stateCh)
             /\ ap = Cardinality(asks') /\ xp = lost'.states
      BY <1>5, <1>6
    <3>2. /\ a \in Nat /\ x \in Nat /\ ap \in Nat /\ xp \in Nat /\ l \in Nat
          /\ ap + xp = a + x + 1
      BY <1>6, <3>1
    <3>3. ap + l + 0 + xp - 1 = a + l + 0 + x - 0
      BY <3>2
    <3> QED BY <2>1, <3>1, <3>3
  <2>3. Cardinality(keyAsks') + Len(keyCh') + lost'.keys - 0
            = Cardinality(keyAsks) + Len(keyCh) + lost.keys - 0
    BY <1>5, <1>6, <2>1
  <2> QED BY <1>7, <2>2, <2>3
<1>9. AnswersConserved'
  BY <1>1, <1>7, <1>8, Balance DEF Conserved
<1> QED BY <1>4, <1>9 DEF Conserved

LEMMA AskKeyConserves ==
  ASSUME Types, Types', Conserved, NEW s \in Senders, AskKey(s)
  PROVE  Conserved'
<1>1. /\ (\E c : Goes(s, c)) /\ UNCHANGED <<stateCh, asks, keyCh, stray>> /\ call[s].pc = "askkey"
      /\ \/ keyAsks' = keyAsks \cup {ThisCall(s)} /\ lost' = lost
         \/ lost' = [lost EXCEPT !.keys = @ + 1] /\ keyAsks' = keyAsks
  BY DEF AskKey, At
<1>2. Same(call'[s], call[s]) /\ call'[s].pc = "key"
  BY StepEffects
<1>3. ThisCall(s) \notin keyAsks
  BY <1>1 DEF Conserved, NumberInv, ThisCall, BeforeKey
<1>4. NumberInv'
  BY <1>1, <1>2, NumberMoves DEF Conserved, Same, BeforeKey
<1>5. /\ Cardinality(asks) \in Nat /\ Cardinality(keyAsks) \in Nat
      /\ Len(stateCh) \in Nat /\ Len(keyCh) \in Nat
      /\ lost.states \in Nat /\ lost.keys \in Nat
  BY CountsAreNat
<1>6. /\ Cardinality(keyAsks') + lost'.keys = Cardinality(keyAsks) + lost.keys + 1
      /\ lost'.states = lost.states /\ Cardinality(keyAsks') \in Nat /\ lost'.keys \in Nat
  <2>1. CASE keyAsks' = keyAsks \cup {ThisCall(s)} /\ lost' = lost
    <3>1. Cardinality(keyAsks') = Cardinality(keyAsks) + 1
      BY <1>3, <2>1, FS_AddElement DEF Types
    <3> QED BY <1>5, <2>1, <3>1
  <2>2. CASE lost' = [lost EXCEPT !.keys = @ + 1] /\ keyAsks' = keyAsks
    <3>1. lost \in [states : Nat, keys : Nat]
      BY DEF Types
    <3> QED BY <1>5, <2>2, <3>1
  <2> QED BY <1>1, <2>1, <2>2
<1>7. /\ One(call'[s].pc, {"put"}) = 0 /\ One(call'[s].pc, {"wait", "put"}) = 0
      /\ One(call[s].pc, {"put"}) = 0 /\ One(call[s].pc, {"wait", "put"}) = 0
      /\ One(call'[s].pc, {"key"}) = 1 /\ One(call[s].pc, {"key"}) = 0
  BY <1>1, <1>2 DEF One
<1>8. /\ Cardinality(asks') + Len(stateCh') + 0 + lost'.states - One(call'[s].pc, {"wait", "put"})
             = Cardinality(asks) + Len(stateCh) + 0 + lost.states
                   - One(call[s].pc, {"wait", "put"})
      /\ Cardinality(keyAsks') + Len(keyCh') + lost'.keys - One(call'[s].pc, {"key"})
             = Cardinality(keyAsks) + Len(keyCh) + lost.keys - One(call[s].pc, {"key"})
  <2>1. /\ Len(stateCh') = Len(stateCh) /\ Len(keyCh') = Len(keyCh)
        /\ Cardinality(asks') = Cardinality(asks)
    BY <1>1
  <2>2. Cardinality(keyAsks') + Len(keyCh') + lost'.keys - 1
            = Cardinality(keyAsks) + Len(keyCh) + lost.keys - 0
    <3>1. PICK a \in Nat, x \in Nat, ap \in Nat, xp \in Nat, l \in Nat :
             /\ a = Cardinality(keyAsks) /\ x = lost.keys /\ l = Len(keyCh)
             /\ ap = Cardinality(keyAsks') /\ xp = lost'.keys
      BY <1>5, <1>6
    <3>2. /\ a \in Nat /\ x \in Nat /\ ap \in Nat /\ xp \in Nat /\ l \in Nat
          /\ ap + xp = a + x + 1
      BY <1>6, <3>1
    <3>3. ap + l + xp - 1 = a + l + x - 0
      BY <3>2
    <3> QED BY <2>1, <3>1, <3>3
  <2>3. Cardinality(asks') + Len(stateCh') + 0 + lost'.states - 0
            = Cardinality(asks) + Len(stateCh) + 0 + lost.states - 0
    BY <1>5, <1>6, <2>1
  <2> QED BY <1>7, <2>2, <2>3
<1>9. AnswersConserved'
  BY <1>1, <1>7, <1>8, Balance DEF Conserved
<1> QED BY <1>4, <1>9 DEF Conserved

LEMMA TakeConserves ==
  ASSUME Types, Types', Conserved, NEW s \in Senders,
         TakeOwn(s) \/ TakeForeign(s) \/ TakeAny(s) \/ PutBack(s)
  PROVE  Conserved'
<1>1. (\E c : Goes(s, c)) /\ UNCHANGED <<asks, keyAsks, keyCh, lost, stray>>
  BY DEF TakeOwn, TakeForeign, TakeAny, PutBack
<1>2. Same(call'[s], call[s])
  BY StepEffects
<1>3. \/ /\ call[s].pc = "wait" /\ call'[s].pc \in {"askkey", "submit", "put"}
         /\ Len(stateCh') = Len(stateCh) - 1
      \/ /\ call[s].pc = "put" /\ call'[s].pc = "wait"
         /\ Len(stateCh') = Len(stateCh) + 1
  <2>1. CASE PutBack(s)
    <3>1. call[s].pc = "put" /\ call[s].state \in Answers /\ stateCh' = Append(stateCh, call[s].state)
      BY <2>1 DEF PutBack, At, Types
    <3> QED BY <2>1, <3>1, StepEffects, Added DEF Types
  <2>2. CASE TakeOwn(s) \/ TakeForeign(s) \/ TakeAny(s)
    <3>1. call[s].pc = "wait" /\ stateCh # <<>> /\ stateCh' = Tail(stateCh)
      BY <2>2 DEF TakeOwn, TakeForeign, TakeAny, At
    <3> QED BY <2>2, <3>1, StepEffects, Taken DEF Types
  <2> QED BY <2>1, <2>2
<1>4. NumberInv'
  BY <1>1, <1>2, <1>3, NumberMoves DEF Conserved, Same, BeforeKey
<1>5. /\ Cardinality(asks) \in Nat /\ Cardinality(keyAsks) \in Nat
      /\ Len(stateCh) \in Nat /\ Len(keyCh) \in Nat
      /\ lost.states \in Nat /\ lost.keys \in Nat
  BY CountsAreNat
<1>6. /\ One(call'[s].pc, {"key"}) = 0 /\ One(call[s].pc, {"key"}) = 0
  BY <1>3 DEF One
<1>7. Len(stateCh') + One(call'[s].pc, {"put"}) - One(call'[s].pc, {"wait", "put"})
          = Len(stateCh) + One(call[s].pc, {"put"}) - One(call[s].pc, {"wait", "put"})
  <2>1. CASE call[s].pc = "put" /\ call'[s].pc = "wait" /\ Len(stateCh') = Len(stateCh) + 1
    BY <1>5, <2>1 DEF One
  <2>2. CASE /\ call[s].pc = "wait" /\ call'[s].pc = "put"
             /\ Len(stateCh') = Len(stateCh) - 1
    BY <1>5, <2>2 DEF One
  <2>3. CASE /\ call[s].pc = "wait" /\ call'[s].pc \in {"askkey", "submit"}
             /\ Len(stateCh') = Len(stateCh) - 1
    BY <1>5, <2>3 DEF One
  <2> QED BY <1>3, <2>1, <2>2, <2>3
<1>8. /\ One(call'[s].pc, {"put"}) \in Int /\ One(call'[s].pc, {"wait", "put"}) \in Int
      /\ One(call[s].pc, {"put"}) \in Int /\ One(call[s].pc, {"wait", "put"}) \in Int
      /\ Len(stateCh') \in Int /\ Len(stateCh) \in Int
  BY <1>3, <1>5 DEF One
<1>9. /\ Cardinality(asks') + Len(stateCh') + One(call'[s].pc, {"put"}) + lost'.states
                - One(call'[s].pc, {"wait", "put"})
             = Cardinality(asks) + Len(stateCh) + One(call[s].pc, {"put"}) + lost.states
                - One(call[s].pc, {"wait", "put"})
      /\ Cardinality(keyAsks') + Len(keyCh') + lost'.keys - One(call'[s].pc, {"key"})
             = Cardinality(keyAsks) + Len(keyCh) + lost.keys - One(call[s].pc, {"key"})
  <2>1. /\ Cardinality(asks') = Cardinality(asks) /\ Cardinality(keyAsks') = Cardinality(keyAsks)
        /\ Len(keyCh') = Len(keyCh) /\ lost' = lost
    BY <1>1
  <2>2. PICK a \in Nat, x \in Nat, l \in Int, p \in Int, w \in Int, lp \in Int, pp \in Int, wp \in Int :
           /\ a = Cardinality(asks) /\ x = lost.states
           /\ l = Len(stateCh) /\ lp = Len(stateCh')
           /\ p = One(call[s].pc, {"put"}) /\ w = One(call[s].pc, {"wait", "put"})
           /\ pp = One(call'[s].pc, {"put"}) /\ wp = One(call'[s].pc, {"wait", "put"})
    BY <1>5, <1>8
  <2>3. /\ a \in Nat /\ x \in Nat /\ l \in Int /\ p \in Int /\ w \in Int
        /\ lp \in Int /\ pp \in Int /\ wp \in Int
        /\ lp + pp - wp = l + p - w
    BY <1>7, <2>2
  <2>4. a + lp + pp + x - wp = a + l + p + x - w
    BY <2>3
  <2> QED BY <1>6, <2>1, <2>2, <2>4
<1>10. AnswersConserved'
  BY <1>1, <1>9, Balance DEF Conserved
<1> QED BY <1>4, <1>10 DEF Conserved

LEMMA TakeKeyConserves ==
  ASSUME Types, Types', Conserved, NEW s \in Senders, TakeKey(s)
  PROVE  Conserved'
<1>1. /\ (\E c : Goes(s, c)) /\ UNCHANGED <<asks, keyAsks, stateCh, lost, stray>>
      /\ call[s].pc = "key" /\ keyCh # <<>> /\ keyCh' = <<>>
  BY DEF TakeKey, At
<1>2. Same(call'[s], call[s]) /\ call'[s].pc = "submit"
  BY StepEffects
<1>3. NumberInv'
  BY <1>1, <1>2, NumberMoves DEF Conserved, Same, BeforeKey
<1>4. /\ Cardinality(asks) \in Nat /\ Cardinality(keyAsks) \in Nat
      /\ Len(stateCh) \in Nat /\ Len(keyCh) \in Nat /\ Len(keyCh) <= 1
      /\ lost.states \in Nat /\ lost.keys \in Nat
  BY CountsAreNat
<1>5. Len(keyCh) = 1 /\ Len(keyCh') = 0
  <2>1. Len(keyCh) # 0
    BY <1>1, EmptySeq DEF Types
  <2>2. Len(keyCh') = 0
    BY <1>1
  <2>3. Len(keyCh) = 0 \/ Len(keyCh) = 1
    <3>1. PICK n \in Nat : n = Len(keyCh) /\ n <= 1
      BY <1>4
    <3> QED BY <3>1
  <2> QED BY <2>1, <2>2, <2>3
<1>6. /\ One(call'[s].pc, {"put"}) = 0 /\ One(call'[s].pc, {"wait", "put"}) = 0
      /\ One(call[s].pc, {"put"}) = 0 /\ One(call[s].pc, {"wait", "put"}) = 0
      /\ One(call'[s].pc, {"key"}) = 0 /\ One(call[s].pc, {"key"}) = 1
  BY <1>1, <1>2 DEF One
<1>7. AnswersConserved'
  BY <1>1, <1>4, <1>5, <1>6, Balance DEF Conserved
<1> QED BY <1>3, <1>7 DEF Conserved

LEMMA GoOnConserves ==
  ASSUME Types, Types', Conserved, NEW s \in Senders,
         Submit(s) \/ Ack(s) \/ (\E n \in Nonces : AskById(s, n)) \/ Ends(s)
  PROVE  Conserved'
<1>1. CASE Submit(s) \/ Ack(s) \/ \E n \in Nonces : AskById(s, n)
  <2>1. /\ (\E c : Goes(s, c)) /\ UNCHANGED <<asks, stateCh, keyAsks, keyCh, lost, stray>>
        /\ call[s].pc \in {"submit", "ack", "ask"}
    BY <1>1 DEF Submit, Ack, AskById, At
  <2>2. Same(call'[s], call[s]) /\ call'[s].pc \in {"ack", "receipt", "submit"}
    BY <1>1, StepEffects
  <2> QED BY <2>1, <2>2, QuietBalance DEF Same, BeforeKey
<1>2. CASE Ends(s)
  <2>1. Returns(s) /\ UNCHANGED <<asks, stateCh, keyAsks, keyCh, lost, stray>>
    BY <1>2, EndTypes
  <2>2. call'[s].pc = "idle" /\ call'[s].number = call[s].number
    BY <2>1, ReturnEffect
  <2>3. call[s].pc \in {"ask", "askkey", "submit", "ack", "receipt"}
    BY <1>2 DEF Ends, AskByIdFails, AskKeyFails, SubmitFails, Save, Receipt, NoAnswer, At
  <2> QED BY <2>1, <2>2, <2>3, QuietBalance DEF Returns, BeforeKey
<1> QED BY <1>1, <1>2

\* Steps of the network: no call moves.
LEMMA StillCounts ==
  ASSUME call' = call
  PROVE  /\ Waiting' = Waiting /\ Putting' = Putting /\ Keying' = Keying
  BY DEF Waiting, Putting, Keying, At

LEMMA ArrivesConserves ==
  ASSUME Types, Types', LateInv, Conserved,
         \/ \E c \in asks, n \in Nonces : StateArrives(c, n)
         \/ \E c \in late, n \in Nonces : LateStateArrives(c, n)
         \/ \E c \in keyAsks : KeyArrives(c)
  PROVE  Conserved'
<1>1. call' = call /\ lost' = lost /\ asks' \subseteq asks /\ keyAsks' \subseteq keyAsks
  BY DEF StateArrives, LateStateArrives, KeyArrives
<1>2. NumberInv'
  BY <1>1 DEF Conserved, NumberInv
<1>3. /\ Cardinality(asks) \in Nat /\ Cardinality(keyAsks) \in Nat
      /\ Len(stateCh) \in Nat /\ Len(keyCh) \in Nat
      /\ lost.states \in Nat /\ lost.keys \in Nat /\ Cardinality(stray) \in Nat
  BY CountsAreNat
<1>4. /\ Waiting' = Waiting /\ Putting' = Putting /\ Keying' = Keying
      /\ Cardinality(Putting) \in Nat /\ Cardinality(Waiting) \in Nat
  <2>1. IsFiniteSet(Putting) /\ IsFiniteSet(Waiting)
    BY FlowAssumption, FS_Subset DEF Putting, Waiting
  <2> QED BY <1>1, <2>1, StillCounts, FS_CardinalityType
<1>5. /\ Cardinality(asks) + Len(stateCh) + Cardinality(Putting) + lost.states
             = Cardinality(Waiting) + Cardinality(stray)
      /\ Cardinality(keyAsks) + Len(keyCh) + lost.keys = Cardinality(Keying)
  BY ConservedDef DEF Conserved
<1>6. ASSUME NEW c \in asks, NEW n \in Nonces, StateArrives(c, n)
      PROVE  AnswersConserved'
  <2>1. Cardinality(asks') = Cardinality(asks) - 1
    BY <1>6, FS_RemoveElement DEF StateArrives, Types
  <2>2. Len(stateCh') = Len(stateCh) + 1
    BY <1>6 DEF StateArrives, Types
  <2>3. keyAsks' = keyAsks /\ keyCh' = keyCh /\ stray' = stray
    BY <1>6 DEF StateArrives
  <2>4. PICK a \in Nat, l \in Nat, p \in Nat, x \in Nat :
            /\ a = Cardinality(asks) /\ l = Len(stateCh)
            /\ p = Cardinality(Putting) /\ x = lost.states
    BY <1>3, <1>4
  <2>5. /\ a \in Nat /\ l \in Nat /\ p \in Nat /\ x \in Nat
        /\ a + l + p + x = Cardinality(Waiting) + Cardinality(stray)
    BY <1>5, <2>4
  <2>6. (a - 1) + (l + 1) + p + x = a + l + p + x
    BY <2>5
  <2>7. Cardinality(asks') + Len(stateCh') + Cardinality(Putting') + lost'.states
            = Cardinality(Waiting') + Cardinality(stray')
    BY <1>1, <1>4, <2>1, <2>2, <2>3, <2>4, <2>5, <2>6
  <2>8. Cardinality(keyAsks') + Len(keyCh') + lost'.keys = Cardinality(Keying')
    BY <1>1, <1>4, <1>5, <2>3
  <2> QED BY <2>7, <2>8, ConservedDef
<1>7. ASSUME NEW c \in keyAsks, KeyArrives(c)
      PROVE  AnswersConserved'
  <2>1. Cardinality(keyAsks') = Cardinality(keyAsks) - 1
    BY <1>7, FS_RemoveElement DEF KeyArrives, Types
  <2>2. Len(keyCh') = 1 /\ Len(keyCh) = 0
    BY <1>7 DEF KeyArrives
  <2>3. asks' = asks /\ stateCh' = stateCh /\ stray' = stray
    BY <1>7 DEF KeyArrives
  <2>4. PICK q \in Nat, y \in Nat : q = Cardinality(keyAsks) /\ y = lost.keys
    BY <1>3
  <2>5. q \in Nat /\ y \in Nat /\ q + 0 + y = Cardinality(Keying)
    BY <1>5, <2>2, <2>4
  <2>6. (q - 1) + 1 + y = q + 0 + y
    BY <2>5
  <2>7. Cardinality(keyAsks') + Len(keyCh') + lost'.keys = Cardinality(Keying')
    BY <1>1, <1>4, <2>1, <2>2, <2>4, <2>5, <2>6
  <2>8. Cardinality(asks') + Len(stateCh') + Cardinality(Putting') + lost'.states
            = Cardinality(Waiting') + Cardinality(stray')
    BY <1>1, <1>4, <1>5, <2>3
  <2> QED BY <2>7, <2>8, ConservedDef
<1>8. ASSUME NEW c \in late, NEW n \in Nonces, LateStateArrives(c, n)
      PROVE  AnswersConserved'
  <2>1. Cardinality(stray') = Cardinality(stray) + 1
    <3>1. c \notin stray
      BY <1>8 DEF LateInv
    <3> QED BY <1>8, <3>1, FS_AddElement DEF LateStateArrives, Types
  <2>2. Len(stateCh') = Len(stateCh) + 1
    BY <1>8 DEF LateStateArrives, Types
  <2>3. keyAsks' = keyAsks /\ keyCh' = keyCh /\ asks' = asks
    BY <1>8 DEF LateStateArrives
  <2>4. PICK a \in Nat, l \in Nat, p \in Nat, x \in Nat, w \in Nat, z \in Nat :
            /\ a = Cardinality(asks) /\ l = Len(stateCh)
            /\ p = Cardinality(Putting) /\ x = lost.states
            /\ w = Cardinality(Waiting) /\ z = Cardinality(stray)
    BY <1>3, <1>4
  <2>5. /\ a \in Nat /\ l \in Nat /\ p \in Nat /\ x \in Nat /\ w \in Nat /\ z \in Nat
        /\ a + l + p + x = w + z
    BY <1>5, <2>4
  <2>6. a + (l + 1) + p + x = w + (z + 1)
    BY <2>5
  <2>7. Cardinality(asks') + Len(stateCh') + Cardinality(Putting') + lost'.states
            = Cardinality(Waiting') + Cardinality(stray')
    BY <1>1, <1>4, <2>1, <2>2, <2>3, <2>4, <2>6
  <2>8. Cardinality(keyAsks') + Len(keyCh') + lost'.keys = Cardinality(Keying')
    BY <1>1, <1>4, <1>5, <2>3
  <2> QED BY <2>7, <2>8, ConservedDef
<1>9. AnswersConserved'
  BY <1>6, <1>7, <1>8
<1> QED BY <1>2, <1>9 DEF Conserved

LEMMA LinkConserves ==
  ASSUME Types, Types', Conserved, Break \/ Reconnects \/ UNCHANGED vars
  PROVE  Conserved'
<1>1. CASE Reconnects \/ UNCHANGED vars
  <2>1. UNCHANGED <<call, asks, stateCh, keyAsks, keyCh, lost, stray>>
    BY <1>1 DEF Reconnects, vars
  <2> QED BY <2>1 DEF Conserved, NumberInv, AnswersConserved, StatesConserved, KeysConserved,
                      Waiting, At
<1>2. CASE Break
  <2>1. /\ call' = call /\ stateCh' = stateCh /\ keyCh' = keyCh /\ stray' = stray
        /\ asks' = {} /\ keyAsks' = {}
        /\ lost'.states = lost.states + Cardinality(asks)
        /\ lost'.keys = lost.keys + Cardinality(keyAsks)
    BY <1>2 DEF Break
  <2>2. NumberInv'
    BY <2>1 DEF NumberInv
  <2>3. /\ Cardinality(asks) \in Nat /\ Cardinality(keyAsks) \in Nat
        /\ Len(stateCh) \in Nat /\ Len(keyCh) \in Nat
        /\ lost.states \in Nat /\ lost.keys \in Nat
    BY CountsAreNat
  <2>4. /\ Waiting' = Waiting /\ Putting' = Putting /\ Keying' = Keying
        /\ Cardinality(Putting) \in Nat
    <3>1. IsFiniteSet(Putting)
      BY FlowAssumption, FS_Subset DEF Putting
    <3> QED BY <2>1, <3>1, StillCounts, FS_CardinalityType
  <2>5. /\ Cardinality(asks) + Len(stateCh) + Cardinality(Putting) + lost.states
               = Cardinality(Waiting) + Cardinality(stray)
        /\ Cardinality(keyAsks) + Len(keyCh) + lost.keys = Cardinality(Keying)
    BY ConservedDef DEF Conserved
  <2>6. Cardinality(asks') = 0 /\ Cardinality(keyAsks') = 0
    BY <2>1, FS_EmptySet
  <2>7. PICK a \in Nat, l \in Nat, p \in Nat, x \in Nat :
            /\ a = Cardinality(asks) /\ l = Len(stateCh)
            /\ p = Cardinality(Putting) /\ x = lost.states
    BY <2>3, <2>4
  <2>8. PICK q \in Nat, h \in Nat, y \in Nat :
            q = Cardinality(keyAsks) /\ h = Len(keyCh) /\ y = lost.keys
    BY <2>3
  <2>9. 0 + l + p + (x + a) = a + l + p + x
    <3>1. a \in Nat /\ l \in Nat /\ p \in Nat /\ x \in Nat
      BY <2>7
    <3> QED BY <3>1
  <2>10. 0 + h + (y + q) = q + h + y
    <3>1. q \in Nat /\ h \in Nat /\ y \in Nat
      BY <2>8
    <3> QED BY <3>1
  <2>11. Cardinality(asks') + Len(stateCh') + Cardinality(Putting') + lost'.states
             = Cardinality(Waiting') + Cardinality(stray')
    BY <2>1, <2>4, <2>5, <2>6, <2>7, <2>9
  <2>12. Cardinality(keyAsks') + Len(keyCh') + lost'.keys = Cardinality(Keying')
    BY <2>1, <2>4, <2>5, <2>6, <2>8, <2>10
  <2> QED BY <2>2, <2>11, <2>12, ConservedDef DEF Conserved
<1> QED BY <1>1, <1>2

LEMMA ConservedStep ==
  ASSUME Types, Types', LateInv, Conserved, [Next]_vars
  PROVE  Conserved'
  BY BeginConserves, AskConserves, AskKeyConserves, TakeConserves, TakeKeyConserves,
     GoOnConserves, ArrivesConserves, LinkConserves
     DEF Next, SenderStep, Ends

\* However calls of all kinds, answers, timeouts and ends of the connection mix, every
\* state that was asked for is on its way, in accountStateChan, in the hands of a call that
\* puts it back, or lost with a connection.  They are as many as the calls that wait for
\* one, and one more for each ask by id that was answered after its timeout.  Each device
\* key has one call that waits for it.
THEOREM AnswersAreConserved == Spec => []AnswersConserved
<1>1. Init => Types /\ LateInv /\ Conserved
  <2> SUFFICES ASSUME Init PROVE Types /\ LateInv /\ Conserved
    OBVIOUS
  <2>1. /\ asks = {} /\ keyAsks = {} /\ stateCh = <<>> /\ keyCh = <<>>
        /\ lost.states = 0 /\ lost.keys = 0 /\ late = {} /\ stray = {}
    BY DEF Init
  <2>2. Waiting = {} /\ Keying = {} /\ Putting = {}
    BY DEF Init, Idle, Waiting, Keying, Putting, At
  <2>3. Cardinality({}) = 0
    BY FS_EmptySet
  <2>4. AnswersConserved
    <3>1. Len(stateCh) = 0 /\ Len(keyCh) = 0
      BY <2>1
    <3> QED BY <2>1, <2>2, <2>3, <3>1, ConservedDef
  <2>5. NumberInv
    BY <2>1 DEF NumberInv
  <2>6. LateInv
    BY <2>1 DEF LateInv
  <2> QED BY <2>4, <2>5, <2>6, InitTypes DEF Conserved
<1>2. Types /\ LateInv /\ Conserved /\ [Next]_vars => (Types /\ LateInv /\ Conserved)'
  BY TypesStep, LateStep, ConservedStep
<1>3. Conserved => AnswersConserved
  BY DEF Conserved
<1> QED BY <1>1, <1>2, <1>3, PTL DEF Spec

-----------------------------------------------------------------------------
(* Fresh states.                                                           *)

\* The call that asked for the state x still waits for it.
Open(x) == call[x.of].number = x.number /\ call[x.of].pc \in {"wait", "put"}

\* While nobody has gone on with a foreign state, each state of an account in K that is
\* asked for, in the channel or in the hands of a call that puts it back answers a call
\* that still waits, and no call has two of them.
FreshParts(K) ==
    /\ \A c \in asks : c.of \in K => Open(c)
    /\ \A i \in DOMAIN stateCh : stateCh[i].of \in K => Open(stateCh[i])
    /\ \A s \in Putting : call[s].state.of \in K => Open(call[s].state)
    /\ \A c \in asks, i \in DOMAIN stateCh : c.of \in K => c.of # stateCh[i].of
    /\ \A c \in asks, s \in Putting : c.of \in K => c.of # call[s].state.of
    /\ \A i, j \in DOMAIN stateCh : i # j /\ stateCh[i].of \in K => stateCh[i].of # stateCh[j].of
    /\ \A i \in DOMAIN stateCh, s \in Putting :
          stateCh[i].of \in K => stateCh[i].of # call[s].state.of
    /\ \A s, t \in Putting :
          s # t /\ call[s].state.of \in K => call[s].state.of # call[t].state.of
    /\ \A s \in Senders :
          s \in K /\ call[s].kind = "device" /\ call[s].pc \in {"askkey", "key", "submit"}
              => call[s].state.of = s /\ call[s].state.number = call[s].number

\* The accounts that no ask by id has been answered for after its timeout.
Clean == {s \in Senders : \A c \in stray : c.of # s}

FreshInv == ~stolen => FreshParts(Clean)

\* Whom the states on their way belong to.
LEMMA Owners ==
  ASSUME Types
  PROVE  /\ \A c \in asks : c.of \in Senders
         /\ \A i \in DOMAIN stateCh : stateCh[i].of \in Senders /\ stateCh[i] \in Answers
         /\ \A s \in Putting : /\ call[s].state.of \in Senders /\ call[s].state \in Answers
                               /\ call[s].pc = "put" /\ s \in Senders
<1>1. \A c \in asks : c.of \in Senders
  BY DEF Types, CallIds
<1>2. \A i \in DOMAIN stateCh : stateCh[i] \in Answers
  BY DEF Types
<1>3. \A s \in Putting : call[s].state \in Answers /\ call[s].pc = "put" /\ s \in Senders
  BY DEF Types, Putting, At
<1> QED BY <1>1, <1>2, <1>3 DEF Answers

\* A call that neither waits nor begins to wait has no state on its way.
LEMMA QuietFresh ==
  ASSUME Types, NEW K, FreshParts(K), NEW s \in Senders, NEW c, Goes(s, c),
         asks' = asks, stateCh' = stateCh,
         call[s].pc \notin {"wait", "put"}, call'[s].pc \notin {"wait", "put"},
         call'[s].kind = "device" /\ call'[s].pc \in {"askkey", "key", "submit"} =>
            /\ call[s].kind = "device" /\ call[s].pc \in {"askkey", "key", "submit"}
            /\ call'[s].state = call[s].state /\ call'[s].number = call[s].number
  PROVE  FreshParts(K)'
<1>1. \A t \in Senders \ {s} : call'[t] = call[t]
  BY Moved
<1>2. Putting' = Putting /\ s \notin Putting /\ \A t \in Putting : call'[t] = call[t]
  BY <1>1 DEF Putting, At
<1>3. ASSUME NEW x, x.of \in Senders, Open(x) PROVE Open(x)'
  <2>1. x.of # s
    BY <1>3 DEF Open
  <2> QED BY <1>1, <1>3, <2>1 DEF Open
<1>4. \A d \in asks' : d.of \in K => Open(d)'
  BY <1>3, Owners DEF FreshParts
<1>5. \A i \in DOMAIN stateCh' : stateCh'[i].of \in K => Open(stateCh[i])'
  <2> TAKE i \in DOMAIN stateCh'
  <2> HAVE stateCh'[i].of \in K
  <2>1. Open(stateCh[i]) /\ stateCh[i].of \in Senders /\ stateCh'[i] = stateCh[i]
    BY Owners DEF FreshParts
  <2> QED BY <1>3, <2>1 DEF Open
<1>6. \A t \in Putting' : call'[t].state.of \in K => Open(call[t].state)'
  <2> TAKE t \in Putting'
  <2> HAVE call'[t].state.of \in K
  <2>1. Open(call[t].state) /\ call[t].state.of \in Senders /\ call'[t] = call[t]
    BY <1>2, Owners DEF FreshParts
  <2> QED BY <1>3, <2>1 DEF Open
<1>7. \A t \in Senders :
          t \in K /\ call'[t].kind = "device" /\ call'[t].pc \in {"askkey", "key", "submit"}
              => call'[t].state.of = t /\ call'[t].state.number = call'[t].number
  BY <1>1 DEF FreshParts
<1>8. /\ \A d \in asks', i \in DOMAIN stateCh' : d.of \in K => d.of # stateCh'[i].of
      /\ \A d \in asks', t \in Putting' : d.of \in K => d.of # call'[t].state.of
      /\ \A i, j \in DOMAIN stateCh' :
             i # j /\ stateCh'[i].of \in K => stateCh'[i].of # stateCh'[j].of
      /\ \A i \in DOMAIN stateCh', t \in Putting' :
             stateCh'[i].of \in K => stateCh'[i].of # call'[t].state.of
      /\ \A t, u \in Putting' :
             t # u /\ call'[t].state.of \in K => call'[t].state.of # call'[u].state.of
  BY <1>2 DEF FreshParts
<1> QED BY <1>4, <1>5, <1>6, <1>7, <1>8 DEF FreshParts

\* A call that waits on keeps its states, and one that stops waiting only spoils its own.
LEMMA OpenKept ==
  ASSUME Types, NEW s \in Senders, NEW c, Goes(s, c), NEW x, x.of \in Senders, Open(x),
         \/ x.of # s
         \/ call'[s].number = call[s].number /\ call'[s].pc \in {"wait", "put"}
  PROVE  Open(x)'
<1>1. \A t \in Senders \ {s} : call'[t] = call[t]
  BY Moved
<1> QED BY <1>1 DEF Open

\* The last conjunct, about calls that have their state.
LEMMA DeviceKept ==
  ASSUME Types, NEW K, FreshParts(K), NEW s \in Senders, NEW c, Goes(s, c),
         s \in K /\ call'[s].kind = "device" /\ call'[s].pc \in {"askkey", "key", "submit"}
            => call'[s].state.of = s /\ call'[s].state.number = call'[s].number
  PROVE  \A t \in Senders :
            t \in K /\ call'[t].kind = "device" /\ call'[t].pc \in {"askkey", "key", "submit"}
                => call'[t].state.of = t /\ call'[t].state.number = call'[t].number
<1>1. \A t \in Senders \ {s} : call'[t] = call[t]
  BY Moved
<1> QED BY <1>1 DEF FreshParts

LEMMA AskFresh ==
  ASSUME Types, NEW K, FreshParts(K), NEW s \in Senders, Ask(s)
  PROVE  FreshParts(K)'
<1>1. /\ Goes(s, [call[s] EXCEPT !.pc = "wait"]) /\ stateCh' = stateCh /\ call[s].pc = "ask"
      /\ asks' \subseteq asks \cup {ThisCall(s)}
  BY DEF Ask, At
<1>2. call'[s].number = call[s].number /\ call'[s].pc = "wait"
  BY StepEffects DEF Same
<1>3. ThisCall(s).of = s /\ ThisCall(s).number = call[s].number
  BY DEF ThisCall
<1>4. /\ \A t \in Senders \ {s} : call'[t] = call[t]
      /\ Putting' = Putting /\ s \notin Putting /\ \A t \in Putting : call'[t] = call[t]
  <2>1. \A t \in Senders \ {s} : call'[t] = call[t]
    BY <1>1, Moved
  <2> QED BY <1>1, <1>2, <2>1 DEF Putting, At
<1>5. ASSUME NEW x, x.of \in Senders, Open(x) PROVE Open(x)' /\ x.of # s
  <2>1. x.of # s
    BY <1>1, <1>5 DEF Open
  <2> QED BY <1>1, <1>5, <2>1, OpenKept
<1>6. \A d \in asks' : d.of \in K => Open(d)'
  <2> TAKE d \in asks'
  <2> HAVE d.of \in K
  <2>1. CASE d \in asks
    BY <1>5, <2>1, Owners DEF FreshParts
  <2>2. CASE d = ThisCall(s)
    BY <1>2, <1>3, <2>2 DEF Open
  <2> QED BY <1>1, <2>1, <2>2
<1>7. \A i \in DOMAIN stateCh' : stateCh'[i].of \in K => Open(stateCh[i])'
  <2> TAKE i \in DOMAIN stateCh'
  <2> HAVE stateCh'[i].of \in K
  <2>1. Open(stateCh[i]) /\ stateCh[i].of \in Senders /\ stateCh'[i] = stateCh[i]
    BY <1>1, Owners DEF FreshParts
  <2> QED BY <1>5, <2>1 DEF Open
<1>8. \A t \in Putting' : call'[t].state.of \in K => Open(call[t].state)'
  <2> TAKE t \in Putting'
  <2> HAVE call'[t].state.of \in K
  <2>1. Open(call[t].state) /\ call[t].state.of \in Senders /\ call'[t] = call[t]
    BY <1>4, Owners DEF FreshParts
  <2> QED BY <1>5, <2>1 DEF Open
<1>9. \A d \in asks', i \in DOMAIN stateCh' : d.of \in K => d.of # stateCh'[i].of
  <2> TAKE d \in asks', i \in DOMAIN stateCh'
  <2> HAVE d.of \in K
  <2>1. stateCh'[i] = stateCh[i] /\ i \in DOMAIN stateCh /\ (s \in K => stateCh[i].of # s)
    BY <1>1, <1>5, Owners DEF FreshParts
  <2>2. d \in asks \/ d.of = s
    BY <1>1, <1>3
  <2> QED BY <2>1, <2>2 DEF FreshParts
<1>10. \A d \in asks', t \in Putting' : d.of \in K => d.of # call'[t].state.of
  <2> TAKE d \in asks', t \in Putting'
  <2> HAVE d.of \in K
  <2>1. t \in Putting /\ call'[t] = call[t] /\ (s \in K => call[t].state.of # s)
    BY <1>4, <1>5, Owners DEF FreshParts
  <2>2. d \in asks \/ d.of = s
    BY <1>1, <1>3
  <2> QED BY <2>1, <2>2 DEF FreshParts
<1>11. /\ \A i, j \in DOMAIN stateCh' :
              i # j /\ stateCh'[i].of \in K => stateCh'[i].of # stateCh'[j].of
       /\ \A i \in DOMAIN stateCh', t \in Putting' :
              stateCh'[i].of \in K => stateCh'[i].of # call'[t].state.of
       /\ \A t, u \in Putting' :
              t # u /\ call'[t].state.of \in K => call'[t].state.of # call'[u].state.of
  BY <1>1, <1>4 DEF FreshParts
<1>12. \A t \in Senders :
            t \in K /\ call'[t].kind = "device" /\ call'[t].pc \in {"askkey", "key", "submit"}
                => call'[t].state.of = t /\ call'[t].state.number = call'[t].number
  BY <1>1, <1>2, DeviceKept
<1> QED BY <1>6, <1>7, <1>8, <1>9, <1>10, <1>11, <1>12 DEF FreshParts

LEMMA TailParts ==
  ASSUME Types, stateCh # <<>>, stateCh' = Tail(stateCh)
  PROVE  /\ Head(stateCh) = stateCh[1] /\ 1 \in DOMAIN stateCh
         /\ \A i \in DOMAIN stateCh' : /\ i + 1 \in DOMAIN stateCh /\ i + 1 # 1 /\ i \in Int
                                       /\ stateCh'[i] = stateCh[i + 1]
<1>1. stateCh \in Seq(Answers)
  BY DEF Types
<1>2. Tail(stateCh) \in Seq(Answers)
  BY <1>1, Taken
<1>3. DOMAIN Tail(stateCh) = 1..Len(Tail(stateCh)) /\ Len(Tail(stateCh)) \in Nat
  BY <1>2
<1>4. \A i \in DOMAIN Tail(stateCh) : i \in Int /\ i >= 1 /\ i + 1 # 1
  BY <1>3
<1> QED BY <1>1, <1>4, Taken

\* A call takes its own state and stops waiting: no other state of its is left.
LEMMA TakeOwnFresh ==
  ASSUME Types, NEW K, FreshParts(K), NEW s \in Senders, TakeOwn(s) \/ TakeAny(s), Head(stateCh).of = s
  PROVE  FreshParts(K)'
<1>1. /\ (\E c : Goes(s, c)) /\ stateCh # <<>> /\ stateCh' = Tail(stateCh) /\ asks' = asks
      /\ call[s].pc = "wait"
  BY DEF TakeOwn, TakeAny, At
<1>2. /\ call'[s].number = call[s].number /\ call'[s].kind = call[s].kind
      /\ call'[s].pc \in {"askkey", "submit"}
      /\ TakeOwn(s) => call'[s].state = Head(stateCh)
      /\ ~TakeOwn(s) => call[s].kind # "device"
  BY StepEffects DEF Same, TakeAny
<1>3. /\ Head(stateCh) = stateCh[1] /\ 1 \in DOMAIN stateCh
      /\ \A i \in DOMAIN stateCh' : /\ i + 1 \in DOMAIN stateCh /\ i + 1 # 1 /\ i \in Int
                                    /\ stateCh'[i] = stateCh[i + 1]
  BY <1>1, TailParts
<1>4. /\ \A t \in Senders \ {s} : call'[t] = call[t]
      /\ Putting' = Putting /\ s \notin Putting /\ \A t \in Putting : call'[t] = call[t]
  <2>1. \A t \in Senders \ {s} : call'[t] = call[t]
    BY <1>1, Moved
  <2> QED BY <1>1, <1>2, <2>1 DEF Putting, At
<1>5. \A d \in asks' : d.of \in K => Open(d)'
  BY <1>1, <1>3, OpenKept, Owners DEF FreshParts
<1>6. \A i \in DOMAIN stateCh' : stateCh'[i].of \in K => Open(stateCh[i])'
  <2> TAKE i \in DOMAIN stateCh'
  <2> HAVE stateCh'[i].of \in K
  <2> DEFINE x == stateCh[i + 1]
  <2>1. i + 1 \in DOMAIN stateCh /\ i + 1 # 1 /\ stateCh'[i] = x
    BY <1>3
  <2>2. Open(x) /\ x.of \in Senders /\ x.of # s
    BY <1>3, <2>1, Owners DEF FreshParts
  <2> HIDE DEF x
  <2>4. call'[x.of].number = x.number /\ call'[x.of].pc \in {"wait", "put"}
    BY <1>4, <2>2 DEF Open
  <2> QED BY <2>1, <2>4 DEF Open
<1>7. \A t \in Putting' : call'[t].state.of \in K => Open(call[t].state)'
  <2> TAKE t \in Putting'
  <2> HAVE call'[t].state.of \in K
  <2>1. /\ Open(call[t].state) /\ call[t].state.of \in Senders /\ call'[t] = call[t]
        /\ call[t].state.of # s
    BY <1>3, <1>4, Owners DEF FreshParts
  <2> QED BY <1>4, <2>1 DEF Open
<1>8. \A d \in asks', i \in DOMAIN stateCh' : d.of \in K => d.of # stateCh'[i].of
  BY <1>1, <1>3 DEF FreshParts
<1>9. /\ \A d \in asks', t \in Putting' : d.of \in K => d.of # call'[t].state.of
      /\ \A t, u \in Putting' :
             t # u /\ call'[t].state.of \in K => call'[t].state.of # call'[u].state.of
  BY <1>1, <1>4 DEF FreshParts
<1>10. \A i, j \in DOMAIN stateCh' :
           i # j /\ stateCh'[i].of \in K => stateCh'[i].of # stateCh'[j].of
  <2> TAKE i, j \in DOMAIN stateCh'
  <2> HAVE i # j /\ stateCh'[i].of \in K
  <2>1. i + 1 # j + 1
    BY <1>3
  <2> QED BY <1>3, <2>1 DEF FreshParts
<1>11. \A i \in DOMAIN stateCh', t \in Putting' :
           stateCh'[i].of \in K => stateCh'[i].of # call'[t].state.of
  BY <1>3, <1>4 DEF FreshParts
<1>12. \A t \in Senders :
            t \in K /\ call'[t].kind = "device" /\ call'[t].pc \in {"askkey", "key", "submit"}
                => call'[t].state.of = t /\ call'[t].state.number = call'[t].number
  <2>1. (s \in K => Open(stateCh[1])) /\ stateCh[1].of = s
    BY <1>3 DEF FreshParts
  <2>2. s \in K => stateCh[1].number = call[s].number
    BY <2>1 DEF Open
  <2> QED BY <1>1, <1>2, <1>3, <2>1, <2>2, DeviceKept
<1> QED BY <1>5, <1>6, <1>7, <1>8, <1>9, <1>10, <1>11, <1>12 DEF FreshParts

\* A device key call holds the state of another, which still waits for it.
LEMMA TakeForeignFresh ==
  ASSUME Types, NEW K, FreshParts(K), NEW s \in Senders, TakeForeign(s)
  PROVE  FreshParts(K)'
<1>1. /\ (\E c : Goes(s, c)) /\ stateCh # <<>> /\ stateCh' = Tail(stateCh) /\ asks' = asks
      /\ call[s].pc = "wait"
  BY DEF TakeForeign, At
<1>2. /\ call'[s].number = call[s].number /\ call'[s].pc = "put"
      /\ call'[s].state = Head(stateCh)
  BY StepEffects DEF Same
<1>3. /\ Head(stateCh) = stateCh[1] /\ 1 \in DOMAIN stateCh
      /\ \A i \in DOMAIN stateCh' : /\ i + 1 \in DOMAIN stateCh /\ i + 1 # 1 /\ i \in Int
                                    /\ stateCh'[i] = stateCh[i + 1]
  BY <1>1, TailParts
<1>4. /\ \A t \in Senders \ {s} : call'[t] = call[t]
      /\ Putting' = Putting \cup {s} /\ s \notin Putting /\ \A t \in Putting : call'[t] = call[t]
  <2>1. \A t \in Senders \ {s} : call'[t] = call[t]
    BY <1>1, Moved
  <2> QED BY <1>1, <1>2, <2>1 DEF Putting, At
<1>5. ASSUME NEW x, x.of \in Senders, Open(x)
      PROVE  call'[x.of].number = x.number /\ call'[x.of].pc \in {"wait", "put"}
  BY <1>2, <1>4, <1>5 DEF Open
<1>6. \A d \in asks' : d.of \in K => Open(d)'
  BY <1>1, <1>5, Owners DEF FreshParts, Open
<1>7. \A i \in DOMAIN stateCh' : stateCh'[i].of \in K => Open(stateCh[i])'
  <2> TAKE i \in DOMAIN stateCh'
  <2> HAVE stateCh'[i].of \in K
  <2>1. stateCh'[i] = stateCh[i + 1] /\ Open(stateCh[i + 1]) /\ stateCh[i + 1].of \in Senders
    BY <1>3, Owners DEF FreshParts
  <2> QED BY <1>5, <2>1 DEF Open
<1>8. \A t \in Putting' : call'[t].state.of \in K => Open(call[t].state)'
  <2> TAKE t \in Putting'
  <2> HAVE call'[t].state.of \in K
  <2>1. CASE t \in Putting
    <3>1. Open(call[t].state) /\ call[t].state.of \in Senders /\ call'[t] = call[t]
      BY <1>4, <2>1, Owners DEF FreshParts
    <3> QED BY <1>5, <3>1 DEF Open
  <2>2. CASE t = s
    <3>1. Open(stateCh[1]) /\ stateCh[1].of \in Senders /\ call'[t].state = stateCh[1]
      BY <1>2, <1>3, <2>2, Owners DEF FreshParts
    <3> QED BY <1>5, <3>1 DEF Open
  <2> QED BY <1>4, <2>1, <2>2
<1>9. \A d \in asks', i \in DOMAIN stateCh' : d.of \in K => d.of # stateCh'[i].of
  BY <1>1, <1>3 DEF FreshParts
<1>10. \A d \in asks', t \in Putting' : d.of \in K => d.of # call'[t].state.of
  <2> TAKE d \in asks', t \in Putting'
  <2> HAVE d.of \in K
  <2>1. CASE t \in Putting
    BY <1>1, <1>4, <2>1 DEF FreshParts
  <2>2. CASE t = s
    BY <1>1, <1>2, <1>3, <2>2 DEF FreshParts
  <2> QED BY <1>4, <2>1, <2>2
<1>11. \A i, j \in DOMAIN stateCh' :
           i # j /\ stateCh'[i].of \in K => stateCh'[i].of # stateCh'[j].of
  <2> TAKE i, j \in DOMAIN stateCh'
  <2> HAVE i # j /\ stateCh'[i].of \in K
  <2>1. i + 1 # j + 1
    BY <1>3
  <2> QED BY <1>3, <2>1 DEF FreshParts
<1>12. \A i \in DOMAIN stateCh', t \in Putting' :
           stateCh'[i].of \in K => stateCh'[i].of # call'[t].state.of
  <2> TAKE i \in DOMAIN stateCh', t \in Putting'
  <2> HAVE stateCh'[i].of \in K
  <2>1. CASE t \in Putting
    BY <1>3, <1>4, <2>1 DEF FreshParts
  <2>2. CASE t = s
    BY <1>2, <1>3, <2>2 DEF FreshParts
  <2> QED BY <1>4, <2>1, <2>2
<1>13. \A t, u \in Putting' :
           t # u /\ call'[t].state.of \in K => call'[t].state.of # call'[u].state.of
  <2>1. \A t \in Putting :
            call'[t].state.of \in K => call'[t].state.of # call'[s].state.of
    BY <1>2, <1>3, <1>4 DEF FreshParts
  <2> QED BY <1>4, <2>1 DEF FreshParts
<1>14. \A t \in Senders :
            t \in K /\ call'[t].kind = "device" /\ call'[t].pc \in {"askkey", "key", "submit"}
                => call'[t].state.of = t /\ call'[t].state.number = call'[t].number
  BY <1>1, <1>2, DeviceKept
<1> QED BY <1>6, <1>7, <1>8, <1>9, <1>10, <1>11, <1>12, <1>13, <1>14 DEF FreshParts

LEMMA PutBackFresh ==
  ASSUME Types, NEW K, FreshParts(K), NEW s \in Senders, PutBack(s)
  PROVE  FreshParts(K)'
<1>1. /\ (\E c : Goes(s, c)) /\ stateCh' = Append(stateCh, call[s].state) /\ asks' = asks
      /\ call[s].pc = "put"
  BY DEF PutBack, At
<1>2. /\ call'[s].number = call[s].number /\ call'[s].pc = "wait"
  BY StepEffects DEF Same
<1>3. /\ \A t \in Senders \ {s} : call'[t] = call[t]
      /\ Putting' = Putting \ {s} /\ s \in Putting /\ \A t \in Putting' : call'[t] = call[t]
  <2>1. \A t \in Senders \ {s} : call'[t] = call[t]
    BY <1>1, Moved
  <2> QED BY <1>1, <1>2, <2>1 DEF Putting, At
<1> DEFINE n == Len(stateCh) + 1
<1>4. /\ DOMAIN stateCh' = DOMAIN stateCh \cup {n} /\ stateCh'[n] = call[s].state
      /\ \A i \in DOMAIN stateCh : stateCh'[i] = stateCh[i]
  BY <1>1, <1>3, Added, Owners DEF Types
<1> HIDE DEF n
<1>5. ASSUME NEW x, x.of \in Senders, Open(x)
      PROVE  call'[x.of].number = x.number /\ call'[x.of].pc \in {"wait", "put"}
  BY <1>2, <1>3, <1>5 DEF Open
<1>6. \A d \in asks' : d.of \in K => Open(d)'
  BY <1>1, <1>5, Owners DEF FreshParts, Open
<1>7. \A i \in DOMAIN stateCh' : stateCh'[i].of \in K => Open(stateCh[i])'
  <2> TAKE i \in DOMAIN stateCh'
  <2> HAVE stateCh'[i].of \in K
  <2>1. CASE i \in DOMAIN stateCh
    <3>1. stateCh'[i] = stateCh[i] /\ Open(stateCh[i]) /\ stateCh[i].of \in Senders
      BY <1>4, <2>1, Owners DEF FreshParts
    <3> QED BY <1>5, <3>1 DEF Open
  <2>2. CASE i = n
    <3>1. stateCh'[i] = call[s].state /\ Open(call[s].state) /\ call[s].state.of \in Senders
      BY <1>3, <1>4, <2>2, Owners DEF FreshParts
    <3> QED BY <1>5, <3>1 DEF Open
  <2> QED BY <1>4, <2>1, <2>2
<1>8. \A t \in Putting' : call'[t].state.of \in K => Open(call[t].state)'
  <2> TAKE t \in Putting'
  <2> HAVE call'[t].state.of \in K
  <2>1. Open(call[t].state) /\ call[t].state.of \in Senders /\ call'[t] = call[t]
    BY <1>3, Owners DEF FreshParts
  <2> QED BY <1>5, <2>1 DEF Open
<1>9. \A d \in asks', i \in DOMAIN stateCh' : d.of \in K => d.of # stateCh'[i].of
  BY <1>1, <1>3, <1>4 DEF FreshParts
<1>10. /\ \A d \in asks', t \in Putting' : d.of \in K => d.of # call'[t].state.of
       /\ \A t, u \in Putting' :
              t # u /\ call'[t].state.of \in K => call'[t].state.of # call'[u].state.of
  BY <1>1, <1>3 DEF FreshParts
<1>11. \A i, j \in DOMAIN stateCh' :
           i # j /\ stateCh'[i].of \in K => stateCh'[i].of # stateCh'[j].of
  BY <1>3, <1>4 DEF FreshParts
<1>12. \A i \in DOMAIN stateCh', t \in Putting' :
           stateCh'[i].of \in K => stateCh'[i].of # call'[t].state.of
  BY <1>3, <1>4 DEF FreshParts
<1>13. \A t \in Senders :
            t \in K /\ call'[t].kind = "device" /\ call'[t].pc \in {"askkey", "key", "submit"}
                => call'[t].state.of = t /\ call'[t].state.number = call'[t].number
  BY <1>1, <1>2, DeviceKept
<1> QED BY <1>6, <1>7, <1>8, <1>9, <1>10, <1>11, <1>12, <1>13 DEF FreshParts

LEMMA StateArrivesFresh ==
  ASSUME Types, NEW K, FreshParts(K), NEW c \in asks, NEW m \in Nonces, StateArrives(c, m)
  PROVE  FreshParts(K)'
<1> DEFINE a == [of |-> c.of, number |-> c.number, nonce |-> m]
           n == Len(stateCh) + 1
<1>1. call' = call /\ asks' = asks \ {c} /\ stateCh' = Append(stateCh, a)
  BY DEF StateArrives
<1>2. a \in Answers /\ a.of = c.of /\ a.number = c.number
  <2>1. c \in CallIds /\ m \in Nat
    BY NoncesAreNat DEF Types
  <2> QED BY <2>1 DEF CallIds, Answers
<1>3. Putting' = Putting
  BY <1>1 DEF Putting, At
<1> HIDE DEF a
<1>4. /\ DOMAIN stateCh' = DOMAIN stateCh \cup {n} /\ stateCh'[n] = a
      /\ \A i \in DOMAIN stateCh : stateCh'[i] = stateCh[i]
  BY <1>1, <1>2, Added DEF Types
<1> HIDE DEF n
<1>5. \A d \in asks \ {c} : d.of \in K => d.of # c.of
  <2> SUFFICES ASSUME NEW d \in asks \ {c}, d.of \in K, d.of = c.of PROVE FALSE
    OBVIOUS
  <2>1. Open(d) /\ Open(c) /\ d \in CallIds /\ c \in CallIds /\ d # c
    BY DEF FreshParts, Types
  <2>2. d.number = c.number
    BY <2>1 DEF Open
  <2> QED BY <2>1, <2>2 DEF CallIds
<1>6. \A d \in asks' : d.of \in K => Open(d)'
  BY <1>1 DEF FreshParts, Open
<1>7. \A i \in DOMAIN stateCh' : stateCh'[i].of \in K => Open(stateCh[i])'
  <2> TAKE i \in DOMAIN stateCh'
  <2> HAVE stateCh'[i].of \in K
  <2>1. CASE i \in DOMAIN stateCh
    BY <1>1, <1>4, <2>1 DEF FreshParts, Open
  <2>2. CASE i = n
    BY <1>1, <1>2, <1>4, <2>2 DEF FreshParts, Open
  <2> QED BY <1>4, <2>1, <2>2
<1>8. \A t \in Putting' : call'[t].state.of \in K => Open(call[t].state)'
  BY <1>1, <1>3 DEF FreshParts, Open
<1>9. \A d \in asks', i \in DOMAIN stateCh' : d.of \in K => d.of # stateCh'[i].of
  BY <1>1, <1>2, <1>4, <1>5 DEF FreshParts
<1>10. /\ \A d \in asks', t \in Putting' : d.of \in K => d.of # call'[t].state.of
       /\ \A t, u \in Putting' :
              t # u /\ call'[t].state.of \in K => call'[t].state.of # call'[u].state.of
  BY <1>1, <1>3 DEF FreshParts
<1>11. \A i, j \in DOMAIN stateCh' :
           i # j /\ stateCh'[i].of \in K => stateCh'[i].of # stateCh'[j].of
  BY <1>2, <1>4 DEF FreshParts
<1>12. \A i \in DOMAIN stateCh', t \in Putting' :
           stateCh'[i].of \in K => stateCh'[i].of # call'[t].state.of
  BY <1>1, <1>2, <1>3, <1>4 DEF FreshParts
<1>13. \A t \in Senders :
            t \in K /\ call'[t].kind = "device" /\ call'[t].pc \in {"askkey", "key", "submit"}
                => call'[t].state.of = t /\ call'[t].state.number = call'[t].number
  BY <1>1 DEF FreshParts
<1> QED BY <1>6, <1>7, <1>8, <1>9, <1>10, <1>11, <1>12, <1>13 DEF FreshParts

\* Steps that leave the calls and the channel alone.
LEMMA StillFresh ==
  ASSUME Types, NEW K, FreshParts(K), call' = call, stateCh' = stateCh, asks' \subseteq asks
  PROVE  FreshParts(K)'
<1>1. Putting' = Putting
  BY DEF Putting, At
<1> QED BY <1>1 DEF FreshParts, Open

\* A late answer for an account outside K.
LEMMA LateArrivesFresh ==
  ASSUME Types, NEW K, FreshParts(K), NEW c \in late, NEW m \in Nonces, LateStateArrives(c, m),
         c.of \notin K
  PROVE  FreshParts(K)'
<1> DEFINE a == [of |-> c.of, number |-> c.number, nonce |-> m]
           n == Len(stateCh) + 1
<1>1. call' = call /\ asks' = asks /\ stateCh' = Append(stateCh, a)
  BY DEF LateStateArrives
<1>2. a \in Answers /\ a.of = c.of
  <2>1. c \in CallIds /\ m \in Nat
    BY NoncesAreNat DEF Types
  <2> QED BY <2>1 DEF CallIds, Answers
<1>3. Putting' = Putting
  BY <1>1 DEF Putting, At
<1> HIDE DEF a
<1>4. /\ DOMAIN stateCh' = DOMAIN stateCh \cup {n} /\ stateCh'[n] = a
      /\ \A i \in DOMAIN stateCh : stateCh'[i] = stateCh[i]
  BY <1>1, <1>2, Added DEF Types
<1> HIDE DEF n
<1>5. \A i \in DOMAIN stateCh' :
          stateCh'[i].of \in K => i \in DOMAIN stateCh /\ stateCh'[i] = stateCh[i]
  BY <1>2, <1>4
<1>6. /\ \A d \in asks' : d.of \in K => Open(d)'
      /\ \A t \in Putting' : call'[t].state.of \in K => Open(call[t].state)'
  BY <1>1, <1>3 DEF FreshParts, Open
<1>7. \A i \in DOMAIN stateCh' : stateCh'[i].of \in K => Open(stateCh[i])'
  BY <1>1, <1>5 DEF FreshParts, Open
<1>8. \A d \in asks', i \in DOMAIN stateCh' : d.of \in K => d.of # stateCh'[i].of
  BY <1>1, <1>5 DEF FreshParts
<1>9. /\ \A d \in asks', t \in Putting' : d.of \in K => d.of # call'[t].state.of
      /\ \A t, u \in Putting' :
            t # u /\ call'[t].state.of \in K => call'[t].state.of # call'[u].state.of
  BY <1>1, <1>3 DEF FreshParts
<1>10. \A i, j \in DOMAIN stateCh' :
           i # j /\ stateCh'[i].of \in K => stateCh'[i].of # stateCh'[j].of
  BY <1>5 DEF FreshParts
<1>11. \A i \in DOMAIN stateCh', t \in Putting' :
           stateCh'[i].of \in K => stateCh'[i].of # call'[t].state.of
  BY <1>1, <1>3, <1>5 DEF FreshParts
<1>12. \A t \in Senders :
            t \in K /\ call'[t].kind = "device" /\ call'[t].pc \in {"askkey", "key", "submit"}
                => call'[t].state.of = t /\ call'[t].state.number = call'[t].number
  BY <1>1 DEF FreshParts
<1> QED BY <1>6, <1>7, <1>8, <1>9, <1>10, <1>11, <1>12 DEF FreshParts

LEMMA FreshStep ==
  ASSUME Types, FreshInv, [Next]_vars
  PROVE  FreshInv'
<1>0. SUFFICES ASSUME ~stolen', NEW K, K = Clean' PROVE FreshParts(K)'
  BY DEF FreshInv
<1>1. ~stolen
  BY <1>0 DEF Next, SenderStep, Begin, BeginReconnects, BeginFails, Ask, AskByIdFails, AskById,
       TakeOwn, TakeForeign, PutBack, TakeAny, AskKey, AskKeyFails, TakeKey, Submit, SubmitFails,
       Save, Ack, Receipt, NoAnswer, StateArrives, LateStateArrives, KeyArrives, Break,
       Reconnects, vars
<1>2. FreshParts(K)
  <2>1. stray \subseteq stray'
    BY DEF Next, SenderStep, Begin, BeginReconnects, BeginFails, Ask, AskByIdFails, AskById,
       TakeOwn, TakeForeign, PutBack, TakeAny, AskKey, AskKeyFails, TakeKey, Submit, SubmitFails,
       Save, Ack, Receipt, NoAnswer, StateArrives, LateStateArrives, KeyArrives, Break,
       Reconnects, vars
  <2>2. K \subseteq Clean
    BY <1>0, <2>1 DEF Clean
  <2>3. FreshParts(Clean)
    BY <1>1 DEF FreshInv
  <2> QED BY <2>2, <2>3 DEF FreshParts
<1>3. ASSUME NEW s \in Senders, NEW k \in Kinds,
             Begin(s, k) \/ BeginReconnects(s, k) \/ BeginFails(s, k)
      PROVE  FreshParts(K)'
  <2>1. (\E c : Goes(s, c)) /\ asks' = asks /\ stateCh' = stateCh /\ call[s].pc = "idle"
    BY <1>3 DEF Begin, BeginReconnects, BeginFails, At
  <2>2. call'[s].pc \in {"ask", "idle"}
    BY <1>3, BeginEffects
  <2> QED BY <1>2, <2>1, <2>2, QuietFresh
<1>4. ASSUME NEW s \in Senders, TakeOwn(s) PROVE FreshParts(K)'
  BY <1>2, <1>4, TakeOwnFresh DEF TakeOwn
<1>5. ASSUME NEW s \in Senders, TakeAny(s) PROVE FreshParts(K)'
  <2>1. Head(stateCh).of = s
    BY <1>0, <1>5 DEF TakeAny
  <2> QED BY <1>2, <1>5, <2>1, TakeOwnFresh
<1>6. ASSUME NEW s \in Senders, TakeForeign(s) \/ PutBack(s) \/ Ask(s) PROVE FreshParts(K)'
  BY <1>2, <1>6, TakeForeignFresh, PutBackFresh, AskFresh
<1>7. ASSUME NEW s \in Senders, AskKey(s) \/ TakeKey(s) PROVE FreshParts(K)'
  <2>1. /\ (\E c : Goes(s, c)) /\ asks' = asks /\ stateCh' = stateCh
        /\ call[s].pc \in {"askkey", "key"}
    BY <1>7 DEF AskKey, TakeKey, At
  <2>2. /\ call'[s].pc \in {"key", "submit"} /\ call'[s].kind = call[s].kind
        /\ call'[s].number = call[s].number /\ call'[s].state = call[s].state
    BY <1>7, StepEffects DEF Same
  <2> QED BY <1>2, <2>1, <2>2, QuietFresh
<1>8. ASSUME NEW s \in Senders, Submit(s) \/ Ack(s) \/ \E n \in Nonces : AskById(s, n)
      PROVE  FreshParts(K)'
  <2>1. /\ (\E c : Goes(s, c)) /\ asks' = asks /\ stateCh' = stateCh
        /\ call[s].pc \in {"submit", "ack", "ask"}
        /\ call[s].pc = "ask" => call[s].kind = "plain"
    BY <1>8 DEF Submit, Ack, AskById, At
  <2>2. /\ call'[s].pc \in {"ack", "receipt", "submit"} /\ call'[s].kind = call[s].kind
        /\ call[s].pc # "ask" => call'[s].pc # "submit"
    BY <1>8, StepEffects DEF Same, AskById, At
  <2> QED BY <1>2, <2>1, <2>2, QuietFresh
<1>9. ASSUME NEW s \in Senders, Ends(s) PROVE FreshParts(K)'
  <2>1. Returns(s) /\ asks' = asks /\ stateCh' = stateCh
    BY <1>9, EndTypes
  <2>2. call'[s].pc = "idle"
    BY <2>1, ReturnEffect
  <2>3. call[s].pc \in {"ask", "askkey", "submit", "ack", "receipt"}
    BY <1>9 DEF Ends, AskByIdFails, AskKeyFails, SubmitFails, Save, Receipt, NoAnswer, At
  <2> QED BY <1>2, <2>1, <2>2, <2>3, QuietFresh DEF Returns
<1>10. ASSUME NEW c \in asks, NEW n \in Nonces, StateArrives(c, n) PROVE FreshParts(K)'
  BY <1>2, <1>10, StateArrivesFresh
<1>11. ASSUME (\E c \in keyAsks : KeyArrives(c)) \/ Break \/ Reconnects \/ UNCHANGED vars
       PROVE  FreshParts(K)'
  <2>1. call' = call /\ stateCh' = stateCh /\ asks' \subseteq asks
    BY <1>11 DEF KeyArrives, Break, Reconnects, vars
  <2> QED BY <1>2, <2>1, StillFresh
<1>12. ASSUME NEW c \in late, NEW n \in Nonces, LateStateArrives(c, n) PROVE FreshParts(K)'
  <2>1. c \in stray'
    BY <1>12 DEF LateStateArrives
  <2>2. c.of \notin K
    BY <1>0, <2>1 DEF Clean
  <2> QED BY <1>2, <1>12, <2>2, LateArrivesFresh
<1> QED BY <1>3, <1>4, <1>5, <1>6, <1>7, <1>8, <1>9, <1>10, <1>11, <1>12 DEF Next, SenderStep, Ends

\* As long as no call has gone on with the state of another account, and no ask by id for
\* its own account was answered after its timeout, the state a device key call signs with
\* is the answer to its own question: with any number of device key calls that take each
\* other's answers from accountStateChan and put them back, none meets an answer of an
\* earlier call of its own.
THEOREM DeviceStatesAreFresh == Spec => []DeviceStateIsFresh
<1>1. Init => Types /\ FreshInv
  <2> SUFFICES ASSUME Init PROVE Types /\ FreshInv
    OBVIOUS
  <2>1. asks = {} /\ stateCh = <<>> /\ \A s \in Senders : call[s].pc = "idle"
    BY DEF Init, Idle
  <2>2. DOMAIN stateCh = {} /\ Putting = {}
    BY <2>1 DEF Putting, At
  <2>3. FreshInv
    BY <2>1, <2>2 DEF FreshInv, FreshParts
  <2> QED BY <2>3, InitTypes
<1>2. Types /\ FreshInv /\ [Next]_vars => (Types /\ FreshInv)'
  BY TypesStep, FreshStep
<1>3. FreshInv => DeviceStateIsFresh
  BY DEF FreshInv, FreshParts, Clean, DeviceStateIsFresh
<1> QED BY <1>1, <1>2, <1>3, PTL DEF Spec
=============================================================================
