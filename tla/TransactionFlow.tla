--------------------------- MODULE TransactionFlow ---------------------------
(***************************************************************************)
(* How src/pkg/client-tcp/client.go and utils/tx_helper/tx_helper.go turn  *)
(* a call into a signed transaction: read the account's state, choose a    *)
(* nonce, fetch a device key, submit, wait for the receipt.                *)
(*                                                                         *)
(* Five kinds of call share two channels and one cache:                    *)
(*   "device"  SendTransactionWithDeviceKey, ...Async, Save...ToFile: takes*)
(*             states from accountStateChan until one is its own and puts  *)
(*             the others back, then takes a key from deviceKeyChan;       *)
(*   "any"     SendTransactionWithFullInfo, SendSecpProtoTransaction: takes*)
(*             the next state there is;                                    *)
(*   "read"    ReadTransaction, ReadTransactionWithoutNonce: the same, for *)
(*             a call that changes nothing on the chain;                   *)
(*   "secp"    tx_helper.SendSecpTransaction: "any" with the nonce cache;  *)
(*   "plain"   tx_helper.SendTransactionNoneKey: a state matched by id     *)
(*             with the nonce cache.                                       *)
(* The node, which is not in this repository, may show an old nonce.       *)
(***************************************************************************)
EXTENDS Integers, Sequences, FiniteSets

CONSTANTS
    Senders,    \* goroutines that send, each for its own account
    MaxCalls,   \* bound: calls of each sender
    MaxBreaks   \* bound: how often the connection to the parent ends

ASSUME FlowAssumption == IsFiniteSet(Senders) /\ MaxCalls \in Nat /\ MaxBreaks \in Nat

VARIABLES
    call,       \* each sender's call
    asks,       \* GetAccountState without id: requests and answers on the way
    late,       \* GetAccountState with an id that timed out and is still on the way
    stateCh,    \* client.accountStateChan
    keyAsks,    \* GetDeviceKey: requests and answers on the way
    keyCh,      \* client.deviceKeyChan, capacity 1
    cache,      \* nonceCache
    chain,      \* each account's next nonce, as the node would execute it
    link,       \* the parent connection: whether it is up, and which one it is
    last,       \* highest nonce of a helper's call that was accepted, or -1
    lost,       \* how many asks for states and for keys were lost
    stray,      \* the late ones whose answer went into accountStateChan
    stolen      \* whether a call has gone on with the state of another account

vars == <<call, asks, late, stateCh, keyAsks, keyCh, cache, chain, link, last, lost, stray, stolen>>

Kinds == {"device", "any", "read", "secp", "plain"}

Nonces == 0..(MaxCalls * Cardinality(Senders))

Ids == [of : Senders, number : 1..MaxCalls]

States == [of : Senders, number : 1..MaxCalls, nonce : Nonces]

NoState == [of |-> 0, number |-> 0, nonce |-> 0]

\* Between two calls only their number stays.
Idle(n) == [pc |-> "idle", kind |-> "none", number |-> n, conn |-> 0, cached |-> 0,
            state |-> NoState, nonce |-> 0, out |-> "none"]

TypeOK ==
    /\ \A s \in Senders :
          /\ call[s].pc \in {"idle", "ask", "wait", "put", "askkey", "key", "submit", "ack", "receipt"}
          /\ call[s].number \in 0..MaxCalls
          /\ call[s].cached \in Nonces /\ call[s].nonce \in Nonces
          /\ call[s].state \in States \cup {NoState}
          /\ call[s].out \in {"none", "executed", "refused"}
    /\ asks \in SUBSET Ids /\ keyAsks \in SUBSET Ids
    /\ late \in SUBSET Ids /\ stray \in SUBSET Ids
    /\ stateCh \in Seq(States)
    /\ keyCh \in Seq(Ids) /\ Len(keyCh) <= 1
    /\ cache \in [Senders -> Nonces] /\ chain \in [Senders -> Nonces]
    /\ link \in [up : BOOLEAN, gen : 0..MaxBreaks]
    /\ last \in [Senders -> Nonces \cup {-1}]
    /\ lost \in [states : Nat, keys : Nat]
    /\ stolen \in BOOLEAN

Init ==
    /\ call = [s \in Senders |-> Idle(0)]
    /\ asks = {} /\ keyAsks = {}
    /\ late = {} /\ stray = {}
    /\ stateCh = <<>> /\ keyCh = <<>>
    /\ cache = [s \in Senders |-> 0]
    /\ chain = [s \in Senders |-> 0]
    /\ link = [up |-> TRUE, gen |-> 0]
    /\ last = [s \in Senders |-> -1]
    /\ lost = [states |-> 0, keys |-> 0]
    /\ stolen = FALSE

-----------------------------------------------------------------------------
At(s, p) == call[s].pc = p

Goes(s, c) == call' = [call EXCEPT ![s] = c]

Returns(s) == Goes(s, Idle(call[s].number))

ThisCall(s) == [of |-> s, number |-> call[s].number]

Live(s) == link.up /\ call[s].conn = link.gen

\* A call begins.  A helper loads its cached nonce first.
Started(s, k, conn) ==
    [Idle(call[s].number + 1) EXCEPT
        !.pc = "ask", !.kind = k, !.conn = conn,
        !.cached = IF k \in {"secp", "plain"} THEN cache[s] ELSE 0]

\* AccountState, which the calls with secp keys begin with, does not look whether
\* the connection is up.
Begin(s, k) ==
    /\ At(s, "idle") /\ call[s].number < MaxCalls
    /\ link.up \/ k \in {"secp", "any"}
    /\ Goes(s, Started(s, k, link.gen))
    /\ UNCHANGED <<asks, late, stateCh, keyAsks, keyCh, cache, chain, link, last, lost, stray, stolen>>

\* ReconnectToParent.  The device key calls read the parent connection again, the
\* others go on with the one they had.
BeginReconnects(s, k) ==
    /\ At(s, "idle") /\ call[s].number < MaxCalls
    /\ ~link.up /\ k \in {"device", "any", "read"}
    /\ link' = [up |-> TRUE, gen |-> link.gen + 1]
    /\ Goes(s, Started(s, k, IF k = "device" THEN link.gen + 1 ELSE link.gen))
    /\ UNCHANGED <<asks, late, stateCh, keyAsks, keyCh, cache, chain, last, lost, stray, stolen>>

BeginFails(s, k) ==
    /\ At(s, "idle") /\ call[s].number < MaxCalls
    /\ ~link.up /\ k # "secp"
    /\ Goes(s, Idle(call[s].number + 1))
    /\ UNCHANGED <<asks, late, stateCh, keyAsks, keyCh, cache, chain, link, last, lost, stray, stolen>>

\* GetAccountState is sent and its error ignored; then the call waits for a state.
Ask(s) ==
    /\ At(s, "ask") /\ call[s].kind # "plain"
    /\ Goes(s, [call[s] EXCEPT !.pc = "wait"])
    /\ IF Live(s) THEN asks' = asks \cup {ThisCall(s)} /\ UNCHANGED lost
                  ELSE lost' = [lost EXCEPT !.states = @ + 1] /\ UNCHANGED asks
    /\ UNCHANGED <<late, stateCh, keyAsks, keyCh, cache, chain, link, last, stray, stolen>>

\* handleAccountState.  The nonce may be an old one.
StateArrives(c, n) ==
    /\ n <= chain[c.of]
    /\ asks' = asks \ {c}
    /\ stateCh' = Append(stateCh, [of |-> c.of, number |-> c.number, nonce |-> n])
    /\ UNCHANGED <<call, late, keyAsks, keyCh, cache, chain, link, last, lost, stray, stolen>>

\* Mutant of ChosenNonce: the node is believed.
NodeNonce(s, n) == n

\* The node lags behind: the cached nonce is used if it is higher.
ChosenNonce(s, n) ==
    IF call[s].cached # 0 /\ call[s].cached > n THEN call[s].cached ELSE n

\* Mutant of TakeOwn: the address is not compared.
TakeFirst(s) ==
    /\ At(s, "wait") /\ call[s].kind = "device"
    /\ stateCh # <<>>
    /\ stateCh' = Tail(stateCh)
    /\ Goes(s, [call[s] EXCEPT !.pc = "askkey", !.state = Head(stateCh)])
    /\ UNCHANGED <<asks, late, keyAsks, keyCh, cache, chain, link, last, lost, stray, stolen>>

TakeOwn(s) ==
    /\ At(s, "wait") /\ call[s].kind = "device"
    /\ stateCh # <<>> /\ Head(stateCh).of = s
    /\ stateCh' = Tail(stateCh)
    /\ Goes(s, [call[s] EXCEPT !.pc = "askkey", !.state = Head(stateCh)])
    /\ UNCHANGED <<asks, late, keyAsks, keyCh, cache, chain, link, last, lost, stray, stolen>>

TakeForeign(s) ==
    /\ At(s, "wait") /\ call[s].kind = "device"
    /\ stateCh # <<>> /\ Head(stateCh).of # s
    /\ stateCh' = Tail(stateCh)
    /\ Goes(s, [call[s] EXCEPT !.pc = "put", !.state = Head(stateCh)])
    /\ UNCHANGED <<asks, late, keyAsks, keyCh, cache, chain, link, last, lost, stray, stolen>>

\* Mutant of PutBack: the state of another account is skipped.
PutBackDrops(s) ==
    /\ At(s, "put")
    /\ Goes(s, [call[s] EXCEPT !.pc = "wait", !.state = NoState])
    /\ UNCHANGED <<asks, late, stateCh, keyAsks, keyCh, cache, chain, link, last, lost, stray, stolen>>

\* client.accountStateChan <- as, then a pause.
PutBack(s) ==
    /\ At(s, "put")
    /\ stateCh' = Append(stateCh, call[s].state)
    /\ Goes(s, [call[s] EXCEPT !.pc = "wait", !.state = NoState])
    /\ UNCHANGED <<asks, late, keyAsks, keyCh, cache, chain, link, last, lost, stray, stolen>>

\* as := <-client.accountStateChan
TakeAny(s) ==
    /\ At(s, "wait") /\ call[s].kind \in {"any", "read", "secp"}
    /\ stateCh # <<>>
    /\ stateCh' = Tail(stateCh)
    /\ Goes(s, [call[s] EXCEPT !.pc = "submit", !.state = Head(stateCh),
                               !.nonce = ChosenNonce(s, Head(stateCh).nonce)])
    /\ stolen' = (stolen \/ Head(stateCh).of # s)
    /\ UNCHANGED <<asks, late, keyAsks, keyCh, cache, chain, link, last, lost, stray>>

\* GetAccountState(from, 10s): a request with an id and an answer of its own.
AskById(s, n) ==
    /\ At(s, "ask") /\ call[s].kind = "plain"
    /\ link.up /\ n <= chain[s]
    /\ Goes(s, [call[s] EXCEPT !.pc = "submit", !.nonce = ChosenNonce(s, n),
                               !.state = [of |-> s, number |-> call[s].number, nonce |-> n]])
    /\ UNCHANGED <<asks, late, stateCh, keyAsks, keyCh, cache, chain, link, last, lost, stray, stolen>>

\* No connection, or the timeout.  The request may still be on its way then, but its
\* id is no longer among the pending ones.
AskByIdFails(s) ==
    /\ At(s, "ask") /\ call[s].kind = "plain"
    /\ Returns(s)
    /\ \/ UNCHANGED late
       \/ link.up /\ late' = late \cup {ThisCall(s)}
    /\ UNCHANGED <<asks, stateCh, keyAsks, keyCh, cache, chain, link, last, lost, stray, stolen>>

\* handleAccountState finds no pending request with that id and treats the answer
\* like one without id.
LateStateArrives(c, n) ==
    /\ n <= chain[c.of]
    /\ late' = late \ {c}
    /\ stray' = stray \cup {c}
    /\ stateCh' = Append(stateCh, [of |-> c.of, number |-> c.number, nonce |-> n])
    /\ UNCHANGED <<call, asks, keyAsks, keyCh, cache, chain, link, last, lost, stolen>>

-----------------------------------------------------------------------------
(* GetDeviceKey, on the connection the call began with.                    *)

\* The end of the connection may not be noticed: then the request goes nowhere.
AskKey(s) ==
    /\ At(s, "askkey")
    /\ Goes(s, [call[s] EXCEPT !.pc = "key"])
    /\ IF Live(s) THEN keyAsks' = keyAsks \cup {ThisCall(s)} /\ UNCHANGED lost
                  ELSE lost' = [lost EXCEPT !.keys = @ + 1] /\ UNCHANGED keyAsks
    /\ UNCHANGED <<asks, late, stateCh, keyCh, cache, chain, link, last, stray, stolen>>

AskKeyFails(s) ==
    /\ At(s, "askkey") /\ ~Live(s)
    /\ Returns(s)
    /\ UNCHANGED <<asks, late, stateCh, keyAsks, keyCh, cache, chain, link, last, lost, stray, stolen>>

\* handleDeviceKey waits for room.
KeyArrives(c) ==
    /\ keyCh = <<>>
    /\ keyAsks' = keyAsks \ {c}
    /\ keyCh' = <<c>>
    /\ UNCHANGED <<call, asks, late, stateCh, cache, chain, link, last, lost, stray, stolen>>

TakeKey(s) ==
    /\ At(s, "key") /\ keyCh # <<>>
    /\ keyCh' = <<>>
    /\ Goes(s, [call[s] EXCEPT !.pc = "submit", !.nonce = call[s].state.nonce])
    /\ UNCHANGED <<asks, late, stateCh, keyAsks, cache, chain, link, last, lost, stray, stolen>>

-----------------------------------------------------------------------------
(* The transaction.                                                        *)

\* TransactionController: sign, and send on the parent connection of the moment.
\* The node executes a transaction that has the next nonce of its account.  A
\* helper for secp keys waits for the acknowledgement first.
Submit(s) ==
    /\ At(s, "submit") /\ link.up
    /\ Goes(s, [call[s] EXCEPT
                  !.pc = IF call[s].kind = "secp" THEN "ack" ELSE "receipt",
                  !.out = IF call[s].kind = "read" \/ call[s].nonce = chain[s]
                          THEN "executed" ELSE "refused"])
    /\ chain' = [chain EXCEPT ![s] = IF call[s].kind # "read" /\ call[s].nonce = @
                                     THEN @ + 1 ELSE @]
    /\ UNCHANGED <<asks, late, stateCh, keyAsks, keyCh, cache, link, last, lost, stray, stolen>>

SubmitFails(s) ==
    /\ At(s, "submit") /\ ~link.up
    /\ Returns(s)
    /\ UNCHANGED <<asks, late, stateCh, keyAsks, keyCh, cache, chain, link, last, lost, stray, stolen>>

\* SaveTransactionWithDeviceKeyToFile writes it to a file instead.
Save(s) ==
    /\ At(s, "submit") /\ call[s].kind = "device"
    /\ Returns(s)
    /\ UNCHANGED <<asks, late, stateCh, keyAsks, keyCh, cache, chain, link, last, lost, stray, stolen>>

\* nonceCache.Store(from, usedNonce+1)
Accepted(s) ==
    /\ cache' = [cache EXCEPT ![s] = call[s].nonce + 1]
    /\ last' = [last EXCEPT ![s] = IF call[s].nonce > @ THEN call[s].nonce ELSE @]

\* SendRawEthTransaction returns the hash.
Ack(s) ==
    /\ At(s, "ack") /\ call[s].out = "executed"
    /\ Accepted(s)
    /\ Goes(s, [call[s] EXCEPT !.pc = "receipt"])
    /\ UNCHANGED <<asks, late, stateCh, keyAsks, keyCh, chain, link, lost, stray, stolen>>

Receipt(s) ==
    /\ At(s, "receipt") /\ call[s].out = "executed"
    /\ IF call[s].kind = "plain" THEN Accepted(s) ELSE UNCHANGED <<cache, last>>
    /\ Returns(s)
    /\ UNCHANGED <<asks, late, stateCh, keyAsks, keyCh, chain, link, lost, stray, stolen>>

\* An error of the node or a timeout: the node may have executed the transaction,
\* and a plain call leaves the cache as it was.
NoAnswer(s) ==
    /\ call[s].pc \in {"ack", "receipt"}
    /\ Returns(s)
    /\ UNCHANGED <<asks, late, stateCh, keyAsks, keyCh, cache, chain, link, last, lost, stray, stolen>>

-----------------------------------------------------------------------------
\* The connection ends and takes what was on the way with it.
Break ==
    /\ link.up /\ link.gen < MaxBreaks
    /\ link' = [link EXCEPT !.up = FALSE]
    /\ lost' = [states |-> lost.states + Cardinality(asks), keys |-> lost.keys + Cardinality(keyAsks)]
    /\ asks' = {} /\ keyAsks' = {} /\ late' = {}
    /\ UNCHANGED <<call, stateCh, keyCh, cache, chain, last, stray, stolen>>

\* handleParentDisconnectWithResubscribe, in the background.
Reconnects ==
    /\ ~link.up
    /\ link' = [up |-> TRUE, gen |-> link.gen + 1]
    /\ UNCHANGED <<call, asks, late, stateCh, keyAsks, keyCh, cache, chain, last, lost, stray, stolen>>

SenderStep(s) ==
    \/ Ask(s) \/ AskByIdFails(s) \/ \E n \in Nonces : AskById(s, n)
    \/ TakeOwn(s) \/ TakeForeign(s) \/ PutBack(s) \/ TakeAny(s)
    \/ AskKey(s) \/ AskKeyFails(s) \/ TakeKey(s)
    \/ Submit(s) \/ SubmitFails(s) \/ Save(s) \/ Ack(s) \/ Receipt(s) \/ NoAnswer(s)

Next ==
    \/ \E s \in Senders, k \in Kinds : Begin(s, k) \/ BeginReconnects(s, k) \/ BeginFails(s, k)
    \/ \E s \in Senders : SenderStep(s)
    \/ \E c \in asks, n \in Nonces : StateArrives(c, n)
    \/ \E c \in late, n \in Nonces : LateStateArrives(c, n)
    \/ \E c \in keyAsks : KeyArrives(c)
    \/ Break \/ Reconnects

Spec == Init /\ [][Next]_vars

-----------------------------------------------------------------------------
(* Properties                                                              *)

Waiting == {s \in Senders : call[s].pc \in {"wait", "put"}}

StatesConserved ==
    Cardinality(asks) + Len(stateCh) + Cardinality({s \in Senders : At(s, "put")}) + lost.states
        = Cardinality(Waiting) + Cardinality(stray)

KeysConserved ==
    Cardinality(keyAsks) + Len(keyCh) + lost.keys = Cardinality({s \in Senders : At(s, "key")})

\* Every state that was asked for and not lost with a connection is on its way, in
\* the channel, or in the hands of a call that will put it back.  When nobody waits
\* exactly as many are left over, for later calls to take as answers to their own
\* questions, as asks by id were answered after their timeout.  Of the device keys
\* none is left over and none lost in the full channel.
AnswersConserved == StatesConserved /\ KeysConserved

\* As long as no call has gone on with a state of another account, and no ask by id
\* for its own account was answered after its timeout, the state a device key call
\* signs with is the answer to its own question, and not one from before its
\* sender's last transaction.
DeviceStateIsFresh ==
    \A s \in Senders :
        /\ ~stolen /\ \A c \in stray : c.of # s
        /\ call[s].kind = "device" /\ call[s].pc \in {"askkey", "key", "submit"}
        => call[s].state.of = s /\ call[s].state.number = call[s].number

\* After a call of a helper was accepted, no later call of a helper for the account
\* uses its nonce again, however far the node lags behind.
NonceAdvances ==
    \A s \in Senders :
        call[s].kind \in {"secp", "plain"} /\ At(s, "submit") => call[s].nonce > last[s]
=============================================================================
