---------------------------- MODULE ReceiptRouter ----------------------------
(***************************************************************************)
(* The receipt router of src/pkg/client-tcp/client.go (runReceiptRouter)   *)
(* and the calls that use it (waitReceipt).                                *)
(*                                                                         *)
(* The router goroutine owns the registered waiters and the receipts it    *)
(* keeps for late registrations.  A call hands it register and cancel      *)
(* requests over an unbuffered channel, so the two meet in one step; the   *)
(* answer comes back through the call's own channel of capacity 1.  The    *)
(* handler goroutines push receipts and transaction errors into channels   *)
(* of capacity 1, shared by all calls.                                     *)
(*                                                                         *)
(* waiters[hash] of the code is here the set of registered calls whose     *)
(* hash it is: the router serves all matching entries of a list, in one    *)
(* step, so their order does not matter.                                   *)
(***************************************************************************)
EXTENDS Integers, Sequences

CONSTANTS
    Waiters,      \* goroutines that call waitReceipt
    Hashes,       \* transaction and receipt hashes
    NoReceipt,    \* an empty response channel, no pending receipt
    MaxMessages   \* bound on the receipts and errors the server sends

Receipts == [tx : Hashes, rhash : Hashes]

ASSUME RouterAssumption ==
    /\ NoReceipt \notin Receipts
    /\ NoReceipt \notin [rec : Receipts, expired : BOOLEAN]
    /\ MaxMessages \in Nat

VARIABLES
    receiptChan,  \* client.receiptChan, capacity 1
    errorChan,    \* client.transactionErrorChan, capacity 1
    pending,      \* pendingReceipts: per transaction hash, and is it past its TTL
    waiters,      \* calls with an entry in the waiters map
    call,         \* per goroutine: pc, hash and match type asked for, has it a timeout
    resp,         \* responseCh of the call
    result,       \* how the last call of each goroutine ended
    seen,         \* a matching receipt passed the router during the call
    orphaned,     \* the call met an expired pending receipt when it registered
    sent          \* messages from the server so far

vars == <<receiptChan, errorChan, pending, waiters, call, resp, result, seen,
          orphaned, sent>>

Call == [pc : {"idle", "wait", "cancelTimeout", "cancelError", "check"},
         hash : Hashes, match : {"tx", "rhash"}, timed : BOOLEAN]

TypeOK ==
    /\ receiptChan \in Seq(Receipts) /\ Len(receiptChan) <= 1
    /\ errorChan \in Seq(Hashes) /\ Len(errorChan) <= 1
    /\ pending \in [Hashes -> [rec : Receipts, expired : BOOLEAN] \cup {NoReceipt}]
    /\ waiters \in SUBSET Waiters
    /\ call \in [Waiters -> Call]
    /\ resp \in [Waiters -> Receipts \cup {NoReceipt}]
    /\ result \in [Waiters -> {"none", "receipt", "timeout", "error"}]
    /\ seen \in [Waiters -> BOOLEAN]
    /\ orphaned \in [Waiters -> BOOLEAN]
    /\ sent \in 0..MaxMessages

Init ==
    /\ receiptChan = <<>> /\ errorChan = <<>>
    /\ pending = [h \in Hashes |-> NoReceipt]
    /\ waiters = {}
    /\ call \in [Waiters -> [pc : {"idle"}, hash : Hashes, match : {"tx"}, timed : {TRUE}]]
    /\ resp = [w \in Waiters |-> NoReceipt]
    /\ result = [w \in Waiters |-> "none"]
    /\ seen = [w \in Waiters |-> FALSE]
    /\ orphaned = [w \in Waiters |-> FALSE]
    /\ sent = 0

-----------------------------------------------------------------------------
(* The handler goroutines of the client; a full channel blocks them.       *)

HandleReceipt(rc) ==
    /\ sent < MaxMessages /\ Len(receiptChan) < 1
    /\ receiptChan' = Append(receiptChan, rc)
    /\ sent' = sent + 1
    /\ UNCHANGED <<errorChan, pending, waiters, call, resp, result, seen, orphaned>>

HandleTransactionError(h) ==
    /\ sent < MaxMessages /\ Len(errorChan) < 1
    /\ errorChan' = Append(errorChan, h)
    /\ sent' = sent + 1
    /\ UNCHANGED <<receiptChan, pending, waiters, call, resp, result, seen, orphaned>>

-----------------------------------------------------------------------------
(* The router.                                                             *)

\* A waiter under the transaction hash is served by the first loop over the
\* receipt, one under the receipt hash by the second.
Matches(w, rc) ==
    \/ call[w].match = "tx" /\ call[w].hash = rc.tx
    \/ call[w].match = "rhash" /\ call[w].hash = rc.rhash

\* The router has not answered or cancelled the call yet.
Listening(w) == call[w].pc \in {"wait", "cancelTimeout", "cancelError"}

\* Mutant of RouteReceipt: the waiters that were served keep their entry.
RouteReceiptKeepsEntry ==
    /\ receiptChan # <<>>
    /\ LET rc == Head(receiptChan) IN
       /\ resp' = [w \in Waiters |-> IF w \in waiters /\ Matches(w, rc) /\ resp[w] = NoReceipt
                                     THEN rc ELSE resp[w]]
       /\ pending' = [pending EXCEPT ![rc.tx] = [rec |-> rc, expired |-> FALSE]]
       /\ seen' = [w \in Waiters |-> seen[w] \/ (Listening(w) /\ Matches(w, rc))]
    /\ receiptChan' = Tail(receiptChan)
    /\ UNCHANGED <<errorChan, waiters, call, result, orphaned, sent>>

\* A receipt goes to every matching waiter (non-blocking send), which loses its
\* entry, and is kept for registrations to come.
RouteReceipt ==
    /\ receiptChan # <<>>
    /\ LET rc == Head(receiptChan) IN
       /\ resp' = [w \in Waiters |-> IF w \in waiters /\ Matches(w, rc) /\ resp[w] = NoReceipt
                                     THEN rc ELSE resp[w]]
       /\ waiters' = {w \in waiters : ~Matches(w, rc)}
       /\ pending' = [pending EXCEPT ![rc.tx] = [rec |-> rc, expired |-> FALSE]]
       /\ seen' = [w \in Waiters |-> seen[w] \/ (Listening(w) /\ Matches(w, rc))]
    /\ receiptChan' = Tail(receiptChan)
    /\ UNCHANGED <<errorChan, call, result, orphaned, sent>>

\* time.Now() passes expiresAt of a pending receipt.
PendingExpires(h) ==
    /\ pending[h] # NoReceipt /\ ~pending[h].expired
    /\ pending' = [pending EXCEPT ![h].expired = TRUE]
    /\ UNCHANGED <<receiptChan, errorChan, waiters, call, resp, result, seen, orphaned, sent>>

\* cleanupTicker: delete every pending receipt past its TTL.
CleanupTick ==
    /\ \E h \in Hashes : pending[h] # NoReceipt /\ pending[h].expired
    /\ pending' = [h \in Hashes |->
                     IF pending[h] # NoReceipt /\ pending[h].expired
                     THEN NoReceipt ELSE pending[h]]
    /\ UNCHANGED <<receiptChan, errorChan, waiters, call, resp, result, seen, orphaned, sent>>

-----------------------------------------------------------------------------
(* waitReceipt.                                                            *)

Starts(w, h, m, timed) ==
    /\ call[w].pc = "idle"
    /\ call' = [call EXCEPT ![w] = [pc |-> "wait", hash |-> h, match |-> m, timed |-> timed]]
    /\ UNCHANGED <<receiptChan, errorChan, result, sent>>

\* No pending receipt under the hash: the call gets an entry.
Register(w, h, m, timed) ==
    /\ Starts(w, h, m, timed)
    /\ pending[h] = NoReceipt
    /\ waiters' = waiters \cup {w}
    /\ seen' = [seen EXCEPT ![w] = FALSE]
    /\ orphaned' = [orphaned EXCEPT ![w] = FALSE]
    /\ UNCHANGED <<pending, resp>>

\* A pending receipt is handed to the first call that asks for it.
RegisterServed(w, h, m, timed) ==
    /\ Starts(w, h, m, timed)
    /\ pending[h] # NoReceipt /\ ~pending[h].expired
    /\ resp' = [resp EXCEPT ![w] = pending[h].rec]
    /\ pending' = [pending EXCEPT ![h] = NoReceipt]
    /\ seen' = [seen EXCEPT ![w] = TRUE]
    /\ orphaned' = [orphaned EXCEPT ![w] = FALSE]
    /\ UNCHANGED waiters

\* One past its TTL is deleted, and the break that follows leaves the switch:
\* the call waits without an entry.
RegisterOrphaned(w, h, m, timed) ==
    /\ Starts(w, h, m, timed)
    /\ pending[h] # NoReceipt /\ pending[h].expired
    /\ pending' = [pending EXCEPT ![h] = NoReceipt]
    /\ seen' = [seen EXCEPT ![w] = FALSE]
    /\ orphaned' = [orphaned EXCEPT ![w] = TRUE]
    /\ UNCHANGED <<waiters, resp>>

\* The call returns; its response channel is gone.
Returns(w, how) ==
    /\ call' = [call EXCEPT ![w].pc = "idle"]
    /\ resp' = [resp EXCEPT ![w] = NoReceipt]
    /\ result' = [result EXCEPT ![w] = how]

Receive(w) ==
    /\ call[w].pc = "wait" /\ resp[w] # NoReceipt
    /\ Returns(w, "receipt")
    /\ UNCHANGED <<receiptChan, errorChan, pending, waiters, seen, orphaned, sent>>

\* A transaction error for another hash is taken off the shared channel and
\* dropped; with timeout 0 the call does not look at errors.
TakeError(w) ==
    /\ call[w].pc = "wait" /\ call[w].timed /\ errorChan # <<>>
    /\ errorChan' = Tail(errorChan)
    /\ call' = IF Head(errorChan) = call[w].hash
               THEN [call EXCEPT ![w].pc = "cancelError"] ELSE call
    /\ UNCHANGED <<receiptChan, pending, waiters, resp, result, seen, orphaned, sent>>

TimerFires(w) ==
    /\ call[w].pc = "wait" /\ call[w].timed
    /\ call' = [call EXCEPT ![w].pc = "cancelTimeout"]
    /\ UNCHANGED <<receiptChan, errorChan, pending, waiters, resp, result, seen, orphaned, sent>>

\* The router takes the entry of the call out of its map, if it is there.
RouterCancels(w) == waiters' = waiters \ {w}

CancelAfterError(w) ==
    /\ call[w].pc = "cancelError"
    /\ RouterCancels(w)
    /\ Returns(w, "error")
    /\ UNCHANGED <<receiptChan, errorChan, pending, seen, orphaned, sent>>

\* Mutants of CancelAfterTimeout: the whole entry of the hash is deleted; the
\* router takes the request only if it knows the call.
CancelWholeHash(w) ==
    /\ call[w].pc = "cancelTimeout"
    /\ waiters' = {v \in waiters : call[v].hash # call[w].hash}
    /\ call' = [call EXCEPT ![w].pc = "check"]
    /\ UNCHANGED <<receiptChan, errorChan, pending, resp, result, seen, orphaned, sent>>

CancelNeedsEntry(w) ==
    /\ call[w].pc = "cancelTimeout" /\ w \in waiters
    /\ waiters' = waiters \ {w}
    /\ call' = [call EXCEPT ![w].pc = "check"]
    /\ UNCHANGED <<receiptChan, errorChan, pending, resp, result, seen, orphaned, sent>>

CancelAfterTimeout(w) ==
    /\ call[w].pc = "cancelTimeout"
    /\ RouterCancels(w)
    /\ call' = [call EXCEPT ![w].pc = "check"]
    /\ UNCHANGED <<receiptChan, errorChan, pending, resp, result, seen, orphaned, sent>>

\* Mutant of FinalCheck: the response channel is not looked at again.
NoFinalCheck(w) ==
    /\ call[w].pc = "check"
    /\ Returns(w, "timeout")
    /\ UNCHANGED <<receiptChan, errorChan, pending, waiters, seen, orphaned, sent>>

\* A receipt delivered before the cancel is still returned.
FinalCheck(w) ==
    /\ call[w].pc = "check"
    /\ Returns(w, IF resp[w] # NoReceipt THEN "receipt" ELSE "timeout")
    /\ UNCHANGED <<receiptChan, errorChan, pending, waiters, seen, orphaned, sent>>

-----------------------------------------------------------------------------
WaiterStep(w) ==
    \/ Receive(w) \/ TakeError(w) \/ TimerFires(w)
    \/ CancelAfterError(w) \/ CancelAfterTimeout(w) \/ FinalCheck(w)

Next ==
    \/ \E rc \in Receipts : HandleReceipt(rc)
    \/ \E h \in Hashes : HandleTransactionError(h)
    \/ RouteReceipt
    \/ \E h \in Hashes : PendingExpires(h)
    \/ CleanupTick
    \/ \E w \in Waiters, h \in Hashes, m \in {"tx", "rhash"}, t \in BOOLEAN :
          Register(w, h, m, t) \/ RegisterServed(w, h, m, t) \/ RegisterOrphaned(w, h, m, t)
    \/ \E w \in Waiters : WaiterStep(w)

Spec == Init /\ [][Next]_vars

\* The router and the waiting calls are scheduled, and timers fire.
FairSpec ==
    /\ Spec
    /\ WF_vars(RouteReceipt)
    /\ \A w \in Waiters : WF_vars(WaiterStep(w))
    /\ \A w \in Waiters : WF_vars(TimerFires(w))

-----------------------------------------------------------------------------
(* Properties                                                              *)

\* A call never gets another transaction's receipt: what sits in its channel
\* has the hash it asked for, by the key it asked for (a pending receipt is
\* found by transaction hash for both kinds of call).
RightReceipt ==
    \A w \in Waiters : resp[w] # NoReceipt =>
        \/ resp[w].tx = call[w].hash
        \/ call[w].match = "rhash" /\ resp[w].rhash = call[w].hash

\* The router keeps no entry of a call that has returned: timeouts and errors
\* cancel before the call returns, a delivery removes the entry.
NoStaleEntry == \A w \in waiters : Listening(w)

\* The non-blocking send to a waiter never drops a receipt: the channel of a
\* registered call is empty.
RegisteredIsUnserved == \A w \in waiters : resp[w] = NoReceipt

\* A call that reports a timeout missed nothing while it waited: no receipt it waits
\* for passed the router between its registration and its cancel, unless it was left
\* without an entry because it met an expired pending receipt.  (A receipt that the
\* router passed on or dropped before the call registered is not counted.)
TimeoutMeansNotSeen ==
    \A w \in Waiters : result[w] = "timeout" /\ call[w].pc = "idle" =>
        ~seen[w] \/ orphaned[w]

\* A waiting call is registered, served, or orphaned by an expired receipt:
\* there is no other way to lose an entry.
WaitingIsKnown ==
    \A w \in Waiters : Listening(w) =>
        w \in waiters \/ resp[w] # NoReceipt \/ orphaned[w]

\* A call with a timeout returns, whatever the server sends or does not send:
\* neither the router nor the call can block the other.
TimedCallsReturn ==
    \A w \in Waiters : (call[w].pc # "idle" /\ call[w].timed) ~> (call[w].pc = "idle")
=============================================================================
