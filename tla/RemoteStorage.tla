---------------------------- MODULE RemoteStorage ----------------------------
(***************************************************************************)
(* Storage behind a connection: the client of                              *)
(* src/pkg/storage/remote_storage_client.go and the service of             *)
(* remote_storage_service.go.                                              *)
(*                                                                         *)
(* A call stores a pending entry under a fresh id (the call itself), sends *)
(* its request and waits for a response, a connection error or its timer.  *)
(* Requests are served by a pool of workers, so they are applied and       *)
(* answered in any order.  One goroutine, handleResponses, passes the      *)
(* responses on; a blocked send there would stop every call.               *)
(***************************************************************************)
EXTENDS Integers, FiniteSets

CONSTANTS
    Calls,      \* calls of the Storage interface
    Keys, Vals,
    None        \* no value

ASSUME RemoteAssumption == None \notin Vals

VARIABLES
    pc,         \* where each call is
    req,        \* its operation
    result,     \* what it returned
    pending,    \* rs.pending
    respCh,     \* pending.ch of each call, capacity 1
    errCh,      \* pending.errc of each call, capacity 1: whether it is full
    link,       \* the connection, as the client sees it
    requests,   \* requests on the way or queued at the service
    responses,  \* responses on the way
    handler,    \* handleResponses
    db,         \* actualStorage
    applied,    \* how often the service has carried out each call
    seen        \* the values each Get could have read since it began

vars == <<pc, req, result, pending, respCh, errCh, link, requests, responses, handler, db,
          applied, seen>>

Assignments == UNION {[S -> Vals \cup {None}] : S \in SUBSET Keys \ {{}}}

\* Put, Delete, BatchPut and BatchDelete assign values to keys; the backup path is
\* a constant of the storage.
Operations ==
    [op : {"get"}, key : Keys] \cup [op : {"write"}, to : Assignments] \cup [op : {"path"}]

Answers == [ok : BOOLEAN, val : Vals \cup {None}]

NoAnswer == [ok |-> FALSE, val |-> None]

TypeOK ==
    /\ pc \in [Calls -> {"idle", "stored", "wait", "cleanup", "returned"}]
    /\ \A c \in Calls : pc[c] # "idle" => req[c] \in Operations
    /\ result \in [Calls -> {"none", "ok", "error", "unsent", "lost", "timeout"}]
    /\ pending \in SUBSET Calls
    /\ respCh \in [Calls -> SUBSET Answers] /\ \A c \in Calls : Cardinality(respCh[c]) <= 1
    /\ errCh \in [Calls -> BOOLEAN]
    /\ link \in {"up", "broken"}
    /\ requests \in SUBSET Calls
    /\ responses \in SUBSET [call : Calls, answer : Answers]
    /\ handler.pc \in {"select", "deliver", "notify", "exited"}
    /\ db \in [Keys -> Vals \cup {None}]
    /\ applied \in [Calls -> 0..1]
    /\ seen \in [Calls -> SUBSET (Vals \cup {None})]

Init ==
    /\ pc = [c \in Calls |-> "idle"]
    /\ req = [c \in Calls |-> None]
    /\ result = [c \in Calls |-> "none"]
    /\ pending = {}
    /\ respCh = [c \in Calls |-> {}]
    /\ errCh = [c \in Calls |-> FALSE]
    /\ link = "up"
    /\ requests = {} /\ responses = {}
    /\ handler = [pc |-> "select"]
    /\ db = [k \in Keys |-> None]
    /\ applied = [c \in Calls |-> 0]
    /\ seen = [c \in Calls |-> {}]

-----------------------------------------------------------------------------
(* sendRequest, called by Get, Put, Delete, BatchPut, ...                  *)

Goes(c, from, to) == pc[c] = from /\ pc' = [pc EXCEPT ![c] = to]

Store(c, o) ==
    /\ Goes(c, "idle", "stored")
    /\ req' = [req EXCEPT ![c] = o]
    /\ pending' = pending \cup {c}
    /\ seen' = [seen EXCEPT ![c] = IF o.op = "get" THEN {db[o.key]} ELSE {}]
    /\ UNCHANGED <<result, respCh, errCh, link, requests, responses, handler, db, applied>>

Send(c) ==
    /\ Goes(c, "stored", "wait")
    /\ link = "up"
    /\ requests' = requests \cup {c}
    /\ UNCHANGED <<req, result, pending, respCh, errCh, link, responses, handler, db, applied, seen>>

\* The end of the connection has not been noticed: the message is queued for nobody.
SendIntoVoid(c) ==
    /\ Goes(c, "stored", "wait")
    /\ link = "broken"
    /\ UNCHANGED <<req, result, pending, respCh, errCh, link, requests, responses, handler, db,
                   applied, seen>>

Ends(c, how) == result' = [result EXCEPT ![c] = how]

SendFails(c) ==
    /\ Goes(c, "stored", "cleanup")
    /\ Ends(c, "unsent")
    /\ UNCHANGED <<req, pending, respCh, errCh, link, requests, responses, handler, db, applied, seen>>

Receive(c) ==
    \E a \in respCh[c] :
       /\ Goes(c, "wait", "cleanup")
       /\ respCh' = [respCh EXCEPT ![c] = {}]
       /\ Ends(c, IF a.ok THEN "ok" ELSE "error")
       /\ UNCHANGED <<req, pending, errCh, link, requests, responses, handler, db, applied, seen>>

ReceiveError(c) ==
    /\ errCh[c] /\ Goes(c, "wait", "cleanup")
    /\ errCh' = [errCh EXCEPT ![c] = FALSE]
    /\ Ends(c, "lost")
    /\ UNCHANGED <<req, pending, respCh, link, requests, responses, handler, db, applied, seen>>

\* Mutant of TimerFires: the wait trusts that a broken connection is reported.
TimerWhileUp(c) ==
    /\ link = "up" /\ Goes(c, "wait", "cleanup")
    /\ Ends(c, "timeout")
    /\ UNCHANGED <<req, pending, respCh, errCh, link, requests, responses, handler, db, applied, seen>>

\* time.After(15 * time.Second)
TimerFires(c) ==
    /\ Goes(c, "wait", "cleanup")
    /\ Ends(c, "timeout")
    /\ UNCHANGED <<req, pending, respCh, errCh, link, requests, responses, handler, db, applied, seen>>

\* defer rs.pending.Delete(reqID)
Cleanup(c) ==
    /\ Goes(c, "cleanup", "returned")
    /\ pending' = pending \ {c}
    /\ UNCHANGED <<req, result, respCh, errCh, link, requests, responses, handler, db, applied, seen>>

-----------------------------------------------------------------------------
(* handleDatabaseOperation, at the service.                                *)

Assign(m, to) == [k \in Keys |-> IF k \in DOMAIN to THEN to[k] ELSE m[k]]

\* The restrictions of a write to some of its keys; those of a read are empty.
PartsOf(o) ==
    IF o.op = "write" THEN {[k \in S |-> o.to[k]] : S \in SUBSET DOMAIN o.to} ELSE {<<>>}

Answer(c, a) ==
    responses' = responses \cup IF link = "up" THEN {[call |-> c, answer |-> a]} ELSE {}

\* Every Get that is going on could have read the new value.
Shows(m) ==
    seen' = [c \in Calls |-> IF pc[c] \in {"stored", "wait"} /\ req[c].op = "get"
                             THEN seen[c] \cup {m[req[c].key]} ELSE seen[c]]

\* Mutant of Serve: the request is looked at, not taken out of the queue.
ServeAgain(c) ==
    /\ c \in requests
    /\ UNCHANGED requests
    /\ db' = IF req[c].op = "write" THEN Assign(db, req[c].to) ELSE db
    /\ applied' = [applied EXCEPT ![c] = @ + 1]
    /\ Answer(c, [ok |-> TRUE, val |-> IF req[c].op = "get" THEN db[req[c].key] ELSE None])
    /\ Shows(db')
    /\ UNCHANGED <<pc, req, result, pending, respCh, errCh, link, handler>>

Serve(c) ==
    /\ c \in requests
    /\ requests' = requests \ {c}
    /\ db' = IF req[c].op = "write" THEN Assign(db, req[c].to) ELSE db
    /\ applied' = [applied EXCEPT ![c] = @ + 1]
    /\ Answer(c, [ok |-> TRUE, val |-> IF req[c].op = "get" THEN db[req[c].key] ELSE None])
    /\ Shows(db')
    /\ UNCHANGED <<pc, req, result, pending, respCh, errCh, link, handler>>

\* The storage returns an error, which goes into the response.  A write may have
\* reached some of its keys: the file store's batches are loops.
ServeFails(c) ==
    /\ c \in requests
    /\ requests' = requests \ {c}
    /\ Answer(c, NoAnswer)
    /\ db' \in {Assign(db, to) : to \in PartsOf(req[c])}
    /\ Shows(db')
    /\ UNCHANGED <<pc, req, result, pending, respCh, errCh, link, handler, applied>>

\* The connection ends: of the responses on the way only those that have reached
\* the channel of the client stay.
Break ==
    /\ link = "up"
    /\ link' = "broken" /\ responses' \in SUBSET responses
    /\ UNCHANGED <<pc, req, result, pending, respCh, errCh, requests, handler, db, applied, seen>>

-----------------------------------------------------------------------------
(* handleResponses                                                         *)

\* Load: a response that no call waits for is dropped.
Take(r) ==
    /\ handler.pc = "select" /\ r \in responses
    /\ responses' = responses \ {r}
    /\ handler' = IF r.call \in pending THEN [pc |-> "deliver", resp |-> r] ELSE handler
    /\ UNCHANGED <<pc, req, result, pending, respCh, errCh, link, requests, db, applied, seen>>

\* Mutant of Deliver: to whoever waits.
DeliverAny ==
    /\ handler.pc = "deliver"
    /\ \E c \in pending : /\ respCh[c] = {}
                          /\ respCh' = [respCh EXCEPT ![c] = {handler.resp.answer}]
    /\ handler' = [pc |-> "select"]
    /\ UNCHANGED <<pc, req, result, pending, errCh, link, requests, responses, db, applied, seen>>

\* pending.ch <- respWrapper, which waits for room.
Deliver ==
    /\ handler.pc = "deliver"
    /\ respCh[handler.resp.call] = {}
    /\ respCh' = [respCh EXCEPT ![handler.resp.call] = {handler.resp.answer}]
    /\ handler' = [pc |-> "select"]
    /\ UNCHANGED <<pc, req, result, pending, errCh, link, requests, responses, db, applied, seen>>

\* A connection error is passed on to every pending call.
TakeError ==
    /\ handler.pc = "select" /\ link = "broken"
    /\ handler' = [pc |-> "notify", todo |-> pending]
    /\ UNCHANGED <<pc, req, result, pending, respCh, errCh, link, requests, responses, db, applied, seen>>

Notify(c) ==
    /\ handler.pc = "notify" /\ c \in handler.todo
    /\ handler' = [handler EXCEPT !.todo = @ \ {c}]
    /\ errCh' = IF c \in pending THEN [errCh EXCEPT ![c] = TRUE] ELSE errCh
    /\ pending' = pending \ {c}
    /\ UNCHANGED <<pc, req, result, respCh, link, requests, responses, db, applied, seen>>

NotifyEnds ==
    /\ handler.pc = "notify" /\ handler.todo = {}
    /\ handler' = [pc |-> "exited"]
    /\ UNCHANGED <<pc, req, result, pending, respCh, errCh, link, requests, responses, db, applied, seen>>

\* The select may meet the closed channels first: nobody is told.
TakeClosed ==
    /\ handler.pc = "select" /\ link = "broken"
    /\ handler' = [pc |-> "exited"]
    /\ UNCHANGED <<pc, req, result, pending, respCh, errCh, link, requests, responses, db, applied, seen>>

-----------------------------------------------------------------------------
CallStep(c) ==
    \/ Send(c) \/ SendIntoVoid(c) \/ SendFails(c)
    \/ Receive(c) \/ ReceiveError(c) \/ TimerFires(c) \/ Cleanup(c)

HandlerStep ==
    \/ Deliver \/ TakeError \/ TakeClosed \/ NotifyEnds
    \/ \E r \in responses : Take(r)
    \/ \E c \in Calls : Notify(c)

Next ==
    \/ \E c \in Calls, o \in Operations : Store(c, o)
    \/ \E c \in Calls : CallStep(c) \/ Serve(c) \/ ServeFails(c)
    \/ HandlerStep \/ Break

Spec == Init /\ [][Next]_vars

\* Goroutines are scheduled and timers fire.
FairSpec ==
    /\ Spec
    /\ \A c \in Calls : WF_vars(CallStep(c))
    /\ WF_vars(HandlerStep)

-----------------------------------------------------------------------------
(* Properties                                                              *)

\* handleResponses never waits for room in the channel of a call, though timers
\* fire and calls return between its Load and its send.
HandlerNeverBlocks == handler.pc = "deliver" => respCh[handler.resp.call] = {}

\* A call that reports success was carried out exactly once and one whose request
\* was refused by SendMessage never; only an error of the storage, a timeout or a
\* lost connection leaves open what became of a write.
SuccessMeansApplied ==
    \A c \in Calls : /\ result[c] = "ok" => applied[c] = 1
                     /\ result[c] = "unsent" => applied[c] = 0

\* What a Get returns is a value its key had at some time during the call, and
\* never the answer to another call.
GetIsFresh ==
    \A c \in Calls : \A a \in respCh[c] :
        pc[c] = "wait" /\ a.ok /\ req[c].op = "get" => a.val \in seen[c]

\* Every call returns, whatever becomes of the connection.
CallsReturn == \A c \in Calls : (pc[c] = "stored") ~> (pc[c] = "returned")
=============================================================================
