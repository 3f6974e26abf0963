------------------------- MODULE RemoteStorageProofs -------------------------
(***************************************************************************)
(* Proofs about RemoteStorage, for any calls, keys and values.             *)
(*                                                                         *)
(* The service answers a request once, so for each call there is at most   *)
(* one message: the request, or its answer on the way, in the hand of      *)
(* handleResponses, or in the channel of the call.  The invariant follows  *)
(* this message: while it is a request the call was not carried out, and   *)
(* an answer that says it was is true.                                     *)
(***************************************************************************)
EXTENDS RemoteStorage, FiniteSetTheorems, TLAPS

Responses == [call : Calls, answer : Answers]

\* TypeOK without the two bounds, which follow from the rest; the handler in full.
Types ==
    /\ pc \in [Calls -> {"idle", "stored", "wait", "cleanup", "returned"}]
    /\ DOMAIN req = Calls
    /\ \A c \in Calls : pc[c] # "idle" => req[c] \in Operations
    /\ result \in [Calls -> {"none", "ok", "error", "unsent", "lost", "timeout"}]
    /\ pending \in SUBSET Calls
    /\ respCh \in [Calls -> SUBSET Answers]
    /\ errCh \in [Calls -> BOOLEAN]
    /\ link \in {"up", "broken"}
    /\ requests \in SUBSET Calls
    /\ responses \in SUBSET Responses
    /\ handler \in [pc : {"select", "exited"}] \cup [pc : {"deliver"}, resp : Responses]
                   \cup [pc : {"notify"}, todo : SUBSET Calls]
    /\ db \in [Keys -> Vals \cup {None}]
    /\ applied \in [Calls -> 0..1]
    /\ seen \in [Calls -> SUBSET (Vals \cup {None})]

\* SendMessage has taken the request of the call.
Asked(c) == pc[c] \notin {"idle", "stored"} /\ result[c] # "unsent"

\* The response that handleResponses is about to pass on.
Carried(c) == handler.pc = "deliver" /\ handler.resp.call = c

\* What an answer to c says is true.
Good(c, a) ==
    a.ok => /\ applied[c] = 1
            /\ pc[c] = "wait" /\ req[c].op = "get" => a.val \in seen[c]

\* The message of call c is a request.
RequestInv(c) ==
    c \in requests => /\ Asked(c) /\ applied[c] = 0 /\ ~Carried(c) /\ respCh[c] = {}
                      /\ \A r \in responses : r.call # c

\* It is an answer on the way.
ResponseInv(c) ==
    /\ \A r \in responses :
          r.call = c => Asked(c) /\ ~Carried(c) /\ respCh[c] = {} /\ Good(c, r.answer)
    /\ \A q, r \in responses : q.call = c /\ r.call = c => q = r

\* It is in the hand of handleResponses.
CarriedInv(c) ==
    Carried(c) => Asked(c) /\ respCh[c] = {} /\ Good(c, handler.resp.answer)

\* It is in the channel of the call.
ChannelInv(c) ==
    /\ \A a \in respCh[c] : Asked(c) /\ Good(c, a)
    /\ \A a, b \in respCh[c] : a = b

\* What the call has said of itself.
ResultInv(c) ==
    /\ pc[c] \in {"idle", "stored", "wait"} => result[c] = "none"
    /\ ~Asked(c) => applied[c] = 0
    /\ result[c] = "ok" => applied[c] = 1

CallInv(c) ==
    RequestInv(c) /\ ResponseInv(c) /\ CarriedInv(c) /\ ChannelInv(c) /\ ResultInv(c)

\* The inductive invariant.
IInv == Types /\ \A c \in Calls : CallInv(c)

-----------------------------------------------------------------------------
(* Types.                                                                  *)

LEMMA InitTypes == Init => Types
  BY DEF Init, Types

\* A call that goes on, with the result it has then.
LEMMA CallStepTypes ==
  ASSUME Types, NEW c \in Calls, CallStep(c)
  PROVE  Types'
<1>1. CASE Send(c)
  BY <1>1 DEF Types, Send, Goes
<1>2. CASE SendIntoVoid(c)
  BY <1>2 DEF Types, SendIntoVoid, Goes
<1>3. CASE SendFails(c)
  BY <1>3 DEF Types, SendFails, Goes, Ends
<1>4. CASE Receive(c)
  <2>1. PICK a \in respCh[c] :
           /\ Goes(c, "wait", "cleanup")
           /\ respCh' = [respCh EXCEPT ![c] = {}]
           /\ Ends(c, IF a.ok THEN "ok" ELSE "error")
           /\ UNCHANGED <<req, pending, errCh, link, requests, responses, handler, db,
                          applied, seen>>
    BY <1>4 DEF Receive
  <2>2. result' \in [Calls -> {"none", "ok", "error", "unsent", "lost", "timeout"}]
    BY <2>1 DEF Types, Ends
  <2> QED BY <2>1, <2>2 DEF Types, Goes
<1>5. CASE ReceiveError(c)
  BY <1>5 DEF Types, ReceiveError, Goes, Ends
<1>6. CASE TimerFires(c)
  BY <1>6 DEF Types, TimerFires, Goes, Ends
<1>7. CASE Cleanup(c)
  BY <1>7 DEF Types, Cleanup, Goes
<1> QED BY <1>1, <1>2, <1>3, <1>4, <1>5, <1>6, <1>7 DEF CallStep

LEMMA StoreTypes ==
  ASSUME Types, NEW c \in Calls, NEW o \in Operations, Store(c, o)
  PROVE  Types'
<1>1. o.op = "get" => o.key \in Keys
  BY DEF Operations
<1>2. seen' \in [Calls -> SUBSET (Vals \cup {None})]
  BY <1>1 DEF Types, Store
<1> QED BY <1>2 DEF Types, Store, Goes

\* The map after a write, or after part of one.
LEMMA AssignType ==
  ASSUME NEW m \in [Keys -> Vals \cup {None}], NEW to,
         \A k \in DOMAIN to : k \in Keys => to[k] \in Vals \cup {None}
  PROVE  Assign(m, to) \in [Keys -> Vals \cup {None}]
  BY DEF Assign

\* What a running Get may have read since.
LEMMA ShowsType ==
  ASSUME Types, NEW m \in [Keys -> Vals \cup {None}], Shows(m)
  PROVE  seen' \in [Calls -> SUBSET (Vals \cup {None})]
<1>1. \A c \in Calls : pc[c] \in {"stored", "wait"} /\ req[c].op = "get" => req[c].key \in Keys
  BY DEF Types, Operations
<1> QED BY <1>1 DEF Types, Shows

LEMMA WriteTo ==
  ASSUME NEW o \in Operations, o.op = "write"
  PROVE  \A k \in DOMAIN o.to : k \in Keys => o.to[k] \in Vals \cup {None}
<1>1. o.to \in Assignments
  BY DEF Operations
<1>2. PICK S \in SUBSET Keys : o.to \in [S -> Vals \cup {None}]
  BY <1>1 DEF Assignments
<1> QED BY <1>2

LEMMA AnswerType ==
  ASSUME Types, NEW c \in Calls, NEW a \in Answers, Answer(c, a)
  PROVE  responses' \in SUBSET Responses
<1>1. [call |-> c, answer |-> a] \in Responses
  BY DEF Responses
<1>2. responses' \subseteq responses \cup {[call |-> c, answer |-> a]}
  BY DEF Answer
<1> QED BY <1>1, <1>2 DEF Types

LEMMA ServeTypes ==
  ASSUME Types, NEW c \in Calls, CallInv(c), Serve(c)
  PROVE  Types'
<1>1. pc[c] # "idle" /\ applied[c] = 0
  BY DEF Serve, CallInv, RequestInv, Asked
<1>2. req[c] \in Operations
  BY <1>1 DEF Types
<1>3. db' \in [Keys -> Vals \cup {None}]
  BY <1>2, WriteTo, AssignType DEF Types, Serve
<1>4. seen' \in [Calls -> SUBSET (Vals \cup {None})]
  BY <1>3, ShowsType DEF Serve
<1>5. req[c].op = "get" => db[req[c].key] \in Vals \cup {None}
  BY <1>2 DEF Types, Operations
<1>6. [ok |-> TRUE, val |-> IF req[c].op = "get" THEN db[req[c].key] ELSE None] \in Answers
  BY <1>5 DEF Answers
<1>7. responses' \in SUBSET Responses
  BY <1>6, AnswerType DEF Serve
<1>8. applied' \in [Calls -> 0..1]
  BY <1>1 DEF Types, Serve
<1> QED BY <1>3, <1>4, <1>7, <1>8 DEF Types, Serve

LEMMA ServeFailsTypes ==
  ASSUME Types, NEW c \in Calls, CallInv(c), ServeFails(c)
  PROVE  Types'
<1>1. req[c] \in Operations
  BY DEF ServeFails, CallInv, RequestInv, Asked, Types
<1>2. PICK to \in PartsOf(req[c]) : db' = Assign(db, to)
  BY DEF ServeFails
<1>3. \A k \in DOMAIN to : k \in Keys => to[k] \in Vals \cup {None}
  <2>1. CASE req[c].op = "write"
    <3>1. PICK S \in SUBSET DOMAIN req[c].to : to = [k \in S |-> req[c].to[k]]
      BY <1>2, <2>1 DEF PartsOf
    <3> QED BY <1>1, <2>1, <3>1, WriteTo
  <2>2. CASE req[c].op # "write"
    BY <1>2, <2>2 DEF PartsOf
  <2> QED BY <2>1, <2>2
<1>4. db' \in [Keys -> Vals \cup {None}]
  BY <1>2, <1>3, AssignType DEF Types
<1>5. seen' \in [Calls -> SUBSET (Vals \cup {None})]
  BY <1>4, ShowsType DEF ServeFails
<1>6. responses' \in SUBSET Responses
  <2>1. NoAnswer \in Answers
    BY DEF NoAnswer, Answers
  <2> QED BY <2>1, AnswerType DEF ServeFails
<1> QED BY <1>4, <1>5, <1>6 DEF Types, ServeFails

LEMMA HandlerTypes ==
  ASSUME Types, HandlerStep
  PROVE  Types'
<1>1. CASE Deliver
  <2>1. handler.resp \in Responses
    BY <1>1 DEF Types, Deliver
  <2>2. handler.resp.call \in Calls /\ handler.resp.answer \in Answers
    BY <2>1 DEF Responses
  <2> QED BY <1>1, <2>2 DEF Types, Deliver
<1>2. CASE TakeError
  BY <1>2 DEF Types, TakeError
<1>3. CASE TakeClosed
  BY <1>3 DEF Types, TakeClosed
<1>4. CASE NotifyEnds
  BY <1>4 DEF Types, NotifyEnds
<1>5. ASSUME NEW r \in responses, Take(r) PROVE Types'
  BY <1>5 DEF Types, Take
<1>6. ASSUME NEW c \in Calls, Notify(c) PROVE Types'
  <2>1. handler \in [pc : {"notify"}, todo : SUBSET Calls]
    BY <1>6 DEF Types, Notify
  <2>2. handler' \in [pc : {"notify"}, todo : SUBSET Calls]
    BY <1>6, <2>1 DEF Notify
  <2> QED BY <1>6, <2>2 DEF Types, Notify
<1> QED BY <1>1, <1>2, <1>3, <1>4, <1>5, <1>6 DEF HandlerStep

\* Every step keeps the types.
LEMMA TypesStep == IInv /\ [Next]_vars => Types'
<1> SUFFICES ASSUME IInv, [Next]_vars PROVE Types'
  OBVIOUS
<1>0. Types
  BY DEF IInv
<1>1. CASE Break
  BY <1>0, <1>1 DEF Types, Break
<1>2. CASE UNCHANGED vars
  BY <1>0, <1>2 DEF Types, vars
<1>3. ASSUME NEW c \in Calls, Serve(c) \/ ServeFails(c) PROVE Types'
  BY <1>0, <1>3, ServeTypes, ServeFailsTypes DEF IInv
<1> QED BY <1>0, <1>1, <1>2, <1>3, StoreTypes, CallStepTypes, HandlerTypes DEF Next

-----------------------------------------------------------------------------
(* The message of one call.                                                *)

\* A step that touches nothing of call c but what Gets may have read.
LEMMA Frame ==
  ASSUME NEW c, CallInv(c),
         pc'[c] = pc[c], req'[c] = req[c], result'[c] = result[c], applied'[c] = applied[c],
         respCh'[c] = respCh[c], seen[c] \subseteq seen'[c],
         c \in requests' => c \in requests,
         \A r \in responses' : r.call = c => r \in responses,
         Carried(c)' => Carried(c) /\ handler'.resp = handler.resp
  PROVE  CallInv(c)'
<1>1. Asked(c)' <=> Asked(c)
  BY DEF Asked
<1>2. \A a : Good(c, a) => Good(c, a)'
  BY DEF Good
<1>3. RequestInv(c)'
  BY <1>1 DEF CallInv, RequestInv
<1>4. ResponseInv(c)'
  BY <1>1, <1>2 DEF CallInv, ResponseInv
<1>5. CarriedInv(c)'
  BY <1>1, <1>2 DEF CallInv, CarriedInv
<1>6. ChannelInv(c)'
  BY <1>1, <1>2 DEF CallInv, ChannelInv
<1>7. ResultInv(c)'
  BY <1>1 DEF CallInv, ResultInv
<1> QED BY <1>3, <1>4, <1>5, <1>6, <1>7 DEF CallInv

\* A step of another call.
LEMMA OtherCall ==
  ASSUME IInv, NEW d \in Calls, CallStep(d), NEW c \in Calls, c # d
  PROVE  CallInv(c)'
<1>1. /\ pc'[c] = pc[c] /\ result'[c] = result[c] /\ respCh'[c] = respCh[c]
      /\ req' = req /\ applied' = applied /\ seen' = seen /\ responses' = responses
      /\ handler' = handler /\ requests' \subseteq requests \cup {d}
  BY DEF IInv, Types, CallStep, Goes, Ends, Send, SendIntoVoid, SendFails, Receive,
         ReceiveError, TimerFires, Cleanup
<1>2. CallInv(c)
  BY DEF IInv
<1>3. Carried(c)' => Carried(c) /\ handler'.resp = handler.resp
  BY <1>1 DEF Carried
<1> QED BY <1>1, <1>2, <1>3, Frame

\* A call that moves on past its wait keeps what was said of its message.
LEMMA OwnCall ==
  ASSUME IInv, NEW c \in Calls, CallStep(c)
  PROVE  CallInv(c)'
<1>0. Types /\ CallInv(c)
  BY DEF IInv
<1>1. CASE Send(c)
  <2>1. ~Asked(c) /\ Asked(c)' /\ result[c] = "none"
    BY <1>0, <1>1 DEF Types, CallInv, ResultInv, Asked, Send, Goes
  <2>2. /\ applied[c] = 0 /\ ~Carried(c) /\ respCh[c] = {}
        /\ \A r \in responses : r.call # c
    BY <1>0, <2>1 DEF CallInv, ResultInv, ResponseInv, CarriedInv, ChannelInv
  <2>3. ~Carried(c)'
    BY <1>1, <2>2 DEF Carried, Send
  <2> QED BY <1>1, <2>1, <2>2, <2>3 DEF CallInv, RequestInv, ResponseInv, CarriedInv,
            ChannelInv, ResultInv, Send
<1>2. CASE SendIntoVoid(c)
  <2>1. ~Asked(c) /\ Asked(c)' /\ result[c] = "none"
    BY <1>0, <1>2 DEF Types, CallInv, ResultInv, Asked, SendIntoVoid, Goes
  <2>2. /\ applied[c] = 0 /\ ~Carried(c) /\ respCh[c] = {} /\ c \notin requests
        /\ \A r \in responses : r.call # c
    BY <1>0, <2>1 DEF CallInv, RequestInv, ResultInv, ResponseInv, CarriedInv, ChannelInv
  <2>3. ~Carried(c)'
    BY <1>2, <2>2 DEF Carried, SendIntoVoid
  <2> QED BY <1>2, <2>1, <2>2, <2>3 DEF CallInv, RequestInv, ResponseInv, CarriedInv,
            ChannelInv, ResultInv, SendIntoVoid
<1>3. CASE SendFails(c)
  <2>1. ~Asked(c) /\ ~Asked(c)' /\ result'[c] = "unsent" /\ pc'[c] = "cleanup"
    BY <1>0, <1>3 DEF Types, Asked, SendFails, Goes, Ends
  <2>2. /\ applied[c] = 0 /\ ~Carried(c) /\ respCh[c] = {} /\ c \notin requests
        /\ \A r \in responses : r.call # c
    BY <1>0, <2>1 DEF CallInv, RequestInv, ResultInv, ResponseInv, CarriedInv, ChannelInv
  <2>3. ~Carried(c)'
    BY <1>3, <2>2 DEF Carried, SendFails
  <2> QED BY <1>3, <2>1, <2>2, <2>3 DEF CallInv, RequestInv, ResponseInv, CarriedInv,
            ChannelInv, ResultInv, SendFails
\* The other steps leave the wait for good.
<1>4. ASSUME pc[c] \in {"wait", "cleanup"}, pc'[c] \in {"cleanup", "returned"},
             result'[c] = "ok" => applied[c] = 1,
             result'[c] = "unsent" => result[c] = "unsent",
             result[c] = "unsent" => result'[c] = "unsent",
             respCh'[c] \subseteq respCh[c],
             UNCHANGED <<req, requests, responses, handler, applied, seen>>
      PROVE  CallInv(c)'
  <2>1. Asked(c)' <=> Asked(c)
    BY <1>4 DEF Asked
  <2>2. \A a : Good(c, a) => Good(c, a)'
    BY <1>4 DEF Good
  <2>3. Carried(c)' <=> Carried(c)
    BY <1>4 DEF Carried
  <2>4. RequestInv(c)'
    BY <1>0, <1>4, <2>1, <2>3 DEF CallInv, RequestInv
  <2>5. ResponseInv(c)'
    BY <1>0, <1>4, <2>1, <2>2, <2>3 DEF CallInv, ResponseInv
  <2>6. CarriedInv(c)'
    BY <1>0, <1>4, <2>1, <2>2, <2>3 DEF CallInv, CarriedInv
  <2>7. ChannelInv(c)'
    BY <1>0, <1>4, <2>1, <2>2 DEF CallInv, ChannelInv
  <2>8. ResultInv(c)'
    BY <1>0, <1>4, <2>1 DEF CallInv, ResultInv
  <2> QED BY <2>4, <2>5, <2>6, <2>7, <2>8 DEF CallInv
<1>5. pc[c] = "wait" => result[c] = "none"
  BY <1>0 DEF CallInv, ResultInv
<1>6. CASE Receive(c)
  <2>1. PICK a \in respCh[c] :
           /\ Goes(c, "wait", "cleanup")
           /\ respCh' = [respCh EXCEPT ![c] = {}]
           /\ Ends(c, IF a.ok THEN "ok" ELSE "error")
           /\ UNCHANGED <<req, pending, errCh, link, requests, responses, handler, db,
                          applied, seen>>
    BY <1>6 DEF Receive
  <2>2. a.ok => applied[c] = 1
    BY <1>0 DEF CallInv, ChannelInv, Good
  <2>3. result'[c] = IF a.ok THEN "ok" ELSE "error"
    BY <1>0, <2>1 DEF Types, Ends
  <2>4. pc[c] = "wait" /\ pc'[c] = "cleanup" /\ respCh'[c] = {}
    BY <1>0, <2>1 DEF Types, Goes
  <2> QED BY <1>4, <1>5, <2>1, <2>2, <2>3, <2>4
<1>7. CASE ReceiveError(c)
  BY <1>0, <1>4, <1>5, <1>7 DEF Types, ReceiveError, Goes, Ends
<1>8. CASE TimerFires(c)
  BY <1>0, <1>4, <1>5, <1>8 DEF Types, TimerFires, Goes, Ends
<1>9. CASE Cleanup(c)
  <2>1. result[c] = "ok" => applied[c] = 1
    BY <1>0 DEF CallInv, ResultInv
  <2> QED BY <1>0, <1>4, <1>9, <2>1 DEF Types, Cleanup, Goes
<1> QED BY <1>1, <1>2, <1>3, <1>6, <1>7, <1>8, <1>9 DEF CallStep

\* A new call has no message yet.
LEMMA StoreKeeps ==
  ASSUME IInv, NEW d \in Calls, NEW o \in Operations, Store(d, o), NEW c \in Calls
  PROVE  CallInv(c)'
<1>0. Types /\ CallInv(c)
  BY DEF IInv
<1>1. Carried(c)' <=> Carried(c)
  BY DEF Carried, Store
<1>2. CASE c # d
  <2>1. /\ pc'[c] = pc[c] /\ req'[c] = req[c] /\ seen'[c] = seen[c]
    BY <1>0, <1>2 DEF Types, Store, Goes
  <2> QED BY <1>0, <1>1, <2>1, Frame DEF Store
<1>3. CASE c = d
  <2>1. ~Asked(c) /\ ~Asked(c)' /\ pc'[c] = "stored" /\ result[c] = "none"
    BY <1>0, <1>3 DEF Types, CallInv, ResultInv, Asked, Store, Goes
  <2>2. /\ applied[c] = 0 /\ ~Carried(c) /\ respCh[c] = {} /\ c \notin requests
        /\ \A r \in responses : r.call # c
    BY <1>0, <2>1 DEF CallInv, RequestInv, ResultInv, ResponseInv, CarriedInv, ChannelInv
  <2> QED BY <1>1, <2>1, <2>2 DEF CallInv, RequestInv, ResponseInv, CarriedInv, ChannelInv,
            ResultInv, Store
<1> QED BY <1>2, <1>3

\* Showing a new value to the Gets only adds to what they may return.
LEMMA ShowsMore ==
  ASSUME Types, NEW m, Shows(m), NEW c \in Calls
  PROVE  seen[c] \subseteq seen'[c]
  BY DEF Types, Shows

\* The answer takes the place of the request.
LEMMA ServeKeeps ==
  ASSUME IInv, NEW d \in Calls, NEW a \in Answers, d \in requests,
         requests' = requests \ {d}, Answer(d, a), Shows(db'),
         applied' = [applied EXCEPT ![d] = applied'[d]],
         a.ok => /\ applied'[d] = 1
                 /\ pc'[d] = "wait" /\ req'[d].op = "get" => a.val \in seen'[d],
         UNCHANGED <<pc, req, result, pending, respCh, errCh, link, handler>>,
         NEW c \in Calls
  PROVE  CallInv(c)'
<1>0. Types /\ CallInv(c)
  BY DEF IInv
<1>1. Carried(c)' <=> Carried(c)
  BY DEF Carried
<1>2. seen[c] \subseteq seen'[c]
  BY <1>0, ShowsMore
<1>3. responses' \subseteq responses \cup {[call |-> d, answer |-> a]}
  BY DEF Answer
<1>4. CASE c # d
  <2>1. \A r \in responses' : r.call = c => r \in responses
    BY <1>3, <1>4
  <2>2. applied'[c] = applied[c]
    BY <1>0, <1>4 DEF Types
  <2> QED BY <1>0, <1>1, <1>2, <2>1, <2>2, Frame
<1>5. CASE c = d
  <2>1. /\ Asked(c) /\ ~Carried(c) /\ respCh[c] = {}
        /\ \A r \in responses : r.call # c
    BY <1>0, <1>5 DEF CallInv, RequestInv
  <2>2. Asked(c)'
    BY <2>1 DEF Asked
  <2>3. \A r \in responses' : r.call = c => r = [call |-> d, answer |-> a]
    BY <1>3, <2>1
  <2>4. \A r \in responses' : r.call = c => Good(c, r.answer)'
    BY <1>5, <2>3 DEF Good
  <2>5. result'[c] # "ok"
    BY <1>0, <1>5 DEF CallInv, RequestInv, ResultInv
  <2>6. ResultInv(c)'
    BY <1>0, <2>2, <2>5 DEF CallInv, ResultInv
  <2> QED BY <1>1, <1>5, <2>1, <2>2, <2>3, <2>4, <2>6 DEF CallInv, RequestInv, ResponseInv,
            CarriedInv, ChannelInv
<1> QED BY <1>4, <1>5

LEMMA ServiceKeeps ==
  ASSUME IInv, NEW d \in Calls, Serve(d) \/ ServeFails(d), NEW c \in Calls
  PROVE  CallInv(c)'
<1>0. Types /\ CallInv(d)
  BY DEF IInv
<1>1. CASE Serve(d)
  <2> DEFINE a == [ok |-> TRUE, val |-> IF req[d].op = "get" THEN db[req[d].key] ELSE None]
  <2>1. Asked(d) /\ applied[d] = 0
    BY <1>0, <1>1 DEF CallInv, RequestInv, Serve
  <2>2. req[d] \in Operations
    BY <1>0, <2>1 DEF Types, Asked
  <2>3. a \in Answers
    BY <1>0, <2>2 DEF Types, Operations, Answers
  <2>4. applied'[d] = 1
    BY <1>0, <1>1, <2>1 DEF Types, Serve
  <2>5. pc'[d] = "wait" /\ req'[d].op = "get" => a.val \in seen'[d]
    BY <1>1 DEF Serve, Shows
  <2>6. applied' = [applied EXCEPT ![d] = applied'[d]]
    BY <1>0, <1>1 DEF Types, Serve
  <2>7. /\ d \in requests /\ requests' = requests \ {d} /\ Answer(d, a) /\ Shows(db')
        /\ UNCHANGED <<pc, req, result, pending, respCh, errCh, link, handler>>
    BY <1>1 DEF Serve
  <2> HIDE DEF a
  <2> QED BY <2>3, <2>4, <2>5, <2>6, <2>7, ServeKeeps
<1>2. CASE ServeFails(d)
  <2>1. NoAnswer \in Answers /\ ~NoAnswer.ok
    BY DEF NoAnswer, Answers
  <2>2. applied' = [applied EXCEPT ![d] = applied'[d]]
    BY <1>0, <1>2 DEF Types, ServeFails
  <2> QED BY <1>2, <2>1, <2>2, ServeKeeps DEF ServeFails
<1> QED BY <1>1, <1>2

\* handleResponses carries the message from the connection to the channel.
LEMMA HandlerKeeps ==
  ASSUME IInv, HandlerStep, NEW c \in Calls
  PROVE  CallInv(c)'
<1>0. Types /\ CallInv(c)
  BY DEF IInv
<1>1. ASSUME NEW r \in responses, Take(r) PROVE CallInv(c)'
  <2>1. ~Carried(c)
    BY <1>1 DEF Take, Carried
  <2>2. CASE r.call = c
    <3>1. /\ Asked(c) /\ respCh[c] = {} /\ Good(c, r.answer) /\ c \notin requests
          /\ \A q \in responses : q.call = c => q = r
      BY <1>0, <1>1, <2>2 DEF CallInv, RequestInv, ResponseInv
    <3>2. Asked(c)' /\ Good(c, r.answer)'
      BY <1>1, <3>1 DEF Take, Asked, Good
    <3>3. \A q \in responses' : q.call # c
      BY <1>1, <3>1 DEF Take
    <3>4. CarriedInv(c)'
      BY <1>1, <2>1, <3>1, <3>2 DEF Take, Carried, CarriedInv
    <3>5. RequestInv(c)' /\ ResponseInv(c)' /\ ChannelInv(c)'
      BY <1>1, <3>1, <3>3 DEF Take, RequestInv, ResponseInv, ChannelInv
    <3>6. ResultInv(c)'
      BY <1>0, <1>1, <3>2 DEF Take, CallInv, ResultInv
    <3> QED BY <3>4, <3>5, <3>6 DEF CallInv
  <2>3. CASE r.call # c
    <3>1. ~Carried(c)'
      BY <1>1, <2>1, <2>3 DEF Take, Carried
    <3> QED BY <1>0, <1>1, <2>3, <3>1, Frame DEF Take
  <2> QED BY <2>2, <2>3
<1>2. CASE Deliver
  <2>1. ~Carried(c)'
    BY <1>2 DEF Deliver, Carried
  <2>2. CASE handler.resp.call = c
    <3>1. Carried(c)
      BY <1>2, <2>2 DEF Deliver, Carried
    <3>2. /\ Asked(c) /\ Good(c, handler.resp.answer) /\ c \notin requests
          /\ \A r \in responses : r.call # c
      BY <1>0, <3>1 DEF CallInv, RequestInv, ResponseInv, CarriedInv
    <3>3. Asked(c)' /\ \A a : Good(c, a) => Good(c, a)'
      BY <1>2, <3>2 DEF Deliver, Asked, Good
    <3>4. respCh'[c] = {handler.resp.answer}
      BY <1>0, <1>2, <2>2 DEF Deliver, Types
    <3>5. ChannelInv(c)'
      <4>1. \A a \in respCh'[c] : Good(c, a)
        BY <3>2, <3>4
      <4> QED BY <3>3, <3>4, <4>1 DEF ChannelInv
    <3>6. RequestInv(c)' /\ ResponseInv(c)' /\ CarriedInv(c)'
      BY <1>2, <2>1, <3>2 DEF Deliver, RequestInv, ResponseInv, CarriedInv
    <3>7. ResultInv(c)'
      BY <1>0, <1>2, <3>3 DEF Deliver, CallInv, ResultInv
    <3> QED BY <3>5, <3>6, <3>7 DEF CallInv
  <2>3. CASE handler.resp.call # c
    <3>1. respCh'[c] = respCh[c]
      BY <1>0, <1>2, <2>3 DEF Deliver, Types
    <3> QED BY <1>0, <1>2, <2>1, <3>1, Frame DEF Deliver
  <2> QED BY <2>2, <2>3
<1>3. CASE TakeError
  <2>1. ~Carried(c)'
    BY <1>3 DEF TakeError, Carried
  <2> QED BY <1>0, <1>3, <2>1, Frame DEF TakeError
<1>4. CASE TakeClosed
  <2>1. ~Carried(c)'
    BY <1>4 DEF TakeClosed, Carried
  <2> QED BY <1>0, <1>4, <2>1, Frame DEF TakeClosed
<1>5. CASE NotifyEnds
  <2>1. ~Carried(c)'
    BY <1>5 DEF NotifyEnds, Carried
  <2> QED BY <1>0, <1>5, <2>1, Frame DEF NotifyEnds
<1>6. ASSUME NEW d \in Calls, Notify(d) PROVE CallInv(c)'
  <2>1. ~Carried(c)'
    <3>1. handler \in [pc : {"notify"}, todo : SUBSET Calls]
      BY <1>0, <1>6 DEF Types, Notify
    <3> QED BY <1>6, <3>1 DEF Notify, Carried
  <2> QED BY <1>0, <1>6, <2>1, Frame DEF Notify
<1> QED BY <1>1, <1>2, <1>3, <1>4, <1>5, <1>6 DEF HandlerStep

LEMMA InitIInv == Init => IInv
<1> SUFFICES ASSUME Init PROVE IInv
  OBVIOUS
<1>1. ASSUME NEW c \in Calls PROVE CallInv(c)
  BY <1>1 DEF Init, CallInv, RequestInv, ResponseInv, CarriedInv, ChannelInv, ResultInv,
              Asked, Carried
<1> QED BY <1>1, InitTypes DEF IInv

LEMMA IInvStep == IInv /\ [Next]_vars => IInv'
<1> SUFFICES ASSUME IInv, [Next]_vars, NEW c \in Calls PROVE CallInv(c)'
  BY TypesStep DEF IInv
<1>0. CallInv(c)
  BY DEF IInv
<1>1. ASSUME NEW d \in Calls, CallStep(d) PROVE CallInv(c)'
  BY <1>1, OwnCall, OtherCall
<1>2. CASE Break
  <2>1. Carried(c)' <=> Carried(c)
    BY <1>2 DEF Break, Carried
  <2> QED BY <1>0, <1>2, <2>1, Frame DEF Break
<1>3. CASE UNCHANGED vars
  <2>1. Carried(c)' <=> Carried(c)
    BY <1>3 DEF vars, Carried
  <2> QED BY <1>0, <1>3, <2>1, Frame DEF vars
<1> QED BY <1>1, <1>2, <1>3, StoreKeeps, ServiceKeeps, HandlerKeeps DEF Next

LEMMA Invariance == Spec => []IInv
  BY InitIInv, IInvStep, PTL DEF Spec

-----------------------------------------------------------------------------
(* The theorems.                                                           *)

\* At most one answer is ever in the channel of a call.
LEMMA IInvTypeOK == IInv => TypeOK
<1> SUFFICES ASSUME IInv PROVE TypeOK
  OBVIOUS
<1>1. ASSUME NEW c \in Calls PROVE Cardinality(respCh[c]) <= 1
  <2>1. CallInv(c)
    BY <1>1 DEF IInv
  <2>2. CASE respCh[c] = {}
    BY <2>2, FS_EmptySet
  <2>3. CASE respCh[c] # {}
    <3>1. PICK a : a \in respCh[c]
      BY <2>3
    <3>2. respCh[c] = {a}
      BY <2>1, <3>1 DEF CallInv, ChannelInv
    <3> QED BY <3>2, FS_Singleton
  <2> QED BY <2>2, <2>3
<1>2. handler.pc \in {"select", "deliver", "notify", "exited"}
  BY DEF IInv, Types
<1> QED BY <1>1, <1>2 DEF IInv, Types, TypeOK, Responses

\* Every step of a call, the handler and the service is type correct; a call is
\* never carried out twice.
THEOREM TypeCorrect == Spec => []TypeOK
  BY Invariance, IInvTypeOK, PTL

\* handleResponses is never held up by a call that has timed out or has its answer:
\* the send into its channel, which has room for one, always finds it empty.
THEOREM HandlerIsFree == Spec => []HandlerNeverBlocks
<1>1. IInv => HandlerNeverBlocks
  <2> SUFFICES ASSUME IInv, handler.pc = "deliver" PROVE respCh[handler.resp.call] = {}
    BY DEF HandlerNeverBlocks
  <2>1. handler.resp \in Responses
    BY DEF IInv, Types
  <2>2. handler.resp.call \in Calls
    BY <2>1 DEF Responses
  <2> QED BY <2>2 DEF IInv, CallInv, CarriedInv, Carried
<1> QED BY <1>1, Invariance, PTL

\* A call that reports success was carried out exactly once, and one that reports
\* that nothing was sent never, in whatever order the pool serves and answers.
THEOREM SuccessIsApplied == Spec => []SuccessMeansApplied
<1>1. IInv => SuccessMeansApplied
  BY DEF IInv, CallInv, ResultInv, Asked, SuccessMeansApplied
<1> QED BY <1>1, Invariance, PTL

\* A Get returns a value that its key had during the call.
THEOREM GetFresh == Spec => []GetIsFresh
<1>1. IInv => GetIsFresh
  BY DEF IInv, CallInv, ChannelInv, Good, GetIsFresh
<1> QED BY <1>1, Invariance, PTL
=============================================================================
