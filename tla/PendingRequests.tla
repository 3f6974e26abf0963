--------------------------- MODULE PendingRequests ---------------------------
(***************************************************************************)
(* Requests with an id and the answers to them:                            *)
(* src/pkg/client-tcp/client.go (sendRpcRequest), client_chain.go          *)
(* (sendChainRequest, ChainRegisterAccountWait) and the handlers of        *)
(* src/pkg/client-tcp/network/handler.go that dispatch answers by id.      *)
(*                                                                         *)
(* A call stores a channel of its own under a fresh id, sends, and waits   *)
(* for the channel or for its timer.  The workers of the socket server     *)
(* look the id of an answer up, and only then send into the channel: a     *)
(* step of its own, which blocks the worker while the channel is full.     *)
(* The parent node may answer late, twice, or not at all; the workers      *)
(* finish answers in any order.                                            *)
(***************************************************************************)
EXTENDS Integers, Sequences

CONSTANTS
    Calls,       \* calls, each with the id it drew
    Workers,     \* worker goroutines of the socket server
    NoCall,      \* the id "" of a message that answers no call
    MaxAnswers   \* bound on the messages the parent sends per call, and without id

ASSUME PendingAssumption == NoCall \notin Calls /\ MaxAnswers \in Nat

VARIABLES
    kind,       \* which function the call is in
    pc,         \* where the call is
    pending,    \* ids in pendingRpcRequests (rpc) and pendingChainRequests (others)
    respCh,     \* the channel of each call
    outcome,    \* how the call returned
    worker,     \* what each worker is about to send, and where
    sharedCh,   \* the channel for messages that no id claims, capacity 1
    answers,    \* messages sent so far under each id
    acked,      \* registrations the parent has acknowledged
    derailed    \* registrations that met a command they do not know

vars == <<kind, pc, pending, respCh, outcome, worker, sharedCh, answers, acked, derailed>>

Kinds == {"rpc", "chain", "register"}

\* Commands by the way they are handled: handleChainResponse for "Answer",
\* "Result", "Other" and both acks; "Fallback" stands for AccountState,
\* TransactionError and Receipt.
Commands == {"RpcResponse", "Answer", "Fallback", "AckPending", "AckFinal", "Result", "Other"}

Acks == {"AckPending", "AckFinal"}

\* Mutant of Capacity: no room for the result behind the ack.
CapacityOne(c) == 1

\* make(chan, 1), make(chan, 2) in ChainRegisterAccountWait.
Capacity(c) == IF kind[c] = "register" THEN 2 ELSE 1

Task == [pc : {"idle", "deliver", "fallback"}, call : Calls \cup {NoCall}, cmd : Commands]

TypeOK ==
    /\ kind \in [Calls -> Kinds]
    /\ pc \in [Calls -> {"idle", "stored", "wait", "cleanup", "returned"}]
    /\ pending \in SUBSET Calls
    /\ respCh \in [Calls -> Seq(Commands)]
    /\ \A c \in Calls : Len(respCh[c]) <= Capacity(c)
    /\ outcome \in [Calls -> {"none", "reply", "timeout", "error"}]
    /\ worker \in [Workers -> Task]
    /\ sharedCh \in Seq(Calls \cup {NoCall}) /\ Len(sharedCh) <= 1
    /\ answers \in [Calls \cup {NoCall} -> 0..MaxAnswers]
    /\ acked \in SUBSET Calls
    /\ derailed \in SUBSET Calls

Idle == [pc |-> "idle", call |-> NoCall, cmd |-> "Other"]

Init ==
    /\ kind \in [Calls -> Kinds]
    /\ pc = [c \in Calls |-> "idle"]
    /\ pending = {}
    /\ respCh = [c \in Calls |-> <<>>]
    /\ outcome = [c \in Calls |-> "none"]
    /\ worker = [w \in Workers |-> Idle]
    /\ sharedCh = <<>>
    /\ answers = [c \in Calls \cup {NoCall} |-> 0]
    /\ acked = {} /\ derailed = {}

-----------------------------------------------------------------------------
(* The calls.                                                              *)

Goes(c, from, to) == pc[c] = from /\ pc' = [pc EXCEPT ![c] = to]

Ends(c, how) == outcome' = [outcome EXCEPT ![c] = how]

\* No parent connection, or it is down.
Unavailable(c) ==
    /\ Goes(c, "idle", "returned") /\ Ends(c, "error")
    /\ UNCHANGED <<kind, pending, respCh, worker, sharedCh, answers, acked, derailed>>

\* The channel is stored before the request is sent.
Store(c) ==
    /\ Goes(c, "idle", "stored")
    /\ pending' = pending \cup {c}
    /\ UNCHANGED <<kind, respCh, outcome, worker, sharedCh, answers, acked, derailed>>

Send(c) ==
    /\ Goes(c, "stored", "wait")
    /\ UNCHANGED <<kind, pending, respCh, outcome, worker, sharedCh, answers, acked, derailed>>

SendFails(c) ==
    /\ Goes(c, "stored", "cleanup") /\ Ends(c, "error")
    /\ UNCHANGED <<kind, pending, respCh, worker, sharedCh, answers, acked, derailed>>

\* sendRpcRequest and sendChainRequest return the first message.  It came with
\* LoadAndDelete, so they delete nothing.
Receive(c) ==
    /\ kind[c] # "register" /\ respCh[c] # <<>>
    /\ Goes(c, "wait", "returned") /\ Ends(c, "reply")
    /\ respCh' = [respCh EXCEPT ![c] = Tail(@)]
    /\ UNCHANGED <<kind, pending, worker, sharedCh, answers, acked, derailed>>

\* ChainRegisterAccountWait goes on after a pending ack or an unknown command.
ReceiveRegister(c) ==
    /\ kind[c] = "register" /\ respCh[c] # <<>> /\ pc[c] = "wait"
    /\ respCh' = [respCh EXCEPT ![c] = Tail(@)]
    /\ \/ /\ Head(respCh[c]) \in {"AckFinal", "Result"}
          /\ Goes(c, "wait", "cleanup") /\ Ends(c, "reply")
          /\ UNCHANGED derailed
       \/ /\ Head(respCh[c]) \notin {"AckFinal", "Result"}
          /\ derailed' = IF Head(respCh[c]) = "AckPending" THEN derailed ELSE derailed \cup {c}
          /\ UNCHANGED <<pc, outcome>>
    /\ UNCHANGED <<kind, pending, worker, sharedCh, answers, acked>>

\* Mutant of TimerFires: the timer counts only while no answer was dispatched.
TimerNeedsEntry(c) ==
    /\ c \in pending
    /\ Goes(c, "wait", "cleanup") /\ Ends(c, "timeout")
    /\ UNCHANGED <<kind, pending, respCh, worker, sharedCh, answers, acked, derailed>>

\* The timer may win over a message that is already in the channel.
TimerFires(c) ==
    /\ Goes(c, "wait", "cleanup") /\ Ends(c, "timeout")
    /\ UNCHANGED <<kind, pending, respCh, worker, sharedCh, answers, acked, derailed>>

\* Delete(id) on the way out, deferred in ChainRegisterAccountWait.
Cleanup(c) ==
    /\ Goes(c, "cleanup", "returned")
    /\ pending' = pending \ {c}
    /\ UNCHANGED <<kind, respCh, outcome, worker, sharedCh, answers, acked, derailed>>

-----------------------------------------------------------------------------
(* The workers.                                                            *)

\* What the parent answers to a call: it acknowledges a registration once.
MayAnswer(c, cmd) ==
    /\ pc[c] \in {"wait", "cleanup", "returned"} /\ outcome[c] # "error"
    /\ answers[c] < MaxAnswers
    /\ \/ kind[c] = "rpc" /\ cmd = "RpcResponse"
       \/ kind[c] = "chain" /\ cmd \in {"Answer", "Fallback"}
       \/ kind[c] = "register" /\ cmd \in {"Result", "Other"}
       \/ kind[c] = "register" /\ cmd \in Acks /\ c \notin acked

\* An idle worker takes a message with this id off the central queue.
Takes(w, c, cmd) ==
    /\ worker[w].pc = "idle"
    /\ answers' = [answers EXCEPT ![c] = @ + 1]
    /\ acked' = IF cmd \in Acks THEN acked \cup {c} ELSE acked
    /\ UNCHANGED <<kind, pc, respCh, outcome, sharedCh, derailed>>

\* Mutant of Dispatch: an ack uses up the entry.
DispatchAckConsumes(w, c, cmd) ==
    /\ MayAnswer(c, cmd) /\ Takes(w, c, cmd)
    /\ c \in pending
    /\ pending' = pending \ {c}
    /\ worker' = [worker EXCEPT ![w] = [pc |-> "deliver", call |-> c, cmd |-> cmd]]

\* LoadAndDelete, but Load for an ack, which the result is to follow.
Dispatch(w, c, cmd) ==
    /\ MayAnswer(c, cmd) /\ Takes(w, c, cmd)
    /\ c \in pending
    /\ pending' = IF cmd \in Acks THEN pending ELSE pending \ {c}
    /\ worker' = [worker EXCEPT ![w] = [pc |-> "deliver", call |-> c, cmd |-> cmd]]

\* Nobody waits under the id: the message is dropped, but account states,
\* transaction errors and receipts go to the channel that all calls share.
DispatchMiss(w, c, cmd) ==
    /\ MayAnswer(c, cmd) /\ Takes(w, c, cmd)
    /\ c \notin pending
    /\ worker' = IF cmd = "Fallback"
                 THEN [worker EXCEPT ![w] = [pc |-> "fallback", call |-> c, cmd |-> cmd]]
                 ELSE worker
    /\ UNCHANGED pending

DispatchNoId(w) ==
    /\ answers[NoCall] < MaxAnswers /\ Takes(w, NoCall, "Fallback")
    /\ worker' = [worker EXCEPT ![w] = [pc |-> "fallback", call |-> NoCall, cmd |-> "Fallback"]]
    /\ UNCHANGED pending

\* ch <- msg: blocks while the channel is full.
Deliver(w) ==
    LET c == worker[w].call IN
    /\ worker[w].pc = "deliver" /\ Len(respCh[c]) < Capacity(c)
    /\ respCh' = [respCh EXCEPT ![c] = Append(@, worker[w].cmd)]
    /\ worker' = [worker EXCEPT ![w] = Idle]
    /\ UNCHANGED <<kind, pc, pending, outcome, sharedCh, answers, acked, derailed>>

DeliverShared(w) ==
    /\ worker[w].pc = "fallback" /\ Len(sharedCh) < 1
    /\ sharedCh' = Append(sharedCh, worker[w].call)
    /\ worker' = [worker EXCEPT ![w] = Idle]
    /\ UNCHANGED <<kind, pc, pending, respCh, outcome, answers, acked, derailed>>

\* A reader of the shared channel, such as waitReceipt.
ReadShared ==
    /\ sharedCh # <<>>
    /\ sharedCh' = Tail(sharedCh)
    /\ UNCHANGED <<kind, pc, pending, respCh, outcome, worker, answers, acked, derailed>>

-----------------------------------------------------------------------------
CallStep(c) ==
    \/ Unavailable(c) \/ Store(c) \/ Send(c) \/ SendFails(c)
    \/ Receive(c) \/ ReceiveRegister(c) \/ TimerFires(c) \/ Cleanup(c)

Next ==
    \/ \E c \in Calls : CallStep(c)
    \/ \E w \in Workers, c \in Calls, cmd \in Commands : Dispatch(w, c, cmd)
    \/ \E w \in Workers, c \in Calls, cmd \in Commands : DispatchMiss(w, c, cmd)
    \/ \E w \in Workers : DispatchNoId(w) \/ Deliver(w) \/ DeliverShared(w)
    \/ ReadShared

Spec == Init /\ [][Next]_vars

\* Calls and workers are scheduled and timers fire.  Nothing is assumed of the
\* parent, nor of the readers of the shared channel.
FairSpec ==
    /\ Spec
    /\ \A c \in Calls : WF_vars(Send(c) \/ SendFails(c) \/ TimerFires(c) \/ Cleanup(c))
    /\ \A w \in Workers : WF_vars(Deliver(w))

-----------------------------------------------------------------------------
(* Properties                                                              *)

\* A worker that looked up a call never blocks on the call's channel, although
\* the caller may be gone by then and answers may be duplicated: the channel
\* has room for everything that can be on its way to it.
WorkersNeverBlock ==
    \A w \in Workers : worker[w].pc = "deliver" =>
        Len(respCh[worker[w].call]) < Capacity(worker[w].call)

\* A call that has returned left no entry behind in the pending maps, on any of
\* the ways it can return and whatever workers do meanwhile.
NoPendingLeak == \A c \in Calls : pc[c] = "returned" => c \notin pending

\* A call that waits can still be reached: its entry is there, or a message is
\* in its channel or in the hand of a worker.  The one exception is a
\* registration whose entry was used up by a command it does not know.
WaitingIsReachable ==
    \A c \in Calls : pc[c] = "wait" =>
        \/ c \in pending
        \/ respCh[c] # <<>>
        \/ \E w \in Workers : worker[w].pc = "deliver" /\ worker[w].call = c
        \/ c \in derailed

\* Every call that began returns: no answer, late answers and duplicated ones
\* cannot keep it.
CallsReturn == \A c \in Calls : (pc[c] = "stored") ~> (pc[c] = "returned")
=============================================================================
