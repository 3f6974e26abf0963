---------------------------- MODULE SocketServer ----------------------------
(***************************************************************************)
(* The socket server of src/pkg/network/server.go: the handlers of the     *)
(* connections, the central request channel, the worker pool, Listen and   *)
(* Stop.                                                                   *)
(*                                                                         *)
(* Requests are objects of requestPool.  The reader of a connection takes  *)
(* one from the pool, fills it in and hands it on; whoever is last puts it *)
(* back.  A put too many would give one object to two readers.  free holds *)
(* the objects in the pool and those not allocated yet.                    *)
(*                                                                         *)
(* A Go select takes any case that is ready: a worker that is told to stop *)
(* may still take a request, and a handler may still pass one on.  Sending *)
(* on the channel that Stop has closed is a panic, which ends the process. *)
(***************************************************************************)
EXTENDS Integers, Sequences, FiniteSets

CONSTANTS
    Conns,      \* connections
    Workers,    \* HandlerWorkerPoolSize goroutines
    Objects,    \* Request objects
    Nothing,    \* no request
    ConnCap,    \* capacity of a connection's request channel
    QueueCap    \* RequestChanSize: capacity of the central channel

ASSUME ServerAssumption ==
    Nothing \notin Objects /\ ConnCap \in Nat \ {0} /\ QueueCap \in Nat \ {0}

VARIABLES
    free,         \* requests in the pool
    link,         \* state of each connection
    inbox,        \* request channel of each connection
    handler,      \* HandleConnection of each connection
    hand,         \* the request it holds
    queue,        \* s.requestChan
    queueClosed,
    worker,       \* state of each worker
    work,         \* the request it handles
    listen,       \* where Listen is
    stop,         \* where Stop is
    panicked

serverVars ==
    <<free, link, inbox, handler, hand, queue, queueClosed, worker, work, listen,
      stop, panicked>>

ServerTypeOK ==
    /\ free \in SUBSET Objects
    /\ link \in [Conns -> {"unused", "up", "broken", "closed"}]
    /\ inbox \in [Conns -> Seq(Objects)] /\ \A c \in Conns : Len(inbox[c]) <= ConnCap
    /\ handler \in [Conns -> {"none", "select", "forward", "left"}]
    /\ hand \in [Conns -> Objects \cup {Nothing}]
    /\ queue \in Seq(Objects) /\ Len(queue) <= QueueCap
    /\ queueClosed \in BOOLEAN
    /\ worker \in [Workers -> {"none", "select", "handle", "exited"}]
    /\ work \in [Workers -> Objects \cup {Nothing}]
    /\ listen \in {"no", "started", "check", "accept", "returned"}
    /\ stop \in {"no", "cancelled", "wait", "done"}
    /\ panicked \in BOOLEAN

ServerInit ==
    /\ free = Objects
    /\ link = [c \in Conns |-> "unused"]
    /\ inbox = [c \in Conns |-> <<>>]
    /\ handler = [c \in Conns |-> "none"]
    /\ hand = [c \in Conns |-> Nothing]
    /\ queue = <<>> /\ queueClosed = FALSE
    /\ worker = [w \in Workers |-> "none"]
    /\ work = [w \in Workers |-> Nothing]
    /\ listen = "no" /\ stop = "no"
    /\ panicked = FALSE

\* s.ctx.Done() is ready.
CtxDone == stop # "no"

-----------------------------------------------------------------------------
(* Connections and their handlers.                                         *)

\* HandleConnection is started for a connection that the program has dialled.
Attach(c) ==
    /\ ~panicked /\ link[c] = "unused"
    /\ link' = [link EXCEPT ![c] = "up"]
    /\ handler' = [handler EXCEPT ![c] = "select"]
    /\ UNCHANGED <<free, inbox, hand, queue, queueClosed, worker, work, listen, stop,
                   panicked>>

\* readLoop: a request that finds the channel full is put back after a while.
Read(c, o) ==
    /\ ~panicked /\ link[c] = "up" /\ o \in free
    /\ Len(inbox[c]) < ConnCap
    /\ free' = free \ {o}
    /\ inbox' = [inbox EXCEPT ![c] = Append(@, o)]
    /\ UNCHANGED <<link, handler, hand, queue, queueClosed, worker, work, listen, stop,
                   panicked>>

Break(c) ==
    /\ ~panicked /\ link[c] = "up"
    /\ link' = [link EXCEPT ![c] = "broken"]
    /\ UNCHANGED <<free, inbox, handler, hand, queue, queueClosed, worker, work, listen,
                   stop, panicked>>

Take(c) ==
    /\ ~panicked /\ handler[c] = "select" /\ inbox[c] # <<>>
    /\ hand' = [hand EXCEPT ![c] = Head(inbox[c])]
    /\ inbox' = [inbox EXCEPT ![c] = Tail(@)]
    /\ handler' = [handler EXCEPT ![c] = "forward"]
    /\ UNCHANGED <<free, link, queue, queueClosed, worker, work, listen, stop, panicked>>

\* The handler goes back to its select with empty hands.
HandsOn(c) ==
    /\ ~panicked /\ handler[c] = "forward"
    /\ hand' = [hand EXCEPT ![c] = Nothing]
    /\ handler' = [handler EXCEPT ![c] = "select"]
    /\ UNCHANGED <<link, inbox, queueClosed, worker, work, listen, stop, panicked>>

\* Mutant of Forward: a put too many.
ForwardAndPut(c) ==
    /\ HandsOn(c) /\ ~queueClosed /\ Len(queue) < QueueCap
    /\ queue' = Append(queue, hand[c])
    /\ free' = free \cup {hand[c]}

Forward(c) ==
    /\ HandsOn(c) /\ ~queueClosed /\ Len(queue) < QueueCap
    /\ queue' = Append(queue, hand[c])
    /\ UNCHANGED free

\* The central channel is full: put the request back, answer ServerBusy.
Refuse(c) ==
    /\ HandsOn(c) /\ ~queueClosed /\ Len(queue) >= QueueCap
    /\ free' = free \cup {hand[c]}
    /\ UNCHANGED queue

ForwardPanics(c) ==
    /\ ~panicked /\ handler[c] = "forward" /\ queueClosed
    /\ panicked' = TRUE
    /\ UNCHANGED <<free, link, inbox, handler, hand, queue, queueClosed, worker, work,
                   listen, stop>>

\* Mutant of Leave: the context is not looked at.
LeaveOnlyBroken(c) ==
    /\ ~panicked /\ handler[c] = "select" /\ link[c] = "broken"
    /\ handler' = [handler EXCEPT ![c] = "left"]
    /\ link' = [link EXCEPT ![c] = "closed"]
    /\ inbox' = [inbox EXCEPT ![c] = <<>>]
    /\ free' = free \cup {inbox[c][i] : i \in DOMAIN inbox[c]}
    /\ UNCHANGED <<hand, queue, queueClosed, worker, work, listen, stop, panicked>>

\* ctx.Done(), or the end of the reader; OnDisconnect and Disconnect.  Requests
\* that were not taken are left to the garbage collector.
Leave(c) ==
    /\ ~panicked /\ handler[c] = "select" /\ (CtxDone \/ link[c] = "broken")
    /\ handler' = [handler EXCEPT ![c] = "left"]
    /\ link' = [link EXCEPT ![c] = "closed"]
    /\ inbox' = [inbox EXCEPT ![c] = <<>>]
    /\ free' = free \cup {inbox[c][i] : i \in DOMAIN inbox[c]}
    /\ UNCHANGED <<hand, queue, queueClosed, worker, work, listen, stop, panicked>>

-----------------------------------------------------------------------------
(* The workers.                                                            *)

WorkerTakes(w) ==
    /\ ~panicked /\ worker[w] = "select" /\ queue # <<>>
    /\ worker' = [worker EXCEPT ![w] = "handle"]
    /\ work' = [work EXCEPT ![w] = Head(queue)]
    /\ queue' = Tail(queue)
    /\ UNCHANGED <<free, link, inbox, handler, hand, queueClosed, listen, stop, panicked>>

\* Mutant of WorkerDone: a worker handles one request.
WorkerDoneOnce(w) ==
    /\ ~panicked /\ worker[w] = "handle"
    /\ worker' = [worker EXCEPT ![w] = "exited"]
    /\ work' = [work EXCEPT ![w] = Nothing]
    /\ free' = free \cup {work[w]}
    /\ UNCHANGED <<link, inbox, handler, hand, queue, queueClosed, listen, stop, panicked>>

\* HandleRequest returns, with or without an error; the request is put back.
WorkerDone(w) ==
    /\ ~panicked /\ worker[w] = "handle"
    /\ worker' = [worker EXCEPT ![w] = "select"]
    /\ work' = [work EXCEPT ![w] = Nothing]
    /\ free' = free \cup {work[w]}
    /\ UNCHANGED <<link, inbox, handler, hand, queue, queueClosed, listen, stop, panicked>>

\* ctx.Done(), or the channel is closed and empty.
WorkerExits(w) ==
    /\ ~panicked /\ worker[w] = "select" /\ CtxDone
    /\ worker' = [worker EXCEPT ![w] = "exited"]
    /\ UNCHANGED <<free, link, inbox, handler, hand, queue, queueClosed, work, listen, stop,
                   panicked>>

-----------------------------------------------------------------------------
(* Listen and Stop.                                                        *)

ListenGoes(from, to) == ~panicked /\ listen = from /\ listen' = to

\* startWorkerPool comes first.
ListenStarts ==
    /\ ListenGoes("no", "started")
    /\ worker' = [w \in Workers |-> "select"]
    /\ UNCHANGED <<free, link, inbox, handler, hand, queue, queueClosed, work, stop, panicked>>

\* net.Listen fails, or the loop begins.
ListenOpens ==
    /\ ListenGoes("started", "returned") \/ ListenGoes("started", "check")
    /\ UNCHANGED <<free, link, inbox, handler, hand, queue, queueClosed, worker, work, stop,
                   panicked>>

ListenChecks ==
    /\ ListenGoes("check", IF CtxDone THEN "returned" ELSE "accept")
    /\ UNCHANGED <<free, link, inbox, handler, hand, queue, queueClosed, worker, work, stop,
                   panicked>>

\* Stop may come between the check and the accept.
Accept(c) ==
    /\ ListenGoes("accept", "check") /\ link[c] = "unused"
    /\ link' = [link EXCEPT ![c] = "up"]
    /\ handler' = [handler EXCEPT ![c] = "select"]
    /\ UNCHANGED <<free, inbox, hand, queue, queueClosed, worker, work, stop, panicked>>

\* The deadline of one second passes, or the listener was closed.
AcceptFails ==
    /\ ListenGoes("accept", "check")
    /\ UNCHANGED <<free, link, inbox, handler, hand, queue, queueClosed, worker, work, stop,
                   panicked>>

StopGoes(from, to) ==
    /\ ~panicked /\ stop = from /\ stop' = to
    /\ UNCHANGED <<free, link, inbox, handler, hand, queue, worker, work, listen, panicked>>

StopCancels == StopGoes("no", "cancelled") /\ UNCHANGED queueClosed

StopCloses == StopGoes("cancelled", "wait") /\ queueClosed' = TRUE

\* s.wg.Wait(): workers that were not started yet are not counted.
StopReturns ==
    /\ \A w \in Workers : worker[w] \in {"none", "exited"}
    /\ StopGoes("wait", "done") /\ UNCHANGED queueClosed

-----------------------------------------------------------------------------
HandlerStep(c) == Take(c) \/ Forward(c) \/ Refuse(c) \/ ForwardPanics(c) \/ Leave(c)

WorkerLoop(w) == WorkerTakes(w) \/ WorkerExits(w)

ListenStep == ListenStarts \/ ListenOpens \/ ListenChecks \/ AcceptFails

StopStep == StopCloses \/ StopReturns

ServerNext ==
    \/ \E c \in Conns : Attach(c) \/ Accept(c) \/ Break(c) \/ HandlerStep(c)
    \/ \E c \in Conns, o \in Objects : Read(c, o)
    \/ \E w \in Workers : WorkerLoop(w) \/ WorkerDone(w)
    \/ ListenStep
    \/ StopCancels \/ StopStep

ServerSpec == ServerInit /\ [][ServerNext]_serverVars

\* Goroutines are scheduled.  Nothing is said of WorkerDone: HandleRequest runs the
\* program's routes, and those of the client send on channels that somebody else has to
\* read, without a timeout.
ServerFairSpec ==
    /\ ServerSpec
    /\ WF_serverVars(ListenStep) /\ WF_serverVars(StopStep)
    /\ \A c \in Conns : WF_serverVars(HandlerStep(c))
    /\ \A w \in Workers : WF_serverVars(WorkerLoop(w))

-----------------------------------------------------------------------------
(* Properties                                                              *)

\* The places an object is in.
InInbox(o) ==
    {p \in Conns \X (1..ConnCap) : p[2] <= Len(inbox[p[1]]) /\ inbox[p[1]][p[2]] = o}
InQueue(o) == {i \in DOMAIN queue : queue[i] = o}
InHand(o) == {c \in Conns : hand[c] = o}
InWork(o) == {w \in Workers : work[w] = o}

\* A request is in the hands of one goroutine, in one channel, once, or in the
\* pool: no path puts it back twice, or while somebody still uses it.
OneHolder ==
    \A o \in Objects :
        LET uses == Cardinality(InInbox(o)) + Cardinality(InQueue(o))
                    + Cardinality(InHand(o)) + Cardinality(InWork(o))
        IN uses = (IF o \in free THEN 0 ELSE 1)

\* A worker whose request handler never returns.
Stuck(w) == [](worker[w] = "handle")

\* A request that got into the central channel is taken out by a worker, unless the
\* server stops or the handlers of all workers block for ever: one that does not keeps
\* the channel moving.
QueuedIsHandled ==
    \A o \in Objects :
        (InQueue(o) # {}) ~> (InQueue(o) = {} \/ CtxDone \/ \A w \in Workers : Stuck(w))

\* Once Stop is called, Listen and the handlers of all connections come to their end
\* whatever the workers do, and Stop returns and the workers exit unless a request
\* handler blocks for ever.  A panic ends them all.
ShutdownCompletes ==
    CtxDone ~> \/ panicked
               \/ /\ listen \in {"no", "returned"}
                  /\ \A c \in Conns : handler[c] \in {"none", "left"}
                  /\ \/ /\ stop = "done"
                        /\ \A w \in Workers : worker[w] \in {"none", "exited"}
                     \/ \E w \in Workers : Stuck(w)
=============================================================================
