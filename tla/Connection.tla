----------------------------- MODULE Connection -----------------------------
(***************************************************************************)
(* One Connection object of src/pkg/network/connection.go.                 *)
(*                                                                         *)
(* All state of a connection belongs to the goroutine run(), which takes   *)
(* commands from the bounded channel cmdChan.  Each successful dial or     *)
(* accept starts a session: three channels (sendChan, requestChan,         *)
(* errorChan), a quit channel, a writeLoop and a readLoop.  A disconnect   *)
(* command tears the session down and arms a grace timer; when it fires,   *)
(* run() returns for good.  Around it run the callers of the public        *)
(* methods: SendMessage, Connect, Disconnect, the IsConnect refresh, and   *)
(* HandleConnection of server.go, which drains a session and disconnects.  *)
(*                                                                         *)
(* Messages and requests carry no content here: a channel is its length.   *)
(* A session is a number; a channel reference held by a goroutine is the   *)
(* number of the session that made the channel, 0 for nil.  Commands that  *)
(* only read or write run()'s metadata (cmdInit, cmdClone, the address and *)
(* type getters) are left out: on this state they do what isConnect does,  *)
(* stop the shutdown timer.                                                *)
(***************************************************************************)
EXTENDS Integers, Sequences, FiniteSets

CONSTANTS
    Senders,      \* goroutines that call SendMessage
    Handlers,     \* goroutines that run HandleConnection on this connection
    Refreshers,   \* goroutines IsConnect may spawn to refresh its cache
    MaxSessions,  \* bound on the sessions of one object
    CmdCap,       \* capacity of cmdChan        (1000 in newConnectionBase)
    SendCap,      \* Config.SendChanSize
    ReqCap,       \* Config.RequestChanSize
    ErrCap,       \* Config.ErrorChanSize
    MaxLate,      \* bound on delayed-disconnect goroutines at a time
    MaxRetries    \* maxRetries of SendMessage  (3)

ASSUME CapAssumption ==
    /\ MaxSessions \in Nat
    /\ CmdCap \in Nat \ {0}
    /\ SendCap \in Nat \ {0}
    /\ ReqCap \in Nat \ {0}
    /\ ErrCap \in Nat \ {0}
    /\ MaxLate \in Nat
    /\ MaxRetries \in Nat \ {0}

ASSUME CallerAssumption == "noone" \notin Handlers \cup Refreshers

Sessions == 1..MaxSessions

NoOne   == "noone"
Cmds    == [op : {"accept", "connect", "disconnect", "channels", "isConnect"},
            by : Handlers \cup Refreshers \cup {NoOne}]
Cmd(op, by) == [op |-> op, by |-> by]

VARIABLES
    run,       \* run()'s locals: pc, connect, session (the latest), timer (armed)
    cmdQ,      \* contents of cmdChan
    lateDisc,  \* goroutines blocked in "c.cmdChan <- cmdDisconnect{}"
    cached,    \* cachedConnected
    fresh,     \* is metaLastUpdate within the last 500 ms
    exposed,   \* c.sendChan: session whose sendChan senders can load, 0 = nil
    ses,       \* the channels, socket and loops of each session
    snd,       \* SendMessage calls: pc, tries so far, loaded sendChan
    hnd,       \* HandleConnection: pc, channels in use
    ref,       \* cache refresh goroutines: pc, answer
    dropped,   \* a Disconnect found cmdChan full and was lost
    crashed    \* a goroutine panicked: the process is gone

vars == <<run, cmdQ, lateDisc, cached, fresh, exposed, ses, snd, hnd, ref,
          dropped, crashed>>

\* Where run() can be: its select, or inside a command.
RunPcs == {"select", "dial", "startIO", "hideSendChan", "signal", "closeSend",
           "waitWriter", "waitReader", "closeReq", "closeErr", "stopped"}

Session == [send : 0..SendCap, sendClosed : BOOLEAN,
            quit : BOOLEAN, tcp : BOOLEAN,
            req : 0..ReqCap, reqClosed : BOOLEAN,
            err : 0..ErrCap, errClosed : BOOLEAN,
            writer : {"off", "range", "write", "done"},
            reader : {"off", "read", "deliver", "fail", "done"}]

TypeOK ==
    /\ run \in [pc : RunPcs, connect : BOOLEAN, session : 0..MaxSessions,
                timer : BOOLEAN]
    /\ cmdQ \in Seq(Cmds)
    /\ lateDisc \in 0..MaxLate
    /\ cached \in BOOLEAN
    /\ fresh \in BOOLEAN
    /\ exposed \in 0..MaxSessions
    /\ ses \in [Sessions -> Session]
    /\ snd \in [Senders -> [pc : {"idle", "load", "put"}, try : 0..MaxRetries,
                            chan : 0..MaxSessions]]
    /\ hnd \in [Handlers -> [pc : {"idle", "ask", "loop", "exit", "gone"},
                             chan : 0..MaxSessions]]
    /\ ref \in [Refreshers -> [pc : {"idle", "wait", "got"}, val : BOOLEAN]]
    /\ dropped \in BOOLEAN
    /\ crashed \in BOOLEAN

\* NewConnection (empty command channel) or ConnectionFromTcpConnection
\* (the accept command is queued before the object is handed out).
Init ==
    /\ run = [pc |-> "select", connect |-> FALSE, session |-> 0, timer |-> FALSE]
    /\ cmdQ \in {<<>>, <<Cmd("accept", NoOne)>>}
    /\ lateDisc = 0
    /\ cached = FALSE
    /\ fresh = TRUE
    /\ exposed = 0
    /\ ses = [n \in Sessions |->
                [send |-> 0, sendClosed |-> FALSE, quit |-> FALSE, tcp |-> FALSE,
                 req |-> 0, reqClosed |-> FALSE, err |-> 0, errClosed |-> FALSE,
                 writer |-> "off", reader |-> "off"]]
    /\ snd = [s \in Senders |-> [pc |-> "idle", try |-> 0, chan |-> 0]]
    /\ hnd = [h \in Handlers |-> [pc |-> "idle", chan |-> 0]]
    /\ ref = [r \in Refreshers |-> [pc |-> "idle", val |-> FALSE]]
    /\ dropped = FALSE
    /\ crashed = FALSE

-----------------------------------------------------------------------------
(* Helpers                                                                 *)

HasRoom == Len(cmdQ) < CmdCap

Enqueue(op, by) ==
    /\ HasRoom
    /\ cmdQ' = Append(cmdQ, Cmd(op, by))

\* The caller stopped waiting: run() still answers, into a buffered channel
\* nobody reads.
Abandon(q, c) ==
    [i \in 1..Len(q) |-> IF q[i].by = c THEN Cmd(q[i].op, NoOne) ELSE q[i]]

\* The non-blocking send of Disconnect().
TryDisconnect ==
    \/ Enqueue("disconnect", NoOne) /\ UNCHANGED dropped
    \/ ~HasRoom /\ dropped' = TRUE /\ UNCHANGED cmdQ

\* Session n becomes v.
Becomes(n, v) == ses' = [ses EXCEPT ![n] = v]

\* cachedConnected is always written together with metaLastUpdate = now.
SetCached(b) == cached' = b /\ fresh' = TRUE

-----------------------------------------------------------------------------
(* run(): the goroutine that owns the connection.                          *)

\* The next command; every command but a disconnect stops the timer.
Take(op) ==
    /\ run.pc = "select" /\ cmdQ # <<>> /\ Head(cmdQ).op = op
    /\ cmdQ' = Tail(cmdQ)

\* Mutant of NoTimer: a new command does not stop the shutdown timer.
KeepTimer == run

NoTimer == [run EXCEPT !.timer = FALSE]

\* connect, the cache and the socket are set before startIO makes the channels.
NewSession ==
    LET n == run.session + 1 IN
    /\ n <= MaxSessions
    /\ run' = [NoTimer EXCEPT !.pc = "startIO", !.connect = TRUE, !.session = n]
    /\ Becomes(n, [ses[n] EXCEPT !.tcp = TRUE])
    /\ SetCached(TRUE)

\* The accept command is queued once, before any other, so the code's
\* "if connect { continue }" is never taken.
RunAccept ==
    /\ Take("accept") /\ ~run.connect
    /\ NewSession
    /\ UNCHANGED <<lateDisc, exposed, snd, hnd, ref, dropped, crashed>>

\* Already connected: answer nil.  Otherwise dial, for up to DialTimeout.
RunConnect ==
    /\ Take("connect")
    /\ run' = IF run.connect THEN NoTimer ELSE [NoTimer EXCEPT !.pc = "dial"]
    /\ UNCHANGED <<lateDisc, cached, fresh, exposed, ses, snd, hnd, ref, dropped, crashed>>

DialSucceeds ==
    /\ run.pc = "dial"
    /\ NewSession
    /\ UNCHANGED <<cmdQ, lateDisc, exposed, snd, hnd, ref, dropped, crashed>>

DialFails ==
    /\ run.pc = "dial"
    /\ run' = [run EXCEPT !.pc = "select"]
    /\ UNCHANGED <<cmdQ, lateDisc, cached, fresh, exposed, ses, snd, hnd, ref, dropped, crashed>>

\* Make the channels, expose sendChan, spawn both loops.
StartIO ==
    /\ run.pc = "startIO"
    /\ exposed' = run.session
    /\ Becomes(run.session, [ses[run.session] EXCEPT !.writer = "range", !.reader = "read"])
    /\ run' = [run EXCEPT !.pc = "select"]
    /\ UNCHANGED <<cmdQ, lateDisc, cached, fresh, snd, hnd, ref, dropped, crashed>>

RunDisconnect ==
    /\ Take("disconnect")
    /\ SetCached(FALSE)
    /\ run' = [run EXCEPT !.pc = "hideSendChan"]
    /\ UNCHANGED <<lateDisc, exposed, ses, snd, hnd, ref, dropped, crashed>>

\* Mutant of HideSendChan: c.sendChan stays visible during cleanup.
LeaveSendChan ==
    /\ run.pc = "hideSendChan"
    /\ run' = IF run.connect THEN [run EXCEPT !.pc = "signal"]
              ELSE [run EXCEPT !.pc = "select", !.timer = TRUE]
    /\ UNCHANGED <<cmdQ, lateDisc, cached, fresh, exposed, ses, snd, hnd, ref, dropped, crashed>>

\* c.sendChan = nil; cleanup() returns at once when not connected, and
\* startShutdownTimer follows.
HideSendChan ==
    /\ run.pc = "hideSendChan"
    /\ exposed' = 0
    /\ run' = IF run.connect THEN [run EXCEPT !.pc = "signal"]
              ELSE [run EXCEPT !.pc = "select", !.timer = TRUE]
    /\ UNCHANGED <<cmdQ, lateDisc, cached, fresh, ses, snd, hnd, ref, dropped, crashed>>

\* The steps of cleanup(), in order: from one program counter to the next, with
\* the effect on the session.
CleanupStep(from, to, state) ==
    /\ run.pc = from
    /\ run' = [run EXCEPT !.pc = to, !.connect = FALSE]
    /\ Becomes(run.session, state)
    /\ UNCHANGED <<cmdQ, lateDisc, cached, fresh, exposed, snd, hnd, ref, dropped, crashed>>

\* Mutant of CleanupSignal: the socket is not closed before the waits.
SignalWithoutClose ==
    CleanupStep("signal", "closeSend", [ses[run.session] EXCEPT !.quit = TRUE])

\* close(quitChan) and tcpConn.Close()
CleanupSignal ==
    CleanupStep("signal", "closeSend",
                [ses[run.session] EXCEPT !.quit = TRUE, !.tcp = FALSE])

CleanupCloseSend ==
    CleanupStep("closeSend", "waitWriter",
                [ses[run.session] EXCEPT !.sendClosed = TRUE])

\* Mutants of the two waits: cleanup() does not wait for the loops.
NoWaitForWriter == CleanupStep("waitWriter", "waitReader", ses[run.session])
NoWaitForReader == CleanupStep("waitReader", "closeReq", ses[run.session])

\* writeWg.Wait() and readWg.Wait()
CleanupWaitWriter ==
    /\ run.pc = "waitWriter" /\ ses[run.session].writer = "done"
    /\ CleanupStep("waitWriter", "waitReader", ses[run.session])

CleanupWaitReader ==
    /\ run.pc = "waitReader" /\ ses[run.session].reader = "done"
    /\ CleanupStep("waitReader", "closeReq", ses[run.session])

CleanupCloseReq ==
    CleanupStep("closeReq", "closeErr", [ses[run.session] EXCEPT !.reqClosed = TRUE])

\* close(errorChan); cleanup() returns and startShutdownTimer follows.
CleanupCloseErr ==
    /\ run.pc = "closeErr"
    /\ Becomes(run.session, [ses[run.session] EXCEPT !.errClosed = TRUE])
    /\ run' = [run EXCEPT !.pc = "select", !.timer = TRUE]
    /\ UNCHANGED <<cmdQ, lateDisc, cached, fresh, exposed, snd, hnd, ref, dropped, crashed>>

\* RequestChan(): nil channels before the first session (HandleConnection then
\* returns without a Disconnect), else the channels of the latest session.
RunChannels ==
    /\ Take("channels")
    /\ hnd' = [hnd EXCEPT ![Head(cmdQ).by] =
                  [pc |-> IF run.session = 0 THEN "gone" ELSE "loop", chan |-> run.session]]
    /\ run' = NoTimer
    /\ UNCHANGED <<lateDisc, cached, fresh, exposed, ses, snd, ref, dropped, crashed>>

RunIsConnect ==
    /\ Take("isConnect")
    /\ ref' = [r \in Refreshers |-> IF r = Head(cmdQ).by
                                    THEN [pc |-> "got", val |-> run.connect] ELSE ref[r]]
    /\ run' = NoTimer
    /\ UNCHANGED <<lateDisc, cached, fresh, exposed, ses, snd, hnd, dropped, crashed>>

\* The grace timer fires: run() returns and cmdChan has no reader any more.
GraceExpires ==
    /\ run.pc = "select" /\ run.timer
    /\ run' = [run EXCEPT !.pc = "stopped", !.timer = FALSE]
    /\ UNCHANGED <<cmdQ, lateDisc, cached, fresh, exposed, ses, snd, hnd, ref, dropped, crashed>>

-----------------------------------------------------------------------------
(* writeLoop and readLoop of session n.                                    *)

LoopUnchanged ==
    UNCHANGED <<run, cmdQ, lateDisc, cached, fresh, exposed, snd, hnd, ref, dropped>>

WriterTakes(n) ==
    /\ ses[n].writer = "range" /\ ses[n].send > 0
    /\ Becomes(n, [ses[n] EXCEPT !.send = @ - 1, !.writer = "write"])
    /\ LoopUnchanged /\ UNCHANGED crashed

\* The range ends when sendChan is closed and drained; a write or flush error
\* ends the loop at once and tells nobody.
WriterEnds(n) ==
    /\ \/ ses[n].writer = "range" /\ ses[n].sendClosed /\ ses[n].send = 0
       \/ ses[n].writer = "write"
    /\ Becomes(n, [ses[n] EXCEPT !.writer = "done"])
    /\ LoopUnchanged /\ UNCHANGED crashed

\* The message is written, or skipped because it does not marshal.
WriterContinues(n) ==
    /\ ses[n].writer = "write"
    /\ Becomes(n, [ses[n] EXCEPT !.writer = "range"])
    /\ LoopUnchanged /\ UNCHANGED crashed

\* A message from the socket (or from the bufio buffer after a close); or EOF,
\* a closed socket, a length over MaxMessageLength, an unmarshal error.
ReaderReads(n) ==
    /\ ses[n].reader = "read"
    /\ Becomes(n, [ses[n] EXCEPT !.reader = "deliver"])
    /\ LoopUnchanged /\ UNCHANGED crashed

ReaderErrs(n) ==
    /\ ses[n].reader = "read"
    /\ Becomes(n, [ses[n] EXCEPT !.reader = "fail"])
    /\ LoopUnchanged /\ UNCHANGED crashed

\* requestChan <- req: a send on a closed channel panics.
ReaderDelivers(n) ==
    /\ ses[n].reader = "deliver"
    /\ ses[n].req < ReqCap \/ ses[n].reqClosed
    /\ Becomes(n, [ses[n] EXCEPT !.req = IF @ < ReqCap THEN @ + 1 ELSE @, !.reader = "read"])
    /\ crashed' = ses[n].reqClosed
    /\ LoopUnchanged

\* The other cases of that select: quit, or the request is dropped after
\* RequestChanWaitTimeout.
ReaderGivesUp(n) ==
    /\ ses[n].reader = "deliver"
    /\ \/ ses[n].quit /\ Becomes(n, [ses[n] EXCEPT !.reader = "done"])
       \/ Becomes(n, [ses[n] EXCEPT !.reader = "read"])
    /\ LoopUnchanged /\ UNCHANGED crashed

\* handleTerminalError: errorChan <- err, or quit, or the default case.
ReaderSignals(n) ==
    /\ ses[n].reader = "fail"
    /\ \/ ses[n].err < ErrCap /\ Becomes(n, [ses[n] EXCEPT !.err = @ + 1, !.reader = "done"])
       \/ /\ ses[n].quit \/ ses[n].err = ErrCap
          /\ Becomes(n, [ses[n] EXCEPT !.reader = "done"])
    /\ crashed' = ses[n].errClosed
    /\ LoopUnchanged

-----------------------------------------------------------------------------
(* SendMessage                                                             *)

SendReturns(s) == snd' = [snd EXCEPT ![s] = [pc |-> "idle", try |-> 0, chan |-> 0]]

LastTry(s) == snd[s].try + 1 >= MaxRetries

\* Without the cached flag the call returns ErrDisconnected at once.
SendCall(s) ==
    /\ snd[s].pc = "idle" /\ cached
    /\ snd' = [snd EXCEPT ![s].pc = "load"]
    /\ UNCHANGED <<run, cmdQ, lateDisc, cached, fresh, exposed, ses, hnd, ref, dropped, crashed>>

\* Copy c.sendChan under sendChanMu; nil means sleep and retry.
SendLoad(s) ==
    /\ snd[s].pc = "load"
    /\ \/ /\ exposed # 0
          /\ snd' = [snd EXCEPT ![s].pc = "put", ![s].chan = exposed]
          /\ UNCHANGED <<cached, fresh>>
       \/ /\ exposed = 0 /\ ~LastTry(s)
          /\ snd' = [snd EXCEPT ![s].try = @ + 1]
          /\ UNCHANGED <<cached, fresh>>
       \/ /\ exposed = 0 /\ LastTry(s)
          /\ SendReturns(s) /\ SetCached(FALSE)
    /\ UNCHANGED <<run, cmdQ, lateDisc, exposed, ses, hnd, ref, dropped, crashed>>

\* sendChan <- message, on the reference copied by SendLoad.
SendPut(s) ==
    LET n == snd[s].chan IN
    /\ snd[s].pc = "put" /\ ~ses[n].sendClosed /\ ses[n].send < SendCap
    /\ Becomes(n, [ses[n] EXCEPT !.send = @ + 1])
    /\ SendReturns(s)
    /\ UNCHANGED <<run, cmdQ, lateDisc, cached, fresh, exposed, hnd, ref, dropped, crashed>>

\* The channel was closed since SendLoad: the send panics.
SendPanics(s) ==
    /\ snd[s].pc = "put" /\ ses[snd[s].chan].sendClosed
    /\ crashed' = TRUE
    /\ UNCHANGED <<run, cmdQ, lateDisc, cached, fresh, exposed, ses, snd, hnd, ref, dropped>>

\* time.After(WriteTimeout): retry, or give up and disconnect in a goroutine.
SendTimesOut(s) ==
    /\ snd[s].pc = "put"
    /\ \/ /\ ~LastTry(s)
          /\ snd' = [snd EXCEPT ![s] = [pc |-> "load", try |-> @.try + 1, chan |-> 0]]
          /\ UNCHANGED <<cached, fresh, lateDisc>>
       \/ /\ LastTry(s) /\ lateDisc < MaxLate
          /\ lateDisc' = lateDisc + 1
          /\ SendReturns(s) /\ SetCached(FALSE)
    /\ UNCHANGED <<run, cmdQ, exposed, ses, hnd, ref, dropped, crashed>>

LateDisconnect ==
    /\ lateDisc > 0
    /\ Enqueue("disconnect", NoOne)
    /\ lateDisc' = lateDisc - 1
    /\ UNCHANGED <<run, cached, fresh, exposed, ses, snd, hnd, ref, dropped, crashed>>

-----------------------------------------------------------------------------
(* Connect and Disconnect, called from anywhere.  Connect's answer goes to *)
(* its caller's own buffered channel; with cmdChan full it changes nothing. *)

ConnectCall ==
    /\ Enqueue("connect", NoOne)
    /\ UNCHANGED <<run, lateDisc, cached, fresh, exposed, ses, snd, hnd, ref, dropped, crashed>>

DisconnectCall ==
    /\ TryDisconnect
    /\ UNCHANGED <<run, lateDisc, cached, fresh, exposed, ses, snd, hnd, ref, crashed>>

-----------------------------------------------------------------------------
(* HandleConnection of server.go, as the user of a session.                *)

HandleStart(h) ==
    /\ hnd[h].pc = "idle"
    /\ Enqueue("channels", h)
    /\ hnd' = [hnd EXCEPT ![h].pc = "ask"]
    /\ UNCHANGED <<run, lateDisc, cached, fresh, exposed, ses, snd, ref, dropped, crashed>>

HandleRequest(h) ==
    LET n == hnd[h].chan IN
    /\ hnd[h].pc = "loop" /\ ses[n].req > 0
    /\ Becomes(n, [ses[n] EXCEPT !.req = @ - 1])
    /\ UNCHANGED <<run, cmdQ, lateDisc, cached, fresh, exposed, snd, hnd, ref, dropped, crashed>>

\* An error arrived, or one of the two channels is closed and drained.
HandleEnds(h) ==
    LET n == hnd[h].chan IN
    /\ hnd[h].pc = "loop"
    /\ \/ ses[n].err > 0 /\ Becomes(n, [ses[n] EXCEPT !.err = @ - 1])
       \/ /\ \/ ses[n].err = 0 /\ ses[n].errClosed
             \/ ses[n].req = 0 /\ ses[n].reqClosed
          /\ UNCHANGED ses
    /\ hnd' = [hnd EXCEPT ![h].pc = "exit"]
    /\ UNCHANGED <<run, cmdQ, lateDisc, cached, fresh, exposed, snd, ref, dropped, crashed>>

\* ctx.Done(): the server is stopping.
HandleCancelled(h) ==
    /\ hnd[h].pc = "loop"
    /\ hnd' = [hnd EXCEPT ![h].pc = "exit"]
    /\ UNCHANGED <<run, cmdQ, lateDisc, cached, fresh, exposed, ses, snd, ref, dropped, crashed>>

\* Mutant of HandleExit: the deferred Disconnect is missing.
HandleExitSilent(h) ==
    /\ hnd[h].pc = "exit"
    /\ hnd' = [hnd EXCEPT ![h].pc = "gone"]
    /\ UNCHANGED <<run, cmdQ, lateDisc, cached, fresh, exposed, ses, snd, ref, dropped, crashed>>

\* The deferred conn.Disconnect().
HandleExit(h) ==
    /\ hnd[h].pc = "exit"
    /\ TryDisconnect
    /\ hnd' = [hnd EXCEPT ![h].pc = "gone"]
    /\ UNCHANGED <<run, lateDisc, cached, fresh, exposed, ses, snd, ref, crashed>>

-----------------------------------------------------------------------------
(* IsConnect's asynchronous cache refresh.                                 *)

\* Some caller of IsConnect finds the cache older than 500 ms.  That much time
\* passes only here: a refresh already in flight lives for 100 ms at most.
RefreshStart(r) ==
    /\ ref[r].pc = "idle"
    /\ fresh' = FALSE
    /\ Enqueue("isConnect", r)
    /\ ref' = [ref EXCEPT ![r].pc = "wait"]
    /\ UNCHANGED <<run, lateDisc, cached, exposed, ses, snd, hnd, dropped, crashed>>

\* No answer within 100 ms.
RefreshTimesOut(r) ==
    /\ ref[r].pc = "wait"
    /\ ref' = [ref EXCEPT ![r].pc = "idle"]
    /\ cmdQ' = Abandon(cmdQ, r)
    /\ UNCHANGED <<run, lateDisc, cached, fresh, exposed, ses, snd, hnd, dropped, crashed>>

\* Mutant of RefreshWrites: the timestamp is not looked at again.
RefreshOverwrites(r) ==
    /\ ref[r].pc = "got"
    /\ ref' = [ref EXCEPT ![r] = [pc |-> "idle", val |-> FALSE]]
    /\ SetCached(ref[r].val)
    /\ UNCHANGED <<run, cmdQ, lateDisc, exposed, ses, snd, hnd, dropped, crashed>>

\* Write the answer unless a newer update made the cache fresh again.
RefreshWrites(r) ==
    /\ ref[r].pc = "got"
    /\ ref' = [ref EXCEPT ![r] = [pc |-> "idle", val |-> FALSE]]
    /\ \/ ~fresh /\ SetCached(ref[r].val)
       \/ fresh /\ UNCHANGED <<cached, fresh>>
    /\ UNCHANGED <<run, cmdQ, lateDisc, exposed, ses, snd, hnd, dropped, crashed>>

-----------------------------------------------------------------------------
RunStep ==
    \/ RunAccept \/ RunConnect \/ DialSucceeds \/ DialFails \/ StartIO
    \/ RunDisconnect \/ HideSendChan \/ CleanupSignal \/ CleanupCloseSend
    \/ CleanupWaitWriter \/ CleanupWaitReader \/ CleanupCloseReq \/ CleanupCloseErr
    \/ RunChannels \/ RunIsConnect

WriterStep(n) == WriterTakes(n) \/ WriterEnds(n) \/ WriterContinues(n)

ReaderStep(n) == ReaderReads(n) \/ ReaderErrs(n) \/ ReaderDelivers(n)
                 \/ ReaderGivesUp(n) \/ ReaderSignals(n)

SenderStep(s) == SendCall(s) \/ SendLoad(s) \/ SendPut(s) \/ SendPanics(s)
                 \/ SendTimesOut(s)

HandlerStep(h) == HandleStart(h) \/ HandleRequest(h) \/ HandleEnds(h)
                  \/ HandleCancelled(h) \/ HandleExit(h)

RefreshStep(r) == RefreshStart(r) \/ RefreshTimesOut(r) \/ RefreshWrites(r)

Next ==
    /\ ~crashed
    /\ \/ RunStep \/ GraceExpires
       \/ \E n \in Sessions : WriterStep(n) \/ ReaderStep(n)
       \/ \E s \in Senders : SenderStep(s)
       \/ \E h \in Handlers : HandlerStep(h)
       \/ \E r \in Refreshers : RefreshStep(r)
       \/ LateDisconnect \/ ConnectCall \/ DisconnectCall

Spec == Init /\ [][Next]_vars

\* Goroutines that are ready to run are eventually scheduled: run(), the two
\* loops, HandleConnection once it holds its channels.  No caller of the public
\* methods is obliged to call, and no timer is assumed to fire.  The bufio
\* buffer is finite, so reads on a closed socket cannot succeed forever: hence
\* strong fairness of the read error there.
Fairness ==
    /\ WF_vars(~crashed /\ RunStep)
    /\ \A n \in Sessions :
          /\ WF_vars(~crashed /\ WriterStep(n))
          /\ WF_vars(~crashed /\ ReaderStep(n))
          /\ SF_vars(~crashed /\ ~ses[n].tcp /\ ReaderErrs(n))
    /\ \A h \in Handlers :
          /\ WF_vars(~crashed /\ HandleEnds(h))
          /\ WF_vars(~crashed /\ HandleExit(h))

FairSpec == Spec /\ Fairness

-----------------------------------------------------------------------------
(* Properties                                                              *)

LoopsAlive(n) == \/ ses[n].writer \in {"range", "write"}
                 \/ ses[n].reader \in {"read", "deliver", "fail"}

\* readLoop never sends on a closed channel: requestChan and errorChan of a
\* session are closed only after its readLoop has returned, whatever order the
\* disconnect, the loops and the handler run in (cleanup(), steps 3 and 4).
DownstreamClosedAfterReader ==
    \A n \in Sessions : ses[n].reqClosed \/ ses[n].errClosed => ses[n].reader = "done"

\* Loops of two sessions never run together: a reconnect on the same object
\* starts its loops only when both loops of the session before have returned,
\* so writeWg and readWg always count the goroutines of one session.
OneSessionAtATime ==
    \A n \in Sessions : LoopsAlive(n) => n = run.session

\* The sendChan that SendMessage can load belongs to the live session and is
\* open: cmdDisconnect clears c.sendChan before cleanup() closes the channel.
ExposedSendChanIsOpen ==
    exposed # 0 =>
        exposed = run.session /\ ~ses[exposed].sendClosed /\ ses[exposed].tcp

\* run() stops only with nothing left behind: no session loop is alive, no
\* socket is open and the channels its users read are closed.
StoppedIsClean ==
    run.pc = "stopped" =>
        \A n \in Sessions : /\ ~LoopsAlive(n) /\ ~ses[n].tcp
                            /\ n <= run.session => ses[n].reqClosed /\ ses[n].errClosed

\* IsConnect reports no connection that cmdDisconnect has ended: a refresh that
\* read connect before the disconnect does not bring the flag back after it.
\* (With a second refresh the cache may have aged again in between.)
CacheNotRevived == cached => run.connect

\* cleanup() always finishes: closing quitChan, the socket and sendChan unblocks
\* both loops wherever they are, so run() returns to its select.
CleanupTerminates ==
    run.pc = "signal" ~> (run.pc = "select" \/ crashed)

\* When the peer goes away, the socket of the session is eventually closed, as
\* long as a handler is attached to it and Disconnect found room in cmdChan.
PeerLossClosesSession ==
    \A n \in Sessions, h \in Handlers :
        (ses[n].reader = "done" /\ hnd[h].pc = "loop" /\ hnd[h].chan = n)
            ~> (~ses[n].tcp \/ dropped \/ crashed)
=============================================================================
