-------------------------- MODULE ConnectionProofs --------------------------
(* Proofs about Connection, for every number of sessions, senders, handlers *)
(* and refreshers and every channel capacity.                               *)
EXTENDS Connection, SequenceTheorems, TLAPS

\* A session that run() has not started yet.
Untouched(k) ==
    /\ ses[k].writer = "off" /\ ses[k].reader = "off"
    /\ ~ses[k].tcp /\ ~ses[k].sendClosed
    /\ ~ses[k].reqClosed /\ ~ses[k].errClosed

\* A session that cleanup() is through with.
Ended(k) ==
    /\ ses[k].writer = "done" /\ ses[k].reader = "done"
    /\ ~ses[k].tcp /\ ses[k].reqClosed /\ ses[k].errClosed

\* What run()'s program counter says of its latest session.
CurrentSession ==
    LET k == run.session IN
    /\ run.connect =>
          /\ k \in Sessions
          /\ run.pc \in {"select", "startIO", "hideSendChan", "signal"}
          /\ ses[k].tcp /\ ~ses[k].sendClosed
          /\ ~ses[k].reqClosed /\ ~ses[k].errClosed
          /\ run.pc = "startIO" => ses[k].writer = "off" /\ ses[k].reader = "off"
          /\ run.pc # "startIO" => ses[k].writer # "off" /\ ses[k].reader # "off"
    /\ run.pc \in {"startIO", "signal"} => run.connect
    /\ run.pc \in {"closeSend", "waitWriter", "waitReader", "closeReq", "closeErr"} =>
          /\ k \in Sessions
          /\ ~ses[k].tcp /\ ~ses[k].errClosed
          /\ ses[k].writer # "off" /\ ses[k].reader # "off"
          /\ run.pc # "closeErr" => ~ses[k].reqClosed
          /\ run.pc = "closeErr" => ses[k].reqClosed
          /\ run.pc \in {"waitReader", "closeReq", "closeErr"} => ses[k].writer = "done"
          /\ run.pc \in {"closeReq", "closeErr"} => ses[k].reader = "done"
    /\ (~run.connect /\ run.pc \in {"select", "dial", "hideSendChan", "stopped"}
        /\ k \in Sessions) => Ended(k)

OtherSessions ==
    \A k \in Sessions : /\ k > run.session => Untouched(k)
                        /\ k < run.session => Ended(k)

ExposedInv ==
    exposed # 0 => /\ exposed = run.session /\ run.connect
                   /\ run.pc \in {"select", "hideSendChan"}

TimerInv == run.timer => ~run.connect /\ run.pc \in {"select", "hideSendChan"}

\* The inductive invariant: one session at a time, and for it what run()'s
\* program counter implies.
IInv == CurrentSession /\ OtherSessions /\ ExposedInv /\ TimerInv

-----------------------------------------------------------------------------
(* Type correctness.                                                       *)

\* Popping a command leaves a sequence of commands.
LEMMA TakeType ==
    ASSUME TypeOK, NEW op, Take(op) PROVE cmdQ' \in Seq(Cmds) /\ Head(cmdQ) \in Cmds
  BY DEF TypeOK, Take

\* So does queueing one.
LEMMA EnqueueType ==
    ASSUME TypeOK, NEW op \in {"accept", "connect", "disconnect", "channels", "isConnect"},
           NEW by \in Handlers \cup Refreshers \cup {NoOne}, Enqueue(op, by)
    PROVE  cmdQ' \in Seq(Cmds)
  BY DEF TypeOK, Enqueue, Cmd, Cmds

\* Giving up on an answer renames the caller of queued commands.
LEMMA AbandonType ==
    ASSUME TypeOK, NEW c PROVE Abandon(cmdQ, c) \in Seq(Cmds)
<1>1. cmdQ \in Seq(Cmds) /\ Len(cmdQ) \in Nat
  BY DEF TypeOK
<1>2. ASSUME NEW i \in 1..Len(cmdQ)
      PROVE  (IF cmdQ[i].by = c THEN Cmd(cmdQ[i].op, NoOne) ELSE cmdQ[i]) \in Cmds
  <2>1. cmdQ[i] \in Cmds
    BY <1>1, <1>2
  <2> QED BY <2>1 DEF Cmds, Cmd
<1>3. Abandon(cmdQ, c) \in [1..Len(cmdQ) -> Cmds]
  BY <1>2 DEF Abandon
<1> QED BY <1>1, <1>3, SeqDef

\* Replacing the state of one session by a session state keeps the type.
LEMMA SesType ==
    ASSUME TypeOK, NEW n, NEW v, n \in Sessions => v \in Session, Becomes(n, v)
    PROVE  ses' \in [Sessions -> Session]
  BY DEF TypeOK, Becomes

\* Every change the actions make to a session gives a session.
LEMMA SessionUpdates ==
    ASSUME NEW x \in Session
    PROVE
      /\ [x EXCEPT !.tcp = TRUE] \in Session
      /\ [x EXCEPT !.writer = "range", !.reader = "read"] \in Session
      /\ [x EXCEPT !.quit = TRUE, !.tcp = FALSE] \in Session
      /\ [x EXCEPT !.sendClosed = TRUE] \in Session
      /\ [x EXCEPT !.reqClosed = TRUE] \in Session
      /\ [x EXCEPT !.errClosed = TRUE] \in Session
      /\ x.send > 0 => [x EXCEPT !.send = @ - 1, !.writer = "write"] \in Session
      /\ [x EXCEPT !.writer = "done"] \in Session
      /\ [x EXCEPT !.writer = "range"] \in Session
      /\ [x EXCEPT !.reader = "read"] \in Session
      /\ [x EXCEPT !.reader = "deliver"] \in Session
      /\ [x EXCEPT !.reader = "fail"] \in Session
      /\ [x EXCEPT !.reader = "done"] \in Session
      /\ [x EXCEPT !.req = IF @ < ReqCap THEN @ + 1 ELSE @, !.reader = "read"] \in Session
      /\ x.err < ErrCap => [x EXCEPT !.err = @ + 1, !.reader = "done"] \in Session
      /\ x.send < SendCap => [x EXCEPT !.send = @ + 1] \in Session
      /\ x.req > 0 => [x EXCEPT !.req = @ - 1] \in Session
      /\ x.err > 0 => [x EXCEPT !.err = @ - 1] \in Session
<1> USE CapAssumption
<1>1. [x EXCEPT !.tcp = TRUE] \in Session
  BY DEF Session
<1>2. [x EXCEPT !.writer = "range", !.reader = "read"] \in Session
  BY DEF Session
<1>3. [x EXCEPT !.quit = TRUE, !.tcp = FALSE] \in Session
  BY DEF Session
<1>4. [x EXCEPT !.sendClosed = TRUE] \in Session
  BY DEF Session
<1>5. [x EXCEPT !.reqClosed = TRUE] \in Session
  BY DEF Session
<1>6. [x EXCEPT !.errClosed = TRUE] \in Session
  BY DEF Session
<1>7. x.send > 0 => [x EXCEPT !.send = @ - 1, !.writer = "write"] \in Session
  <2>1. x.send > 0 => x.send - 1 \in 0..SendCap
    BY DEF Session
  <2> QED BY <2>1 DEF Session
<1>8. [x EXCEPT !.writer = "done"] \in Session
  BY DEF Session
<1>9. [x EXCEPT !.writer = "range"] \in Session
  BY DEF Session
<1>10. [x EXCEPT !.reader = "read"] \in Session
  BY DEF Session
<1>11. [x EXCEPT !.reader = "deliver"] \in Session
  BY DEF Session
<1>12. [x EXCEPT !.reader = "fail"] \in Session
  BY DEF Session
<1>13. [x EXCEPT !.reader = "done"] \in Session
  BY DEF Session
<1>14. [x EXCEPT !.req = IF @ < ReqCap THEN @ + 1 ELSE @, !.reader = "read"] \in Session
  <2>1. (IF x.req < ReqCap THEN x.req + 1 ELSE x.req) \in 0..ReqCap
    BY DEF Session
  <2> QED BY <2>1 DEF Session
<1>15. x.err < ErrCap => [x EXCEPT !.err = @ + 1, !.reader = "done"] \in Session
  <2>1. x.err < ErrCap => x.err + 1 \in 0..ErrCap
    BY DEF Session
  <2> QED BY <2>1 DEF Session
<1>16. x.send < SendCap => [x EXCEPT !.send = @ + 1] \in Session
  <2>1. x.send < SendCap => x.send + 1 \in 0..SendCap
    BY DEF Session
  <2> QED BY <2>1 DEF Session
<1>17. x.req > 0 => [x EXCEPT !.req = @ - 1] \in Session
  BY DEF Session
<1>18. x.err > 0 => [x EXCEPT !.err = @ - 1] \in Session
  BY DEF Session
<1> QED BY <1>1, <1>2, <1>3, <1>4, <1>5, <1>6, <1>7, <1>8, <1>9, <1>10, <1>11, <1>12, <1>13, <1>14, <1>15, <1>16, <1>17, <1>18

\* The same for the changes to a SendMessage call.
LEMMA SendUpdates ==
    ASSUME NEW x \in [pc : {"idle", "load", "put"}, try : 0..MaxRetries, chan : 0..MaxSessions],
           NEW e \in 0..MaxSessions
    PROVE  /\ [x EXCEPT !.pc = "load"] \in [pc : {"idle", "load", "put"}, try : 0..MaxRetries, chan : 0..MaxSessions]
           /\ [x EXCEPT !.pc = "put", !.chan = e] \in [pc : {"idle", "load", "put"}, try : 0..MaxRetries, chan : 0..MaxSessions]
  OBVIOUS

\* One more try of one sender.
LEMMA RetryType ==
    ASSUME NEW f \in [Senders -> [pc : {"idle", "load", "put"}, try : 0..MaxRetries, chan : 0..MaxSessions]],
           NEW s \in Senders, f[s].try + 1 \in 0..MaxRetries
    PROVE  [f EXCEPT ![s].try = @ + 1]
           \in [Senders -> [pc : {"idle", "load", "put"}, try : 0..MaxRetries, chan : 0..MaxSessions]]
<1>1. [f[s] EXCEPT !.try = @ + 1] \in [pc : {"idle", "load", "put"}, try : 0..MaxRetries, chan : 0..MaxSessions]
  OBVIOUS
<1>2. [f EXCEPT ![s].try = @ + 1] = [f EXCEPT ![s] = [f[s] EXCEPT !.try = @ + 1]]
  OBVIOUS
<1> QED BY <1>1, <1>2

\* Starting a session keeps run()'s record well-typed.
LEMMA NewSessionType ==
    ASSUME TypeOK, NewSession
    PROVE  run' \in [pc : RunPcs, connect : BOOLEAN, session : 0..MaxSessions, timer : BOOLEAN]
<1>1. run.session + 1 \in 0..MaxSessions
  BY CapAssumption DEF TypeOK, NewSession
<1>2. NoTimer \in [pc : RunPcs, connect : BOOLEAN, session : 0..MaxSessions, timer : BOOLEAN]
  BY DEF TypeOK, NoTimer
<1>3. run' = [NoTimer EXCEPT !.pc = "startIO", !.connect = TRUE, !.session = run.session + 1]
  BY DEF NewSession
<1> HIDE DEF NoTimer
<1> QED BY <1>1, <1>2, <1>3 DEF RunPcs

\* Every step keeps the types of all variables.
LEMMA TypeStep == TypeOK /\ [Next]_vars => TypeOK'
<1> SUFFICES ASSUME TypeOK, [Next]_vars PROVE TypeOK'
  OBVIOUS
<1> USE CapAssumption DEF Sessions
<1>1. CASE RunAccept
  <2>1. run.session + 1 \in Sessions => [ses[run.session + 1] EXCEPT !.tcp = TRUE] \in Session
    BY <1>1, SessionUpdates DEF TypeOK, RunAccept
  <2>2. ses' \in [Sessions -> Session]
    BY <1>1, <2>1, SesType DEF RunAccept, Take, NewSession, NoTimer, SetCached
  <2>3. run' \in [pc : RunPcs, connect : BOOLEAN, session : 0..MaxSessions, timer : BOOLEAN]
    BY <1>1, NewSessionType DEF RunAccept
  <2> QED BY <1>1, TakeType, <2>2, <2>3 DEF TypeOK, RunAccept, NewSession, SetCached
<1>2. CASE RunConnect
  BY <1>2, TakeType DEF TypeOK, RunConnect, Take, NoTimer, RunPcs
<1>3. CASE DialSucceeds
  <2>1. run.session + 1 \in Sessions => [ses[run.session + 1] EXCEPT !.tcp = TRUE] \in Session
    BY <1>3, SessionUpdates DEF TypeOK, DialSucceeds
  <2>2. ses' \in [Sessions -> Session]
    BY <1>3, <2>1, SesType DEF DialSucceeds, NewSession, NoTimer, SetCached
  <2>3. run' \in [pc : RunPcs, connect : BOOLEAN, session : 0..MaxSessions, timer : BOOLEAN]
    BY <1>3, NewSessionType DEF DialSucceeds
  <2> QED BY <1>3, <2>2, <2>3 DEF TypeOK, DialSucceeds, NewSession, SetCached
<1>4. CASE DialFails
  BY <1>4 DEF TypeOK, DialFails, RunPcs
<1>5. CASE StartIO
  <2>1. run.session \in Sessions => [ses[run.session] EXCEPT !.writer = "range", !.reader = "read"] \in Session
    BY <1>5, SessionUpdates DEF TypeOK, StartIO
  <2>2. ses' \in [Sessions -> Session]
    BY <1>5, <2>1, SesType DEF StartIO
  <2> QED BY <1>5, <2>2 DEF TypeOK, StartIO, RunPcs
<1>6. CASE RunDisconnect
  BY <1>6, TakeType DEF TypeOK, RunDisconnect, Take, SetCached, RunPcs
<1>7. CASE HideSendChan
  <2>1. run' \in [pc : RunPcs, connect : BOOLEAN, session : 0..MaxSessions, timer : BOOLEAN]
    <3>1. CASE run.connect
      BY <1>7, <3>1 DEF TypeOK, HideSendChan, RunPcs
    <3>2. CASE ~run.connect
      BY <1>7, <3>2 DEF TypeOK, HideSendChan, RunPcs
    <3> QED BY <3>1, <3>2
  <2> QED BY <1>7, <2>1 DEF TypeOK, HideSendChan
<1>8. CASE CleanupSignal
  <2>1. run.session \in Sessions => [ses[run.session] EXCEPT !.quit = TRUE, !.tcp = FALSE] \in Session
    BY <1>8, SessionUpdates DEF TypeOK, CleanupSignal
  <2>2. ses' \in [Sessions -> Session]
    BY <1>8, <2>1, SesType DEF CleanupSignal, CleanupStep
  <2> QED BY <1>8, <2>2 DEF TypeOK, CleanupSignal, CleanupStep, RunPcs
<1>9. CASE CleanupCloseSend
  <2>1. run.session \in Sessions => [ses[run.session] EXCEPT !.sendClosed = TRUE] \in Session
    BY <1>9, SessionUpdates DEF TypeOK, CleanupCloseSend
  <2>2. ses' \in [Sessions -> Session]
    BY <1>9, <2>1, SesType DEF CleanupCloseSend, CleanupStep
  <2> QED BY <1>9, <2>2 DEF TypeOK, CleanupCloseSend, CleanupStep, RunPcs
<1>10. CASE CleanupWaitWriter
  BY <1>10 DEF TypeOK, CleanupWaitWriter, CleanupStep, Becomes, RunPcs
<1>11. CASE CleanupWaitReader
  BY <1>11 DEF TypeOK, CleanupWaitReader, CleanupStep, Becomes, RunPcs
<1>12. CASE CleanupCloseReq
  <2>1. run.session \in Sessions => [ses[run.session] EXCEPT !.reqClosed = TRUE] \in Session
    BY <1>12, SessionUpdates DEF TypeOK, CleanupCloseReq
  <2>2. ses' \in [Sessions -> Session]
    BY <1>12, <2>1, SesType DEF CleanupCloseReq, CleanupStep
  <2> QED BY <1>12, <2>2 DEF TypeOK, CleanupCloseReq, CleanupStep, RunPcs
<1>13. CASE CleanupCloseErr
  <2>1. run.session \in Sessions => [ses[run.session] EXCEPT !.errClosed = TRUE] \in Session
    BY <1>13, SessionUpdates DEF TypeOK, CleanupCloseErr
  <2>2. ses' \in [Sessions -> Session]
    BY <1>13, <2>1, SesType DEF CleanupCloseErr
  <2> QED BY <1>13, <2>2 DEF TypeOK, CleanupCloseErr, RunPcs
<1>14. CASE RunChannels
  BY <1>14, TakeType DEF TypeOK, RunChannels, Take, NoTimer, RunPcs
<1>15. CASE RunIsConnect
  BY <1>15, TakeType DEF TypeOK, RunIsConnect, Take, NoTimer, RunPcs
<1>16. CASE GraceExpires
  BY <1>16 DEF TypeOK, GraceExpires, RunPcs
<1>17. ASSUME NEW n \in Sessions, WriterStep(n) PROVE TypeOK'
  <2>1. CASE WriterTakes(n)
    <3>1. n \in Sessions => [ses[n] EXCEPT !.send = @ - 1, !.writer = "write"] \in Session
      BY <1>17, <2>1, SessionUpdates DEF TypeOK, WriterTakes
    <3>2. ses' \in [Sessions -> Session]
      BY <1>17, <2>1, <3>1, SesType DEF WriterTakes, LoopUnchanged
    <3> QED BY <1>17, <2>1, <3>2 DEF TypeOK, WriterTakes, LoopUnchanged, RunPcs
  <2>2. CASE WriterEnds(n)
    <3>1. n \in Sessions => [ses[n] EXCEPT !.writer = "done"] \in Session
      BY <1>17, <2>2, SessionUpdates DEF TypeOK, WriterEnds
    <3>2. ses' \in [Sessions -> Session]
      BY <1>17, <2>2, <3>1, SesType DEF WriterEnds, LoopUnchanged
    <3> QED BY <1>17, <2>2, <3>2 DEF TypeOK, WriterEnds, LoopUnchanged, RunPcs
  <2>3. CASE WriterContinues(n)
    <3>1. n \in Sessions => [ses[n] EXCEPT !.writer = "range"] \in Session
      BY <1>17, <2>3, SessionUpdates DEF TypeOK, WriterContinues
    <3>2. ses' \in [Sessions -> Session]
      BY <1>17, <2>3, <3>1, SesType DEF WriterContinues, LoopUnchanged
    <3> QED BY <1>17, <2>3, <3>2 DEF TypeOK, WriterContinues, LoopUnchanged, RunPcs
  <2> QED BY <1>17, <2>1, <2>2, <2>3 DEF WriterStep
<1>18. ASSUME NEW n \in Sessions, ReaderStep(n) PROVE TypeOK'
  <2>1. CASE ReaderReads(n)
    <3>1. n \in Sessions => [ses[n] EXCEPT !.reader = "deliver"] \in Session
      BY <1>18, <2>1, SessionUpdates DEF TypeOK, ReaderReads
    <3>2. ses' \in [Sessions -> Session]
      BY <1>18, <2>1, <3>1, SesType DEF ReaderReads, LoopUnchanged
    <3> QED BY <1>18, <2>1, <3>2 DEF TypeOK, ReaderReads, LoopUnchanged, RunPcs
  <2>2. CASE ReaderErrs(n)
    <3>1. n \in Sessions => [ses[n] EXCEPT !.reader = "fail"] \in Session
      BY <1>18, <2>2, SessionUpdates DEF TypeOK, ReaderErrs
    <3>2. ses' \in [Sessions -> Session]
      BY <1>18, <2>2, <3>1, SesType DEF ReaderErrs, LoopUnchanged
    <3> QED BY <1>18, <2>2, <3>2 DEF TypeOK, ReaderErrs, LoopUnchanged, RunPcs
  <2>3. CASE ReaderDelivers(n)
    <3>1. n \in Sessions => [ses[n] EXCEPT !.req = IF @ < ReqCap THEN @ + 1 ELSE @, !.reader = "read"] \in Session
      BY <1>18, <2>3, SessionUpdates DEF TypeOK, ReaderDelivers
    <3>2. ses' \in [Sessions -> Session]
      BY <1>18, <2>3, <3>1, SesType DEF ReaderDelivers, LoopUnchanged
    <3>3. ses[n].reqClosed \in BOOLEAN
      BY <1>18 DEF TypeOK, Session
    <3> QED BY <1>18, <2>3, <3>2, <3>3 DEF TypeOK, ReaderDelivers, LoopUnchanged
  <2>4. CASE ReaderGivesUp(n)
    <3>1. n \in Sessions => [ses[n] EXCEPT !.reader = "done"] \in Session
      BY <1>18, <2>4, SessionUpdates DEF TypeOK
    <3>2. n \in Sessions => [ses[n] EXCEPT !.reader = "read"] \in Session
      BY <1>18, <2>4, SessionUpdates DEF TypeOK
    <3>3. ses' \in [Sessions -> Session]
      BY <1>18, <2>4, <3>1, <3>2, SesType DEF ReaderGivesUp
    <3> QED BY <1>18, <2>4, <3>3 DEF TypeOK, ReaderGivesUp, LoopUnchanged
  <2>5. CASE ReaderSignals(n)
    <3>1. n \in Sessions /\ ses[n].err < ErrCap => [ses[n] EXCEPT !.err = @ + 1, !.reader = "done"] \in Session
      BY <1>18, <2>5, SessionUpdates DEF TypeOK
    <3>2. n \in Sessions => [ses[n] EXCEPT !.reader = "done"] \in Session
      BY <1>18, <2>5, SessionUpdates DEF TypeOK
    <3>3. ses' \in [Sessions -> Session]
      BY <1>18, <2>5, <3>1, <3>2, SesType DEF ReaderSignals
    <3>4. ses[n].errClosed \in BOOLEAN
      BY <1>18 DEF TypeOK, Session
    <3> QED BY <1>18, <2>5, <3>3, <3>4 DEF TypeOK, ReaderSignals, LoopUnchanged
  <2> QED BY <1>18, <2>1, <2>2, <2>3, <2>4, <2>5 DEF ReaderStep
<1>19. ASSUME NEW s \in Senders, SenderStep(s) PROVE TypeOK'
  <2>1. CASE SendCall(s)
    <3>1. snd' \in [Senders -> [pc : {"idle", "load", "put"}, try : 0..MaxRetries, chan : 0..MaxSessions]]
      <4>1. [snd[s] EXCEPT !.pc = "load"] \in [pc : {"idle", "load", "put"}, try : 0..MaxRetries, chan : 0..MaxSessions]
        BY <1>19, SendUpdates DEF TypeOK
      <4> QED BY <1>19, <2>1, <4>1 DEF TypeOK, SendCall
    <3> QED BY <1>19, <2>1, <3>1 DEF TypeOK, SendCall
  <2>2. CASE SendLoad(s)
    <3>1. snd' \in [Senders -> [pc : {"idle", "load", "put"}, try : 0..MaxRetries, chan : 0..MaxSessions]]
      <4>1. CASE snd' = [snd EXCEPT ![s].pc = "put", ![s].chan = exposed]
        <5>1. [snd[s] EXCEPT !.pc = "put", !.chan = exposed] \in [pc : {"idle", "load", "put"}, try : 0..MaxRetries, chan : 0..MaxSessions]
          BY <1>19, SendUpdates DEF TypeOK
        <5> QED BY <1>19, <4>1, <5>1 DEF TypeOK
      <4>2. CASE ~LastTry(s) /\ snd' = [snd EXCEPT ![s].try = @ + 1]
        <5>1. snd[s].try + 1 \in 0..MaxRetries
          BY <1>19, <4>2 DEF TypeOK, LastTry
        <5>2. snd \in [Senders -> [pc : {"idle", "load", "put"}, try : 0..MaxRetries, chan : 0..MaxSessions]]
          BY DEF TypeOK
        <5> QED BY <1>19, <4>2, <5>1, <5>2, RetryType
      <4>3. CASE SendReturns(s)
        BY <1>19, <4>3 DEF TypeOK, SendReturns
      <4> QED BY <2>2, <4>1, <4>2, <4>3 DEF SendLoad
    <3>2. dropped' \in BOOLEAN
      BY <2>2 DEF TypeOK, SendLoad
    <3>3. cached' \in BOOLEAN /\ fresh' \in BOOLEAN
      BY <2>2 DEF TypeOK, SendLoad, SetCached
    <3> QED BY <2>2, <3>1, <3>2, <3>3 DEF TypeOK, SendLoad
  <2>3. CASE SendPut(s)
    <3>1. snd[s].chan \in Sessions => [ses[snd[s].chan] EXCEPT !.send = @ + 1] \in Session
      BY <1>19, <2>3, SessionUpdates DEF TypeOK, SendPut
    <3>2. ses' \in [Sessions -> Session]
      BY <1>19, <2>3, <3>1, SesType DEF SendPut, SendReturns
    <3> QED BY <1>19, <2>3, <3>2 DEF TypeOK, SendPut, SendReturns, RunPcs
  <2>4. CASE SendPanics(s)
    BY <1>19, <2>4 DEF TypeOK, SendPanics, RunPcs
  <2>5. CASE SendTimesOut(s)
    <3>1. snd' \in [Senders -> [pc : {"idle", "load", "put"}, try : 0..MaxRetries, chan : 0..MaxSessions]]
      <4>1. CASE ~LastTry(s) /\ snd' = [snd EXCEPT ![s] = [pc |-> "load", try |-> @.try + 1, chan |-> 0]]
        <5>1. snd[s].try + 1 \in 0..MaxRetries
          BY <1>19, <4>1 DEF TypeOK, LastTry
        <5> QED BY <1>19, <4>1, <5>1 DEF TypeOK
      <4>2. CASE SendReturns(s)
        BY <1>19, <4>2 DEF TypeOK, SendReturns
      <4> QED BY <2>5, <4>1, <4>2 DEF SendTimesOut
    <3>2. dropped' \in BOOLEAN
      BY <2>5 DEF TypeOK, SendTimesOut
    <3>3. cached' \in BOOLEAN /\ fresh' \in BOOLEAN /\ lateDisc' \in 0..MaxLate
      <4>1. CASE UNCHANGED <<cached, fresh, lateDisc>>
        BY <4>1 DEF TypeOK
      <4>2. CASE lateDisc < MaxLate /\ lateDisc' = lateDisc + 1 /\ SetCached(FALSE)
        <5>1. lateDisc' \in 0..MaxLate
          BY <4>2 DEF TypeOK
        <5> QED BY <4>2, <5>1 DEF SetCached
      <4> QED BY <2>5, <4>1, <4>2 DEF SendTimesOut
    <3> QED BY <2>5, <3>1, <3>2, <3>3 DEF TypeOK, SendTimesOut
  <2> QED BY <1>19, <2>1, <2>2, <2>3, <2>4, <2>5 DEF SenderStep
<1>20. ASSUME NEW h \in Handlers, HandlerStep(h) PROVE TypeOK'
  <2>1. CASE HandleStart(h)
    BY <1>20, <2>1, EnqueueType DEF TypeOK, HandleStart, RunPcs
  <2>2. CASE HandleRequest(h)
    <3>1. hnd[h].chan \in Sessions => [ses[hnd[h].chan] EXCEPT !.req = @ - 1] \in Session
      BY <1>20, <2>2, SessionUpdates DEF TypeOK, HandleRequest
    <3>2. ses' \in [Sessions -> Session]
      BY <1>20, <2>2, <3>1, SesType DEF HandleRequest
    <3> QED BY <1>20, <2>2, <3>2 DEF TypeOK, HandleRequest, RunPcs
  <2>3. CASE HandleEnds(h)
    <3>1. hnd[h].chan \in Sessions /\ ses[hnd[h].chan].err > 0 => [ses[hnd[h].chan] EXCEPT !.err = @ - 1] \in Session
      BY <1>20, <2>3, SessionUpdates DEF TypeOK
    <3>2. ses' \in [Sessions -> Session]
      BY <1>20, <2>3, <3>1, SesType DEF HandleEnds, TypeOK
    <3> QED BY <1>20, <2>3, <3>2 DEF TypeOK, HandleEnds
  <2>4. CASE HandleCancelled(h)
    BY <1>20, <2>4 DEF TypeOK, HandleCancelled, RunPcs
  <2>5. CASE HandleExit(h)
    BY <1>20, <2>5, EnqueueType DEF TypeOK, HandleExit, TryDisconnect, NoOne, RunPcs
  <2> QED BY <1>20, <2>1, <2>2, <2>3, <2>4, <2>5 DEF HandlerStep
<1>21. ASSUME NEW r \in Refreshers, RefreshStep(r) PROVE TypeOK'
  <2>1. CASE RefreshStart(r)
    BY <1>21, <2>1, EnqueueType DEF TypeOK, RefreshStart, RunPcs
  <2>2. CASE RefreshTimesOut(r)
    BY <1>21, <2>2, AbandonType DEF TypeOK, RefreshTimesOut, RunPcs
  <2>3. CASE RefreshWrites(r)
    BY <1>21, <2>3 DEF TypeOK, RefreshWrites, SetCached, RunPcs
  <2> QED BY <1>21, <2>1, <2>2, <2>3 DEF RefreshStep
<1>22. CASE LateDisconnect
  BY <1>22, EnqueueType DEF TypeOK, LateDisconnect, RunPcs
<1>23. CASE ConnectCall
  BY <1>23, EnqueueType DEF TypeOK, ConnectCall, RunPcs
<1>24. CASE DisconnectCall
  BY <1>24, EnqueueType DEF TypeOK, DisconnectCall, TryDisconnect, RunPcs
<1>25. CASE UNCHANGED vars
  BY <1>25 DEF TypeOK, vars
<1> QED
  BY <1>1, <1>2, <1>3, <1>4, <1>5, <1>6, <1>7, <1>8, <1>9, <1>10, <1>11, <1>12, <1>13, <1>14, <1>15, <1>16, <1>17, <1>18, <1>19, <1>20, <1>21, <1>22, <1>23, <1>24, <1>25 DEF Next, RunStep

\* Both constructors make a well-typed connection.
LEMMA InitType == Init => TypeOK
<1> SUFFICES ASSUME Init PROVE TypeOK
  OBVIOUS
<1>1. cmdQ \in Seq(Cmds)
  <2>1. Cmd("accept", NoOne) \in Cmds
    BY DEF Cmd, Cmds
  <2>2. <<Cmd("accept", NoOne)>> \in Seq(Cmds)
    BY <2>1
  <2>3. <<>> \in Seq(Cmds)
    OBVIOUS
  <2> QED BY <2>2, <2>3 DEF Init
<1>2. ses \in [Sessions -> Session]
  BY CapAssumption DEF Init, Session
<1>3. run \in [pc : RunPcs, connect : BOOLEAN, session : 0..MaxSessions, timer : BOOLEAN]
  BY CapAssumption DEF Init, RunPcs
<1>4. snd \in [Senders -> [pc : {"idle", "load", "put"}, try : 0..MaxRetries, chan : 0..MaxSessions]]
  BY CapAssumption DEF Init
<1>5. /\ hnd \in [Handlers -> [pc : {"idle", "ask", "loop", "exit", "gone"}, chan : 0..MaxSessions]]
      /\ ref \in [Refreshers -> [pc : {"idle", "wait", "got"}, val : BOOLEAN]]
  BY CapAssumption DEF Init
<1>6. lateDisc \in 0..MaxLate /\ exposed \in 0..MaxSessions
  BY CapAssumption DEF Init
<1>7. cached \in BOOLEAN /\ fresh \in BOOLEAN /\ dropped \in BOOLEAN /\ crashed \in BOOLEAN
  BY DEF Init
<1> QED BY <1>1, <1>2, <1>3, <1>4, <1>5, <1>6, <1>7 DEF TypeOK

\* Type correctness of the connection, in every reachable state.
THEOREM TypeCorrect == Spec => []TypeOK
  BY InitType, TypeStep, PTL DEF Spec

-----------------------------------------------------------------------------
(* The inductive invariant.                                                *)

\* It speaks of run, exposed and ses only.
LEMMA QuietStep ==
    ASSUME IInv, UNCHANGED <<run, exposed, ses>> PROVE IInv'
  BY DEF IInv, CurrentSession, OtherSessions, ExposedInv, TimerInv, Untouched, Ended

\* What a step of a loop, a sender or a handler may do to a session: it neither
\* opens nor closes anything, and a loop that has not started or has returned
\* stays as it is.
InnerChange(x, v) ==
    /\ v.tcp = x.tcp /\ v.sendClosed = x.sendClosed
    /\ v.reqClosed = x.reqClosed /\ v.errClosed = x.errClosed
    /\ v.writer = x.writer \/ (x.writer \in {"range", "write"} /\ v.writer # "off")
    /\ v.reader = x.reader \/ (x.reader \in {"read", "deliver", "fail"} /\ v.reader # "off")

\* Such a step preserves the invariant.
LEMMA InnerStep ==
    ASSUME TypeOK, IInv, NEW n, NEW v, UNCHANGED <<run, exposed>>,
           Becomes(n, v), n \in Sessions => InnerChange(ses[n], v)
    PROVE  IInv'
<1>1. CASE n \notin Sessions
  <2>1. ses' = ses
    BY <1>1 DEF TypeOK, Becomes
  <2> QED BY <2>1, QuietStep
<1>2. CASE n \in Sessions
  <2>1. ses'[n] = v /\ \A k \in Sessions : k # n => ses'[k] = ses[k]
    BY <1>2 DEF TypeOK, Becomes
  <2>2. \A k \in Sessions : InnerChange(ses[k], ses'[k])
    BY <1>2, <2>1 DEF InnerChange
  <2>3. \A k \in Sessions : (Ended(k) => Ended(k)') /\ (Untouched(k) => Untouched(k)')
    BY <2>2 DEF Ended, Untouched, InnerChange
  <2>4. CurrentSession'
    BY <2>2, <2>3 DEF IInv, CurrentSession, InnerChange
  <2>5. OtherSessions'
    BY <2>3 DEF IInv, OtherSessions
  <2> QED BY <2>4, <2>5 DEF IInv, ExposedInv, TimerInv
<1> QED BY <1>1, <1>2

\* The changes the loops, the senders and the handlers make are of that kind.
LEMMA InnerUpdates ==
    ASSUME NEW x \in Session
    PROVE
      /\ x.writer = "range" => InnerChange(x, [x EXCEPT !.send = @ - 1, !.writer = "write"])
      /\ x.writer \in {"range", "write"} => InnerChange(x, [x EXCEPT !.writer = "done"])
      /\ x.writer = "write" => InnerChange(x, [x EXCEPT !.writer = "range"])
      /\ x.reader = "read" => InnerChange(x, [x EXCEPT !.reader = "deliver"])
      /\ x.reader = "read" => InnerChange(x, [x EXCEPT !.reader = "fail"])
      /\ x.reader = "deliver" => InnerChange(x, [x EXCEPT !.req = IF @ < ReqCap THEN @ + 1 ELSE @, !.reader = "read"])
      /\ x.reader \in {"deliver", "fail"} => InnerChange(x, [x EXCEPT !.reader = "done"])
      /\ x.reader = "deliver" => InnerChange(x, [x EXCEPT !.reader = "read"])
      /\ x.reader = "fail" => InnerChange(x, [x EXCEPT !.err = @ + 1, !.reader = "done"])
      /\ InnerChange(x, [x EXCEPT !.send = @ + 1])
      /\ InnerChange(x, [x EXCEPT !.req = @ - 1])
      /\ InnerChange(x, [x EXCEPT !.err = @ - 1])
  BY DEF Session, InnerChange

\* A step that only stops the shutdown timer preserves it.
LEMMA NoTimerStep ==
    ASSUME TypeOK, IInv, run' = NoTimer, UNCHANGED <<exposed, ses>> PROVE IInv'
<1>1. /\ run'.pc = run.pc /\ run'.connect = run.connect
      /\ run'.session = run.session /\ run'.timer = FALSE
  BY DEF TypeOK, NoTimer
<1> QED BY <1>1 DEF IInv, CurrentSession, OtherSessions, ExposedInv, TimerInv, Untouched, Ended

\* So does a new session, started when the last one has ended.
LEMMA NewSessionStep ==
    ASSUME TypeOK, IInv, NewSession, UNCHANGED exposed,
           ~run.connect, run.pc \in {"select", "dial"}
    PROVE  IInv'
<1> DEFINE n == run.session + 1
<1>1. n \in Sessions /\ run.session \in Nat
  BY CapAssumption DEF TypeOK, NewSession, Sessions
<1>2. /\ run'.pc = "startIO" /\ run'.connect = TRUE
      /\ run'.session = n /\ run'.timer = FALSE
  BY DEF TypeOK, NewSession, NoTimer
<1>3. ses' = [ses EXCEPT ![n] = [ses[n] EXCEPT !.tcp = TRUE]]
  BY DEF NewSession, Becomes
<1>4. Untouched(n)
  BY <1>1 DEF IInv, OtherSessions, Sessions
<1>5. \A k \in Sessions : k # n => ses'[k] = ses[k]
  BY <1>1, <1>3 DEF TypeOK
<1>6. ses[n] \in Session
  BY <1>1 DEF TypeOK
<1>7. ses'[n] = [ses[n] EXCEPT !.tcp = TRUE]
  BY <1>1, <1>3 DEF TypeOK
<1>8. /\ ses'[n].tcp /\ ~ses'[n].sendClosed /\ ~ses'[n].reqClosed /\ ~ses'[n].errClosed
      /\ ses'[n].writer = "off" /\ ses'[n].reader = "off"
  BY <1>4, <1>6, <1>7 DEF Untouched, Session
<1> HIDE DEF n
<1>9. CurrentSession'
  BY <1>1, <1>2, <1>8 DEF CurrentSession
<1>10. ASSUME NEW k \in Sessions, k # n
       PROVE  (Ended(k) => Ended(k)') /\ (Untouched(k) => Untouched(k)')
  BY <1>5, <1>10 DEF Ended, Untouched
<1>11. ASSUME NEW k \in Sessions PROVE k > n => Untouched(k)'
  BY <1>1, <1>10 DEF IInv, OtherSessions, Sessions, n
<1>12. ASSUME NEW k \in Sessions, k < n PROVE Ended(k)'
  <2>1. Ended(k)
    BY <1>1, <1>12 DEF IInv, OtherSessions, CurrentSession, Sessions, n
  <2> QED BY <1>1, <1>12, <2>1, <1>10 DEF Sessions, n
<1>13. OtherSessions'
  BY <1>2, <1>11, <1>12 DEF OtherSessions
<1>14. ExposedInv' /\ TimerInv'
  BY <1>2 DEF IInv, ExposedInv, TimerInv
<1> QED BY <1>9, <1>13, <1>14 DEF IInv

\* Steps of startIO and cleanup() change the latest session only: it is enough
\* to show the parts that speak of it.
LEMMA CurrentStep ==
    ASSUME TypeOK, IInv, NEW v, Becomes(run.session, v), run.session \in Sessions,
           run'.session = run.session, CurrentSession', ExposedInv', TimerInv'
    PROVE  IInv'
<1>1. \A k \in Sessions : k # run.session => ses'[k] = ses[k]
  BY DEF TypeOK, Becomes
<1>2. run.session \in Int
  BY CapAssumption DEF Sessions
<1>3. ASSUME NEW k \in Sessions, k # run.session
      PROVE  (Ended(k) => Ended(k)') /\ (Untouched(k) => Untouched(k)')
  BY <1>1, <1>3 DEF Ended, Untouched
<1>4. OtherSessions'
  BY <1>2, <1>3 DEF IInv, OtherSessions, Sessions
<1> QED BY <1>4 DEF IInv

\* Every step preserves the invariant.
LEMMA IInvStep == TypeOK /\ IInv /\ [Next]_vars => IInv'
<1> SUFFICES ASSUME TypeOK, IInv, [Next]_vars PROVE IInv'
  OBVIOUS
<1>1. CASE RunAccept
  BY <1>1, NewSessionStep DEF RunAccept, Take
<1>2. CASE RunConnect
  <2>1. CASE run.connect
    BY <1>2, <2>1, NoTimerStep DEF RunConnect
  <2>2. CASE ~run.connect
    <3>1. /\ run'.pc = "dial" /\ run'.connect = run.connect
          /\ run'.session = run.session /\ run'.timer = FALSE
      BY <1>2, <2>2 DEF TypeOK, RunConnect, NoTimer
    <3>2. run.pc = "select" /\ UNCHANGED <<exposed, ses>>
      BY <1>2 DEF RunConnect, Take
    <3> QED BY <2>2, <3>1, <3>2
            DEF IInv, CurrentSession, OtherSessions, ExposedInv, TimerInv, Untouched, Ended
  <2> QED BY <2>1, <2>2
<1>3. CASE DialSucceeds
  <2>1. ~run.connect /\ run.pc = "dial"
    BY <1>3 DEF DialSucceeds, IInv, CurrentSession
  <2> QED BY <1>3, <2>1, NewSessionStep DEF DialSucceeds
<1>4. CASE DialFails
  <2>1. /\ run'.pc = "select" /\ run'.connect = run.connect
        /\ run'.session = run.session /\ run'.timer = run.timer
    BY <1>4 DEF TypeOK, DialFails
  <2>2. run.pc = "dial" /\ UNCHANGED <<exposed, ses>>
    BY <1>4 DEF DialFails
  <2> QED BY <2>1, <2>2
          DEF IInv, CurrentSession, OtherSessions, ExposedInv, TimerInv, Untouched, Ended
<1>5. CASE StartIO
  <2> DEFINE k == run.session
  <2>1. /\ run'.pc = "select" /\ run'.connect = run.connect
        /\ run'.session = k /\ run'.timer = run.timer
        /\ run.pc = "startIO" /\ exposed' = k
    BY <1>5 DEF TypeOK, StartIO
  <2>2. run.connect /\ k \in Sessions
    BY <2>1 DEF IInv, CurrentSession
  <2>3. ses'[k] = [ses[k] EXCEPT !.writer = "range", !.reader = "read"] /\ ses[k] \in Session
    BY <1>5, <2>2 DEF TypeOK, StartIO, Becomes
  <2>4. /\ ses'[k].tcp = ses[k].tcp /\ ses'[k].sendClosed = ses[k].sendClosed
        /\ ses'[k].reqClosed = ses[k].reqClosed /\ ses'[k].errClosed = ses[k].errClosed
        /\ ses'[k].writer = "range" /\ ses'[k].reader = "read"
    BY <2>3 DEF Session
  <2>5. CurrentSession' /\ ExposedInv' /\ TimerInv'
    BY <2>1, <2>2, <2>4 DEF IInv, CurrentSession, ExposedInv, TimerInv
  <2> QED BY <1>5, <2>1, <2>2, <2>5, CurrentStep DEF StartIO
<1>6. CASE RunDisconnect
  <2>1. /\ run'.pc = "hideSendChan" /\ run'.connect = run.connect
        /\ run'.session = run.session /\ run'.timer = run.timer
    BY <1>6 DEF TypeOK, RunDisconnect
  <2>2. run.pc = "select" /\ UNCHANGED <<exposed, ses>>
    BY <1>6 DEF RunDisconnect, Take
  <2> QED BY <2>1, <2>2
          DEF IInv, CurrentSession, OtherSessions, ExposedInv, TimerInv, Untouched, Ended
<1>7. CASE HideSendChan
  <2>1. run.pc = "hideSendChan" /\ exposed' = 0 /\ UNCHANGED ses
    BY <1>7 DEF HideSendChan
  <2>2. run'.connect = run.connect /\ run'.session = run.session
    BY <1>7 DEF TypeOK, HideSendChan
  <2>3. CASE run.connect
    <3>1. run'.pc = "signal" /\ run'.timer = run.timer
      BY <1>7, <2>3 DEF TypeOK, HideSendChan
    <3> QED BY <2>1, <2>2, <2>3, <3>1
            DEF IInv, CurrentSession, OtherSessions, ExposedInv, TimerInv, Untouched, Ended
  <2>4. CASE ~run.connect
    <3>1. run'.pc = "select" /\ run'.timer = TRUE
      BY <1>7, <2>4 DEF TypeOK, HideSendChan
    <3> QED BY <2>1, <2>2, <2>4, <3>1
            DEF IInv, CurrentSession, OtherSessions, ExposedInv, TimerInv, Untouched, Ended
  <2> QED BY <2>3, <2>4
<1>8. CASE CleanupSignal
  <2> DEFINE k == run.session
  <2>1. /\ run.pc = "signal" /\ run'.pc = "closeSend" /\ run'.connect = FALSE
        /\ run'.session = k /\ run'.timer = run.timer /\ exposed' = exposed
    BY <1>8 DEF TypeOK, CleanupSignal, CleanupStep
  <2>2. k \in Sessions
    BY <2>1 DEF IInv, CurrentSession
  <2>3. ses'[k] = [ses[k] EXCEPT !.quit = TRUE, !.tcp = FALSE] /\ ses[k] \in Session
    BY <1>8, <2>2 DEF TypeOK, CleanupSignal, CleanupStep, Becomes
  <2>4. /\ ses'[k].tcp = FALSE /\ ses'[k].sendClosed = ses[k].sendClosed
        /\ ses'[k].reqClosed = ses[k].reqClosed /\ ses'[k].errClosed = ses[k].errClosed
        /\ ses'[k].writer = ses[k].writer /\ ses'[k].reader = ses[k].reader
    BY <2>3 DEF Session
  <2>5. CurrentSession' /\ ExposedInv' /\ TimerInv'
    BY <2>1, <2>2, <2>4 DEF IInv, CurrentSession, ExposedInv, TimerInv
  <2> QED BY <1>8, <2>1, <2>2, <2>5, CurrentStep DEF CleanupSignal, CleanupStep
<1>9. CASE CleanupCloseSend
  <2> DEFINE k == run.session
  <2>1. /\ run.pc = "closeSend" /\ run'.pc = "waitWriter" /\ run'.connect = FALSE
        /\ run'.session = k /\ run'.timer = run.timer /\ exposed' = exposed
    BY <1>9 DEF TypeOK, CleanupCloseSend, CleanupStep
  <2>2. k \in Sessions
    BY <2>1 DEF IInv, CurrentSession
  <2>3. ses'[k] = [ses[k] EXCEPT !.sendClosed = TRUE] /\ ses[k] \in Session
    BY <1>9, <2>2 DEF TypeOK, CleanupCloseSend, CleanupStep, Becomes
  <2>4. /\ ses'[k].tcp = ses[k].tcp /\ ses'[k].sendClosed = TRUE
        /\ ses'[k].reqClosed = ses[k].reqClosed /\ ses'[k].errClosed = ses[k].errClosed
        /\ ses'[k].writer = ses[k].writer /\ ses'[k].reader = ses[k].reader
    BY <2>3 DEF Session
  <2>5. CurrentSession' /\ ExposedInv' /\ TimerInv'
    BY <2>1, <2>2, <2>4 DEF IInv, CurrentSession, ExposedInv, TimerInv
  <2> QED BY <1>9, <2>1, <2>2, <2>5, CurrentStep DEF CleanupCloseSend, CleanupStep
<1>10. CASE CleanupWaitWriter
  <2> DEFINE k == run.session
  <2>1. /\ run.pc = "waitWriter" /\ run'.pc = "waitReader" /\ run'.connect = FALSE
        /\ run'.session = k /\ run'.timer = run.timer /\ exposed' = exposed
    BY <1>10 DEF TypeOK, CleanupWaitWriter, CleanupStep
  <2>2. k \in Sessions
    BY <2>1 DEF IInv, CurrentSession
  <2>3. ses'[k] = ses[k] /\ ses[k] \in Session
    BY <1>10, <2>2 DEF TypeOK, CleanupWaitWriter, CleanupStep, Becomes
  <2>4. /\ ses'[k].tcp = ses[k].tcp /\ ses'[k].sendClosed = ses[k].sendClosed
        /\ ses'[k].reqClosed = ses[k].reqClosed /\ ses'[k].errClosed = ses[k].errClosed
        /\ ses'[k].writer = ses[k].writer /\ ses'[k].reader = ses[k].reader
    BY <2>3
  <2>5. CurrentSession' /\ ExposedInv' /\ TimerInv'
    BY <1>10, <2>1, <2>2, <2>4 DEF IInv, CurrentSession, ExposedInv, TimerInv, CleanupWaitWriter
  <2> QED BY <1>10, <2>1, <2>2, <2>5, CurrentStep DEF CleanupWaitWriter, CleanupStep
<1>11. CASE CleanupWaitReader
  <2> DEFINE k == run.session
  <2>1. /\ run.pc = "waitReader" /\ run'.pc = "closeReq" /\ run'.connect = FALSE
        /\ run'.session = k /\ run'.timer = run.timer /\ exposed' = exposed
    BY <1>11 DEF TypeOK, CleanupWaitReader, CleanupStep
  <2>2. k \in Sessions
    BY <2>1 DEF IInv, CurrentSession
  <2>3. ses'[k] = ses[k] /\ ses[k] \in Session
    BY <1>11, <2>2 DEF TypeOK, CleanupWaitReader, CleanupStep, Becomes
  <2>4. /\ ses'[k].tcp = ses[k].tcp /\ ses'[k].sendClosed = ses[k].sendClosed
        /\ ses'[k].reqClosed = ses[k].reqClosed /\ ses'[k].errClosed = ses[k].errClosed
        /\ ses'[k].writer = ses[k].writer /\ ses'[k].reader = ses[k].reader
    BY <2>3
  <2>5. CurrentSession' /\ ExposedInv' /\ TimerInv'
    BY <1>11, <2>1, <2>2, <2>4 DEF IInv, CurrentSession, ExposedInv, TimerInv, CleanupWaitReader
  <2> QED BY <1>11, <2>1, <2>2, <2>5, CurrentStep DEF CleanupWaitReader, CleanupStep
<1>12. CASE CleanupCloseReq
  <2> DEFINE k == run.session
  <2>1. /\ run.pc = "closeReq" /\ run'.pc = "closeErr" /\ run'.connect = FALSE
        /\ run'.session = k /\ run'.timer = run.timer /\ exposed' = exposed
    BY <1>12 DEF TypeOK, CleanupCloseReq, CleanupStep
  <2>2. k \in Sessions
    BY <2>1 DEF IInv, CurrentSession
  <2>3. ses'[k] = [ses[k] EXCEPT !.reqClosed = TRUE] /\ ses[k] \in Session
    BY <1>12, <2>2 DEF TypeOK, CleanupCloseReq, CleanupStep, Becomes
  <2>4. /\ ses'[k].tcp = ses[k].tcp /\ ses'[k].sendClosed = ses[k].sendClosed
        /\ ses'[k].reqClosed = TRUE /\ ses'[k].errClosed = ses[k].errClosed
        /\ ses'[k].writer = ses[k].writer /\ ses'[k].reader = ses[k].reader
    BY <2>3 DEF Session
  <2>5. CurrentSession' /\ ExposedInv' /\ TimerInv'
    BY <2>1, <2>2, <2>4 DEF IInv, CurrentSession, ExposedInv, TimerInv
  <2> QED BY <1>12, <2>1, <2>2, <2>5, CurrentStep DEF CleanupCloseReq, CleanupStep
<1>13. CASE CleanupCloseErr
  <2> DEFINE k == run.session
  <2>1. /\ run.pc = "closeErr" /\ run'.pc = "select" /\ run'.connect = run.connect
        /\ run'.session = k /\ run'.timer = TRUE /\ exposed' = exposed
    BY <1>13 DEF TypeOK, CleanupCloseErr
  <2>2. k \in Sessions
    BY <2>1 DEF IInv, CurrentSession
  <2>3. ses'[k] = [ses[k] EXCEPT !.errClosed = TRUE] /\ ses[k] \in Session
    BY <1>13, <2>2 DEF TypeOK, CleanupCloseErr, Becomes
  <2>4. /\ ses'[k].tcp = ses[k].tcp /\ ses'[k].sendClosed = ses[k].sendClosed
        /\ ses'[k].reqClosed = ses[k].reqClosed /\ ses'[k].errClosed = TRUE
        /\ ses'[k].writer = ses[k].writer /\ ses'[k].reader = ses[k].reader
    BY <2>3 DEF Session
  <2>5. CurrentSession' /\ ExposedInv' /\ TimerInv'
    BY <2>1, <2>2, <2>4 DEF IInv, CurrentSession, ExposedInv, TimerInv, Ended
  <2> QED BY <1>13, <2>1, <2>2, <2>5, CurrentStep DEF CleanupCloseErr
<1>14. CASE RunChannels
  BY <1>14, NoTimerStep DEF RunChannels
<1>15. CASE RunIsConnect
  BY <1>15, NoTimerStep DEF RunIsConnect
<1>16. CASE GraceExpires
  <2>1. /\ run'.pc = "stopped" /\ run'.connect = run.connect
        /\ run'.session = run.session /\ run'.timer = FALSE
    BY <1>16 DEF TypeOK, GraceExpires
  <2>2. run.pc = "select" /\ run.timer /\ UNCHANGED <<exposed, ses>>
    BY <1>16 DEF GraceExpires
  <2> QED BY <2>1, <2>2
          DEF IInv, CurrentSession, OtherSessions, ExposedInv, TimerInv, Untouched, Ended
<1>17. ASSUME NEW n \in Sessions, WriterStep(n) PROVE IInv'
  <2>1. CASE WriterTakes(n)
    <3>0. ses[n].writer = "range"
      BY <2>1 DEF WriterTakes
    <3>1. n \in Sessions => InnerChange(ses[n], [ses[n] EXCEPT !.send = @ - 1, !.writer = "write"])
      BY <3>0, InnerUpdates DEF TypeOK
    <3> QED BY <1>17, <2>1, <3>1, InnerStep, QuietStep DEF WriterTakes, LoopUnchanged
  <2>2. CASE WriterEnds(n)
    <3>0. ses[n].writer \in {"range", "write"}
      BY <2>2 DEF WriterEnds
    <3>1. n \in Sessions => InnerChange(ses[n], [ses[n] EXCEPT !.writer = "done"])
      BY <3>0, InnerUpdates DEF TypeOK
    <3> QED BY <1>17, <2>2, <3>1, InnerStep, QuietStep DEF WriterEnds, LoopUnchanged
  <2>3. CASE WriterContinues(n)
    <3>0. ses[n].writer = "write"
      BY <2>3 DEF WriterContinues
    <3>1. n \in Sessions => InnerChange(ses[n], [ses[n] EXCEPT !.writer = "range"])
      BY <3>0, InnerUpdates DEF TypeOK
    <3> QED BY <1>17, <2>3, <3>1, InnerStep, QuietStep DEF WriterContinues, LoopUnchanged
  <2> QED BY <1>17, <2>1, <2>2, <2>3 DEF WriterStep
<1>18. ASSUME NEW n \in Sessions, ReaderStep(n) PROVE IInv'
  <2>1. CASE ReaderReads(n)
    <3>0. ses[n].reader = "read"
      BY <2>1 DEF ReaderReads
    <3>1. n \in Sessions => InnerChange(ses[n], [ses[n] EXCEPT !.reader = "deliver"])
      BY <3>0, InnerUpdates DEF TypeOK
    <3> QED BY <1>18, <2>1, <3>1, InnerStep, QuietStep DEF ReaderReads, LoopUnchanged
  <2>2. CASE ReaderErrs(n)
    <3>0. ses[n].reader = "read"
      BY <2>2 DEF ReaderErrs
    <3>1. n \in Sessions => InnerChange(ses[n], [ses[n] EXCEPT !.reader = "fail"])
      BY <3>0, InnerUpdates DEF TypeOK
    <3> QED BY <1>18, <2>2, <3>1, InnerStep, QuietStep DEF ReaderErrs, LoopUnchanged
  <2>3. CASE ReaderDelivers(n)
    <3>0. ses[n].reader = "deliver"
      BY <2>3 DEF ReaderDelivers
    <3>1. n \in Sessions => InnerChange(ses[n], [ses[n] EXCEPT !.req = IF @ < ReqCap THEN @ + 1 ELSE @, !.reader = "read"])
      BY <3>0, InnerUpdates DEF TypeOK
    <3> QED BY <1>18, <2>3, <3>1, InnerStep, QuietStep DEF ReaderDelivers, LoopUnchanged
  <2>4. CASE ReaderGivesUp(n)
    <3>0. ses[n].reader = "deliver"
      BY <2>4 DEF ReaderGivesUp
    <3>1. n \in Sessions => InnerChange(ses[n], [ses[n] EXCEPT !.reader = "done"])
      BY <3>0, InnerUpdates DEF TypeOK
    <3>2. n \in Sessions => InnerChange(ses[n], [ses[n] EXCEPT !.reader = "read"])
      BY <3>0, InnerUpdates DEF TypeOK
    <3> QED BY <1>18, <2>4, <3>1, <3>2, InnerStep, QuietStep DEF ReaderGivesUp, LoopUnchanged
  <2>5. CASE ReaderSignals(n)
    <3>0. ses[n].reader = "fail"
      BY <2>5 DEF ReaderSignals
    <3>1. n \in Sessions => InnerChange(ses[n], [ses[n] EXCEPT !.err = @ + 1, !.reader = "done"])
      BY <3>0, InnerUpdates DEF TypeOK
    <3>2. n \in Sessions => InnerChange(ses[n], [ses[n] EXCEPT !.reader = "done"])
      BY <3>0, InnerUpdates DEF TypeOK
    <3> QED BY <1>18, <2>5, <3>1, <3>2, InnerStep, QuietStep DEF ReaderSignals, LoopUnchanged
  <2> QED BY <1>18, <2>1, <2>2, <2>3, <2>4, <2>5 DEF ReaderStep
<1>19. ASSUME NEW s \in Senders, SenderStep(s) PROVE IInv'
  <2>1. CASE SendCall(s) \/ SendLoad(s) \/ SendPanics(s) \/ SendTimesOut(s)
    BY <2>1, QuietStep DEF SendCall, SendLoad, SendPanics, SendTimesOut
  <2>2. CASE SendPut(s)
    <3>1. snd[s].chan \in Sessions => InnerChange(ses[snd[s].chan], [ses[snd[s].chan] EXCEPT !.send = @ + 1])
      BY InnerUpdates DEF TypeOK
    <3> QED BY <1>19, <2>2, <3>1, InnerStep, QuietStep DEF SendPut
  <2> QED BY <1>19, <2>1, <2>2 DEF SenderStep
<1>20. ASSUME NEW h \in Handlers, HandlerStep(h) PROVE IInv'
  <2>1. CASE HandleStart(h) \/ HandleCancelled(h) \/ HandleExit(h)
    BY <2>1, QuietStep DEF HandleStart, HandleCancelled, HandleExit
  <2>2. CASE HandleRequest(h)
    <3>1. hnd[h].chan \in Sessions => InnerChange(ses[hnd[h].chan], [ses[hnd[h].chan] EXCEPT !.req = @ - 1])
      BY InnerUpdates DEF TypeOK
    <3> QED BY <1>20, <2>2, <3>1, InnerStep, QuietStep DEF HandleRequest
  <2>3. CASE HandleEnds(h)
    <3>1. hnd[h].chan \in Sessions => InnerChange(ses[hnd[h].chan], [ses[hnd[h].chan] EXCEPT !.err = @ - 1])
      BY InnerUpdates DEF TypeOK
    <3> QED BY <1>20, <2>3, <3>1, InnerStep, QuietStep DEF HandleEnds
  <2> QED BY <1>20, <2>1, <2>2, <2>3 DEF HandlerStep
<1>21. ASSUME NEW r \in Refreshers, RefreshStep(r) PROVE IInv'
  BY <1>21, QuietStep DEF RefreshStep, RefreshStart, RefreshTimesOut, RefreshWrites
<1>22. CASE LateDisconnect \/ ConnectCall \/ DisconnectCall
  BY <1>22, QuietStep DEF LateDisconnect, ConnectCall, DisconnectCall
<1>23. CASE UNCHANGED vars
  BY <1>23, QuietStep DEF vars
<1> QED
  BY <1>1, <1>2, <1>3, <1>4, <1>5, <1>6, <1>7, <1>8, <1>9, <1>10, <1>11, <1>12, <1>13, <1>14, <1>15, <1>16, <1>17, <1>18, <1>19, <1>20, <1>21, <1>22, <1>23 DEF Next, RunStep

\* The invariant holds in every reachable state.
LEMMA Inductive == Spec => [](TypeOK /\ IInv)
<1>1. Init => IInv
  <2> SUFFICES ASSUME Init PROVE IInv
    OBVIOUS
  <2>1. /\ run.pc = "select" /\ ~run.connect /\ run.session = 0 /\ ~run.timer
        /\ exposed = 0
    BY DEF Init
  <2>2. \A k \in Sessions : k > 0 /\ Untouched(k)
    BY CapAssumption DEF Init, Untouched, Sessions
  <2> QED BY <2>1, <2>2
          DEF IInv, CurrentSession, OtherSessions, ExposedInv, TimerInv, Sessions
<1>2. TypeOK /\ IInv /\ [Next]_vars => (TypeOK /\ IInv)'
  BY TypeStep, IInvStep
<1> QED BY <1>1, <1>2, InitType, PTL DEF Spec

\* readLoop never sends on a closed channel.
THEOREM ReaderNeverPanics == Spec => []DownstreamClosedAfterReader
<1>1. TypeOK /\ IInv => DownstreamClosedAfterReader
  <2> SUFFICES ASSUME TypeOK, IInv, NEW n \in Sessions,
                      ses[n].reqClosed \/ ses[n].errClosed
               PROVE  ses[n].reader = "done"
    BY DEF DownstreamClosedAfterReader
  <2>1. run.session \in Int /\ n \in Int /\ run.pc \in RunPcs
    BY CapAssumption DEF TypeOK, Sessions
  <2>2. CASE n # run.session
    BY <2>1, <2>2 DEF IInv, OtherSessions, Untouched, Ended
  <2>3. CASE n = run.session
    BY <2>1, <2>3 DEF IInv, CurrentSession, Ended, RunPcs
  <2> QED BY <2>2, <2>3
<1> QED BY <1>1, Inductive, PTL

\* The loops of two sessions never run together.
THEOREM SessionsDoNotOverlap == Spec => []OneSessionAtATime
<1>1. TypeOK /\ IInv => OneSessionAtATime
  <2> SUFFICES ASSUME TypeOK, IInv, NEW n \in Sessions, n # run.session
               PROVE  ~LoopsAlive(n)
    BY DEF OneSessionAtATime
  <2>1. run.session \in Int /\ n \in Int
    BY CapAssumption DEF TypeOK, Sessions
  <2> QED BY <2>1 DEF IInv, OtherSessions, Untouched, Ended, LoopsAlive
<1> QED BY <1>1, Inductive, PTL

\* SendMessage only ever loads an open channel of the live session.
THEOREM LoadedChannelIsOpen == Spec => []ExposedSendChanIsOpen
<1>1. TypeOK /\ IInv => ExposedSendChanIsOpen
  BY DEF IInv, ExposedInv, CurrentSession, ExposedSendChanIsOpen
<1> QED BY <1>1, Inductive, PTL

\* A stopped connection leaves no loop, socket or open channel behind.
THEOREM NothingLeftBehind == Spec => []StoppedIsClean
<1>1. TypeOK /\ IInv => StoppedIsClean
  <2> SUFFICES ASSUME TypeOK, IInv, run.pc = "stopped", NEW n \in Sessions
               PROVE  /\ ~LoopsAlive(n) /\ ~ses[n].tcp
                      /\ n <= run.session => ses[n].reqClosed /\ ses[n].errClosed
    BY DEF StoppedIsClean
  <2>1. run.session \in Int /\ n \in Int
    BY CapAssumption DEF TypeOK, Sessions
  <2>2. CASE n > run.session
    BY <2>1, <2>2 DEF IInv, OtherSessions, Untouched, LoopsAlive
  <2>3. CASE n < run.session
    BY <2>1, <2>3 DEF IInv, OtherSessions, Ended, LoopsAlive
  <2>4. CASE n = run.session
    BY <2>4 DEF IInv, CurrentSession, Ended, LoopsAlive
  <2> QED BY <2>1, <2>2, <2>3, <2>4
<1> QED BY <1>1, Inductive, PTL

-----------------------------------------------------------------------------
(* The cache of IsConnect.                                                 *)

\* From cmdDisconnect until cleanup() is through.
Disconnecting ==
    run.pc \in {"hideSendChan", "signal", "closeSend", "waitWriter", "waitReader", "closeReq"}

\* What the cache or an answer that may still be written into it says is true,
\* and remains so: run() answers nobody while it disconnects.
CacheInv ==
    /\ cached => run.connect /\ ~Disconnecting
    /\ \A r \in Refreshers :
          (ref[r].pc = "got" /\ ref[r].val /\ ~fresh) => run.connect /\ ~Disconnecting

\* Steps that leave the cache and the refreshes alone, and do not disconnect.
LEMMA CacheQuiet ==
    ASSUME CacheInv, UNCHANGED <<cached, fresh, ref>>,
           (run.connect /\ ~Disconnecting) => (run.connect /\ ~Disconnecting)'
    PROVE  CacheInv'
  BY DEF CacheInv

\* Steps of other goroutines.
LEMMA CacheElsewhere ==
    ASSUME CacheInv, UNCHANGED <<run, cached, fresh, ref>> PROVE CacheInv'
  BY CacheQuiet DEF Disconnecting

\* A write of the cache that is true makes all answers under way stale.
LEMMA CacheWritten ==
    ASSUME NEW b, SetCached(b), b => (run.connect /\ ~Disconnecting)'
    PROVE  CacheInv'
  BY DEF CacheInv, SetCached

\* With one refresh at a time the cache does not age while an answer waits.
LEMMA CacheStep ==
    ASSUME NEW q, Refreshers = {q}, TypeOK, CacheInv, [Next]_vars PROVE CacheInv'
<1>0. /\ run \in [pc : RunPcs, connect : BOOLEAN, session : 0..MaxSessions, timer : BOOLEAN]
      /\ ref \in [Refreshers -> [pc : {"idle", "wait", "got"}, val : BOOLEAN]]
      /\ cached \in BOOLEAN /\ fresh \in BOOLEAN
  BY DEF TypeOK
<1>1. CASE NewSession
  <2>1. (run.connect /\ ~Disconnecting)'
    BY <1>0, <1>1 DEF NewSession, NoTimer, Disconnecting
  <2>2. SetCached(TRUE)
    BY <1>1 DEF NewSession
  <2> QED BY <2>1, <2>2, CacheWritten
<1>2. CASE RunAccept \/ DialSucceeds
  BY <1>1, <1>2 DEF RunAccept, DialSucceeds
<1>3. CASE RunConnect \/ DialFails \/ StartIO \/ HideSendChan \/ CleanupCloseErr
           \/ RunChannels \/ GraceExpires
  <2>1. (run.connect /\ ~Disconnecting) => (run.connect /\ ~Disconnecting)'
    <3>1. CASE HideSendChan
      BY <3>1 DEF HideSendChan, Disconnecting
    <3>2. CASE RunConnect \/ RunChannels
      BY <1>0, <3>2 DEF Disconnecting, RunConnect, RunChannels, NoTimer
    <3>3. CASE DialFails \/ StartIO \/ CleanupCloseErr \/ GraceExpires
      <4>1. run'.pc \in {"select", "stopped"} /\ run'.connect = run.connect
        BY <1>0, <3>3 DEF DialFails, StartIO, CleanupCloseErr, GraceExpires
      <4> QED BY <4>1 DEF Disconnecting
    <3> QED BY <1>3, <3>1, <3>2, <3>3
  <2> QED BY <1>3, <2>1, CacheQuiet DEF RunConnect, DialFails, StartIO, HideSendChan,
       CleanupCloseErr, RunChannels, GraceExpires
<1>4. CASE RunDisconnect
  BY <1>0, <1>4, CacheQuiet, CacheWritten DEF RunDisconnect, NoTimer
<1>5. CASE CleanupSignal \/ CleanupCloseSend \/ CleanupWaitWriter \/ CleanupWaitReader
           \/ CleanupCloseReq
  <2>1. Disconnecting /\ UNCHANGED <<cached, fresh, ref>>
    BY <1>5 DEF CleanupSignal, CleanupCloseSend, CleanupWaitWriter, CleanupWaitReader,
       CleanupCloseReq, CleanupStep, Disconnecting
  <2> QED BY <2>1, CacheQuiet
<1>6. CASE RunIsConnect
  <2>1. run'.connect = run.connect /\ ~Disconnecting' /\ UNCHANGED <<cached, fresh>>
    BY <1>0, <1>6 DEF RunIsConnect, NoTimer, Take, Disconnecting
  <2>2. \A r \in Refreshers : ref'[r] = ref[r] \/ ref'[r].val = run.connect
    BY <1>0, <1>6 DEF RunIsConnect
  <2> QED BY <2>1, <2>2 DEF CacheInv
<1>7. ASSUME NEW n \in Sessions, WriterStep(n) \/ ReaderStep(n) PROVE CacheInv'
  BY <1>7, CacheElsewhere DEF WriterStep, ReaderStep, WriterTakes, WriterEnds, WriterContinues,
     ReaderReads, ReaderErrs, ReaderDelivers, ReaderGivesUp, ReaderSignals, LoopUnchanged
<1>8. ASSUME NEW s \in Senders, SenderStep(s) PROVE CacheInv'
  <2>1. UNCHANGED <<run, ref>> /\ (UNCHANGED <<cached, fresh>> \/ SetCached(FALSE))
    BY <1>8 DEF SenderStep, SendCall, SendLoad, SendPut, SendPanics, SendTimesOut
  <2> QED BY <2>1, CacheElsewhere, CacheWritten
<1>9. ASSUME NEW h \in Handlers, HandlerStep(h) PROVE CacheInv'
  BY <1>9, CacheElsewhere DEF HandlerStep, HandleStart, HandleRequest, HandleEnds,
     HandleCancelled, HandleExit
<1>10. ASSUME NEW r \in Refreshers, RefreshStep(r) PROVE CacheInv'
  <2>0. run' = run
    BY <1>10 DEF RefreshStep, RefreshStart, RefreshTimesOut, RefreshWrites
  <2>1. CASE RefreshStart(r) \/ RefreshTimesOut(r)
    <3>1. \A x \in Refreshers : ref'[x].pc # "got" /\ cached' = cached
      BY <1>0, <1>10, <2>1 DEF RefreshStart, RefreshTimesOut
    <3> QED BY <2>0, <3>1 DEF CacheInv, Disconnecting
  <2>2. CASE RefreshWrites(r)
    <3>1. \A x \in Refreshers : ref'[x].pc # "got"
      BY <1>0, <1>10, <2>2 DEF RefreshWrites
    <3>2. cached' => run.connect /\ ~Disconnecting
      BY <1>10, <2>2 DEF RefreshWrites, CacheInv, SetCached
    <3> QED BY <2>0, <3>1, <3>2 DEF CacheInv, Disconnecting
  <2> QED BY <1>10, <2>1, <2>2 DEF RefreshStep
<1>11. CASE LateDisconnect \/ ConnectCall \/ DisconnectCall \/ UNCHANGED vars
  BY <1>11, CacheElsewhere DEF LateDisconnect, ConnectCall, DisconnectCall, vars
<1> QED BY <1>2, <1>3, <1>4, <1>5, <1>6, <1>7, <1>8, <1>9, <1>10, <1>11 DEF Next, RunStep

\* IsConnect's cache does not come back after a disconnect, however the refresh
\* and run() interleave, as long as one refresh is under way at a time.
THEOREM CacheStaysDown ==
    ASSUME NEW q, Refreshers = {q} PROVE Spec => []CacheNotRevived
<1>1. Init => CacheInv
  BY DEF Init, CacheInv
<1>2. TypeOK /\ CacheInv /\ [Next]_vars => CacheInv'
  BY CacheStep
<1>3. CacheInv => CacheNotRevived
  BY DEF CacheInv, CacheNotRevived
<1> QED BY <1>1, <1>2, <1>3, TypeCorrect, PTL DEF Spec
=============================================================================
