--------------------------- MODULE ParentReconnect ---------------------------
(***************************************************************************)
(* The client's link to its parent node: src/pkg/client-tcp/client.go      *)
(* (NewClient, ReconnectToParent, handleParentDisconnectWithResubscribe,   *)
(* reSubscribeToAddresses, ParentSubcribes, Close) on top of               *)
(* HandleConnection, OnDisconnect and Stop of src/pkg/network/server.go.   *)
(*                                                                         *)
(* Every connection, to the parent or not, has a HandleConnection          *)
(* goroutine.  When it ends it removes the connection, runs the            *)
(* disconnect callbacks and disconnects.  The client's callback starts a   *)
(* goroutine that dials the parent until it succeeds, makes the new        *)
(* connection the parent and subscribes again.  The calls that send to the *)
(* parent (SendTransaction..., ReadTransaction... and more) do the first   *)
(* two of these themselves when they find no connected parent, and do not  *)
(* subscribe.                                                              *)
(*                                                                         *)
(* Connections are numbered in the order in which they are made; attempts  *)
(* that fail leave nothing behind and are not numbered.                    *)
(***************************************************************************)
EXTENDS Integers, FiniteSets

CONSTANTS
    Addrs,       \* contract addresses to subscribe to
    MaxBreaks,   \* bound on the connections that break
    MaxOthers,   \* bound on connections that are not to the parent
    Calls        \* bound: the calls that find no connected parent

ASSUME ReconnectAssumption == MaxBreaks \in Nat /\ MaxOthers \in Nat /\ IsFiniteSet(Calls)

\* One connection of NewClient, the others, one to replace each that breaks, and one
\* of each call: nothing below stops at this number, ReconnectTypeOK says that it is
\* enough.
Conn == 1..(1 + MaxOthers + MaxBreaks + Cardinality(Calls))

None == 0

VARIABLES
    link,        \* state of each connection
    toParent,    \* connections dialled to the parent
    made,        \* connections made so far
    breaks,      \* connections broken so far
    parent,      \* ConnectionsManager.parentConnection
    handler,     \* the HandleConnection goroutine of each connection
    callback,    \* is the disconnect callback registered
    boot,        \* where NewClient is
    retry,       \* the goroutine started when a connection was lost
    caller,      \* where each call is in ReconnectToParent
    wanted,      \* subscribeSCAddresses
    asked,       \* where the ParentSubcribes call for each address is
    subscribed,  \* what the parent was asked for over each connection
    stopped,     \* Close has cancelled the context
    missed       \* a connection was lost while no callback was registered

reconnectVars ==
    <<link, toParent, made, breaks, parent, handler, callback, boot, retry, caller,
      wanted, asked, subscribed, stopped, missed>>

\* The bound on made says that each lost connection is replaced at most once in the
\* background, and that a call makes at most one.
ReconnectTypeOK ==
    /\ link \in [Conn -> {"unused", "up", "broken", "closed"}]
    /\ toParent \in SUBSET Conn
    /\ made \in 0..(1 + MaxOthers + MaxBreaks + Cardinality(Calls))
    /\ breaks \in 0..MaxBreaks
    /\ parent \in Conn \cup {None}
    /\ handler \in [Conn -> {"none", "run", "removed", "called", "left"}]
    /\ callback \in BOOLEAN
    /\ boot \in {"dial", "add", "handle", "register", "done"}
    /\ retry \in [Conn -> [pc : {"none", "check", "dial", "add", "handle", "target",
                                 "resub", "end"},
                           conn : Conn \cup {None}]]
    /\ caller \in [Calls -> [pc : {"no", "dial", "add", "handle", "done"},
                             conn : Conn \cup {None}]]
    /\ wanted \in SUBSET Addrs
    /\ asked \in [Addrs -> {"no", "appended", "sent"}]
    /\ subscribed \in [Conn -> SUBSET Addrs]
    /\ stopped \in BOOLEAN /\ missed \in BOOLEAN

ReconnectInit ==
    /\ link = [c \in Conn |-> "unused"]
    /\ toParent = {} /\ made = 0 /\ breaks = 0
    /\ parent = None
    /\ handler = [c \in Conn |-> "none"]
    /\ callback = FALSE /\ boot = "dial"
    /\ retry = [c \in Conn |-> [pc |-> "none", conn |-> None]]
    /\ caller = [k \in Calls |-> [pc |-> "no", conn |-> None]]
    /\ wanted = {}
    /\ asked = [a \in Addrs |-> "no"]
    /\ subscribed = [c \in Conn |-> {}]
    /\ stopped = FALSE /\ missed = FALSE

Fresh == made + 1

\* Connect succeeds.
Connects ==
    /\ made' = Fresh
    /\ link' = [link EXCEPT ![Fresh] = "up"]

-----------------------------------------------------------------------------
(* NewClient.                                                              *)

\* The first dial that succeeds.
BootDial ==
    /\ boot = "dial" /\ boot' = "add"
    /\ Connects
    /\ toParent' = toParent \cup {Fresh}
    /\ UNCHANGED <<breaks, parent, handler, callback, retry, caller, wanted, asked, subscribed,
                   stopped, missed>>

BootAdd ==
    /\ boot = "add" /\ boot' = "handle"
    /\ parent' = 1
    /\ UNCHANGED <<link, toParent, made, breaks, handler, callback, retry, caller, wanted, asked,
                   subscribed, stopped, missed>>

BootHandle ==
    /\ boot = "handle" /\ boot' = "register"
    /\ handler' = [handler EXCEPT ![1] = "run"]
    /\ UNCHANGED <<link, toParent, made, breaks, parent, callback, retry, caller, wanted, asked,
                   subscribed, stopped, missed>>

\* AddOnDisconnectedCallBack, after HandleConnection and Listen were started.
BootRegister ==
    /\ boot = "register" /\ boot' = "done"
    /\ callback' = TRUE
    /\ UNCHANGED <<link, toParent, made, breaks, parent, handler, retry, caller, wanted, asked,
                   subscribed, stopped, missed>>

-----------------------------------------------------------------------------
(* Connections and their handlers.                                         *)

\* Listen accepts a connection, or Subcribe opens one to a storage node.
OpenOther ==
    /\ boot \in {"register", "done"} /\ ~stopped
    /\ Cardinality((1..made) \ toParent) < MaxOthers
    /\ Connects
    /\ handler' = [handler EXCEPT ![Fresh] = "run"]
    /\ UNCHANGED <<toParent, breaks, parent, callback, boot, retry, caller, wanted, asked,
                   subscribed, stopped, missed>>

\* The peer goes away.  IsConnect holds until the handler disconnects.
Break(c) ==
    /\ link[c] = "up" /\ breaks < MaxBreaks
    /\ link' = [link EXCEPT ![c] = "broken"]
    /\ breaks' = breaks + 1
    /\ UNCHANGED <<toParent, made, parent, handler, callback, boot, retry, caller, wanted, asked,
                   subscribed, stopped, missed>>

IsConnect(c) == link[c] \in {"up", "broken"}

\* Mutants of HandlerLeaves: the parent is not cleared; the context is not
\* looked at.
LeavesParentSet(c) ==
    /\ handler[c] = "run" /\ (link[c] = "broken" \/ stopped)
    /\ handler' = [handler EXCEPT ![c] = "removed"]
    /\ UNCHANGED <<link, toParent, made, breaks, parent, callback, boot, retry, caller, wanted,
                   asked, subscribed, stopped, missed>>

LeavesOnlyBroken(c) ==
    /\ handler[c] = "run" /\ link[c] = "broken"
    /\ handler' = [handler EXCEPT ![c] = "removed"]
    /\ parent' = IF parent = c THEN None ELSE parent
    /\ UNCHANGED <<link, toParent, made, breaks, callback, boot, retry, caller, wanted, asked,
                   subscribed, stopped, missed>>

\* HandleConnection ends on an error or on ctx.Done(); RemoveConnection.
HandlerLeaves(c) ==
    /\ handler[c] = "run" /\ (link[c] = "broken" \/ stopped)
    /\ handler' = [handler EXCEPT ![c] = "removed"]
    /\ parent' = IF parent = c THEN None ELSE parent
    /\ UNCHANGED <<link, toParent, made, breaks, callback, boot, retry, caller, wanted, asked,
                   subscribed, stopped, missed>>

\* The rest of OnDisconnect; the callback does not ask which connection it was.
RunCallbacks(c) ==
    /\ handler[c] = "removed"
    /\ handler' = [handler EXCEPT ![c] = "called"]
    /\ retry' = IF callback THEN [retry EXCEPT ![c].pc = "check"] ELSE retry
    /\ missed' = (missed \/ ~callback)
    /\ UNCHANGED <<link, toParent, made, breaks, parent, callback, boot, caller, wanted, asked,
                   subscribed, stopped>>

DisconnectLast(c) ==
    /\ handler[c] = "called"
    /\ handler' = [handler EXCEPT ![c] = "left"]
    /\ link' = [link EXCEPT ![c] = "closed"]
    /\ UNCHANGED <<toParent, made, breaks, parent, callback, boot, retry, caller, wanted, asked,
                   subscribed, stopped, missed>>

-----------------------------------------------------------------------------
(* The goroutine of handleParentDisconnectWithResubscribe.                 *)

RetryGoes(g, from, to) == retry[g].pc = from /\ retry' = [retry EXCEPT ![g].pc = to]

RetryCheck(g) ==
    /\ RetryGoes(g, "check", IF stopped THEN "end" ELSE "dial")
    /\ UNCHANGED <<link, toParent, made, breaks, parent, handler, callback, boot, caller, wanted,
                   asked, subscribed, stopped, missed>>

RetryDial(g) ==
    /\ retry[g].pc = "dial"
    /\ retry' = [retry EXCEPT ![g] = [pc |-> "add", conn |-> Fresh]]
    /\ Connects
    /\ toParent' = toParent \cup {Fresh}
    /\ UNCHANGED <<breaks, parent, handler, callback, boot, caller, wanted, asked, subscribed,
                   stopped, missed>>

RetryDialFails(g) ==
    /\ RetryGoes(g, "dial", "check")
    /\ UNCHANGED <<link, toParent, made, breaks, parent, handler, callback, boot, caller, wanted,
                   asked, subscribed, stopped, missed>>

\* AddParentConnection overwrites a parent that is still connected.
RetryAdd(g) ==
    /\ RetryGoes(g, "add", "handle")
    /\ parent' = retry[g].conn
    /\ UNCHANGED <<link, toParent, made, breaks, handler, callback, boot, caller, wanted, asked,
                   subscribed, stopped, missed>>

\* Mutants of RetryHandle: the loop goes on after a success; nothing is
\* subscribed again.
RetryHandleAgain(g) ==
    /\ RetryGoes(g, "handle", "check")
    /\ handler' = [handler EXCEPT ![retry[g].conn] = "run"]
    /\ UNCHANGED <<link, toParent, made, breaks, parent, callback, boot, caller, wanted, asked,
                   subscribed, stopped, missed>>

RetryHandleOnly(g) ==
    /\ RetryGoes(g, "handle", "end")
    /\ handler' = [handler EXCEPT ![retry[g].conn] = "run"]
    /\ UNCHANGED <<link, toParent, made, breaks, parent, callback, boot, caller, wanted, asked,
                   subscribed, stopped, missed>>

RetryHandle(g) ==
    /\ RetryGoes(g, "handle", IF wanted = {} THEN "end" ELSE "target")
    /\ handler' = [handler EXCEPT ![retry[g].conn] = "run"]
    /\ UNCHANGED <<link, toParent, made, breaks, parent, callback, boot, caller, wanted, asked,
                   subscribed, stopped, missed>>

\* reSubscribeToAddresses asks the manager again, which may know another one.
ResubTarget(g) ==
    /\ retry[g].pc = "target"
    /\ retry' = [retry EXCEPT ![g] =
                   IF parent # None /\ IsConnect(parent)
                   THEN [pc |-> "resub", conn |-> parent] ELSE [@ EXCEPT !.pc = "end"]]
    /\ UNCHANGED <<link, toParent, made, breaks, parent, handler, callback, boot, caller, wanted,
                   asked, subscribed, stopped, missed>>

\* What is sent over a broken connection is lost.
Reaches(c) == c # None /\ link[c] = "up"

ResubSend(g) ==
    /\ RetryGoes(g, "resub", "end")
    /\ subscribed' = IF Reaches(retry[g].conn)
                     THEN [subscribed EXCEPT ![retry[g].conn] = @ \cup wanted] ELSE subscribed
    /\ UNCHANGED <<link, toParent, made, breaks, parent, handler, callback, boot, caller, wanted,
                   asked, stopped, missed>>

-----------------------------------------------------------------------------
(* ReconnectToParent in a call.  Nothing asks whether the client is closed.*)

CallGoes(k, from, to) == caller[k].pc = from /\ caller' = [caller EXCEPT ![k].pc = to]

CallBegins(k) ==
    /\ boot = "done" /\ (parent # None => ~IsConnect(parent))
    /\ CallGoes(k, "no", "dial")
    /\ UNCHANGED <<link, toParent, made, breaks, parent, handler, callback, boot, retry,
                   wanted, asked, subscribed, stopped, missed>>

CallDial(k) ==
    /\ caller[k].pc = "dial"
    /\ caller' = [caller EXCEPT ![k] = [pc |-> "add", conn |-> Fresh]]
    /\ Connects
    /\ toParent' = toParent \cup {Fresh}
    /\ UNCHANGED <<breaks, parent, handler, callback, boot, retry, wanted, asked,
                   subscribed, stopped, missed>>

\* The error is returned to the user.
CallDialFails(k) ==
    /\ CallGoes(k, "dial", "done")
    /\ UNCHANGED <<link, toParent, made, breaks, parent, handler, callback, boot, retry,
                   wanted, asked, subscribed, stopped, missed>>

CallAdd(k) ==
    /\ CallGoes(k, "add", "handle")
    /\ parent' = caller[k].conn
    /\ UNCHANGED <<link, toParent, made, breaks, handler, callback, boot, retry, wanted,
                   asked, subscribed, stopped, missed>>

CallHandle(k) ==
    /\ CallGoes(k, "handle", "done")
    /\ handler' = [handler EXCEPT ![caller[k].conn] = "run"]
    /\ UNCHANGED <<link, toParent, made, breaks, parent, callback, boot, retry, wanted,
                   asked, subscribed, stopped, missed>>

-----------------------------------------------------------------------------
(* The user of the client.                                                 *)

\* ParentSubcribes records the address first, and sends then.
SubscribeAppend(a) ==
    /\ boot = "done" /\ asked[a] = "no"
    /\ asked' = [asked EXCEPT ![a] = "appended"]
    /\ wanted' = wanted \cup {a}
    /\ UNCHANGED <<link, toParent, made, breaks, parent, handler, callback, boot, retry, caller,
                   subscribed, stopped, missed>>

\* An error, such as no parent, is returned to the user; the address stays.
SubscribeSend(a) ==
    /\ asked[a] = "appended"
    /\ asked' = [asked EXCEPT ![a] = "sent"]
    /\ subscribed' = IF Reaches(parent)
                     THEN [subscribed EXCEPT ![parent] = @ \cup {a}] ELSE subscribed
    /\ UNCHANGED <<link, toParent, made, breaks, parent, handler, callback, boot, retry, caller,
                   wanted, stopped, missed>>

\* AddParentConnection(nil) is ignored; Stop cancels the context.
Close ==
    /\ boot = "done" /\ ~stopped
    /\ stopped' = TRUE
    /\ UNCHANGED <<link, toParent, made, breaks, parent, handler, callback, boot, retry, caller,
                   wanted, asked, subscribed, missed>>

-----------------------------------------------------------------------------
HandlerStep(c) == HandlerLeaves(c) \/ RunCallbacks(c) \/ DisconnectLast(c)

RetryStep(g) ==
    \/ RetryCheck(g) \/ RetryDial(g) \/ RetryDialFails(g) \/ RetryAdd(g)
    \/ RetryHandle(g) \/ ResubTarget(g) \/ ResubSend(g)

CallStep(k) == CallDial(k) \/ CallDialFails(k) \/ CallAdd(k) \/ CallHandle(k)

BootStep == BootDial \/ BootAdd \/ BootHandle \/ BootRegister

GoroutineStep ==
    \/ BootStep
    \/ \E c \in Conn : HandlerStep(c) \/ RetryStep(c)
    \/ \E k \in Calls : CallStep(k)
    \/ \E a \in Addrs : SubscribeSend(a)

ReconnectNext ==
    \/ GoroutineStep
    \/ OpenOther
    \/ \E c \in Conn : Break(c)
    \/ \E k \in Calls : CallBegins(k)
    \/ \E a \in Addrs : SubscribeAppend(a)
    \/ Close

ReconnectSpec == ReconnectInit /\ [][ReconnectNext]_reconnectVars

\* Goroutines are scheduled, and a parent that is dialled again and again is reached in
\* the end.  One condition for all goroutines assumes less than one for each, and is
\* enough: between two dials that fail each has only a few steps to make.
ReconnectFairSpec ==
    /\ ReconnectSpec
    /\ WF_reconnectVars(GoroutineStep)
    /\ SF_reconnectVars(\E g \in Conn : RetryDial(g))

-----------------------------------------------------------------------------
(* Properties                                                              *)

\* Whatever is registered as the parent has a handler, or is about to get one,
\* that will take it out again when it is lost: reconnects that overlap never
\* leave a dead parent behind.
ParentIsWatched ==
    parent # None =>
        \/ handler[parent] = "run"
        \/ boot = "handle" /\ parent = 1
        \/ \E g \in Conn : retry[g].pc = "handle" /\ retry[g].conn = parent
        \/ \E k \in Calls : caller[k].pc = "handle" /\ caller[k].conn = parent

\* An address the user subscribed to ends up subscribed over a connection that is up,
\* whatever breaks while ParentSubcribes or a reconnect is at work.  It need not be the
\* parent: a call that reconnects at the same time may put its own connection, which
\* nobody subscribes over, in the place of the one that was subscribed over.  Events
\* arrive over any of them, since each has a handler.
SubscriptionsSurvive ==
    \A a \in Addrs :
        (a \in wanted) ~>
            (stopped \/ missed \/ \E c \in Conn : link[c] = "up" /\ a \in subscribed[c])

\* After Close every connection is closed in the end, the ones too that a reconnect
\* under way or a later call still makes.
ClosedForGood ==
    stopped ~> [](\A c \in Conn : link[c] \in {"unused", "closed"})

=============================================================================
