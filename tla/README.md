# Verification of the metanode client stack

This directory specifies, model-checks and proves properties of the Go packages under
`src/pkg/` of metanode-suite: the TCP stack with which every tool of the suite talks to a
node, the client built on it and two storage engines; and of the checker that watches the
nodes of a test net for forks (`src/block/block_hash_checker`). Everything else in the repository (load generators, deployment scripts, explorers,
contract tooling) is a set of main programs that use these packages. The node itself,
which `docs/` describes, is not in the repository.

The modules are translated from the Go code. `PROJECT.json` maps each definition to the
lines it stands for, lists the runs, the mutants that show that each property can fail,
the hazards the properties are aimed at, and the theorems.

## 1. The system

### Components

| component | source | state it keeps | operations | modelled in |
|---|---|---|---|---|
| Connection | `pkg/network/connection.go` | command channel, the session's socket and three channels, cached metadata | Connect, Disconnect, SendMessage, RequestChan, IsConnect, Clone, Init; readLoop, writeLoop | `Connection` |
| Circuit breaker | `pkg/network/circuit_breaker.go` | state, failure and request counters, metrics | CanExecute, RecordSuccess, RecordFailure, Reset | `CircuitBreaker` |
| Socket server | `pkg/network/server.go` | central request channel, worker pool, context | Listen, HandleConnection, Stop | `SocketServer`; `Connection` (as user of a session) |
| Connections manager | `pkg/network/connections_manager.go` | sharded maps of connections, parent connection | Add, Remove, HealthCheck, AddParentConnection | `ParentReconnect` (the parent) |
| Receipt router | `pkg/client-tcp/client.go`, `network/handler.go` | registered waiters, pending receipts | runReceiptRouter, waitReceipt | `ReceiptRouter` |
| Request/response matching | `pkg/client-tcp/client.go`, `client_chain.go`, `network/handler.go` | pending maps by request ID | sendRpcRequest, sendChainRequest, ChainRegisterAccountWait, the response handlers | `PendingRequests` |
| Parent reconnect | `pkg/client-tcp/client.go`, `pkg/network/server.go` | parent connection, reconnect goroutines | NewClient, ReconnectToParent, OnDisconnect, Close | `ParentReconnect` |
| Sending transactions | `pkg/client-tcp/client.go`, `controllers`, `utils/tx_helper` | account state and device key channels, nonce cache | the Send and Read calls, the nonce helpers | `TransactionFlow` |
| File store | `pkg/storage/simpledb.go` | data file, index file, in-memory index | Put, BatchPut, Get, Delete, Compact, Close, restart | `FileStore`, implements `SavedMap` |
| LevelDB, Badger, memory stores | `pkg/storage` | open instances, batches | open, close, batch write | not modelled, see section 5 |
| Remote storage | `pkg/storage/remote_storage_*.go` | pending requests by ID | get, put, delete, batches, backup path, response handler; the service's handler | `RemoteStorage` |
| Block hash checker | `block/block_hash_checker/main.go` | last verified block | poll heights, fetch and compare batches, search, stop flag | `BlockHashChecker` |
| Account state | `pkg/state/account_state.go` | balance, pending balance, nonce, ... | add, sub, commit pending | not modelled |
| Trie | `pkg/trie` | nodes, tracer, committed node set | insert, delete, get, hash, commit | not modelled |
| Transactions, receipts, BLS, protobuf | `pkg/transaction`, `pkg/receipt`, `pkg/bls`, `pkg/proto` | none | encoding, signing, getters | not modelled: data formats and cryptography |
| Logging | `pkg/logger`, `pkg/loggerfile` | files | write, rotate, clean | not modelled: output only |

### How they interact

A `Connection` is an actor: one goroutine, `run()`, owns its state and takes commands
from `cmdChan`. Each session (a dial or an accept) adds a `writeLoop` that drains
`sendChan` and a `readLoop` that fills `requestChan` and reports its end on `errorChan`.
`SocketServer.HandleConnection` drains these two channels, funnels requests into the
central `requestChan` for the worker pool, and on the end of a connection removes it from
the `ConnectionsManager`, runs the disconnect callbacks and calls `Disconnect`. In a
client, a callback reconnects to the parent. Workers run the client's `Handler`, which
answers pending requests by ID or pushes receipts and errors into shared channels; the
receipt router takes them from there. The calls that send transactions share one channel
of account states, one of device keys and a nonce cache. A remote storage is a second user
of a connection, with its own request matching; behind it the service may use any store.

### What is hard

* references to channels outlive the lock they were read under, and closing a Go channel
  under a sender is a panic that ends the process;
* teardown has to stop two goroutines that may be blocked on a socket or a full channel;
* reconnects reuse the object, its wait groups and its timers;
* channels and pools are bounded, and their full case is a silent drop in some places and
  a blocked worker in others;
* timeouts race with the answer they wait for, and answers arrive late, twice or never;
* lock-free maps are used with load-then-delete sequences;
* shutdown closes channels that other goroutines still use;
* answers without an id are taken from a shared channel by whoever comes first;
* a store rewrites its index at every write and replaces its files without a journal;
* a watcher compares nodes that change while it reads them.

For each component the correctness properties are listed with its module below; the
hazards in `PROJECT.json` give the line where each one bites.

## 2. Modules

### Connection

`run` holds the locals of `run()`: where it is (`pc`), `connect`, the number of its latest
session and whether the shutdown timer is armed. `ses[n]` is session `n`: lengths and
closed flags of its three channels, the quit channel, the socket and where its two loops
are. Channels carry no contents, only lengths; a reference to a channel is the number of
its session. `exposed` is `c.sendChan`, `cached`/`fresh` are `cachedConnected` and the age
of the metadata cache, `snd`, `hnd` and `ref` are the goroutines in `SendMessage`,
`HandleConnection` and the refresh that `IsConnect` spawns. Every command is one action up
to its first blocking or visible point; `cleanup()` is split into its six steps because
the loops, senders and handlers run between them. A panic sets `crashed` and nothing
happens after it.

Commands that touch only metadata (init, clone, the getters) are left out: on this state
they do what `isConnect` does, stop the shutdown timer.

| run | what it shows | bounds |
|---|---|---|
| `connection_safety` | the order of `cleanup()`: the reader never meets a closed channel (`DownstreamClosedAfterReader`), sessions do not overlap (`OneSessionAtATime`), what senders can load is open (`ExposedSendChanIsOpen`), a stopped `run()` leaves nothing behind (`StoppedIsClean`), a refresh started before a disconnect does not bring the cached flag back (`CacheNotRevived`) | 2 sessions so that a reconnect meets the remains of the first, 1 sender, 1 handler, 1 refresher (with two, 500 ms may pass between them), all channels of capacity 1 so that both full and empty happen |
| `connection_liveness` | `cleanup()` always returns (`CleanupTerminates`); the loss of the peer ends in a closed socket (`PeerLossClosesSession`) | 1 session, 2 commands queued, senders that retry |

Seen while modelling, without a run: a send right after an accept is refused instead of
retried, although the comment in `SendMessage` promises the retry; `cachedConnected` is
tested first (`SendCall`).

Fairness: `run()`, the loops and the handler are goroutines and run when they can; a read
on a closed socket fails in the end (strong fairness, because the bufio buffer may still
serve some reads). Callers are not obliged to call and timers not to fire. Deadlock is not
checked: after the grace period the object is meant to stop.

Proved (`ConnectionProofs`), for any number of sessions and callers and any capacities:
type correctness and the safety invariants of `connection_safety`. They are not
inductive by themselves: that the reader has returned when its channels are closed depends
on where in `cleanup()` `run()` is. The inductive invariant `IInv` says what the program
counter of `run()` implies for the latest session (`CurrentSession`), that earlier sessions
have ended and later ones are untouched (`OtherSessions`), that `sendChan` is exposed only
while connected (`ExposedInv`), and that the timer is armed only while disconnected
(`TimerInv`). `InnerStep` covers all steps of loops, senders and handlers at once: they
neither open nor close anything. The assumptions are the capacities (at least 1) and that
callers have names of their own.

`CacheNotRevived` is proved for one refresh at a time, as the run has it: with two, the
cache may age out between them and a late answer revive the flag. Its invariant, `CacheInv`,
says that the cached flag, and an answer that may still be written into the cache, is only
true while `run()` is connected and not in `cleanup()`, where it answers nobody.

### CircuitBreaker

Every method holds the mutex, so a method is an action; the branches of `CanExecute` by
state are actions of their own. Callers admitted but not yet reported are `inFlight`; the
report is deferred in `HandleRequest`, hence exactly once, hence the fairness of
`HalfOpenEnds`. (The calls in `HandleRequest` are commented out at this commit; the
breaker is constructed and reset by the handler only.) Time is one bit, `cooled`. `probes` is a history variable: callers
admitted since the breaker last became half-open.

The run `breaker` (3 callers, limits 2 and 2, 9 calls) checks that late reports never wedge
the half-open period (`QuotaUsedMeansInFlight`, and as liveness `HalfOpenEnds`), that a
closed circuit is below its limit (`ClosedIsBelowLimit`). The number of probes
(`HalfOpenAdmitsAtMost`) and the books (`MetricsAddUp`) are proved and not in the run. The comment at `maxRequests` calls
it the largest number of requests in HALF_OPEN; the request that makes the transition is
not counted, so the bound that holds, and is proved, is `maxRequests + 1`.

Proved (`ServerProofs`): these four invariants and type correctness for any finite set of callers and any
limits with `maxFailures` at least 1. The invariant adds `ProbesCounted` (the quota counter
is one less than the probes); the books need the cardinality of `inFlight`.

### ReceiptRouter

The router goroutine handles one message at a time, so a message is an action. Register
and cancel requests go over an unbuffered channel: call and router meet in one action. The
lists `waiters[hash]` are the set of registered calls (order does not matter, all matching
entries are served). `seen` and `orphaned` are history variables. The pushes of
`handleReceipt` and `handleTransactionError` into channels of capacity 1 are actions that
block when the channel is full.

The run `receipts` (2 calls, 2 hashes, 2 messages from the server) checks that
the router's non-blocking send never drops (`RegisteredIsUnserved`), that a timeout racing a receipt
loses nothing (`TimeoutMeansNotSeen`), and that a waiting call is known (`WaitingIsKnown`).
The last two have one exception, which the model states as the code has it: a call that
finds a pending receipt past its TTL is neither served nor registered (`break` leaves the
`switch`), and waits out its timeout. As liveness, calls with a timeout return
(`TimedCallsReturn`), given that router, calls and timers run.
Deadlock is not checked: calls without a timeout may wait for ever.

Proved (`ClientProofs`): type correctness, these three invariants, the routing
(`RightReceipt`) and that the router keeps no entry of a finished call (`NoStaleEntry`), for
any sets of calls and hashes. The inductive invariant is stated call by call (`CallInv`) and adds that
pending receipts are kept under their own hash, that an idle call has an empty channel and
that a receipt seen by an unfinished call is in its channel.

### PendingRequests

A call is one run of `sendRpcRequest`, `sendChainRequest` or `ChainRegisterAccountWait`
(`kind`); its id is the call itself, since ids are fresh. `pending` stands for the two
sync.Maps, `respCh` for the channel each call makes, `worker` for what a worker of the
socket server has looked up and is about to send. The lookup (`Dispatch`, a
`LoadAndDelete`, or a `Load` for an ack) and the send (`Deliver`, which blocks on a full
channel) are two steps, and everything else may happen in between. `Commands` groups
message types by the way they are handled; account states, transaction errors and receipts
that no id claims go to the shared channel of capacity 1 (`DeliverShared`), late answers to
a call that has returned included.

The run `pending` (2 calls of any kinds, 2 workers so that ack and result overtake each
other, 2 messages per id so that one is a duplicate or late) checks that a worker never
blocks on a caller's channel (`WorkersNeverBlock`), that a waiting call can be reached (`WaitingIsReachable`) and that every
call returns (`CallsReturn`).

Assumption: the parent acknowledges a registration once (`MayAnswer`, external). The
channel of capacity 2 provides for ack and result; a second ack could block a worker.
`WaitingIsReachable` has one exception, as in the code: a registration that receives a
command it does not know goes on waiting although its entry is used up (`derailed`).
Fairness: calls and workers are scheduled and timers fire. Nothing is assumed of the parent
or of the readers of the shared channel. Deadlock is not checked: calls end.

Proved (`PendingRequestsProofs`), for every set of calls and workers and every
`MaxAnswers`: `TypeOK`, `WorkersNeverBlock`, `WaitingIsReachable`, and that no
entry outlives its call (`NoPendingLeak`). The
assumptions are that `NoCall` is not a call and that `MaxAnswers` is a natural number; the
one ack per registration is in `MayAnswer`. None of the four is inductive: that there is
room in a channel depends on what other workers hold. `IInv` adds, for each call, where
its messages are. A message is an ack, which leaves the entry, or another one, which takes
the entry out. Of each sort at most one exists, in the channel or in the hand of one
worker, and it is paid for: an ack by `acked`, the other by the entry, which is gone
(`AckInv`, `LastInv`). So a channel with room for two never fills for a registration while
a message is carried to it, and a channel with room for one suffices where no ack is sent.
`EntryInv` ties the entry to the life of the call, and `ReachInv` says that a waiting call
without its entry has the other message in channel or hand. The proof goes by action:
`Frame` and `OtherCall` deal with what a step does not touch, `OwnCall`, `DispatchKeeps`
and `DeliverKeeps` with what it does.

### ParentReconnect

Connections are numbered as they are made. `link` is the state of a connection, `handler`
where its `HandleConnection` is (running, after `RemoveConnection`, after the callbacks,
after `Disconnect`), `retry[c]` the goroutine that the disconnect callback started when `c`
was lost, `caller[k]` a call that found no connected parent, `boot` where `NewClient` is. `wanted` is `subscribeSCAddresses`, `subscribed[c]`
what the parent knows over connection `c`. Bounds: `MaxBreaks` connections break,
`MaxOthers` are not to the parent, `Calls` find no connected parent. Nothing limits the
number of connections that the code makes; that `1 + MaxOthers + MaxBreaks +
Cardinality(Calls)` are enough is part of `ReconnectTypeOK`, so each loss is answered by at
most one new connection in the background, and each such call makes at most one more.

The calls are those that start with `parentConn == nil || !parentConn.IsConnect()` and then
run `ReconnectToParent` themselves (client.go:851, 928, 988, 1065, 1124, 1180, 1235, 1334,
1436, 1552, 1867): they dial once, put their connection in the parent's place and start its
handler, without subscribing. What a call sends afterwards is the business of the other
modules. A call finds the parent gone between `RemoveConnection` and the reconnect of the
goroutine, so both are under way at once and either may be last to register.

Two runs, each with 2 breaks, so that a reconnect breaks in turn or two overlap:
`reconnect` with a call, `reconnect_others` with a connection that is not to the parent (all
at once is beyond what TLC checks of the liveness in minutes). They check that whatever is
registered as parent has a handler or is about to get one (`ParentIsWatched`), that there are
not more connections than said above (`ReconnectTypeOK`), that an address once asked for is in
the end subscribed over a connection that is up (`SubscriptionsSurvive`), which needs a lost
one to be replaced, and that after `Close` every connection ends, the one of a later call too
(`ClosedForGood`).

`SubscriptionsSurvive` does not say that the subscription is on the registered parent: a
call that reconnects between the goroutine's `reSubscribeToAddresses` and the next loss may
put a connection without subscriptions in its place. The subscribed one stays open with its
handler, and events are taken from any connection, so the user still gets them; once it
breaks its own goroutine subscribes again. The property leaves out clients that lost a
connection before `NewClient` had registered its callback (`missed`): nothing renews what was
subscribed over such a connection, because the handler is started first (section 4).

Seen while modelling, without a run of their own: the callback does not look at the
connection, so the loss of any connection dials the parent again, and the earlier link
stays open until it breaks; `Close` calls `AddParentConnection(nil)` "to avoid reconnect",
which does nothing, and a reconnect past its context check connects after `Close` (its
connection is closed again, which `ClosedForGood` shows). `RetryConnectToStorage`
(client.go:1806) is called by nothing and is left out.

Fairness: goroutines are scheduled, and `RetryDial` is strongly fair, that is, a parent that
is dialled again and again is reached in the end; the loop retries every second for
ever. Without it the client simply keeps trying.

Proved (`ClientProofs`), for any number of breaks, calls, other connections and addresses:
`ReconnectTypeOK`, the bound on the connections included, and
`ParentIsWatched`. The count needs an invariant across connections: every goroutine that
has dialled stands for a connection that broke, no two for the same one, and a goroutine
about to dial for one that no other has answered. `CountInv` says it with the set of
connections that have broken, which is not part of the state and is therefore quantified
over: there is a set with as many members as there were breaks that, until `Close`, holds
every connection that has lost its handler. `NumberInv` and `RetryInv` say what the numbers in use and the stage of each goroutine
imply: the connection it brings has no handler yet, so `HandleConnection` is started once.
`RequesterInv` says the same of the calls, and that no call shares its connection with a goroutine.
The names of this module and of `SocketServer` carry a prefix (`ReconnectInit`,
`ServerNext`) so that one module of proofs can extend two components.

### SocketServer

`handler[c]` is the `HandleConnection` goroutine of connection `c`, `hand[c]` the request it
has taken; `queue` is the central channel, `worker`/`work` the pool; `listen` and `stop` are
where `Listen` and `Stop` are. Requests are the objects of `requestPool`: `free` are those in
the pool or never allocated, and a request dropped with a connection's channel becomes free
again (the garbage collector has it). Taking a request and passing it on are two steps; the
select in which that happens may choose either over `ctx.Done()`.

The run `server` (2 connections, 2 workers, 3 objects, channels of capacity 1) checks that
every object has exactly one holder (`OneHolder`), that queued requests are taken unless all
workers are stuck in their request handlers (`QueuedIsHandled`), and that after `Stop`
`Listen` and the connection handlers end whatever the workers do, and `Stop` and the workers
too unless a request handler never returns; or the process has panicked
(`ShutdownCompletes`).

Seen while modelling, without a run of their own: workers may leave with requests queued,
although `Stop` says that it waits for the remaining requests (`WorkerExits`); `Listen` may
start its workers after `Stop` has waited for them.

Fairness: goroutines are scheduled (weak fairness of `Listen`, of `Stop`, of each connection
handler and of each worker at its select). Nothing is assumed of `WorkerDone`, the return of
`HandleRequest`: the client's routes send on channels of capacity 1 without a timeout
(client-tcp/network/handler.go:208, 246, 312), so a worker may stay in one for ever, and
`Stop`'s `wg.Wait()` with it. Both properties say so with `Stuck`. `Stop` is called once, as the
client does.

Proved (`ServerProofs`), for any number of connections, workers and objects and any
capacities: `OneHolder`. Counting places per object, as the property does, is not
inductive; `ServerInv` says that the five kinds of places partition the objects (`Parts`)
and that within each kind no object occurs twice (`Once`), and that a hand is empty exactly
when its goroutine is not between taking and passing on (`HoldInv`). Every action then
moves one object, or all of a closed connection's, from one part to another.

### The connections manager

Not a module of its own. The parent connection is part of `ParentReconnect`. The tables of
other connections are filled by `AddConnection` and swept by `HealthCheck`, which nothing in
this repository calls: they are there for the node built on this package. Reading them
shows a race (connections_manager.go:234): `Load`, compare and `Delete` are three steps, so
a removal may delete the record that a later `Store` has put there.

### FileStore and SavedMap

`file` is the data file (records with a position each), `idx` the index file, `map` the
index in memory, `pos` the one position of the open data file, `lock` the write lock,
`get` the Gets under way. A
call is a sequence of steps, one per write to a file: `Seek`, `Write`, then `Truncate`,
`SaveKey`, `SaveOffset` for each entry of the index, `SaveEnds`; `Compact` copies (one step:
a crash leaves the copy unused), removes, renames, reopens and saves. A crash can come
between any two; `Open` loads what it finds. Writes and saves can fail. If `Compact` fails
after it has closed the data file the store is dead until the restart: calls that need the
file fail, `Delete` (and a `Put`, before it fails) still drops entries from memory, and
`Close` still writes the index before it fails.

`Get` takes its offset under the lock and then seeks and reads without it, next to any
other call (`GetSeek`, `GetRead`). What it returns is left out; what it does to the others
is not: a `Get` that moves `pos` between a `Put`'s `Seek` and `Write` makes it write over
another record, and one under way while `Compact` copies may make it copy the wrong value.
The history variable `torn` records that this has happened.

`SavedMap` is the promise: a map, and a copy of it that a crash brings back. A crash during
a save may lose keys but never gives a key another's value; a crash while `Compact`
swaps the files, or a `Get` in the way of a write (`Clash`), ends the promise. The mapping: the map is what the entries in memory lead
to (`CurView`); the copy is `image`, a history variable set by the last complete save or
`Open`; `risk` is read off the index file, "swapping" when it belongs to another data file.

The run `filestore` (2 keys, 2 values, 2 callers, 1 reader, 3 records, 1 compaction; values
and callers symmetric) checks the refinement (`ImplementsSavedMap`), and that entries in
memory and in a usable index file lead to records of their keys (`IndexFindsKey`). A torn
store stays torn and nothing is claimed of it, so TLC does not follow its steps
(`CONSTRAINT Usable`).

Assumptions: a crash is the end of the process, not of the machine (the code does not
sync), so writes are on disk in their order; values have one size, and what an offset of
another file's index leads to is not looked at; `Close`, which takes no lock, is not called
next to other calls.

Proved (`FileStoreProofs`), for any keys, values, callers and readers and any number of
records and compactions: `IndexFindsKey` and the refinement. The invariant says what the
stage of the one call under way, besides Gets, implies (`Phase`): the offset at which a
record will be written is the end of the file; which entries `saveIndex` has
still to write; that the file which `Compact` puts in place holds the same values as the
one it removes. `MemoryInv` and `DiskInv` are about the two indexes: an entry of the index
file either belongs to another data file or leads to the value in `image`, and in a dead
store the entries in memory lead to their records or are all of a file that is gone
(`Orphaned`). Nothing is claimed after a crash in the middle of `Compact`'s swap or a `Get`
in the way of a write (`torn`); the invariant is `~torn => Good`. The refinement is proved step by step: each action that ends a call or a
save is a step of `SavedMap`, every other one leaves its variables alone. The
assumptions on the constants are that there are finitely many keys and that the null value
is none of the others; the proof that saving entry by entry ends with the whole map needs
no induction, because the entries left are part of the state.

### RemoteStorage

`pc` is where each call is: its entry stored, waiting, cleaning up, returned. `requests`
and `responses` are on the way, `handler` is the goroutine `handleResponses` with the
response it has looked up and not passed on yet, `db` the storage of the service. The
connection breaks once; `TakeClosed` is the select that meets the closed request channel
before the error.

The run `remote` (2 calls of any operation, 1 key, 2 values) checks that `handleResponses`
never blocks (`HandlerNeverBlocks`), that a call that succeeded was carried out exactly
once (`SuccessMeansApplied`), that a `Get` returns a value of its time (`GetIsFresh`), and that every call returns
(`CallsReturn`), by its timer if nothing else. Two calls are every pair that can meet; one
key is enough because entries are matched by id. Fairness: goroutines are scheduled and
timers fire; nothing is assumed of the service or the connection. The service answers a
request once, as its handler does; duplicates are not modelled because a TCP connection
makes none.

Proved (`RemoteStorageProofs`), for any calls, keys and values: type correctness,
`HandlerNeverBlocks`, `SuccessMeansApplied`, `GetIsFresh`. The invariant follows the one
message there is for each call: the request, or the answer on its way, in the hand of
`handleResponses` or in the call's channel, never two of them. While it is a request
nothing was carried out, and an answer that says the call was is true
(`RequestInv`, `ResponseInv`, `CarriedInv`, `ChannelInv`, `ResultInv`).

### TransactionFlow

`call[s]` is the call of sender `s`: its kind (the comment at the head of the module lists
them), the parent connection it holds, the state it took, the nonce it chose. `asks` and
`keyAsks` are requests and answers on the way, `late` those of asks by id that have timed out,
`stray` the late answers that reached the channel, `stateCh` and `keyCh` the shared channels,
`cache` the nonce cache, `chain` the nonce the node would execute next. The node may answer
with an old nonce and executes a transaction exactly when it has the next nonce of its
account. The connection may break (`MaxBreaks`) and takes what is on the way with it.

An ask by id that times out removes its id (`client_chain.go:81`); `handleAccountState` then
finds no pending request for the answer and puts it into the channel of the asks without id
(`LateStateArrives`). Such a state has no call that waits for it.

The run `txflow` (2 senders with 2 calls each, 1 break) checks that states and keys are
conserved (`AnswersConserved`): the states on their way, in the channel, in the hands of a
call that will put them back, or lost with a connection are as many as the calls that wait
for one and the late answers together. So a state is left over only by an ask by id that
timed out. A device key call signs with the answer to its own question
(`DeviceStateIsFresh`), as long as no call of the other kinds has taken a state of another
account (`stolen`) and no late answer for its own account has come (`stray`).
`NonceAdvances`: a nonce that was accepted is
not used again by the helpers. Two calls per sender are needed for a call to meet what an
earlier one left.

Assumptions: each sender has its own account (the cache does not serialise two senders of
one account); the channel of 2000 states does not fill up.

Seen while modelling: a late answer to an ask by id stays in the channel until a later call
takes it as its own, and from then on every call is one answer behind; calls other than
those with a device key take any account's state and sign with its nonce; after
`ReconnectToParent` they send on the connection they had before, and the wait for the state
has no timeout; two device key calls can take and put back each other's states for ever, so
no liveness is claimed.

Proved (`TransactionFlowProofs`), for any finite set of senders and any number of calls and
breaks, each with an invariant of its own:

* `NonceAdvances`: the cache is one past the highest nonce accepted, and a helper's call
  that is under way uses none below what it found there (`NonceInv`).
* `AnswersConserved` is almost inductive: it counts, and a count only moves by one if the
  question asked is new. `NumberInv` says that no question is asked twice, `LateInv` that an
  ask that timed out belongs to a call that is over and is answered once. The lemmas are
  about the cardinalities of the sets of waiting calls as one joins or leaves.
* `DeviceStateIsFresh`: while nothing was stolen, every state on its way, in the channel or
  about to be put back that is for an account without late answers belongs to a call that
  waits for it, and there is at most one for each (`FreshParts(Clean)`).

### BlockHashChecker

`height` and `branch` describe the nodes' chains: blocks differ from where a node left the
common chain, in their hash (which stands for every field of the header) or, for the nodes
in `Reordered`, in the order of their transactions alone. `checkBatch` compares both;
`SyncOnly` and the stop flag look at the header only, as in the code. `w` is the watcher: the
heights it has read, the batch it fetches (`got`, one goroutine per block that asks one node
after the other), the search. `cursor` is `lastVerifiedBlock`. Nodes grow, fork and restart
with fewer blocks while it reads; answers fail (after all retries). `steady` are the nodes
that have not failed or restarted.

The run `checker` (2 validators and a sync node, blocks 1 to 3 in batches of 2, 1 fork,
which is one of the second validator's order of transactions or of a hash, 1 failure or
restart) checks that blocks up to the cursor agree (`VerifiedAgree`), that there is no alarm
without a fork (`NoFalseAlarm`), that after one fork the block named is the first that
differs and the stop flag is written if the headers differ there (`FirstIsFirst`), and that
a fork in sight ends the watch (`DetectsFork`). Heights of 3 in batches of 2 give two
batches and a search that goes both ways. Fairness: the ticker ticks and requests end with
an answer or a timeout.

Only with every answer is the first block the first: the search takes a block that fewer
than two nodes returned for one that agrees, and a block whose fetch failed on one node is
passed by the cursor all the same. The chain check starts anew with each batch. The checks of a
single node's sequence, which can write the stop flag on their own, are not modelled.

Proved (`BlockHashCheckerProofs`), for any list of nodes, sync nodes, batch size, heights
and numbers of forks and faults: `VerifiedAgree`, `NoFalseAlarm`, `FirstIsFirst`. What the
watcher holds is older than the chains it is compared with; the invariant says what stays
true of it. An answer of a node that never failed is still that node's block (`AnswerInv`,
because a fork starts above the node's height); the heights read are still reached by such
nodes (`PollInv`, `BatchInv`); blocks up to the cursor agree (`CursorInv`); before the first
fork there is one answer for each block (`CleanInv`); and the search has two nodes whose
first difference lies between its bounds (`SearchInv`).

The proof showed where `FirstIsFirst` needs its hypothesis of one fork. With two, a node
that lags has not written a block yet when the search compares it, and the two nodes that
did agree on it; the lagging node then writes its own. The block named is the first that
differed for the nodes asked, no longer the first that differs, as TLC confirms with
`MaxForks = 2`.

## 3. What is proved and what is only checked

Every safety property of the runs is proved for every value of the constants, the
refinement of `SavedMap` included; TLC checks the same definitions on the instances above,
except the type invariants and a few others that the proofs settle (each section says
which). The inductive invariants were checked by TLC before they were proved. Histories and
bounds are part of the models (`MaxCalls`, `MaxMessages`, `MaxSessions`, `MaxLate`,
`MaxAnswers`, `MaxBreaks`, `MaxOthers`, `Calls`, `MaxRecs`, `MaxGens`, `MaxHeight`,
`MaxForks`, `MaxFaults`), and the theorems hold for every value of them.

| proofs | about |
|---|---|
| `ConnectionProofs` | `Connection` |
| `ServerProofs` | `SocketServer`, `CircuitBreaker` |
| `ClientProofs` | `ReceiptRouter`, `ParentReconnect` |
| `PendingRequestsProofs` | `PendingRequests` |
| `FileStoreProofs` | `FileStore` against `SavedMap` |
| `RemoteStorageProofs` | `RemoteStorage` |
| `TransactionFlowProofs` | `TransactionFlow` |
| `BlockHashCheckerProofs` | `BlockHashChecker` |

Two theorems hold under a condition that is not an assumption of the module:
`CacheNotRevived` asks for one refresh at a time, and `FirstIsFirst` is itself about one
fork. That a set of block numbers has a smallest and a largest element, on which the batches and the
search of the checker rest, comes from the library's theorem on well-founded relations. Liveness stays with TLC: the prover does not handle
fairness. So all properties named with "eventually", "ends" or "returns" above
(`CleanupTerminates`, `PeerLossClosesSession`, `HalfOpenEnds`, `TimedCallsReturn`,
`CallsReturn`, `SubscriptionsSurvive`, `ClosedForGood`, `QueuedIsHandled`,
`ShutdownCompletes`, `DetectsFork`) are known for the instances only.

## 4. Disagreements between code and comments

The models contain these behaviours. No run shows them on its own; the properties above
name each as an exception, or the instance excludes it.

* `connection.go:463`: `SendMessage` copies `sendChan` under a lock and sends after
  releasing it. A call blocked on the full channel sends on a closed one once `cleanup()`
  has run, a panic (`crashed`), although the comment at line 345 says that the reference is
  cleared so that this cannot happen. What holds is `ExposedSendChanIsOpen`.
* `server.go:265`: `Stop` closes the channel that handlers send on; a handler whose select
  took a request instead of `ctx.Done()` panics (`panicked`, excused in
  `ShutdownCompletes`). Line 130 calls the function robust.
* `client.go:184`: `NewClient` starts the parent's handler before it registers the callback
  that reconnects; a connection lost in between is replaced only when a call needs one, and
  nothing subscribes again (`missed`).
* `connections_manager.go:234`: `RemoveConnection` loads, compares and deletes by key, so a
  connection that is being replaced can delete its replacement's record; line 42 says that
  no mutex is needed. Nothing in the repository fills the table, so this is not modelled.
* `simpledb.go:548`: `Get` seeks and reads the shared file without the lock, so it can read
  another key's record and make a `Put` write over one (`torn`, the exception of
  `IndexFindsKey` and `ImplementsSavedMap`).
* `block_hash_checker/main.go:2293`: the stop flag is written after a comparison that leaves
  out the order of the transactions, which `checkBatch` compares (line 774). A difference in
  the order alone ends the watch, but writes no stop flag (`FirstIsFirst` says exactly when
  it is written).
* `block_hash_checker/main.go:1760`: `--no-stop-flag` announces that the watch does not stop
  at a difference, but `runWatch` exits regardless.

## 5. Not modelled

* LevelDB, Badger and the memory store: thin wrappers around a database that is not here.
* The batch log and the block number state: one file or record, written whole by one caller.
* Account and contract state, transactions, receipts, execution results: records with
  setters, encodings and hashes, and no interaction to get wrong.
* The trie: recursive over nodes and hashes; only small instances could be checked.
* BLS and protobuf: cryptography, vendored and generated code.
* The load generators, explorers, deployment and upload tools (most of the repository's
  lines): main programs that call the packages above in a loop and print.
* Of the modelled components: the metadata of a connection (`Init`, `Clone`), the routes of
  a server's handlers, `SendAllTransactions...InDirectory`, gas estimates, the checker's
  one-shot mode and reports.

## 6. Plan

1. The metadata commands of `Connection`.
2. The account state's arithmetic and the trie against a reference map.
3. Type correctness of `SocketServer` and `FileStore` as theorems of their own (they are
   parts of the inductive invariants).
