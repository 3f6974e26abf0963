-------------------------- MODULE BlockHashChecker --------------------------
(***************************************************************************)
(* The watch mode of src/block/block_hash_checker/main.go: a process polls *)
(* the heights of several nodes, fetches the blocks since the last verified*)
(* one from all of them, compares them, and stops the test run at the first*)
(* difference, which it looks for by binary search.                        *)
(*                                                                         *)
(* The nodes go on while it reads: they grow, lag, fork, restart with a    *)
(* lower height, fail to answer and write blocks later than they announce  *)
(* them.                                                                   *)
(***************************************************************************)
EXTENDS Integers, Sequences, FiniteSets, FiniteSetsExt

CONSTANTS
    Nodes,      \* the names of the nodes, in their order, a sequence
    Sync,       \* those that are sync nodes (m4, node4)
    Reordered,  \* those whose own branch differs in the order of transactions alone
    BatchSize,  \* blocks fetched at a time
    StartHeight,\* blocks the nodes have when the watch begins
    MaxHeight,  \* bound: height of the chains
    MaxForks,   \* bound: forks
    MaxFaults   \* bound: failed or late answers, and restarts

ASSUME CheckerAssumption ==
    /\ BatchSize \in Nat \ {0} /\ MaxHeight \in Nat /\ StartHeight \in 0..MaxHeight
    /\ MaxForks \in Nat /\ MaxFaults \in Nat
    /\ Nodes \in Seq(Range(Nodes)) /\ Sync \subseteq Range(Nodes)
    /\ Reordered \subseteq Range(Nodes)

VARIABLES
    height,     \* each node's latest block
    branch,     \* the first block of each node's own branch, 0 if it has none
    w,          \* the watcher
    cursor,     \* lastVerifiedBlock
    forks,      \* how many forks there have been
    faults,     \* how many answers failed, and nodes restarted
    steady      \* nodes that answered every question and did not restart

vars == <<height, branch, w, cursor, forks, faults, steady>>

Names == Range(Nodes)

Heights == 0..MaxHeight

\* The branch that a node's block is on; two nodes that leave the chain at the same
\* block are on the same branch, if they leave it in the same way.
Own(n, b) == IF branch[n] # 0 /\ b >= branch[n] THEN branch[n] ELSE 0

\* The hash stands for all of the header, TxOrder for the list of transactions: the
\* hashes and positions that a node answers with.
Hash(n, b) == [num |-> b, branch |-> IF n \in Reordered THEN 0 ELSE Own(n, b)]
TxOrder(n, b) == IF n \in Reordered THEN Own(n, b) ELSE 0
Block(n, b) == [hash |-> Hash(n, b), order |-> TxOrder(n, b)]

\* Answers of getBlockInfo: the block with its parent's hash, or none (it does not
\* exist, or an error).
NoBlock == [num |-> -1, branch |-> 0]
Missing == [hash |-> NoBlock, parent |-> NoBlock, order |-> 0]
Fetched(n, b) == [hash |-> Hash(n, b), parent |-> Hash(n, b - 1), order |-> TxOrder(n, b)]

Resting == [pc |-> "sleep", verdict |-> 0, flag |-> FALSE]

TypeOK ==
    /\ height \in [Names -> Heights] /\ branch \in [Names -> Heights]
    /\ w.pc \in {"sleep", "poll", "fetch", "search", "exited"}
    /\ w.pc = "fetch" => w.lo \in 1..MaxHeight /\ w.hi \in w.lo..MaxHeight
    /\ w.pc = "search" => w.low \in 1..(MaxHeight + 1) /\ w.high \in Heights
    /\ cursor \in Heights
    /\ forks \in 0..MaxForks /\ faults \in 0..MaxFaults
    /\ steady \in SUBSET Names

Init ==
    /\ height = [n \in Names |-> StartHeight]
    /\ branch = [n \in Names |-> 0]
    /\ w = Resting
    /\ cursor = 0
    /\ forks = 0 /\ faults = 0
    /\ steady = Names

-----------------------------------------------------------------------------
(* The nodes, which are not in this repository.                            *)

Grow(n) ==
    /\ height[n] < MaxHeight
    /\ height' = [height EXCEPT ![n] = @ + 1]
    /\ UNCHANGED <<branch, w, cursor, forks, faults, steady>>

Fork(n) ==
    /\ forks < MaxForks /\ forks' = forks + 1
    /\ branch[n] = 0 /\ height[n] < MaxHeight
    /\ branch' = [branch EXCEPT ![n] = height[n] + 1]
    /\ UNCHANGED <<height, w, cursor, faults, steady>>

Fault(n) == faults < MaxFaults /\ faults' = faults + 1 /\ steady' = steady \ {n}

\* A node comes back from a snapshot, or catches up with the chain again.
Restart(n) ==
    /\ Fault(n)
    /\ \E h \in 0..height[n] : height' = [height EXCEPT ![n] = h]
    /\ branch' = [branch EXCEPT ![n] = 0]
    /\ UNCHANGED <<w, cursor, forks>>

-----------------------------------------------------------------------------
(* runWatch and the heights in watchOnce                                   *)

Tick ==
    /\ w.pc = "sleep"
    /\ w' = [pc |-> "poll", heights |-> <<>>, verdict |-> 0, flag |-> FALSE]
    /\ UNCHANGED <<height, branch, cursor, forks, faults, steady>>

Interrupt ==
    /\ w.pc = "sleep"
    /\ w' = [w EXCEPT !.pc = "exited"]
    /\ UNCHANGED <<height, branch, cursor, forks, faults, steady>>

Polling == w.pc = "poll" /\ Len(w.heights) < Len(Nodes)

\* getLatestBlockNumber of one node after the other.
Poll ==
    /\ Polling
    /\ w' = [w EXCEPT !.heights = Append(@, height[Nodes[Len(@) + 1]])]
    /\ UNCHANGED <<height, branch, cursor, forks, faults, steady>>

PollFails ==
    /\ Polling
    /\ Fault(Nodes[Len(w.heights) + 1])
    /\ w' = [w EXCEPT !.heights = Append(@, -1)]
    /\ UNCHANGED <<height, branch, cursor, forks>>

Answered == {i \in DOMAIN w.heights : w.heights[i] # -1}
Lowest == Min({w.heights[i] : i \in Answered})
Highest == Max({w.heights[i] : i \in Answered})

\* The cursor goes back when a node has fewer blocks than were verified.
Rewound(low) ==
    IF cursor <= low THEN cursor ELSE IF low > 0 THEN low - 1 ELSE 0

\* Mutant of StartAt: the block after the cursor is taken for done.
StartPast(c) == c + 2

StartAt(c) == c + 1

FetchOf(lo, hi, min, max) ==
    [pc |-> "fetch", mode |-> "batch", again |-> FALSE, lo |-> lo, hi |-> hi, min |-> min,
     max |-> max, got |-> [b \in lo..hi |-> <<>>], verdict |-> 0, flag |-> FALSE]

BatchFrom(lo, min, max) == FetchOf(lo, Min({lo + BatchSize - 1, max}), min, max)

\* Too few answers or no new block: wait for the next tick.
Nothing ==
    /\ w.pc = "poll" /\ Len(w.heights) = Len(Nodes)
    /\ Cardinality(Answered) < 2 \/ StartAt(Rewound(Lowest)) > Highest
    /\ cursor' = IF Cardinality(Answered) < 2 THEN cursor ELSE Rewound(Lowest)
    /\ w' = Resting
    /\ UNCHANGED <<height, branch, forks, faults, steady>>

StartBatches ==
    /\ w.pc = "poll" /\ Len(w.heights) = Len(Nodes)
    /\ Cardinality(Answered) >= 2 /\ StartAt(Rewound(Lowest)) <= Highest
    /\ cursor' = Rewound(Lowest)
    /\ w' = BatchFrom(StartAt(Rewound(Lowest)), Lowest, Highest)
    /\ UNCHANGED <<height, branch, forks, faults, steady>>

-----------------------------------------------------------------------------
(* checkBatch                                                              *)

\* One goroutine per block asks one node after the other.
Asks(b, n) == /\ w.pc = "fetch" /\ b \in w.lo..w.hi
              /\ Len(w.got[b]) < Len(Nodes) /\ n = Nodes[Len(w.got[b]) + 1]

Gets(b, r) == w' = [w EXCEPT !.got[b] = Append(@, r)]

Fetch(b, n) ==
    /\ Asks(b, n)
    /\ Gets(b, IF b <= height[n] THEN Fetched(n, b) ELSE Missing)
    /\ UNCHANGED <<height, branch, cursor, forks, faults, steady>>

\* The node does not answer, or has announced the block and not written it after
\* ten retries.
FetchFails(b, n) ==
    /\ Asks(b, n)
    /\ Fault(n)
    /\ Gets(b, Missing)
    /\ UNCHANGED <<height, branch, cursor, forks>>

Whole == w.pc = "fetch" /\ \A b \in w.lo..w.hi : Len(w.got[b]) = Len(Nodes)

Valid(b) == {i \in DOMAIN Nodes : w.got[b][i] # Missing}

\* prevBlockHashes: the hash of the block before, if this node had it.
Prev(b, i) ==
    IF b - 1 \in w.lo..w.hi /\ i \in Valid(b - 1) THEN {w.got[b - 1][i].hash} ELSE {}

Broken(b) == {i \in Valid(b) : \E h \in Prev(b, i) : w.got[b][i].parent # h}

\* Mutant of Mismatch: the answers of all nodes are compared.
MismatchAny(b) == \E i, j \in DOMAIN Nodes : w.got[b][i] # w.got[b][j]

\* A block is compared if two nodes have it: header and order of transactions.
Mismatch(b) ==
    /\ Cardinality(Valid(b)) >= 2
    /\ \/ \E i, j \in Valid(b) : w.got[b][i] # w.got[b][j]
       \/ Broken(b) # {}

Mismatches == {b \in w.lo..w.hi : Mismatch(b)}

\* Only sync nodes differ from the others, as far as the hashes tell.
SyncOnly(m) ==
    \A b \in m :
        Cardinality({w.got[b][i].hash : i \in {j \in Valid(b) \ Broken(b) : Nodes[j] \notin Sync}}) <= 1

-----------------------------------------------------------------------------
(* The rest of watchOnce                                                   *)

\* time.Sleep(5 * time.Second) and once more
Recheck(m) ==
    /\ w.mode = "batch" /\ m # {} /\ SyncOnly(m) /\ ~w.again
    /\ w' = [w EXCEPT !.again = TRUE, !.got = [b \in w.lo..w.hi |-> <<>>]]
    /\ UNCHANGED <<height, branch, cursor, forks, faults, steady>>

NextBatch(m) ==
    /\ w.mode = "batch" /\ m = {} /\ w.hi < w.max
    /\ w' = BatchFrom(w.lo + BatchSize, w.min, w.max)
    /\ UNCHANGED <<height, branch, cursor, forks, faults, steady>>

\* Mutant of Verified: the cursor goes to the highest node's block.
VerifiedMax(m) ==
    /\ w.mode = "batch" /\ m = {} /\ w.hi = w.max
    /\ cursor' = w.max
    /\ w' = Resting
    /\ UNCHANGED <<height, branch, forks, faults, steady>>

\* No difference: the blocks that every node had are verified.
Verified(m) ==
    /\ w.mode = "batch" /\ m = {} /\ w.hi = w.max
    /\ cursor' = w.min
    /\ w' = Resting
    /\ UNCHANGED <<height, branch, forks, faults, steady>>

SearchOf(low, high, found) ==
    [pc |-> "search", low |-> low, high |-> high, found |-> found, verdict |-> 0, flag |-> FALSE]

Differs(m) ==
    /\ w.mode = "batch" /\ m # {}
    /\ SyncOnly(m) => w.again
    /\ w' = SearchOf(1, Min(m) - 1, Min(m))
    /\ UNCHANGED <<height, branch, cursor, forks, faults, steady>>

Probe ==
    /\ w.pc = "search" /\ w.low <= w.high
    /\ LET mid == w.low + (w.high - w.low) \div 2
       IN  w' = [FetchOf(mid, mid, w.low, w.high) EXCEPT !.mode = "search", !.again = w.found]
    /\ UNCHANGED <<height, branch, cursor, forks, faults, steady>>

\* Mutant of ProbeEnds: the bounds the wrong way round.
ProbeEndsOther(m) ==
    /\ w.mode = "search"
    /\ w' = IF m # {} THEN SearchOf(w.lo + 1, w.max, w.lo)
                               ELSE SearchOf(w.min, w.lo - 1, w.again)
    /\ UNCHANGED <<height, branch, cursor, forks, faults, steady>>

ProbeEnds(m) ==
    /\ w.mode = "search"
    /\ w' = IF m # {} THEN SearchOf(w.min, w.lo - 1, w.lo)
                               ELSE SearchOf(w.lo + 1, w.max, w.again)
    /\ UNCHANGED <<height, branch, cursor, forks, faults, steady>>

HeadersDiffer(r, s) == r.hash # s.hash \/ r.parent # s.parent

\* triggerStopFlagForFirstMismatch fetches the block once more and writes the flag
\* if the headers of two nodes still differ.  It does not look at the order of the
\* transactions, as checkBatch does; the process exits anyway.
Report ==
    /\ w.pc = "search" /\ w.low > w.high
    /\ \E bad \in SUBSET Names :
          /\ faults + Cardinality(bad) <= MaxFaults
          /\ faults' = faults + Cardinality(bad)
          /\ steady' = steady \ bad
          /\ w' = [pc |-> "exited", verdict |-> w.found,
                   flag |-> \E n, m \in {k \in Names \ bad : w.found <= height[k]} :
                               HeadersDiffer(Fetched(n, w.found), Fetched(m, w.found))]
    /\ UNCHANGED <<height, branch, cursor, forks>>

WatchStep ==
    \/ Tick \/ Poll \/ PollFails \/ Nothing \/ StartBatches
    \/ \E b \in 1..MaxHeight, n \in Names : Fetch(b, n) \/ FetchFails(b, n)
    \/ Whole /\ \E m \in {Mismatches} :
                Recheck(m) \/ NextBatch(m) \/ Verified(m) \/ Differs(m) \/ ProbeEnds(m)
    \/ Probe \/ Report

Next ==
    \/ WatchStep \/ Interrupt
    \/ w.pc # "exited" /\ \E n \in Names : Grow(n) \/ Fork(n) \/ Restart(n)

Spec == Init /\ [][Next]_vars

\* The ticker ticks and requests end, with an answer or at the client's timeout.
FairSpec == Spec /\ WF_vars(WatchStep)

-----------------------------------------------------------------------------
(* Properties                                                              *)

Differ(n, m, b) == b \in 1..Min({height[n], height[m]}) /\ Block(n, b) # Block(m, b)

\* All blocks up to the cursor are the same on the nodes that have answered so far,
\* those that lagged behind when others were compared included.
VerifiedAgree ==
    \A n, m \in steady : \A b \in 1..cursor : ~Differ(n, m, b) /\ b <= height[n]

\* Without a fork the comparison of nodes never ends the watch with a block, whatever
\* is late, missing or restarted while it reads.  (The stop flag that anomalies of a
\* single node write is not modelled.)
NoFalseAlarm == w.verdict # 0 => forks > 0

\* If all nodes answered and one of them has forked, the block the watcher stops at
\* is the first that differs, and the stop flag is written unless the blocks there
\* differ in the order of their transactions alone.  (With a second fork the search
\* may pass a block that a lagging node only writes later, on its own branch.)
FirstIsFirst ==
    w.verdict # 0 /\ steady = Names /\ forks = 1 =>
        /\ w.flag <=> \E n, m \in Names : Hash(n, w.verdict) # Hash(m, w.verdict)
        /\ w.verdict = Min({b \in 1..MaxHeight : \E n, m \in Names : Differ(n, m, b)})

ForkInSight == \E n, m \in steady : \E b \in 1..MaxHeight : Differ(n, m, b)

\* A difference between nodes that go on answering ends the watch.
DetectsFork == ForkInSight ~> (w.pc = "exited" \/ ~ForkInSight)
=============================================================================
