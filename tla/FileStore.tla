------------------------------ MODULE FileStore ------------------------------
(***************************************************************************)
(* The file store of src/pkg/storage/simpledb.go: a data file to which     *)
(* records are appended, an index file that is written anew at every Put,  *)
(* and the index in memory.                                                *)
(*                                                                         *)
(* A crash is the end of the process: what was written before is on disk.  *)
(* Offsets count records (values of one size), and carry the generation of *)
(* the file they belong to: in another file they point anywhere.  The data *)
(* file has one position, which Get moves without holding the lock.  What  *)
(* Get returns is left out: with other calls around it may be anything.    *)
(*                                                                         *)
(* Copying into the temporary file is one step, since a crash leaves it    *)
(* unused and the lock is held.  A store whose Compact failed after        *)
(* closing the file is dead: until the restart every call that needs the   *)
(* data file fails, Delete still drops entries and Close still saves them. *)
(***************************************************************************)
EXTENDS Integers, Sequences, FiniteSets

CONSTANTS
    Keys, Vals,
    BadKey,       \* a key of the wrong size
    None,
    Callers,      \* goroutines that use the store, but for Get
    Readers,      \* goroutines that call Get
    MaxRecs,      \* bound on the records in the data file
    MaxGens       \* bound on the data files, one more with each Compact

ASSUME StoreAssumption ==
    /\ IsFiniteSet(Keys) /\ BadKey \notin Keys
    /\ None \notin Keys \cup Vals \cup Callers /\ None \notin [gen : Nat, at : Nat]
    /\ MaxRecs \in Nat /\ MaxGens \in Nat

VARIABLES
    file,       \* data file: generation and records; gone while Compact swaps
    idx,        \* index file: its entries, and whether the last is cut off
    image,      \* the values that the last saveIndex, or Open, stands for
    map,        \* indexMap
    store,      \* "open", "down" or "dead"
    pos,        \* position in the data file
    lock,       \* the caller that holds mu for writing, or None
    op,         \* where the call of each caller is
    get,        \* where the Get of each reader is
    torn        \* a crash left an index of another data file, or a Get moved the
                \* position under a call that reads or writes the data file

vars == <<file, idx, image, map, store, pos, lock, op, get, torn>>

NoEntries == [k \in Keys |-> None]

Locs == [gen : 0..MaxGens + 1, at : 1..MaxRecs]

Records == [key : Keys, val : Vals]

Torn == [key |-> None, val |-> None]

IndexMaps == [Keys -> Locs \cup {None}]

Idle == [pc |-> "idle"]

Pairs == (Keys \cup {BadKey}) \X Vals

TypeOK ==
    /\ file \in [gen : 0..MaxGens + 1, recs : Seq(Records \cup {Torn}), there : BOOLEAN]
    /\ Len(file.recs) <= MaxRecs
    /\ idx \in [map : IndexMaps, half : BOOLEAN]
    /\ image \in [Keys -> Vals \cup {None}] /\ map \in IndexMaps
    /\ store \in {"open", "down", "dead"}
    /\ pos \in Nat \ {0}
    /\ lock \in Callers \cup {None}
    /\ \A c \in Callers :
          op[c].pc \in {"idle", "seek", "write", "save", "entries", "remove", "rename",
                        "reopen"}
    /\ \A r \in Readers : get[r].pc \in {"idle", "seek", "read"}
    /\ torn \in BOOLEAN

Init ==
    /\ file = [gen |-> 0, recs |-> <<>>, there |-> TRUE]
    /\ idx = [map |-> NoEntries, half |-> FALSE]
    /\ image = NoEntries /\ map = NoEntries
    /\ store = "open"
    /\ pos = 1 /\ lock = None
    /\ op = [c \in Callers |-> Idle] /\ get = [r \in Readers |-> Idle]
    /\ torn = FALSE

\* The record at an offset, if the offset is one of this file.
RecordAt(f, loc) ==
    IF loc # None /\ f.there /\ loc.gen = f.gen /\ loc.at <= Len(f.recs)
    THEN f.recs[loc.at] ELSE Torn

Values(f, m) == [k \in Keys |-> RecordAt(f, m[k]).val]

\* A caller starts a call.
Begins(c) == store = "open" /\ op[c].pc = "idle"

\* Gets that have their offset and have still to seek or to read.
Getting == \E r \in Readers : get[r].pc # "idle"

Goes(c, next) == op' = [op EXCEPT ![c] = next]

Locks(c) == lock = None /\ lock' = c

Returns(c) == Goes(c, Idle) /\ lock' = None

-----------------------------------------------------------------------------
(* Put and BatchPut.                                                       *)

Full(n) == Len(file.recs) + n > MaxRecs

\* Put takes the lock and drops the entry the key has.
Put(c, k, v) ==
    /\ Begins(c) /\ Locks(c) /\ ~Full(1)
    /\ map' = [map EXCEPT ![k] = None]
    /\ Goes(c, [pc |-> "seek", todo |-> <<<<k, v>>>>])
    /\ UNCHANGED <<file, idx, image, store, pos, get, torn>>

BatchPut(c, kvs) ==
    /\ Begins(c) /\ Locks(c) /\ ~Full(Len(kvs))
    /\ Goes(c, [pc |-> "seek", todo |-> kvs])
    /\ UNCHANGED <<file, idx, image, map, store, pos, get, torn>>

\* BatchPut returns at a bad key: the pairs before it are in memory, not saved.
BadKeyReturns(c) ==
    /\ op[c].pc = "seek" /\ op[c].todo[1][1] = BadKey
    /\ Returns(c)
    /\ UNCHANGED <<file, idx, image, map, store, pos, get, torn>>

\* Mutant of Seek: io.SeekStart.
SeekStart(c) ==
    /\ op[c].pc = "seek" /\ op[c].todo[1][1] # BadKey
    /\ pos' = 1
    /\ Goes(c, [pc |-> "write", todo |-> op[c].todo, loc |-> [gen |-> file.gen, at |-> 1]])
    /\ UNCHANGED <<file, idx, image, map, store, lock, get, torn>>

\* Seek(0, io.SeekEnd) gives the offset.
Seek(c) ==
    /\ op[c].pc = "seek" /\ op[c].todo[1][1] # BadKey
    /\ pos' = Len(file.recs) + 1
    /\ Goes(c, [pc |-> "write", todo |-> op[c].todo,
                loc |-> [gen |-> file.gen, at |-> Len(file.recs) + 1]])
    /\ UNCHANGED <<file, idx, image, map, store, lock, get, torn>>

WriteAt(recs, p, r) == IF p <= Len(recs) THEN [recs EXCEPT ![p] = r] ELSE Append(recs, r)

\* Size, value and key go to where the position is now; the entry gets the offset.
\* If a Get has moved the position they go over other records.
Write(c) ==
    LET k == op[c].todo[1][1]
        rest == Tail(op[c].todo)
    IN /\ op[c].pc = "write"
       /\ file' = [file EXCEPT !.recs = WriteAt(@, pos, [key |-> k, val |-> op[c].todo[1][2]])]
       /\ pos' = pos + 1
       /\ map' = [map EXCEPT ![k] = op[c].loc]
       /\ Goes(c, IF rest = <<>> THEN [pc |-> "save", close |-> FALSE]
                  ELSE [pc |-> "seek", todo |-> rest])
       /\ torn' = (torn \/ pos # op[c].loc.at)
       /\ UNCHANGED <<idx, image, store, lock, get>>

\* One of the writes fails: part of a record stays in the file.
WriteFails(c) ==
    /\ op[c].pc = "write"
    /\ file' = [file EXCEPT !.recs = WriteAt(@, pos, Torn)]
    /\ pos' = pos + 1
    /\ torn' = (torn \/ pos # op[c].loc.at)
    /\ Returns(c)
    /\ UNCHANGED <<idx, image, map, store, get>>

-----------------------------------------------------------------------------
(* saveIndex, at the end of Put, BatchPut and Compact and in Close.        *)

Truncate(c) ==
    /\ op[c].pc = "save"
    /\ idx' = [map |-> NoEntries, half |-> FALSE]
    /\ image' = Values(file, map)
    /\ Goes(c, [pc |-> "entries", todo |-> {k \in Keys : map[k] # None}, close |-> op[c].close])
    /\ UNCHANGED <<file, map, store, pos, lock, get, torn>>

\* Range over a Go map: the keys come in any order.
SaveKey(c, k) ==
    /\ op[c].pc = "entries" /\ k \in op[c].todo /\ ~idx.half
    /\ idx' = [idx EXCEPT !.half = TRUE]
    /\ Goes(c, [pc |-> "entries", todo |-> op[c].todo \ {k}, close |-> op[c].close, key |-> k])
    /\ UNCHANGED <<file, image, map, store, pos, lock, get, torn>>

SaveOffset(c) ==
    /\ op[c].pc = "entries" /\ idx.half
    /\ idx' = [map |-> [idx.map EXCEPT ![op[c].key] = map[op[c].key]], half |-> FALSE]
    /\ Goes(c, [pc |-> "entries", todo |-> op[c].todo, close |-> op[c].close])
    /\ UNCHANGED <<file, image, map, store, pos, lock, get, torn>>

Synced(c) == op[c].pc = "entries" /\ op[c].todo = {} /\ ~idx.half

\* Close of a dead store ends here, with the error of closing the data file again:
\* the manager keeps the store.
SaveEnds(c) ==
    /\ Synced(c) /\ (~op[c].close \/ store = "dead")
    /\ Returns(c)
    /\ UNCHANGED <<file, idx, image, map, store, pos, get, torn>>

\* Close goes on to close the files, and the manager forgets the store.
CloseEnds(c) ==
    /\ Synced(c) /\ op[c].close /\ store = "open"
    /\ Returns(c)
    /\ store' = "down" /\ map' = NoEntries
    /\ UNCHANGED <<file, idx, image, pos, get, torn>>

\* An error of Truncate or Write: what is written stays, the store stays as it is.
SaveFails(c) ==
    /\ op[c].pc \in {"save", "entries"}
    /\ Returns(c)
    /\ UNCHANGED <<file, idx, image, map, store, pos, get, torn>>

-----------------------------------------------------------------------------
(* Delete, Get, Compact, Close, Open.                                      *)

\* Only the index in memory changes.  A Put on a dead store does the same: it drops
\* the entry and fails at Seek.
Delete(c, k) ==
    /\ store # "down" /\ op[c].pc = "idle" /\ lock = None
    /\ map' = [map EXCEPT ![k] = None]
    /\ UNCHANGED <<file, idx, image, store, pos, lock, op, get, torn>>

\* The offset is read under the lock, the file without it.
Get(r, k) ==
    /\ store = "open" /\ get[r].pc = "idle" /\ lock = None /\ map[k] # None
    /\ get' = [get EXCEPT ![r] = [pc |-> "seek", at |-> map[k].at]]
    /\ UNCHANGED <<file, idx, image, map, store, pos, lock, op, torn>>

\* Compact has closed the data file.
Closed == store = "dead" \/ \E c \in Callers : op[c].pc \in {"remove", "rename", "reopen"}

GetSeek(r) ==
    /\ get[r].pc = "seek" /\ ~Closed
    /\ pos' = get[r].at
    /\ get' = [get EXCEPT ![r] = [pc |-> "read"]]
    /\ UNCHANGED <<file, idx, image, map, store, lock, op, torn>>

\* A read at the end of the file does not move the position.
GetRead(r) ==
    /\ get[r].pc = "read" /\ ~Closed
    /\ pos' = IF pos <= Len(file.recs) THEN pos + 1 ELSE pos
    /\ get' = [get EXCEPT ![r] = Idle]
    /\ UNCHANGED <<file, idx, image, map, store, lock, op, torn>>

GetFails(r) ==
    /\ get[r].pc # "idle" /\ Closed
    /\ get' = [get EXCEPT ![r] = Idle]
    /\ UNCHANGED <<file, idx, image, map, store, pos, lock, op, torn>>

\* The orders in which the range over a Go map can give the keys of S.
Orders(S) == {s \in [1..Cardinality(S) -> S] : \A i, j \in DOMAIN s : s[i] = s[j] => i = j}

\* The live records are copied into a new file, and the old file is closed.  A Get
\* that is under way may move the position between a Seek and a Read of the copying.
Compact(c) ==
    /\ Begins(c) /\ Locks(c) /\ file.gen < MaxGens
    /\ \E s \in Orders({k \in Keys : map[k] # None}) :
          Goes(c, [pc |-> "remove",
                   tmp |-> [gen |-> file.gen + 1, there |-> TRUE,
                            recs |-> [i \in DOMAIN s |-> RecordAt(file, map[s[i]])]],
                   new |-> [k \in Keys |-> IF map[k] = None THEN None
                             ELSE [gen |-> file.gen + 1, at |-> CHOOSE i \in DOMAIN s : s[i] = k]]])
    /\ torn' \in {torn, torn \/ Getting}
    /\ UNCHANGED <<file, idx, image, map, store, pos, get>>

CompactRemove(c) ==
    /\ op[c].pc = "remove"
    /\ file' = [file EXCEPT !.there = FALSE]
    /\ Goes(c, [op[c] EXCEPT !.pc = "rename"])
    /\ UNCHANGED <<idx, image, map, store, pos, lock, get, torn>>

CompactRename(c) ==
    /\ op[c].pc = "rename"
    /\ file' = op[c].tmp
    /\ Goes(c, [op[c] EXCEPT !.pc = "reopen"])
    /\ UNCHANGED <<idx, image, map, store, pos, lock, get, torn>>

\* Mutant of CompactReopen: indexMap keeps the offsets of the old file.
CompactReopenKeeps(c) ==
    /\ op[c].pc = "reopen"
    /\ pos' = 1
    /\ Goes(c, [pc |-> "save", close |-> FALSE])
    /\ UNCHANGED <<file, idx, image, map, store, lock, get, torn>>

CompactReopen(c) ==
    /\ op[c].pc = "reopen"
    /\ map' = op[c].new
    /\ pos' = 1
    /\ Goes(c, [pc |-> "save", close |-> FALSE])
    /\ UNCHANGED <<file, idx, image, store, lock, get, torn>>

\* Remove, Rename or OpenFile fails: db.file stays closed, indexMap as it is.
CompactDies(c) ==
    /\ op[c].pc \in {"remove", "rename", "reopen"}
    /\ store' = "dead"
    /\ Returns(c)
    /\ UNCHANGED <<file, idx, image, map, pos, get, torn>>

\* Close takes no lock.  The callers keep it apart from their other calls, as if
\* it did.
Close(c) ==
    /\ store # "down" /\ op[c].pc = "idle" /\ Locks(c) /\ ~Getting
    /\ Goes(c, [pc |-> "save", close |-> TRUE])
    /\ UNCHANGED <<file, idx, image, map, store, pos, get, torn>>

\* An entry of m belongs to a data file that is gone.
Foreign(m) == \E k \in Keys : m[k] # None /\ ~(file.there /\ m[k].gen = file.gen)

Stale == Foreign(idx.map)

Crash ==
    /\ store # "down"
    /\ store' = "down" /\ map' = NoEntries
    /\ op' = [c \in Callers |-> Idle] /\ get' = [r \in Readers |-> Idle] /\ lock' = None
    /\ torn' = (torn \/ Stale)
    /\ UNCHANGED <<file, idx, image, pos>>

\* GetOrCreate makes a data file if there is none.
Create == IF file.there THEN file ELSE [gen |-> file.gen + 1, recs |-> <<>>, there |-> TRUE]

\* loadIndex fails, at every attempt, on an entry that is cut off.
Open ==
    /\ store = "down" /\ ~idx.half
    /\ file' = Create
    /\ map' = idx.map
    /\ image' = Values(Create, idx.map)
    /\ store' = "open" /\ pos' = 1
    /\ UNCHANGED <<idx, lock, op, get, torn>>

-----------------------------------------------------------------------------
Batches == Pairs \X Pairs

Writes(c) ==
    \/ \E k \in Keys, v \in Vals : Put(c, k, v)
    \/ \E kvs \in Batches : BatchPut(c, kvs)
    \/ BadKeyReturns(c) \/ Seek(c) \/ Write(c) \/ WriteFails(c)

Saves(c) ==
    \/ Truncate(c) \/ SaveOffset(c) \/ SaveEnds(c) \/ SaveFails(c) \/ CloseEnds(c)
    \/ \E k \in Keys : SaveKey(c, k)

Reads(r) == GetSeek(r) \/ GetRead(r) \/ GetFails(r) \/ \E k \in Keys : Get(r, k)

Compacts(c) ==
    Compact(c) \/ CompactRemove(c) \/ CompactRename(c) \/ CompactReopen(c) \/ CompactDies(c)

Next ==
    \/ \E c \in Callers :
          \/ Writes(c) \/ Saves(c) \/ Compacts(c) \/ Close(c)
          \/ \E k \in Keys : Delete(c, k)
    \/ \E r \in Readers : Reads(r)
    \/ Crash \/ Open

Spec == Init /\ [][Next]_vars

-----------------------------------------------------------------------------
(* Properties                                                              *)

\* An entry of indexMap, or of an index file that a restart can use, leads to a
\* record of its key, whatever failed, crashed or was compacted before.  Only a
\* crash between the swap of the data file and saveIndex, or a Get that moves the
\* position between a Seek and a Read or Write of another call, breaks this.
Finds(m) == \A k \in Keys : m[k] # None => RecordAt(file, m[k]).key = k

Swapper == {c \in Callers : op[c].pc \in {"rename", "reopen"}}

IndexFindsKey ==
    ~torn =>
        /\ Finds(map) \/ Swapper # {} \/ (store = "dead" /\ Foreign(map))
        /\ Finds(idx.map) \/ Stale

\* The map the callers see: from memory, from the file that Compact puts in place,
\* and while the process is down from what Open will load.
Gone == torn \/ (store = "down" /\ idx.half)

CurView ==
    IF Gone THEN NoEntries
    ELSE IF store = "down" THEN Values(file, idx.map)
    ELSE IF Swapper # {} THEN LET c == CHOOSE c \in Swapper : TRUE IN Values(op[c].tmp, op[c].new)
    ELSE Values(file, map)

SavedView == IF Gone THEN NoEntries ELSE image

RiskView ==
    IF Gone THEN "none"
    ELSE IF Stale THEN "swapping"
    ELSE IF idx.half \/ Values(file, idx.map) # image THEN "saving" ELSE "none"

HealthView ==
    IF Gone THEN "lost"
    ELSE IF store = "open" THEN "up" ELSE store

SM == INSTANCE SavedMap WITH
    cur <- CurView, saved <- SavedView, risk <- RiskView, health <- HealthView

\* The store implements the map of SavedMap: every call, failure, crash and restart
\* does to what the callers see and to what survives a crash what is allowed there.
ImplementsSavedMap == SM!Spec
=============================================================================
