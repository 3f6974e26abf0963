--------------------------- MODULE FileStoreProofs ---------------------------
(***************************************************************************)
(* Proofs about FileStore, for any keys, values, callers, readers and      *)
(* bounds: the entries of the index lead to records of their keys, and the *)
(* store implements SavedMap.                                              *)
(*                                                                         *)
(* At most one call other than Get is going on.  What it is doing tells    *)
(* what the files and the index in memory have to do with each other       *)
(* (Phase): where the data file ends, which entries saveIndex has still to *)
(* write, and that the file Compact puts in place holds the same values.   *)
(* In a dead store the entries in memory may all be of a data file that is *)
(* gone (Orphaned).  Nothing is claimed once a crash has left an index of  *)
(* another data file, or a Get has moved the position under a write or a   *)
(* copy (torn).                                                            *)
(***************************************************************************)
EXTENDS FileStore, FiniteSetTheorems, SequenceTheorems, TLAPS

Offsets == [gen : Nat, at : Nat \ {0}]

Indexes == [Keys -> Offsets \cup {None}]

Files == [gen : Nat, recs : Seq(Records \cup {Torn}), there : BOOLEAN]

Valuations == [Keys -> Vals \cup {None}]

Tasks == Seq(Pairs) \ {<<>>}

\* What a call may be doing.
Ops ==
    [pc : {"idle"}] \cup [pc : {"seek"}, todo : Tasks]
    \cup [pc : {"write"}, todo : Tasks, loc : Offsets]
    \cup [pc : {"save"}, close : BOOLEAN]
    \cup [pc : {"entries"}, todo : SUBSET Keys, close : BOOLEAN]
    \cup [pc : {"entries"}, todo : SUBSET Keys, close : BOOLEAN, key : Keys]
    \cup [pc : {"remove", "rename", "reopen"}, tmp : Files, new : Indexes]

Types ==
    /\ file \in Files
    /\ idx \in [map : Indexes, half : BOOLEAN]
    /\ image \in Valuations /\ map \in Indexes
    /\ store \in {"open", "down", "dead"}
    /\ lock \in Callers \cup {None}
    /\ op \in [Callers -> Ops]

\* The entries of m lead to records of their keys in f.
FindsIn(f, m) == \A k \in Keys : m[k] # None => RecordAt(f, m[k]).key = k

\* The keys whose entries saveIndex has still to write.
Unsaved(o) == IF idx.half THEN o.todo \cup {o.key} ELSE o.todo

\* A call that has found the end of the data file; one that writes the index file;
\* one that swaps the data file.
WritePhase(o) ==
    o.pc = "write" =>
        /\ o.loc = [gen |-> file.gen, at |-> Len(file.recs) + 1]
        /\ o.todo[1][1] \in Keys

SavePhase(o) ==
    o.pc = "entries" =>
        /\ image = Values(file, map)
        /\ idx.half => o.key \in Keys \ o.todo
        /\ \A k \in Keys : IF k \in Unsaved(o) THEN map[k] # None /\ idx.map[k] = None
                                               ELSE idx.map[k] = map[k]

SwapPhase(o) ==
    /\ o.pc \in {"remove", "rename"} => o.tmp.gen = file.gen + 1
    /\ o.pc \in {"remove", "rename", "reopen"} => o.tmp.there /\ FindsIn(o.tmp, o.new)
    /\ o.pc = "remove" => Values(o.tmp, o.new) = Values(file, map)
    /\ o.pc = "rename" => ~file.there
    /\ o.pc = "reopen" => /\ file = o.tmp
                          /\ \A k \in Keys : map[k] # None => map[k].gen # file.gen

Phase(o) == WritePhase(o) /\ SavePhase(o) /\ SwapPhase(o)

Locking == {"seek", "write", "save", "entries", "remove", "rename", "reopen"}

\* One call at a time, and a writing one holds the lock.
OneCall ==
    /\ \A c, d \in Callers : c # d => op[c] = Idle \/ op[d] = Idle
    /\ \A c \in Callers : op[c].pc \in Locking => lock = c
    /\ store = "down" => \A c \in Callers : op[c] = Idle
    /\ store = "dead" => \A c \in Callers : op[c].pc \in {"idle", "save", "entries"}

Swapping == \E c \in Callers : op[c].pc \in {"rename", "reopen"}

\* Every entry in memory is of a data file that is gone.
Orphaned ==
    store = "dead" /\ \A k \in Keys : map[k] # None => ~(file.there /\ map[k].gen = file.gen)

\* The index in memory.
MemoryInv ==
    /\ store = "down" => map = NoEntries
    /\ Swapping \/ Finds(map) \/ Orphaned
    /\ \A k \in Keys : map[k] # None => map[k].gen <= file.gen
    /\ store = "open" => file.there \/ \E c \in Callers : op[c].pc = "rename"

\* The index file: an entry that is not of another data file gives a value of the
\* image.
DiskInv ==
    /\ store = "down" => ~Stale
    /\ \A k \in Keys : idx.map[k] # None => idx.map[k].gen <= file.gen
    /\ Stale \/ /\ Finds(idx.map)
                /\ \A k \in Keys :
                      idx.map[k] # None => RecordAt(file, idx.map[k]).val = image[k]

Good ==
    /\ Types /\ OneCall /\ MemoryInv /\ DiskInv
    /\ \A c \in Callers : Phase(op[c])

\* The inductive invariant.
IInv == ~torn => Good

-----------------------------------------------------------------------------
(* Records and where offsets lead.                                         *)

LEMMA NoneIsNone ==
    /\ None \notin Offsets /\ None \notin Keys /\ None \notin Vals /\ None \notin Callers
  BY StoreAssumption DEF Offsets

LEMMA RecordType ==
  ASSUME NEW f \in Files, NEW loc \in Offsets \cup {None}
  PROVE  RecordAt(f, loc) \in Records \cup {Torn}
<1>1. CASE loc # None /\ f.there /\ loc.gen = f.gen /\ loc.at <= Len(f.recs)
  <2>1. loc.at \in 1..Len(f.recs) /\ f.recs \in Seq(Records \cup {Torn})
    BY <1>1 DEF Offsets, Files
  <2>2. f.recs[loc.at] \in Records \cup {Torn}
    BY <2>1, ElementOfSeq
  <2> QED BY <1>1, <2>2 DEF RecordAt
<1>2. CASE ~(loc # None /\ f.there /\ loc.gen = f.gen /\ loc.at <= Len(f.recs))
  BY <1>2 DEF RecordAt
<1> QED BY <1>1, <1>2

LEMMA RecordFields ==
  ASSUME NEW r \in Records \cup {Torn}
  PROVE  /\ r.key \in Keys \cup {None} /\ r.val \in Vals \cup {None}
         /\ r.key \in Keys => r.val \in Vals
         /\ r.key = None => r.val = None
  BY NoneIsNone DEF Records, Torn

\* An offset that leads to the record of a key is one of the file.
LEMMA FoundRecord ==
  ASSUME NEW f \in Files, NEW loc \in Offsets \cup {None}, RecordAt(f, loc).key \in Keys
  PROVE  /\ loc \in Offsets /\ f.there /\ loc.gen = f.gen /\ loc.at \in 1..Len(f.recs)
         /\ RecordAt(f, loc) = f.recs[loc.at]
         /\ RecordAt(f, loc).val \in Vals
<1>1. Torn.key = None
  BY DEF Torn
<1>2. loc # None /\ f.there /\ loc.gen = f.gen /\ loc.at <= Len(f.recs)
  BY <1>1, NoneIsNone DEF RecordAt
<1>3. RecordAt(f, loc).val \in Vals
  BY RecordType, RecordFields
<1> QED BY <1>2, <1>3 DEF RecordAt, Offsets, Files

LEMMA NoRecord ==
  ASSUME NEW f
  PROVE  RecordAt(f, None) = Torn /\ RecordAt(f, None).val = None
  BY DEF RecordAt, Torn

LEMMA ValuesType ==
  ASSUME NEW f \in Files, NEW m \in Indexes
  PROVE  Values(f, m) \in Valuations
<1>1. \A k \in Keys : RecordAt(f, m[k]).val \in Vals \cup {None}
  BY RecordType, RecordFields DEF Indexes
<1> QED BY <1>1 DEF Values, Valuations

\* The records that are there stay where they are when one is added at the end.
LEMMA AddRecord ==
  ASSUME NEW f \in Files, NEW r \in Records \cup {Torn},
         NEW g, g = [f EXCEPT !.recs = WriteAt(@, Len(f.recs) + 1, r)]
  PROVE  /\ g \in Files /\ g.gen = f.gen /\ g.there = f.there
         /\ \A loc \in Offsets \cup {None} :
               RecordAt(f, loc).key \in Keys => RecordAt(g, loc) = RecordAt(f, loc)
         /\ f.there => RecordAt(g, [gen |-> f.gen, at |-> Len(f.recs) + 1]) = r
<1>0. f.recs \in Seq(Records \cup {Torn}) /\ Len(f.recs) \in Nat /\ f.gen \in Nat
  BY DEF Files
<1>1. WriteAt(f.recs, Len(f.recs) + 1, r) = Append(f.recs, r)
  BY <1>0 DEF WriteAt
<1>2. /\ g.gen = f.gen /\ g.recs = Append(f.recs, r) /\ g.there = f.there
      /\ g \in Files
  <2>1. g = [f EXCEPT !.recs = Append(f.recs, r)]
    BY <1>1
  <2>2. Append(f.recs, r) \in Seq(Records \cup {Torn})
    BY <1>0
  <2>3. f \in Files => /\ [f EXCEPT !.recs = Append(f.recs, r)].gen = f.gen
                       /\ [f EXCEPT !.recs = Append(f.recs, r)].recs = Append(f.recs, r)
                       /\ [f EXCEPT !.recs = Append(f.recs, r)].there = f.there
                       /\ [f EXCEPT !.recs = Append(f.recs, r)] \in Files
    BY <2>2 DEF Files
  <2> QED BY <2>1, <2>3
<1>3. /\ Len(g.recs) = Len(f.recs) + 1 /\ g.recs[Len(f.recs) + 1] = r
      /\ \A i \in 1..Len(f.recs) : g.recs[i] = f.recs[i]
  BY <1>0, <1>2
<1>4. ASSUME NEW loc \in Offsets \cup {None}, RecordAt(f, loc).key \in Keys
      PROVE  RecordAt(g, loc) = RecordAt(f, loc)
  <2>1. /\ loc \in Offsets /\ f.there /\ loc.gen = f.gen /\ loc.at \in 1..Len(f.recs)
        /\ RecordAt(f, loc) = f.recs[loc.at]
    BY <1>4, FoundRecord
  <2>2. loc # None
    BY <2>1, NoneIsNone
  <2> QED BY <1>0, <1>2, <1>3, <2>1, <2>2 DEF RecordAt
<1>5. ASSUME f.there PROVE RecordAt(g, [gen |-> f.gen, at |-> Len(f.recs) + 1]) = r
  <2>1. [gen |-> f.gen, at |-> Len(f.recs) + 1] \in Offsets
    BY <1>0 DEF Offsets
  <2>2. [gen |-> f.gen, at |-> Len(f.recs) + 1] # None
    BY <2>1, NoneIsNone
  <2> QED BY <1>0, <1>2, <1>3, <1>5, <2>2 DEF RecordAt
<1> QED BY <1>2, <1>4, <1>5

-----------------------------------------------------------------------------
(* One call at a time.                                                     *)

LEMMA IdleOp ==
    /\ Idle \in Ops /\ Idle.pc = "idle"
    /\ \A o \in Ops : o.pc = "idle" => o = Idle
    /\ \A o \in Ops : o.pc \in Locking \cup {"idle"}
<1>1. Idle \in Ops /\ Idle.pc = "idle"
  BY DEF Idle, Ops
<1>2. ASSUME NEW o \in Ops, o.pc = "idle" PROVE o = Idle
  BY <1>2 DEF Idle, Ops
<1>3. ASSUME NEW o \in Ops PROVE o.pc \in Locking \cup {"idle"}
  BY <1>3 DEF Ops, Locking
<1> QED BY <1>1, <1>2, <1>3

\* A call begins only when there is no other.
LEMMA AllAreIdle ==
  ASSUME Good, lock = None
  PROVE  \A d \in Callers : op[d] = Idle /\ op[d].pc = "idle"
<1> SUFFICES ASSUME NEW d \in Callers PROVE op[d] = Idle
  BY IdleOp
<1>1. op[d].pc \notin Locking
  BY NoneIsNone DEF Good, OneCall
<1> QED BY <1>1, IdleOp DEF Good, Types

LEMMA BeginsAlone ==
  ASSUME Good, NEW c \in Callers, Begins(c), lock = None
  PROVE  store = "open" /\ \A d \in Callers : op[d] = Idle
  BY AllAreIdle DEF Begins

LEMMA BusyAlone ==
  ASSUME Good, NEW c \in Callers, op[c].pc # "idle"
  PROVE  /\ store \in {"open", "dead"} /\ \A d \in Callers \ {c} : op[d] = Idle
         /\ op[c].pc \notin {"save", "entries"} => store = "open"
  BY IdleOp DEF Good, OneCall, Types

\* The only call goes on to o.
LEMMA MoveOp ==
  ASSUME Good, NEW c \in Callers, \A d \in Callers \ {c} : op[d] = Idle,
         NEW o \in Ops, Goes(c, o),
         o.pc \in Locking => lock' = c,
         store' = "open" \/ (store' = "dead" /\ o.pc \in {"idle", "save", "entries"})
  PROVE  /\ op' \in [Callers -> Ops] /\ op'[c] = o
         /\ \A d \in Callers \ {c} : op'[d] = Idle
         /\ OneCall'
         /\ Swapping' <=> o.pc \in {"rename", "reopen"}
         /\ (\E d \in Callers : op'[d].pc = "rename") <=> o.pc = "rename"
         /\ Phase(op[c])' => \A d \in Callers : Phase(op[d])'
<1>1. op' \in [Callers -> Ops] /\ op'[c] = o
  BY DEF Good, Types, Goes
<1>2. \A d \in Callers \ {c} : op'[d] = Idle
  BY DEF Good, Types, Goes
<1>3. \A d \in Callers \ {c} : op'[d].pc = "idle"
  BY <1>2, IdleOp
<1>4. OneCall'
  BY <1>1, <1>2, <1>3, IdleOp DEF OneCall, Locking
<1>5. /\ Swapping' <=> o.pc \in {"rename", "reopen"}
      /\ (\E d \in Callers : op'[d].pc = "rename") <=> o.pc = "rename"
  BY <1>1, <1>3 DEF Swapping
<1>6. \A d \in Callers \ {c} : Phase(op[d])'
  BY <1>3 DEF Phase, WritePhase, SavePhase, SwapPhase
<1> QED BY <1>1, <1>2, <1>4, <1>5, <1>6

\* The same call before: it is the one that swaps or not.
LEMMA OnlyOp ==
  ASSUME Good, NEW c \in Callers, \A d \in Callers \ {c} : op[d] = Idle
  PROVE  /\ Swapping <=> op[c].pc \in {"rename", "reopen"}
         /\ (\E d \in Callers : op[d].pc = "rename") <=> op[c].pc = "rename"
         /\ Swapper = {d \in {c} : op[c].pc \in {"rename", "reopen"}}
  BY IdleOp DEF Swapping, Swapper

\* Calls that are over leave nothing behind.
LEMMA AllIdle ==
  ASSUME op' = [d \in Callers |-> Idle]
  PROVE  /\ op' \in [Callers -> Ops] /\ OneCall' /\ ~Swapping'
         /\ \A d \in Callers : op'[d].pc # "rename"
         /\ \A d \in Callers : Phase(op[d])'
<1>1. op' \in [Callers -> Ops] /\ \A d \in Callers : op'[d] = Idle /\ op'[d].pc = "idle"
  BY IdleOp
<1>2. OneCall' /\ ~Swapping'
  BY <1>1 DEF OneCall, Swapping, Locking
<1>3. \A d \in Callers : Phase(op[d])'
  BY <1>1 DEF Phase, WritePhase, SavePhase, SwapPhase
<1> QED BY <1>1, <1>2, <1>3

-----------------------------------------------------------------------------
(* Steps of a call.                                                        *)

\* Stale, Finds and Values of the index file depend on the two files alone.
LEMMA SameDisk ==
  ASSUME Good, UNCHANGED <<file, idx, image>>, store' = "down" => store = "down"
  PROVE  DiskInv' /\ (Stale' <=> Stale)
<1>1. Stale' <=> Stale
  BY DEF Stale, Foreign
<1> QED BY <1>1 DEF Good, DiskInv, Finds

\* The index in memory and the data file stay, and no call swaps it.
LEMMA SameMemory ==
  ASSUME Good, UNCHANGED <<file, map, store>>, ~Swapping
  PROVE  MemoryInv'
<1>1. \A d \in Callers : op[d].pc # "rename"
  BY DEF Swapping
<1>2. Finds(map)' \/ Orphaned'
  BY DEF Good, MemoryInv, Finds, Orphaned
<1> QED BY <1>1, <1>2 DEF Good, MemoryInv

\* A call goes on and changes none of the two files and two indexes.
LEMMA QuietStep ==
  ASSUME Good, NEW c \in Callers, \A d \in Callers \ {c} : op[d] = Idle,
         NEW o \in Ops, Goes(c, o), o.pc \in Locking => lock' = c,
         op[c].pc \notin {"rename", "reopen"}, o.pc \notin {"rename", "reopen"},
         lock' \in Callers \cup {None},
         store = "open" \/ (store = "dead" /\ o.pc \in {"idle", "save", "entries"}),
         UNCHANGED <<file, idx, image, map, store>>,
         Phase(op[c])'
  PROVE  Good'
<1>1. /\ op' \in [Callers -> Ops] /\ OneCall'
      /\ \A d \in Callers : Phase(op[d])'
  BY MoveOp
<1>2. Types'
  BY <1>1 DEF Good, Types
<1>3. MemoryInv'
  BY OnlyOp, SameMemory
<1> QED BY <1>1, <1>2, <1>3, SameDisk DEF Good

LEMMA ReturnsQuietly ==
  ASSUME Good, NEW c \in Callers, op[c].pc \notin {"idle", "rename", "reopen"},
         Goes(c, Idle), lock' \in {None, lock}, UNCHANGED <<file, idx, image, map, store>>
  PROVE  Good'
<1>1. store \in {"open", "dead"} /\ \A d \in Callers \ {c} : op[d] = Idle
  BY BusyAlone
<1>2. op'[c].pc = "idle"
  BY IdleOp DEF Good, Types, Goes
<1>3. Phase(op[c])'
  BY <1>2 DEF Phase, WritePhase, SavePhase, SwapPhase
<1>4. Idle.pc \notin Locking \cup {"rename", "reopen"} /\ Idle.pc = "idle"
  BY IdleOp DEF Locking
<1>5. lock' \in Callers \cup {None}
  BY DEF Good, Types
<1> QED BY <1>1, <1>3, <1>4, <1>5, IdleOp, QuietStep

\* The index in memory changes at one key, to no entry.
LEMMA ForgetEntry ==
  ASSUME Good, NEW k \in Keys, map' = [map EXCEPT ![k] = None], ~Swapping,
         UNCHANGED <<file, store>>
  PROVE  map' \in Indexes /\ MemoryInv'
<1>1. map' \in Indexes /\ map \in Indexes
  BY DEF Good, Types, Indexes
<1>2. \A j \in Keys : map'[j] \in {map[j], None}
  BY <1>1 DEF Indexes
<1>3. Finds(map)' \/ Orphaned'
  <2>1. CASE Finds(map)
    BY <1>2, <2>1 DEF Finds
  <2>2. CASE Orphaned
    BY <1>2, <2>2 DEF Orphaned
  <2> QED BY <2>1, <2>2 DEF Good, MemoryInv
<1>4. store' = "down" => map' = NoEntries
  <2> SUFFICES ASSUME store' = "down" PROVE map' = NoEntries
    OBVIOUS
  <2>1. map = NoEntries
    BY DEF Good, MemoryInv
  <2> QED BY <2>1 DEF NoEntries
<1>5. \A d \in Callers : op[d].pc # "rename"
  BY DEF Swapping
<1> QED BY <1>1, <1>2, <1>3, <1>4, <1>5 DEF Good, MemoryInv

LEMMA PutKeeps ==
  ASSUME Good, NEW c \in Callers, NEW k \in Keys, NEW v \in Vals, Put(c, k, v)
  PROVE  Good'
<1> DEFINE o == [pc |-> "seek", todo |-> <<<<k, v>>>>]
<1>1. store = "open" /\ \A d \in Callers : op[d] = Idle
  BY BeginsAlone DEF Put, Locks
<1>2. o \in Ops
  <2>1. <<k, v>> \in Pairs
    BY DEF Pairs
  <2>2. <<<<k, v>>>> \in Tasks
    BY <2>1 DEF Tasks
  <2> QED BY <2>2 DEF Ops
<1>3. Goes(c, o) /\ lock' = c /\ o.pc = "seek"
  BY DEF Put, Locks
<1> HIDE DEF o
<1>4. /\ op' \in [Callers -> Ops] /\ op'[c] = o /\ OneCall'
      /\ Phase(op[c])' => \A d \in Callers : Phase(op[d])'
  BY <1>1, <1>2, <1>3, MoveOp DEF Put
<1>5. Phase(op[c])'
  BY <1>3, <1>4 DEF Phase, WritePhase, SavePhase, SwapPhase
<1>6. ~Swapping
  BY <1>1, IdleOp DEF Swapping
<1>7. map' \in Indexes /\ MemoryInv'
  BY <1>6, ForgetEntry DEF Put
<1>8. Types'
  BY <1>3, <1>4, <1>7 DEF Good, Types, Put
<1>9. DiskInv'
  BY SameDisk DEF Put
<1> QED BY <1>4, <1>5, <1>7, <1>8, <1>9 DEF Good

LEMMA BatchPutKeeps ==
  ASSUME Good, NEW c \in Callers, NEW kvs \in Batches, BatchPut(c, kvs)
  PROVE  Good'
<1> DEFINE o == [pc |-> "seek", todo |-> kvs]
<1>1. store = "open" /\ \A d \in Callers : op[d] = Idle
  BY BeginsAlone DEF BatchPut, Locks
<1>2. o \in Ops
  <2>1. PICK p \in Pairs, q \in Pairs : kvs = <<p, q>>
    BY DEF Batches
  <2>2. <<p, q>> \in Seq(Pairs) /\ <<p, q>> # <<>>
    BY <2>1
  <2>3. kvs \in Tasks
    BY <2>1, <2>2 DEF Tasks
  <2> QED BY <2>3 DEF Ops
<1>3. Goes(c, o) /\ lock' = c /\ o.pc = "seek"
  BY DEF BatchPut, Locks
<1> HIDE DEF o
<1>4. op'[c] = o
  BY <1>3 DEF Good, Types, Goes
<1>5. Phase(op[c])'
  BY <1>3, <1>4 DEF Phase, WritePhase, SavePhase, SwapPhase
<1>6. op[c].pc = "idle"
  BY <1>1, IdleOp
<1>7. lock' \in Callers \cup {None}
  BY <1>3 DEF Good, Types, BatchPut
<1> QED BY <1>1, <1>2, <1>3, <1>5, <1>6, <1>7, QuietStep DEF BatchPut

LEMMA SeekKeeps ==
  ASSUME Good, NEW c \in Callers, Seek(c)
  PROVE  Good'
<1> DEFINE loc == [gen |-> file.gen, at |-> Len(file.recs) + 1]
           o == [pc |-> "write", todo |-> op[c].todo, loc |-> loc]
<1>0. op[c].pc = "seek"
  BY DEF Seek
<1>1. store = "open" /\ \A d \in Callers \ {c} : op[d] = Idle
  BY <1>0, BusyAlone
<1>2. file \in Files /\ file.gen \in Nat /\ Len(file.recs) \in Nat
  BY DEF Good, Types, Files
<1>3. op[c].todo \in Tasks
  BY <1>0 DEF Good, Types, Ops
<1>4. loc \in Offsets
  BY <1>2 DEF Offsets
<1>5. o \in Ops
  BY <1>3, <1>4 DEF Ops
<1>6. Goes(c, o) /\ lock' = lock
  BY DEF Seek
<1>7. lock = c
  BY <1>0 DEF Good, OneCall, Locking
<1>8. op'[c] = o
  BY <1>6 DEF Good, Types, Goes
<1>9. op[c].todo[1][1] \in Keys
  <2>1. op[c].todo[1] \in Pairs
    BY <1>3 DEF Tasks
  <2> QED BY <2>1 DEF Pairs, Seek
<1>10. Phase(op[c])'
  BY <1>6, <1>8, <1>9 DEF Phase, WritePhase, SavePhase, SwapPhase, Seek
<1>11. o.pc = "write"
  OBVIOUS
<1> HIDE DEF o
<1> QED BY <1>0, <1>1, <1>5, <1>6, <1>7, <1>10, <1>11, QuietStep DEF Seek

\* A call that writes has the offset of the end of the data file.
LEMMA WriterFacts ==
  ASSUME Good, NEW c \in Callers, op[c].pc = "write"
  PROVE  /\ store = "open" /\ \A d \in Callers \ {c} : op[d] = Idle
         /\ lock = c /\ file.there /\ Finds(map)
         /\ op[c].loc = [gen |-> file.gen, at |-> Len(file.recs) + 1]
         /\ op[c].loc \in Offsets /\ op[c].todo \in Tasks
         /\ op[c].todo[1][1] \in Keys /\ op[c].todo[1][2] \in Vals
<1>1. store = "open" /\ \A d \in Callers \ {c} : op[d] = Idle
  BY BusyAlone
<1>2. lock = c
  BY DEF Good, OneCall, Locking
<1>3. file.there /\ Finds(map)
  BY <1>1, OnlyOp DEF Good, MemoryInv, Orphaned
<1>4. /\ op[c].loc = [gen |-> file.gen, at |-> Len(file.recs) + 1]
      /\ op[c].todo[1][1] \in Keys
  BY DEF Good, Phase, WritePhase
<1>5. op[c].loc \in Offsets /\ op[c].todo \in Tasks
  BY DEF Good, Types, Ops
<1>6. op[c].todo[1] \in Pairs
  BY <1>5 DEF Tasks
<1> QED BY <1>1, <1>2, <1>3, <1>4, <1>5, <1>6 DEF Pairs

\* The data file grows by one record: the index file means what it meant.
LEMMA GrownDisk ==
  ASSUME Good, NEW r \in Records \cup {Torn},
         file' = [file EXCEPT !.recs = WriteAt(@, Len(file.recs) + 1, r)],
         UNCHANGED <<idx, image, store>>
  PROVE  /\ file' \in Files /\ file'.gen = file.gen /\ file'.there = file.there
         /\ DiskInv' /\ (Stale' <=> Stale)
         /\ \A loc \in Offsets \cup {None} :
               RecordAt(file, loc).key \in Keys => RecordAt(file', loc) = RecordAt(file, loc)
         /\ file.there => RecordAt(file', [gen |-> file.gen, at |-> Len(file.recs) + 1]) = r
<1>0. file \in Files /\ idx.map \in Indexes
  BY DEF Good, Types
<1>1. /\ file' \in Files /\ file'.gen = file.gen /\ file'.there = file.there
      /\ \A loc \in Offsets \cup {None} :
            RecordAt(file, loc).key \in Keys => RecordAt(file', loc) = RecordAt(file, loc)
      /\ file.there => RecordAt(file', [gen |-> file.gen, at |-> Len(file.recs) + 1]) = r
  BY <1>0, AddRecord
<1>2. Stale' <=> Stale
  BY <1>1 DEF Stale, Foreign
<1>3. ~Stale => \A k \in Keys : idx.map[k] # None =>
                    RecordAt(file', idx.map[k]) = RecordAt(file, idx.map[k])
  BY <1>0, <1>1 DEF Good, DiskInv, Finds, Indexes
<1>4. DiskInv'
  BY <1>1, <1>2, <1>3 DEF Good, DiskInv, Finds
<1> QED BY <1>1, <1>2, <1>4

LEMMA WriteKeeps ==
  ASSUME Good, NEW c \in Callers, Write(c), ~torn'
  PROVE  Good'
<1> DEFINE k == op[c].todo[1][1]
           r == [key |-> k, val |-> op[c].todo[1][2]]
           rest == Tail(op[c].todo)
           o == IF rest = <<>> THEN [pc |-> "save", close |-> FALSE]
                ELSE [pc |-> "seek", todo |-> rest]
<1>0. op[c].pc = "write"
  BY DEF Write
<1>1. /\ store = "open" /\ \A d \in Callers \ {c} : op[d] = Idle
      /\ lock = c /\ file.there /\ Finds(map)
      /\ op[c].loc = [gen |-> file.gen, at |-> Len(file.recs) + 1]
      /\ op[c].loc \in Offsets /\ op[c].todo \in Tasks
      /\ k \in Keys /\ op[c].todo[1][2] \in Vals
  BY <1>0, WriterFacts
<1>2. r \in Records
  BY <1>1 DEF Records
<1>3. o \in Ops /\ o.pc \in {"save", "seek"}
  <2>1. rest \in Seq(Pairs)
    BY <1>1 DEF Tasks
  <2>2. CASE rest = <<>>
    BY <2>2 DEF Ops
  <2>3. CASE rest # <<>>
    BY <2>1, <2>3 DEF Ops, Tasks
  <2> QED BY <2>2, <2>3
<1>4. /\ Goes(c, o) /\ UNCHANGED <<idx, image, store, lock>>
      /\ map' = [map EXCEPT ![k] = op[c].loc]
      /\ file' = [file EXCEPT !.recs = WriteAt(@, Len(file.recs) + 1, r)]
  <2>0. pos = op[c].loc.at
    BY DEF Write
  <2>1. pos = Len(file.recs) + 1
    BY <1>1, <2>0
  <2> QED BY <2>1 DEF Write
<1> HIDE DEF k, r, o
<1>5. /\ file' \in Files /\ file'.gen = file.gen /\ file'.there
      /\ DiskInv'
      /\ \A loc \in Offsets \cup {None} :
            RecordAt(file, loc).key \in Keys => RecordAt(file', loc) = RecordAt(file, loc)
      /\ RecordAt(file', op[c].loc) = r
  BY <1>1, <1>2, <1>4, GrownDisk
<1>6. /\ op' \in [Callers -> Ops] /\ op'[c] = o /\ OneCall'
      /\ Phase(op[c])' => \A d \in Callers : Phase(op[d])'
  BY <1>1, <1>3, <1>4, MoveOp
<1>7. \A d \in Callers : Phase(op[d])'
  BY <1>3, <1>6 DEF Phase, WritePhase, SavePhase, SwapPhase
<1>8. map \in Indexes /\ map' \in Indexes
  BY <1>1, <1>4 DEF Good, Types, Indexes
<1>9. Finds(map)'
  <2>1. r.key = k
    BY DEF r
  <2>2. ASSUME NEW j \in Keys, map'[j] # None PROVE RecordAt(file', map'[j]).key = j
    <3>1. CASE j = k
      BY <1>4, <1>5, <1>8, <2>1, <3>1 DEF Indexes
    <3>2. CASE j # k
      BY <1>1, <1>4, <1>5, <1>8, <2>2, <3>2 DEF Indexes, Finds
    <3> QED BY <3>1, <3>2
  <2> QED BY <2>2 DEF Finds
<1>10. \A j \in Keys : map'[j] # None => map'[j].gen <= file'.gen
  <2>1. file.gen \in Nat /\ op[c].loc.gen = file.gen
    BY <1>1 DEF Good, Types, Files
  <2> QED BY <1>1, <1>4, <1>5, <1>8, <2>1 DEF Good, MemoryInv, Indexes
<1>11. MemoryInv'
  BY <1>1, <1>4, <1>5, <1>9, <1>10 DEF MemoryInv
<1>12. Types'
  BY <1>4, <1>5, <1>6, <1>8 DEF Good, Types
<1> QED BY <1>5, <1>6, <1>7, <1>11, <1>12 DEF Good

LEMMA WriteFailsKeeps ==
  ASSUME Good, NEW c \in Callers, WriteFails(c), ~torn'
  PROVE  Good'
<1>0. op[c].pc = "write"
  BY DEF WriteFails
<1>1. /\ store = "open" /\ \A d \in Callers \ {c} : op[d] = Idle
      /\ file.there /\ Finds(map)
      /\ op[c].loc = [gen |-> file.gen, at |-> Len(file.recs) + 1]
  BY <1>0, WriterFacts
<1>2. /\ Goes(c, Idle) /\ UNCHANGED <<idx, image, map, store>>
      /\ lock' = None
      /\ file' = [file EXCEPT !.recs = WriteAt(@, Len(file.recs) + 1, Torn)]
  <2>0. pos = op[c].loc.at
    BY DEF WriteFails
  <2>1. pos = Len(file.recs) + 1
    BY <1>1, <2>0
  <2> QED BY <2>1 DEF WriteFails, Returns
<1>3. /\ file' \in Files /\ file'.gen = file.gen /\ file'.there /\ DiskInv'
      /\ \A loc \in Offsets \cup {None} :
            RecordAt(file, loc).key \in Keys => RecordAt(file', loc) = RecordAt(file, loc)
  BY <1>1, <1>2, GrownDisk
<1>4. Idle.pc = "idle" /\ Idle \in Ops /\ Idle.pc \notin Locking
  BY IdleOp DEF Locking
<1>5. /\ op' \in [Callers -> Ops] /\ op'[c] = Idle /\ OneCall'
      /\ Phase(op[c])' => \A d \in Callers : Phase(op[d])'
  BY <1>1, <1>2, <1>4, MoveOp
<1>6. \A d \in Callers : Phase(op[d])'
  BY <1>4, <1>5 DEF Phase, WritePhase, SavePhase, SwapPhase
<1>7. Finds(map)'
  BY <1>1, <1>2, <1>3 DEF Good, Types, Indexes, Finds
<1>8. MemoryInv'
  BY <1>1, <1>2, <1>3, <1>7 DEF Good, MemoryInv
<1>9. Types'
  BY <1>2, <1>3, <1>5 DEF Good, Types
<1> QED BY <1>3, <1>5, <1>6, <1>8, <1>9 DEF Good

LEMMA BadKeyReturnsKeeps ==
  ASSUME Good, NEW c \in Callers, BadKeyReturns(c)
  PROVE  Good'
  BY ReturnsQuietly DEF BadKeyReturns, Returns

LEMMA SaveEndsKeeps ==
  ASSUME Good, NEW c \in Callers, SaveEnds(c)
  PROVE  Good'
  BY ReturnsQuietly DEF SaveEnds, Synced, Returns

LEMMA SaveFailsKeeps ==
  ASSUME Good, NEW c \in Callers, SaveFails(c)
  PROVE  Good'
  BY ReturnsQuietly DEF SaveFails, Returns

LEMMA DeleteKeeps ==
  ASSUME Good, NEW c \in Callers, NEW k \in Keys, Delete(c, k)
  PROVE  Good'
<1>1. \A d \in Callers : op[d] = Idle /\ op[d].pc = "idle"
  BY AllAreIdle DEF Delete
<1>2. ~Swapping
  BY <1>1 DEF Swapping
<1>3. map' \in Indexes /\ MemoryInv'
  BY <1>2, ForgetEntry DEF Delete
<1>4. Types' /\ OneCall'
  BY <1>1, <1>3 DEF Good, Types, OneCall, Delete, Locking
<1>5. \A d \in Callers : Phase(op[d])'
  BY <1>1 DEF Phase, WritePhase, SavePhase, SwapPhase, Delete
<1>6. DiskInv'
  BY SameDisk DEF Delete
<1> QED BY <1>3, <1>4, <1>5, <1>6 DEF Good

\* Get moves the position and nothing else.
LEMMA ReadsKeep ==
  ASSUME Good, NEW r \in Readers, Reads(r)
  PROVE  Good' /\ UNCHANGED <<file, idx, image, map, store, lock, op, torn>>
<1>1. UNCHANGED <<file, idx, image, map, store, lock, op, torn>>
  BY DEF Reads, Get, GetSeek, GetRead, GetFails
<1>2. Types' /\ OneCall'
  BY <1>1 DEF Good, Types, OneCall
<1>3. MemoryInv' /\ DiskInv'
  BY <1>1 DEF Good, MemoryInv, DiskInv, Finds, Orphaned, Stale, Foreign, Swapping
<1>4. \A c \in Callers : Phase(op[c])'
  BY <1>1 DEF Good, Phase, WritePhase, SavePhase, SwapPhase, Unsaved, FindsIn, Values
<1> QED BY <1>1, <1>2, <1>3, <1>4 DEF Good

-----------------------------------------------------------------------------
(* saveIndex.                                                              *)

LEMMA SaverFacts ==
  ASSUME Good, NEW c \in Callers, op[c].pc \in {"save", "entries"}
  PROVE  /\ store \in {"open", "dead"} /\ \A d \in Callers \ {c} : op[d] = Idle
         /\ lock = c /\ ~Swapping /\ (Finds(map) \/ Orphaned) /\ op[c].close \in BOOLEAN
<1>1. store \in {"open", "dead"} /\ \A d \in Callers \ {c} : op[d] = Idle
  BY BusyAlone
<1>2. lock = c
  BY DEF Good, OneCall, Locking
<1>3. ~Swapping
  BY <1>1, OnlyOp
<1>4. op[c].close \in BOOLEAN
  BY DEF Good, Types, Ops
<1> QED BY <1>1, <1>2, <1>3, <1>4 DEF Good, MemoryInv

LEMMA EntriesFacts ==
  ASSUME Good, NEW c \in Callers, op[c].pc = "entries"
  PROVE  /\ op[c].todo \in SUBSET Keys
         /\ image = Values(file, map) /\ (idx.half => op[c].key \in Keys \ op[c].todo)
         /\ \A k \in Keys : IF k \in Unsaved(op[c]) THEN map[k] # None /\ idx.map[k] = None
                                                    ELSE idx.map[k] = map[k]
<1>1. op[c].todo \in SUBSET Keys
  BY DEF Good, Types, Ops
<1> QED BY <1>1 DEF Good, Phase, SavePhase

\* An index that holds some entries of the one in memory, for the same data file.
LEMMA PartOfMap ==
  ASSUME Good, Finds(map), image = Values(file, map),
         NEW m, \A k \in Keys : m[k] \in {None, map[k]}
  PROVE  \A k \in Keys : m[k] # None =>
             /\ file.there /\ m[k].gen = file.gen
             /\ RecordAt(file, m[k]).key = k /\ RecordAt(file, m[k]).val = image[k]
<1> SUFFICES ASSUME NEW k \in Keys, m[k] # None
             PROVE  /\ file.there /\ m[k].gen = file.gen
                    /\ RecordAt(file, m[k]).key = k /\ RecordAt(file, m[k]).val = image[k]
  OBVIOUS
<1>1. m[k] = map[k] /\ RecordAt(file, map[k]).key = k
  BY DEF Finds
<1>2. file \in Files /\ map[k] \in Offsets \cup {None}
  BY DEF Good, Types, Indexes
<1>3. file.there /\ map[k].gen = file.gen
  BY <1>1, <1>2, FoundRecord
<1>4. RecordAt(file, map[k]).val = image[k]
  BY DEF Values
<1> QED BY <1>1, <1>3, <1>4

\* Such an index, once it is in the index file.
LEMMA PartOnDisk ==
  ASSUME Good, Finds(map) \/ Orphaned, UNCHANGED <<file, map, store>>,
         store \in {"open", "dead"}, image' = Values(file, map),
         \A k \in Keys : idx'.map[k] \in {None, map[k]}
  PROVE  DiskInv'
<1>1. \A k \in Keys : idx'.map[k] # None => idx'.map[k].gen <= file.gen
  BY DEF Good, MemoryInv
<1>2. CASE Finds(map)
  <2>1. ASSUME NEW k \in Keys, idx'.map[k] # None
        PROVE  /\ RecordAt(file, idx'.map[k]).key = k
               /\ RecordAt(file, idx'.map[k]).val = image'[k]
    <3>1. idx'.map[k] = map[k] /\ RecordAt(file, map[k]).key = k
      BY <1>2, <2>1 DEF Finds
    <3>2. RecordAt(file, map[k]).val = image'[k]
      BY DEF Values
    <3> QED BY <3>1, <3>2
  <2> QED BY <1>1, <2>1 DEF DiskInv, Finds
<1>3. CASE Orphaned
  <2>1. (\E k \in Keys : idx'.map[k] # None) => Stale'
    BY <1>3 DEF Orphaned, Stale, Foreign
  <2> QED BY <1>1, <2>1 DEF DiskInv, Finds
<1> QED BY <1>2, <1>3

LEMMA NoEntriesType == NoEntries \in Indexes /\ \A k \in Keys : NoEntries[k] = None
  BY DEF NoEntries, Indexes

LEMMA TruncateKeeps ==
  ASSUME Good, NEW c \in Callers, Truncate(c)
  PROVE  Good'
<1> DEFINE S == {k \in Keys : map[k] # None}
           o == [pc |-> "entries", todo |-> S, close |-> op[c].close]
<1>0. op[c].pc = "save"
  BY DEF Truncate
<1>1. /\ store \in {"open", "dead"} /\ \A d \in Callers \ {c} : op[d] = Idle
      /\ lock = c /\ ~Swapping /\ (Finds(map) \/ Orphaned) /\ op[c].close \in BOOLEAN
  BY <1>0, SaverFacts
<1>2. o \in Ops /\ o.pc = "entries" /\ o.todo = S
  BY <1>1 DEF Ops
<1>3. /\ Goes(c, o) /\ UNCHANGED <<file, map, store, lock>>
      /\ idx' = [map |-> NoEntries, half |-> FALSE] /\ image' = Values(file, map)
  BY DEF Truncate
<1> HIDE DEF o
<1>4. /\ op' \in [Callers -> Ops] /\ op'[c] = o /\ OneCall'
      /\ Phase(op[c])' => \A d \in Callers : Phase(op[d])'
  BY <1>1, <1>2, <1>3, MoveOp
<1>5. /\ idx'.map = NoEntries /\ ~idx'.half /\ \A k \in Keys : idx'.map[k] = None
  BY <1>3, NoEntriesType
<1>6. DiskInv'
  BY <1>1, <1>3, <1>5, PartOnDisk
<1>7. SavePhase(op[c])'
  <2>1. Unsaved(op[c])' = S
    BY <1>2, <1>4, <1>5 DEF Unsaved
  <2>2. image' = Values(file, map)'
    BY <1>3 DEF Values
  <2>3. \A k \in Keys : IF k \in S THEN map'[k] # None /\ idx'.map[k] = None
                                   ELSE idx'.map[k] = map'[k]
    BY <1>3, <1>5
  <2> QED BY <1>5, <2>1, <2>2, <2>3 DEF SavePhase
<1>8. \A d \in Callers : Phase(op[d])'
  BY <1>2, <1>4, <1>7 DEF Phase, WritePhase, SwapPhase
<1>9. Types'
  <2>1. file \in Files /\ map \in Indexes
    BY DEF Good, Types
  <2>2. image' \in Valuations
    BY <1>3, <2>1, ValuesType
  <2>3. idx' \in [map : Indexes, half : BOOLEAN]
    BY <1>3, NoEntriesType
  <2> QED BY <1>3, <1>4, <2>2, <2>3 DEF Good, Types
<1>10. MemoryInv'
  BY <1>1, <1>3, SameMemory
<1> QED BY <1>4, <1>6, <1>8, <1>9, <1>10 DEF Good

LEMMA SaveKeyKeeps ==
  ASSUME Good, NEW c \in Callers, NEW k \in Keys, SaveKey(c, k)
  PROVE  Good'
<1> DEFINE o == [pc |-> "entries", todo |-> op[c].todo \ {k}, close |-> op[c].close, key |-> k]
<1>0. op[c].pc = "entries" /\ k \in op[c].todo /\ ~idx.half
  BY DEF SaveKey
<1>1. /\ store \in {"open", "dead"} /\ \A d \in Callers \ {c} : op[d] = Idle
      /\ lock = c /\ ~Swapping /\ (Finds(map) \/ Orphaned) /\ op[c].close \in BOOLEAN
  BY <1>0, SaverFacts
<1>2. /\ op[c].todo \in SUBSET Keys
      /\ image = Values(file, map)
      /\ \A j \in Keys : IF j \in Unsaved(op[c]) THEN map[j] # None /\ idx.map[j] = None
                                                 ELSE idx.map[j] = map[j]
  BY <1>0, EntriesFacts
<1>3. o \in Ops /\ o.pc = "entries" /\ o.todo = op[c].todo \ {k} /\ o.key = k
  <2>1. op[c].todo \ {k} \in SUBSET Keys
    BY <1>2
  <2> QED BY <1>1, <2>1 DEF Ops
<1>4. /\ Goes(c, o) /\ UNCHANGED <<file, image, map, store, lock>>
      /\ idx' = [idx EXCEPT !.half = TRUE]
  BY DEF SaveKey
<1> HIDE DEF o
<1>5. /\ idx' \in [map : Indexes, half : BOOLEAN] /\ idx'.map = idx.map /\ idx'.half
  BY <1>4 DEF Good, Types
<1>6. /\ op' \in [Callers -> Ops] /\ op'[c] = o /\ OneCall'
      /\ Phase(op[c])' => \A d \in Callers : Phase(op[d])'
  BY <1>1, <1>3, <1>4, MoveOp
<1>7. DiskInv'
  <2>1. \A j \in Keys : idx'.map[j] \in {None, map[j]}
    BY <1>2, <1>5
  <2> QED BY <1>1, <1>2, <1>4, <2>1, PartOnDisk
<1>8. SavePhase(op[c])'
  <2>1. Unsaved(op[c]) = op[c].todo /\ Unsaved(op[c])' = op[c].todo
    BY <1>0, <1>3, <1>5, <1>6 DEF Unsaved
  <2>2. image' = Values(file, map)'
    BY <1>2, <1>4 DEF Values
  <2> QED BY <1>2, <1>3, <1>4, <1>5, <1>6, <2>1, <2>2 DEF SavePhase
<1>9. \A d \in Callers : Phase(op[d])'
  BY <1>3, <1>6, <1>8 DEF Phase, WritePhase, SwapPhase
<1>10. Types'
  BY <1>4, <1>5, <1>6 DEF Good, Types
<1>11. MemoryInv'
  BY <1>1, <1>4, SameMemory
<1> QED BY <1>6, <1>7, <1>9, <1>10, <1>11 DEF Good

LEMMA SaveOffsetKeeps ==
  ASSUME Good, NEW c \in Callers, SaveOffset(c)
  PROVE  Good'
<1> DEFINE o == [pc |-> "entries", todo |-> op[c].todo, close |-> op[c].close]
           k == op[c].key
<1>0. op[c].pc = "entries" /\ idx.half
  BY DEF SaveOffset
<1>1. /\ store \in {"open", "dead"} /\ \A d \in Callers \ {c} : op[d] = Idle
      /\ lock = c /\ ~Swapping /\ (Finds(map) \/ Orphaned) /\ op[c].close \in BOOLEAN
  BY <1>0, SaverFacts
<1>2. /\ op[c].todo \in SUBSET Keys /\ k \in Keys \ op[c].todo
      /\ image = Values(file, map)
      /\ \A j \in Keys : IF j \in Unsaved(op[c]) THEN map[j] # None /\ idx.map[j] = None
                                                 ELSE idx.map[j] = map[j]
  BY <1>0, EntriesFacts
<1>3. o \in Ops /\ o.pc = "entries" /\ o.todo = op[c].todo
  BY <1>1, <1>2 DEF Ops
<1>4. /\ Goes(c, o) /\ UNCHANGED <<file, image, map, store, lock>>
      /\ idx' = [map |-> [idx.map EXCEPT ![k] = map[k]], half |-> FALSE]
  BY DEF SaveOffset
<1> HIDE DEF o, k
<1>5. /\ idx' \in [map : Indexes, half : BOOLEAN] /\ ~idx'.half
      /\ \A j \in Keys : idx'.map[j] = IF j = k THEN map[j] ELSE idx.map[j]
  <2>1. idx.map \in Indexes /\ map \in Indexes
    BY DEF Good, Types
  <2>2. [idx.map EXCEPT ![k] = map[k]] \in Indexes
    BY <1>2, <2>1 DEF Indexes
  <2> QED BY <1>2, <1>4, <2>1, <2>2 DEF Indexes
<1>6. /\ op' \in [Callers -> Ops] /\ op'[c] = o /\ OneCall'
      /\ Phase(op[c])' => \A d \in Callers : Phase(op[d])'
  BY <1>1, <1>3, <1>4, MoveOp
<1>7. DiskInv'
  <2>1. \A j \in Keys : idx'.map[j] \in {None, map[j]}
    BY <1>2, <1>5
  <2>2. image' = Values(file, map)
    BY <1>2, <1>4
  <2> QED BY <1>1, <1>4, <2>1, <2>2, PartOnDisk
<1>8. SavePhase(op[c])'
  <2>1. Unsaved(op[c]) = op[c].todo \cup {k} /\ Unsaved(op[c])' = op[c].todo
    BY <1>0, <1>3, <1>5, <1>6 DEF Unsaved, k
  <2>2. image' = Values(file, map)'
    BY <1>2, <1>4 DEF Values
  <2> QED BY <1>2, <1>3, <1>4, <1>5, <1>6, <2>1, <2>2 DEF SavePhase
<1>9. \A d \in Callers : Phase(op[d])'
  BY <1>3, <1>6, <1>8 DEF Phase, WritePhase, SwapPhase
<1>10. Types'
  BY <1>4, <1>5, <1>6 DEF Good, Types
<1>11. MemoryInv'
  BY <1>1, <1>4, SameMemory
<1> QED BY <1>6, <1>7, <1>9, <1>10, <1>11 DEF Good

-----------------------------------------------------------------------------
(* Steps that end the process, and Open.                                   *)

LEMMA Stops ==
  ASSUME Good, UNCHANGED <<file, idx, image>>,
         op' = [d \in Callers |-> Idle], lock' = None, map' = NoEntries,
         store' = "down", ~Stale
  PROVE  Good'
<1>1. /\ op' \in [Callers -> Ops] /\ OneCall' /\ \A d \in Callers : Phase(op[d])'
  BY AllIdle
<1>2. Types'
  BY <1>1, NoEntriesType DEF Good, Types
<1>3. MemoryInv'
  BY NoEntriesType DEF Finds, MemoryInv
<1>4. Stale' <=> Stale
  BY DEF Stale, Foreign
<1>5. DiskInv'
  BY <1>4 DEF Good, DiskInv, Finds
<1> QED BY <1>1, <1>2, <1>3, <1>5 DEF Good

\* saveIndex has written the whole index.
LEMMA SyncedFacts ==
  ASSUME Good, NEW c \in Callers, Synced(c), store = "open"
  PROVE  /\ \A k \in Keys : idx.map[k] = map[k]
         /\ ~Stale /\ image = Values(file, map)
<1>0. op[c].pc = "entries" /\ op[c].todo = {} /\ ~idx.half
  BY DEF Synced
<1>1. Finds(map)
  BY <1>0, SaverFacts DEF Orphaned
<1>2. image = Values(file, map) /\ \A k \in Keys : idx.map[k] = map[k]
  BY <1>0, EntriesFacts DEF Unsaved
<1>3. \A k \in Keys : idx.map[k] # None => file.there /\ idx.map[k].gen = file.gen
  BY <1>1, <1>2, PartOfMap
<1> QED BY <1>2, <1>3 DEF Stale, Foreign

LEMMA CloseEndsKeeps ==
  ASSUME Good, NEW c \in Callers, CloseEnds(c)
  PROVE  Good'
<1>1. \A d \in Callers \ {c} : op[d] = Idle
  BY SaverFacts DEF CloseEnds, Synced
<1>2. op' = [d \in Callers |-> Idle]
  BY <1>1 DEF Good, Types, CloseEnds, Returns, Goes
<1>3. ~Stale
  BY SyncedFacts DEF CloseEnds
<1> QED BY <1>2, <1>3, Stops DEF CloseEnds, Returns

LEMMA CrashKeeps ==
  ASSUME Good, Crash, ~torn'
  PROVE  Good'
  BY Stops DEF Crash

\* What Open finds: the data file of the index, or none and an empty index.
LEMMA OpenFacts ==
  ASSUME Good, Open
  PROVE  /\ file' \in Files /\ file'.there /\ file'.gen >= file.gen /\ file.gen \in Nat
         /\ idx.map \in Indexes /\ map' = idx.map /\ image' = Values(file', idx.map)
         /\ \A k \in Keys : idx.map[k] # None => file' = file
<1>1. file \in Files /\ file.gen \in Nat /\ idx.map \in Indexes
  BY DEF Good, Types, Files
<1>2. [gen |-> file.gen + 1, recs |-> <<>>, there |-> TRUE] \in Files
  BY <1>1 DEF Files
<1>3. file' \in Files /\ file'.there /\ file'.gen >= file.gen
  BY <1>1, <1>2 DEF Open, Create
<1>4. \A k \in Keys : idx.map[k] # None => file.there
  BY DEF Good, DiskInv, Stale, Foreign, Open
<1>5. \A k \in Keys : idx.map[k] # None => file' = file
  BY <1>4 DEF Open, Create
<1>6. map' = idx.map /\ image' = Values(file', idx.map)
  BY DEF Open
<1> QED BY <1>1, <1>3, <1>5, <1>6

LEMMA OpenKeeps ==
  ASSUME Good, Open
  PROVE  Good'
<1>1. /\ file' \in Files /\ file'.there /\ file'.gen >= file.gen /\ file.gen \in Nat
      /\ idx.map \in Indexes /\ map' = idx.map /\ image' = Values(file', idx.map)
      /\ \A k \in Keys : idx.map[k] # None => file' = file
  BY OpenFacts
<1>2. /\ UNCHANGED <<idx, lock, op>> /\ store' = "open" /\ ~Stale
  BY DEF Open, Good, DiskInv
<1>3. image' \in Valuations
  BY <1>1, ValuesType
<1>4. \A d \in Callers : op'[d] = Idle /\ op'[d].pc = "idle"
  BY <1>2, IdleOp DEF Good, OneCall, Open
<1>5. Types'
  BY <1>1, <1>2, <1>3 DEF Good, Types
<1>6. OneCall'
  BY <1>4 DEF OneCall, Locking
<1>7. \A d \in Callers : Phase(op[d])'
  BY <1>4 DEF Phase, WritePhase, SavePhase, SwapPhase
<1>8. \A k \in Keys : idx.map[k] # None =>
          /\ file'.there /\ idx.map[k].gen = file'.gen /\ RecordAt(file', idx.map[k]).key = k
  BY <1>1, <1>2 DEF Good, DiskInv, Stale, Foreign, Finds
<1>9. \A k \in Keys : idx.map[k] # None => idx.map[k].gen <= file'.gen
  <2>1. file'.gen \in Nat
    BY <1>1 DEF Files
  <2> QED BY <1>8, <2>1
<1>10. MemoryInv'
  BY <1>1, <1>2, <1>8, <1>9 DEF MemoryInv, Finds
<1>11. DiskInv'
  <2>1. \A k \in Keys : RecordAt(file', idx.map[k]).val = image'[k]
    BY <1>1 DEF Values
  <2> QED BY <1>2, <1>8, <1>9, <2>1 DEF DiskInv, Finds
<1> QED BY <1>5, <1>6, <1>7, <1>10, <1>11 DEF Good

-----------------------------------------------------------------------------
(* Close.                                                                  *)

LEMMA CloseKeeps ==
  ASSUME Good, NEW c \in Callers, Close(c)
  PROVE  Good'
<1> DEFINE o == [pc |-> "save", close |-> TRUE]
<1>1. store \in {"open", "dead"} /\ \A d \in Callers : op[d] = Idle
  BY AllAreIdle DEF Close, Locks, Good, Types
<1>2. o \in Ops /\ o.pc = "save"
  BY DEF Ops
<1>3. Goes(c, o) /\ lock' = c
  BY DEF Close, Locks
<1> HIDE DEF o
<1>4. op'[c] = o
  BY <1>3 DEF Good, Types, Goes
<1>5. Phase(op[c])'
  BY <1>2, <1>4 DEF Phase, WritePhase, SavePhase, SwapPhase
<1>6. op[c].pc = "idle"
  BY <1>1, IdleOp
<1>7. lock' \in Callers \cup {None}
  BY <1>3 DEF Good, Types, Close
<1> QED BY <1>1, <1>2, <1>3, <1>5, <1>6, <1>7, QuietStep DEF Close

-----------------------------------------------------------------------------
(* Compact.                                                                *)

\* An order of a finite set meets every element of it.
LEMMA OrderIsOnto ==
  ASSUME NEW S, IsFiniteSet(S), NEW s \in Orders(S)
  PROVE  /\ Cardinality(S) \in Nat /\ s \in [1..Cardinality(S) -> S]
         /\ \A x \in S : \E i \in 1..Cardinality(S) : s[i] = x
<1> DEFINE n == Cardinality(S)
<1>1. n \in Nat
  BY FS_CardinalityType
<1>2. s \in [1..n -> S] /\ s \in Injection(1..n, S)
  BY DEF Orders, Injection, IsInjective
<1>3. Cardinality(1..n) = n
  BY <1>1, FS_Interval
<1>4. s \in Surjection(1..n, S)
  BY <1>2, <1>3, FS_Injection
<1> QED BY <1>1, <1>2, <1>4 DEF Surjection

\* Indexes that lead to the same values key by key stand for the same map.
LeadAlike(f, m, g, n) == \A k \in Keys : RecordAt(f, m[k]).val = RecordAt(g, n[k]).val

\* Values only depends on where the entries lead.
LEMMA SameValues ==
  ASSUME NEW f, NEW m, NEW g, NEW n, LeadAlike(f, m, g, n)
  PROVE  Values(f, m) = Values(g, n)
  BY DEF Values, LeadAlike

\* The copy holds a record of every key of the index, and the same values.
LEMMA CopyFinds ==
  ASSUME NEW f \in Files, NEW m \in Indexes, FindsIn(f, m), NEW g \in Nat,
         NEW s \in Orders({k \in Keys : m[k] # None}),
         NEW tmp, tmp = [gen |-> g, there |-> TRUE,
                         recs |-> [i \in DOMAIN s |-> RecordAt(f, m[s[i]])]],
         NEW new, new = [k \in Keys |-> IF m[k] = None THEN None
                         ELSE [gen |-> g, at |-> CHOOSE i \in DOMAIN s : s[i] = k]]
  PROVE  /\ tmp \in Files /\ new \in Indexes
         /\ FindsIn(tmp, new) /\ LeadAlike(tmp, new, f, m)
<1> DEFINE S == {k \in Keys : m[k] # None}
           n == Cardinality(S)
           recs == [i \in DOMAIN s |-> RecordAt(f, m[s[i]])]
           at(k) == CHOOSE i \in DOMAIN s : s[i] = k
<1>1. /\ n \in Nat /\ s \in [1..n -> S] /\ DOMAIN s = 1..n
      /\ \A x \in S : \E i \in 1..n : s[i] = x
  <2>1. IsFiniteSet(S)
    BY StoreAssumption, FS_Subset
  <2> QED BY <2>1, OrderIsOnto
<1>2. \A k \in S : at(k) \in 1..n /\ s[at(k)] = k
  BY <1>1
<1>3. recs \in Seq(Records \cup {Torn}) /\ \A i \in 1..n : i <= Len(recs)
  <2>1. \A i \in 1..n : RecordAt(f, m[s[i]]) \in Records \cup {Torn}
    BY <1>1, RecordType DEF Indexes
  <2>2. recs \in [1..n -> Records \cup {Torn}] /\ DOMAIN recs = 1..n
    BY <1>1, <2>1
  <2> HIDE DEF recs, n
  <2>3. recs \in Seq(Records \cup {Torn})
    BY <1>1, <2>2, SeqDef
  <2>4. DOMAIN recs = 1..Len(recs) /\ Len(recs) \in Nat
    BY <2>3, LenProperties
  <2> QED BY <1>1, <2>2, <2>3, <2>4
<1>4. tmp.gen = g /\ tmp.there /\ tmp.recs = recs /\ tmp \in Files
  <2>1. tmp = [gen |-> g, there |-> TRUE, recs |-> recs]
    OBVIOUS
  <2> HIDE DEF recs
  <2> QED BY <1>3, <2>1 DEF Files
<1>5. \A k \in Keys : new[k] = IF m[k] = None THEN None ELSE [gen |-> g, at |-> at(k)]
  OBVIOUS
<1> HIDE DEF at
<1>6. \A k \in S : [gen |-> g, at |-> at(k)] \in Offsets
  BY <1>1, <1>2 DEF Offsets
<1>7. new \in Indexes
  <2>1. \A k \in Keys : new[k] \in Offsets \cup {None}
    BY <1>5, <1>6
  <2> QED BY <2>1 DEF Indexes
<1>8. ASSUME NEW k \in S PROVE RecordAt(tmp, new[k]) = RecordAt(f, m[k]) /\ new[k] # None
  <2>1. new[k] = [gen |-> g, at |-> at(k)] /\ new[k] # None
    BY <1>5, <1>6, NoneIsNone
  <2>2. tmp.recs[at(k)] = RecordAt(f, m[k])
    BY <1>1, <1>2, <1>4
  <2>3. new[k].gen = g /\ new[k].at = at(k)
    BY <2>1
  <2>4. new[k].at <= Len(tmp.recs)
    BY <1>2, <1>3, <1>4, <2>3
  <2> QED BY <1>4, <2>1, <2>2, <2>3, <2>4 DEF RecordAt
<1>9. \A k \in Keys \ S : m[k] = None /\ new[k] = None
  BY <1>5
<1>10. FindsIn(tmp, new)
  BY <1>8, <1>9 DEF FindsIn
<1>11. \A k \in Keys : RecordAt(tmp, new[k]).val = RecordAt(f, m[k]).val
  <2>1. ASSUME NEW k \in Keys \ S PROVE RecordAt(tmp, new[k]).val = RecordAt(f, m[k]).val
    BY <1>9, <2>1, NoRecord
  <2>2. ASSUME NEW k \in S PROVE RecordAt(tmp, new[k]).val = RecordAt(f, m[k]).val
    BY <1>8, <2>2
  <2> QED BY <2>1, <2>2
<1> HIDE DEF S, n, recs
<1>12. LeadAlike(tmp, new, f, m)
  BY <1>11 DEF LeadAlike
<1> QED BY <1>4, <1>7, <1>10, <1>12

LEMMA CompactKeeps ==
  ASSUME Good, NEW c \in Callers, Compact(c)
  PROVE  Good'
<1>1. store = "open" /\ \A d \in Callers : op[d] = Idle /\ op[d].pc = "idle"
  BY BeginsAlone, IdleOp DEF Compact, Locks
<1>2. Finds(map) /\ file \in Files /\ map \in Indexes /\ file.gen + 1 \in Nat
  BY <1>1 DEF Good, MemoryInv, Orphaned, Swapping, Types, Files
<1>3. FindsIn(file, map)
  BY <1>2 DEF Finds, FindsIn
<1>4. PICK s \in Orders({k \in Keys : map[k] # None}) :
          Goes(c, [pc |-> "remove",
                   tmp |-> [gen |-> file.gen + 1, there |-> TRUE,
                            recs |-> [i \in DOMAIN s |-> RecordAt(file, map[s[i]])]],
                   new |-> [k \in Keys |-> IF map[k] = None THEN None
                             ELSE [gen |-> file.gen + 1, at |-> CHOOSE i \in DOMAIN s : s[i] = k]]])
  BY DEF Compact
<1> DEFINE tmp == [gen |-> file.gen + 1, there |-> TRUE,
                   recs |-> [i \in DOMAIN s |-> RecordAt(file, map[s[i]])]]
           new == [k \in Keys |-> IF map[k] = None THEN None
                   ELSE [gen |-> file.gen + 1, at |-> CHOOSE i \in DOMAIN s : s[i] = k]]
           o == [pc |-> "remove", tmp |-> tmp, new |-> new]
<1>5. /\ tmp \in Files /\ new \in Indexes
      /\ FindsIn(tmp, new) /\ LeadAlike(tmp, new, file, map)
  BY <1>2, <1>3, CopyFinds
<1>6. Goes(c, o) /\ tmp.gen = file.gen + 1 /\ tmp.there
  BY <1>4
<1> HIDE DEF tmp, new
<1>7. o \in Ops /\ o.pc = "remove" /\ o.tmp = tmp /\ o.new = new
  BY <1>5 DEF Ops
<1> HIDE DEF o
<1>8. op'[c] = o
  BY <1>6 DEF Good, Types, Goes
<1>9. lock' = c /\ UNCHANGED <<file, idx, image, map, store>>
  BY DEF Compact, Locks
<1>10. SwapPhase(op[c])'
  <2>1. Values(tmp, new) = Values(file', map')
    BY <1>5, <1>9, SameValues
  <2>2. FindsIn(o.tmp, o.new) /\ o.tmp.gen = file'.gen + 1 /\ o.tmp.there
    BY <1>5, <1>6, <1>7, <1>9
  <2> QED BY <1>7, <1>8, <2>1, <2>2 DEF SwapPhase, FindsIn, Values
<1>11. Phase(op[c])'
  BY <1>7, <1>8, <1>10 DEF Phase, WritePhase, SavePhase
<1>12. lock' \in Callers \cup {None}
  BY <1>9 DEF Good, Types
<1> QED BY <1>1, <1>6, <1>7, <1>9, <1>11, <1>12, QuietStep

\* A call that swaps the data file.
LEMMA SwapperFacts ==
  ASSUME Good, NEW c \in Callers, op[c].pc \in {"remove", "rename", "reopen"}
  PROVE  /\ store = "open" /\ \A d \in Callers \ {c} : op[d] = Idle
         /\ lock = c
         /\ op[c] \in [pc : {"remove", "rename", "reopen"}, tmp : Files, new : Indexes]
         /\ op[c].tmp.there /\ FindsIn(op[c].tmp, op[c].new)
         /\ op[c].pc \in {"remove", "rename"} => op[c].tmp.gen = file.gen + 1
         /\ op[c].pc = "reopen" => file = op[c].tmp
         /\ op[c].pc \in {"rename", "reopen"} =>
               \A k \in Keys : map[k] # None => ~(file.there /\ map[k].gen = file.gen)
         /\ op[c].pc = "remove" =>
               file.there /\ Finds(map) /\ Values(op[c].tmp, op[c].new) = Values(file, map)
<1>1. store = "open" /\ \A d \in Callers \ {c} : op[d] = Idle
  BY BusyAlone
<1>2. lock = c
  BY DEF Good, OneCall, Locking
<1>3. op[c] \in [pc : {"remove", "rename", "reopen"}, tmp : Files, new : Indexes]
  BY DEF Good, Types, Ops
<1>4. SwapPhase(op[c])
  BY DEF Good, Phase
<1>5. op[c].pc = "remove" => file.there /\ Finds(map)
  BY <1>1, OnlyOp DEF Good, MemoryInv, Orphaned
<1> QED BY <1>1, <1>2, <1>3, <1>4, <1>5 DEF SwapPhase

LEMMA CompactRemoveKeeps ==
  ASSUME Good, NEW c \in Callers, CompactRemove(c)
  PROVE  Good'
<1> DEFINE o == [op[c] EXCEPT !.pc = "rename"]
<1>0. op[c].pc = "remove"
  BY DEF CompactRemove
<1>1. /\ store = "open" /\ lock = c /\ \A d \in Callers \ {c} : op[d] = Idle
      /\ op[c] \in [pc : {"remove", "rename", "reopen"}, tmp : Files, new : Indexes]
      /\ op[c].tmp.there /\ FindsIn(op[c].tmp, op[c].new)
      /\ op[c].tmp.gen = file.gen + 1
  BY <1>0, SwapperFacts
<1>2. /\ o \in [pc : {"remove", "rename", "reopen"}, tmp : Files, new : Indexes]
      /\ o.pc = "rename" /\ o.tmp = op[c].tmp /\ o.new = op[c].new
  BY <1>1
<1>3. /\ Goes(c, o) /\ UNCHANGED <<idx, image, map, store, lock>>
      /\ file' = [file EXCEPT !.there = FALSE]
  BY DEF CompactRemove
<1> HIDE DEF o
<1>4. o \in Ops
  BY <1>2 DEF Ops
<1>5. /\ op' \in [Callers -> Ops] /\ op'[c] = o /\ OneCall' /\ Swapping'
      /\ \E d \in Callers : op'[d].pc = "rename"
      /\ Phase(op[c])' => \A d \in Callers : Phase(op[d])'
  BY <1>1, <1>2, <1>3, <1>4, MoveOp
<1>6. file' \in Files /\ file'.gen = file.gen /\ ~file'.there
  BY <1>3 DEF Good, Types, Files
<1>7. Types'
  BY <1>3, <1>5, <1>6 DEF Good, Types
<1>8. MemoryInv'
  BY <1>1, <1>3, <1>5, <1>6 DEF Good, MemoryInv
<1>9. DiskInv'
  BY <1>1, <1>3, <1>6 DEF Good, DiskInv, Stale, Foreign, Finds
<1>10. FindsIn(op'[c].tmp, op'[c].new)
  BY <1>1, <1>2, <1>5
<1>11. Phase(op[c])'
  BY <1>1, <1>2, <1>5, <1>6, <1>10
     DEF Phase, WritePhase, SavePhase, SwapPhase, FindsIn
<1> QED BY <1>5, <1>7, <1>8, <1>9, <1>11 DEF Good

LEMMA CompactRenameKeeps ==
  ASSUME Good, NEW c \in Callers, CompactRename(c)
  PROVE  Good'
<1> DEFINE o == [op[c] EXCEPT !.pc = "reopen"]
<1>0. op[c].pc = "rename"
  BY DEF CompactRename
<1>1. /\ store = "open" /\ lock = c /\ \A d \in Callers \ {c} : op[d] = Idle
      /\ op[c] \in [pc : {"remove", "rename", "reopen"}, tmp : Files, new : Indexes]
      /\ op[c].tmp.there /\ FindsIn(op[c].tmp, op[c].new)
      /\ op[c].tmp.gen = file.gen + 1
  BY <1>0, SwapperFacts
<1>2. /\ o \in [pc : {"remove", "rename", "reopen"}, tmp : Files, new : Indexes]
      /\ o.pc = "reopen" /\ o.tmp = op[c].tmp /\ o.new = op[c].new
  BY <1>1
<1>3. /\ Goes(c, o) /\ UNCHANGED <<idx, image, map, store, lock>>
      /\ file' = op[c].tmp
  BY DEF CompactRename
<1> HIDE DEF o
<1>4. o \in Ops
  BY <1>2 DEF Ops
<1>5. /\ op' \in [Callers -> Ops] /\ op'[c] = o /\ OneCall' /\ Swapping'
      /\ Phase(op[c])' => \A d \in Callers : Phase(op[d])'
  BY <1>1, <1>2, <1>3, <1>4, MoveOp
<1>6. file' \in Files /\ file'.gen = file.gen + 1 /\ file'.there
  BY <1>1, <1>3
<1>7. Types'
  BY <1>3, <1>5, <1>6 DEF Good, Types
<1>8. \A k \in Keys : map[k] # None => map[k].gen <= file'.gen /\ map[k].gen # file'.gen
  <2>1. file.gen \in Nat /\ map \in Indexes
    BY DEF Good, Types, Files
  <2>2. \A k \in Keys : map[k] # None => map[k].gen \in Nat /\ map[k].gen <= file.gen
    BY <2>1 DEF Good, MemoryInv, Indexes, Offsets
  <2> QED BY <1>6, <2>1, <2>2
<1>9. MemoryInv'
  BY <1>1, <1>3, <1>5, <1>6, <1>8 DEF MemoryInv
<1>10. DiskInv'
  <2>1. file.gen \in Nat /\ idx.map \in Indexes
    BY DEF Good, Types, Files
  <2>2. \A k \in Keys : idx.map[k] # None =>
            idx.map[k].gen \in Nat /\ idx.map[k].gen <= file.gen
    BY <2>1 DEF Good, DiskInv, Indexes, Offsets
  <2>3. \A k \in Keys : idx.map[k] # None =>
            idx.map[k].gen <= file'.gen /\ idx.map[k].gen # file'.gen
    BY <1>6, <2>1, <2>2
  <2> QED BY <1>1, <1>3, <2>3 DEF DiskInv, Stale, Foreign, Finds
<1>11. FindsIn(op'[c].tmp, op'[c].new)
  BY <1>1, <1>2, <1>5
<1>12. Phase(op[c])'
  BY <1>1, <1>2, <1>3, <1>5, <1>8, <1>11
     DEF Phase, WritePhase, SavePhase, SwapPhase, FindsIn
<1> QED BY <1>5, <1>7, <1>9, <1>10, <1>12 DEF Good

LEMMA ReopenKeeps ==
  ASSUME Good, NEW c \in Callers, CompactReopen(c)
  PROVE  Good'
<1> DEFINE o == [pc |-> "save", close |-> FALSE]
<1>0. op[c].pc = "reopen"
  BY DEF CompactReopen
<1>1. /\ store = "open" /\ lock = c /\ \A d \in Callers \ {c} : op[d] = Idle
      /\ op[c] \in [pc : {"remove", "rename", "reopen"}, tmp : Files, new : Indexes]
      /\ op[c].tmp.there /\ FindsIn(op[c].tmp, op[c].new) /\ file = op[c].tmp
  BY <1>0, SwapperFacts
<1>2. o \in Ops /\ o.pc = "save"
  BY DEF Ops
<1>3. /\ Goes(c, o) /\ UNCHANGED <<file, idx, image, store, lock>>
      /\ map' = op[c].new
  BY DEF CompactReopen
<1> HIDE DEF o
<1>4. /\ op' \in [Callers -> Ops] /\ op'[c] = o /\ OneCall'
      /\ Phase(op[c])' => \A d \in Callers : Phase(op[d])'
  BY <1>1, <1>2, <1>3, MoveOp
<1>5. Types'
  BY <1>1, <1>3, <1>4 DEF Good, Types
<1>6. Finds(map)'
  BY <1>1, <1>3 DEF FindsIn, Finds
<1>7. \A k \in Keys : map'[k] # None => map'[k].gen <= file'.gen
  <2> SUFFICES ASSUME NEW k \in Keys, map'[k] # None PROVE map'[k].gen <= file'.gen
    OBVIOUS
  <2>1. file' \in Files /\ map'[k] \in Offsets \cup {None} /\ RecordAt(file', map'[k]).key = k
    BY <1>5, <1>6 DEF Types, Indexes, Finds
  <2>2. map'[k].gen = file'.gen
    BY <2>1, FoundRecord
  <2> QED BY <2>1, <2>2 DEF Files
<1>8. MemoryInv'
  BY <1>1, <1>3, <1>6, <1>7 DEF MemoryInv
<1>9. DiskInv'
  BY <1>3, SameDisk
<1>10. Phase(op[c])'
  BY <1>2, <1>4 DEF Phase, WritePhase, SavePhase, SwapPhase
<1> QED BY <1>4, <1>5, <1>8, <1>9, <1>10 DEF Good

LEMMA CompactDiesKeeps ==
  ASSUME Good, NEW c \in Callers, CompactDies(c)
  PROVE  Good'
<1>0. op[c].pc \in {"remove", "rename", "reopen"}
  BY DEF CompactDies
<1>1. /\ \A d \in Callers \ {c} : op[d] = Idle
      /\ op[c].pc \in {"rename", "reopen"} =>
            \A k \in Keys : map[k] # None => ~(file.there /\ map[k].gen = file.gen)
      /\ op[c].pc = "remove" => Finds(map)
  BY <1>0, SwapperFacts
<1>2. /\ Goes(c, Idle) /\ lock' = None /\ store' = "dead"
      /\ UNCHANGED <<file, idx, image, map>>
  BY DEF CompactDies, Returns
<1>3. Idle \in Ops /\ Idle.pc = "idle" /\ Idle.pc \notin Locking
  BY IdleOp DEF Locking
<1>4. /\ op' \in [Callers -> Ops] /\ op'[c] = Idle /\ OneCall'
      /\ Phase(op[c])' => \A d \in Callers : Phase(op[d])'
  BY <1>1, <1>2, <1>3, MoveOp
<1>5. \A d \in Callers : Phase(op[d])'
  BY <1>3, <1>4 DEF Phase, WritePhase, SavePhase, SwapPhase
<1>6. Types'
  BY <1>2, <1>4 DEF Good, Types
<1>7. Finds(map)' \/ Orphaned'
  BY <1>0, <1>1, <1>2 DEF Finds, Orphaned
<1>8. MemoryInv'
  BY <1>2, <1>7 DEF Good, MemoryInv
<1>9. DiskInv'
  BY <1>2, SameDisk
<1> QED BY <1>4, <1>5, <1>6, <1>8, <1>9 DEF Good

-----------------------------------------------------------------------------
(* The invariant.                                                          *)

LEMMA InitGood == Init => Good
<1> SUFFICES ASSUME Init PROVE Good
  OBVIOUS
<1>1. \A c \in Callers : op[c] = Idle /\ op[c].pc = "idle"
  BY IdleOp DEF Init
<1>2. \A k \in Keys : idx.map[k] = None /\ map[k] = None
  BY NoEntriesType DEF Init
<1>3. Types
  <2>1. file \in Files
    BY DEF Init, Files
  <2>2. image \in Valuations
    BY DEF Init, Valuations, NoEntries
  <2>3. idx \in [map : Indexes, half : BOOLEAN] /\ map \in Indexes
    BY NoEntriesType DEF Init
  <2>4. op \in [Callers -> Ops]
    BY IdleOp DEF Init
  <2> QED BY <2>1, <2>2, <2>3, <2>4 DEF Init, Types
<1>4. OneCall
  BY <1>1 DEF OneCall, Locking
<1>5. MemoryInv
  BY <1>2 DEF Init, MemoryInv, Finds
<1>6. DiskInv
  BY <1>2 DEF DiskInv, Stale, Foreign, Finds
<1>7. \A c \in Callers : Phase(op[c])
  BY <1>1 DEF Phase, WritePhase, SavePhase, SwapPhase
<1> QED BY <1>3, <1>4, <1>5, <1>6, <1>7 DEF Good

\* Nothing makes the files usable again.
LEMMA TornStays ==
  ASSUME [Next]_vars
  PROVE  ~torn' => ~torn
<1>1. ASSUME NEW c \in Callers, Writes(c) PROVE ~torn' => ~torn
  BY <1>1 DEF Writes, Put, BatchPut, BadKeyReturns, Seek, Write, WriteFails
<1>2. ASSUME NEW c \in Callers, Saves(c) PROVE torn' = torn
  BY <1>2 DEF Saves, Truncate, SaveOffset, SaveEnds, SaveFails, CloseEnds, SaveKey
<1>3. ASSUME NEW r \in Readers, Reads(r) PROVE torn' = torn
  BY <1>3 DEF Reads, GetSeek, GetRead, GetFails, Get
<1>4. ASSUME NEW c \in Callers, Compacts(c) PROVE ~torn' => ~torn
  BY <1>4 DEF Compacts, Compact, CompactRemove, CompactRename, CompactReopen, CompactDies
<1>5. ASSUME NEW c \in Callers, Close(c) \/ \E k \in Keys : Delete(c, k) PROVE torn' = torn
  BY <1>5 DEF Close, Delete
<1>6. CASE Crash
  BY <1>6 DEF Crash
<1>7. CASE Open
  BY <1>7 DEF Open
<1>8. CASE UNCHANGED vars
  BY <1>8 DEF vars
<1> QED BY <1>1, <1>2, <1>3, <1>4, <1>5, <1>6, <1>7, <1>8 DEF Next

LEMMA StutterKeeps ==
  ASSUME Good, UNCHANGED vars
  PROVE  Good'
<1>1. Types' /\ OneCall'
  BY DEF Good, Types, OneCall, vars
<1>2. MemoryInv' /\ DiskInv'
  BY DEF Good, MemoryInv, DiskInv, Finds, Orphaned, Stale, Foreign, Swapping, vars
<1>3. \A c \in Callers : Phase(op[c])'
  BY DEF Good, Phase, WritePhase, SavePhase, SwapPhase, Unsaved, FindsIn, Values, vars
<1> QED BY <1>1, <1>2, <1>3 DEF Good

LEMMA GoodStep ==
  ASSUME Good, [Next]_vars, ~torn'
  PROVE  Good'
<1>1. ASSUME NEW c \in Callers, Writes(c) PROVE Good'
  BY <1>1, PutKeeps, BatchPutKeeps, BadKeyReturnsKeeps, SeekKeeps, WriteKeeps,
     WriteFailsKeeps DEF Writes
<1>2. ASSUME NEW c \in Callers, Saves(c) PROVE Good'
  BY <1>2, TruncateKeeps, SaveOffsetKeeps, SaveEndsKeeps, SaveFailsKeeps, CloseEndsKeeps,
     SaveKeyKeeps DEF Saves
<1>3. ASSUME NEW r \in Readers, Reads(r) PROVE Good'
  BY <1>3, ReadsKeep
<1>4. ASSUME NEW c \in Callers, Compacts(c) PROVE Good'
  BY <1>4, CompactKeeps, CompactRemoveKeeps, CompactRenameKeeps, ReopenKeeps,
     CompactDiesKeeps DEF Compacts
<1>5. ASSUME NEW c \in Callers, Close(c) \/ \E k \in Keys : Delete(c, k) PROVE Good'
  BY <1>5, CloseKeeps, DeleteKeeps
<1>6. CASE Crash
  BY <1>6, CrashKeeps
<1>7. CASE Open
  BY <1>7, OpenKeeps
<1>8. CASE UNCHANGED vars
  BY <1>8, StutterKeeps
<1> QED BY <1>1, <1>2, <1>3, <1>4, <1>5, <1>6, <1>7, <1>8 DEF Next

\* The invariant holds in every reachable state.
THEOREM Invariance == Spec => []IInv
<1>1. Init => IInv
  BY InitGood DEF IInv
<1>2. IInv /\ [Next]_vars => IInv'
  BY TornStays, GoodStep DEF IInv
<1> QED BY <1>1, <1>2, PTL DEF Spec

\* An entry of indexMap, or of an index file that a restart can use, leads to a record
\* of its key, through failed writes and saves, Compact, crashes and restarts of
\* simpledb.go, for any number of keys, records and generations of the data file,
\* unless a Get has moved the position under another call's Seek and Read or Write.
THEOREM EntriesFindKeys == Spec => []IndexFindsKey
<1>1. IInv => IndexFindsKey
  <2> SUFFICES ASSUME IInv, ~torn PROVE IndexFindsKey
    BY DEF IndexFindsKey
  <2>1. Finds(map) \/ Swapper # {} \/ (store = "dead" /\ Foreign(map))
    <3>1. CASE Swapping
      BY <3>1 DEF Swapping, Swapper
    <3>2. CASE Orphaned
      BY <3>2 DEF Orphaned, Foreign, Finds
    <3> QED BY <3>1, <3>2 DEF IInv, Good, MemoryInv
  <2> QED BY <2>1 DEF IInv, Good, DiskInv, IndexFindsKey
<1> QED BY <1>1, Invariance, PTL

-----------------------------------------------------------------------------
(* The store implements SavedMap.                                          *)

\* What a crash would meet.
Risk ==
    IF Stale THEN "swapping"
    ELSE IF idx.half \/ Values(file, idx.map) # image THEN "saving" ELSE "none"

SameViews == UNCHANGED <<CurView, SavedView, RiskView, HealthView>>

\* The views of a store that is open or dead.
LEMMA LiveViews ==
    /\ ~torn /\ store \in {"open", "dead"} =>
          /\ SavedView = image /\ RiskView = Risk
          /\ HealthView = IF store = "open" THEN "up" ELSE "dead"
          /\ ~Swapping => CurView = Values(file, map)
    /\ ~torn' /\ store' \in {"open", "dead"} =>
          /\ SavedView' = image' /\ RiskView' = Risk'
          /\ HealthView' = IF store' = "open" THEN "up" ELSE "dead"
          /\ ~Swapping' => CurView' = Values(file', map')
<1>1. Swapping <=> Swapper # {}
  BY DEF Swapping, Swapper
<1>2. Swapping' <=> Swapper' # {}
  BY DEF Swapping, Swapper
<1> QED BY <1>1, <1>2 DEF CurView, SavedView, RiskView, HealthView, Gone, Risk

\* The views of a store whose calls do not swap the data file.
LEMMA QuietViews ==
  ASSUME ~torn, ~torn', store \in {"open", "dead"}, ~Swapping, ~Swapping',
         UNCHANGED <<file, idx, image, map, store>>
  PROVE  SameViews
<1>1. Risk' = Risk
  BY DEF Risk, Stale, Foreign, Values
<1>2. Values(file', map') = Values(file, map)
  OBVIOUS
<1> QED BY <1>1, <1>2, LiveViews DEF SameViews

\* An index that gives no entry gives no value; one without entries is the same in
\* every data file.
LEMMA EmptyIndex ==
  ASSUME NEW m, NEW f, NEW g, \A k \in Keys : m[k] # None => f = g
  PROVE  Values(f, m) = Values(g, m)
<1>1. \A k \in Keys : RecordAt(f, m[k]).val = RecordAt(g, m[k]).val
  <2> SUFFICES ASSUME NEW k \in Keys PROVE RecordAt(f, m[k]).val = RecordAt(g, m[k]).val
    OBVIOUS
  <2>1. CASE m[k] = None
    BY <2>1, NoRecord
  <2>2. CASE m[k] # None
    BY <2>2
  <2> QED BY <2>1, <2>2
<1> QED BY <1>1 DEF Values

\* One key of the index in memory is forgotten.
LEMMA ForgetView ==
  ASSUME Good, NEW k \in Keys, map' = [map EXCEPT ![k] = None],
         ~torn, store \in {"open", "dead"}, ~Swapping, ~Swapping',
         UNCHANGED <<file, idx, image, store, torn>>
  PROVE  SM!Forget(k)
<1>1. Risk' = Risk
  BY DEF Risk, Stale, Foreign, Values
<1>2. Values(file', map') = [Values(file, map) EXCEPT ![k] = None]
  <2>1. \A j \in Keys : RecordAt(file, map'[j]).val =
            IF j = k THEN None ELSE RecordAt(file, map[j]).val
    BY NoRecord DEF Good, Types, Indexes
  <2>2. Values(file, map') = [j \in Keys |-> RecordAt(file, map'[j]).val]
    BY DEF Values
  <2>3. [Values(file, map) EXCEPT ![k] = None] =
            [j \in Keys |-> IF j = k THEN None ELSE RecordAt(file, map[j]).val]
    BY DEF Values
  <2> QED BY <2>1, <2>2, <2>3
<1> QED BY <1>1, <1>2, LiveViews DEF SM!Forget

LEMMA NotSwapping ==
  ASSUME Good, NEW c \in Callers, \A d \in Callers \ {c} : op[d] = Idle,
         op[c].pc \notin {"rename", "reopen"}
  PROVE  /\ ~Swapping
         /\ \A o : Goes(c, o) /\ o.pc \notin {"rename", "reopen"} => ~Swapping'
<1>1. \A d \in Callers \ {c} : op[d].pc = "idle"
  BY IdleOp
<1>2. ~Swapping
  BY <1>1 DEF Swapping
<1>3. ASSUME NEW o, Goes(c, o), o.pc \notin {"rename", "reopen"} PROVE ~Swapping'
  BY <1>1, <1>3 DEF Swapping, Goes, Good, Types
<1> QED BY <1>2, <1>3

LEMMA PutRefines ==
  ASSUME Good, ~torn, NEW c \in Callers, NEW k \in Keys, NEW v \in Vals, Put(c, k, v)
  PROVE  SM!Forget(k)
<1>1. store = "open" /\ \A d \in Callers : op[d] = Idle /\ op[d].pc = "idle"
  BY BeginsAlone, IdleOp DEF Put, Locks
<1>2. ~Swapping /\ ~Swapping'
  BY <1>1, NotSwapping DEF Put
<1> QED BY <1>1, <1>2, ForgetView DEF Put

LEMMA DeleteRefines ==
  ASSUME Good, ~torn, NEW c \in Callers, NEW k \in Keys, Delete(c, k)
  PROVE  SM!Forget(k)
<1>1. store \in {"open", "dead"} /\ \A d \in Callers : op[d] = Idle /\ op[d].pc = "idle"
  BY AllAreIdle DEF Delete, Good, Types
<1>2. ~Swapping /\ ~Swapping'
  BY <1>1 DEF Swapping, Delete
<1> QED BY <1>1, <1>2, ForgetView DEF Delete

\* The steps of a call that change none of the two files and two indexes.
LEMMA QuietRefines ==
  ASSUME Good, ~torn, NEW c \in Callers,
         op[c].pc \notin {"idle", "rename", "reopen"},
         NEW o, Goes(c, o), o.pc \notin {"rename", "reopen"},
         UNCHANGED <<file, idx, image, map, store, torn>>
  PROVE  SameViews
<1>1. store \in {"open", "dead"} /\ \A d \in Callers \ {c} : op[d] = Idle
  BY BusyAlone
<1>2. ~Swapping /\ ~Swapping'
  BY <1>1, NotSwapping
<1> QED BY <1>1, <1>2, QuietViews

LEMMA BeginsQuietly ==
  ASSUME Good, ~torn, ~torn', NEW c \in Callers, store # "down", lock = None,
         NEW o, Goes(c, o), o.pc \notin {"rename", "reopen"},
         UNCHANGED <<file, idx, image, map, store>>
  PROVE  SameViews
<1>1. store \in {"open", "dead"} /\ \A d \in Callers : op[d] = Idle /\ op[d].pc = "idle"
  BY AllAreIdle DEF Good, Types
<1>2. ~Swapping /\ ~Swapping'
  BY <1>1, NotSwapping
<1> QED BY <1>1, <1>2, QuietViews

\* A record that is added at the end changes none of the views by itself.
LEMMA GrownRisk ==
  ASSUME Good, NEW r \in Records \cup {Torn},
         file' = [file EXCEPT !.recs = WriteAt(@, Len(file.recs) + 1, r)],
         UNCHANGED <<idx, image, store>>
  PROVE  Risk' = Risk
<1>1. /\ Stale' <=> Stale
      /\ \A loc \in Offsets \cup {None} :
            RecordAt(file, loc).key \in Keys => RecordAt(file', loc) = RecordAt(file, loc)
  BY GrownDisk
<1>2. CASE Stale
  BY <1>1, <1>2 DEF Risk
<1>3. CASE ~Stale
  <2>1. \A k \in Keys : RecordAt(file', idx.map[k]).val = RecordAt(file, idx.map[k]).val
    <3> SUFFICES ASSUME NEW k \in Keys
                 PROVE  RecordAt(file', idx.map[k]).val = RecordAt(file, idx.map[k]).val
      OBVIOUS
    <3>1. CASE idx.map[k] = None
      BY <3>1, NoRecord
    <3>2. CASE idx.map[k] # None
      BY <1>1, <1>3, <3>2 DEF Good, DiskInv, Finds, Types, Indexes
    <3> QED BY <3>1, <3>2
  <2>2. Values(file', idx.map) = Values(file, idx.map)
    BY <2>1 DEF Values
  <2> QED BY <1>1, <2>2 DEF Risk
<1> QED BY <1>2, <1>3

LEMMA WriteRefines ==
  ASSUME Good, ~torn, NEW c \in Callers, Write(c), ~torn'
  PROVE  \E k \in Keys, v \in Vals : SM!Put(k, v)
<1> DEFINE k == op[c].todo[1][1]
           v == op[c].todo[1][2]
           r == [key |-> k, val |-> v]
           rest == Tail(op[c].todo)
           o == IF rest = <<>> THEN [pc |-> "save", close |-> FALSE]
                ELSE [pc |-> "seek", todo |-> rest]
<1>0. op[c].pc = "write"
  BY DEF Write
<1>1. /\ store = "open" /\ file.there /\ Finds(map)
      /\ op[c].loc = [gen |-> file.gen, at |-> Len(file.recs) + 1]
      /\ op[c].loc \in Offsets /\ k \in Keys /\ v \in Vals
      /\ \A d \in Callers \ {c} : op[d] = Idle
  BY <1>0, WriterFacts
<1>2. r \in Records /\ r.val = v
  BY <1>1 DEF Records
<1>3. o.pc \notin {"rename", "reopen"}
  OBVIOUS
<1>4. /\ Goes(c, o) /\ UNCHANGED <<idx, image, store>>
      /\ map' = [map EXCEPT ![k] = op[c].loc]
      /\ file' = [file EXCEPT !.recs = WriteAt(@, Len(file.recs) + 1, r)]
  <2>0. pos = op[c].loc.at
    BY DEF Write
  <2>1. pos = Len(file.recs) + 1
    BY <1>1, <2>0
  <2> QED BY <2>1 DEF Write
<1> HIDE DEF k, v, r, o
<1>5. /\ \A loc \in Offsets \cup {None} :
            RecordAt(file, loc).key \in Keys => RecordAt(file', loc) = RecordAt(file, loc)
      /\ RecordAt(file', op[c].loc) = r
  BY <1>1, <1>2, <1>4, GrownDisk
<1>6. Risk' = Risk
  BY <1>2, <1>4, GrownRisk
<1>7. ~Swapping /\ ~Swapping'
  BY <1>0, <1>1, <1>3, <1>4, NotSwapping
<1>8. Values(file', map') = [Values(file, map) EXCEPT ![k] = v]
  <2>0. map \in Indexes
    BY DEF Good, Types
  <2>1. ASSUME NEW j \in Keys
        PROVE  RecordAt(file', map'[j]).val = IF j = k THEN v ELSE RecordAt(file, map[j]).val
    <3>1. CASE j = k
      BY <1>2, <1>4, <1>5, <2>0, <3>1 DEF Indexes
    <3>2. CASE j # k /\ map[j] = None
      <4>1. map'[j] = None
        BY <1>4, <2>0, <3>2 DEF Indexes
      <4> QED BY <3>2, <4>1, NoRecord
    <3>3. CASE j # k /\ map[j] # None
      <4>1. map'[j] = map[j] /\ RecordAt(file, map[j]).key = j
        BY <1>1, <1>4, <2>0, <3>3 DEF Indexes, Finds
      <4>2. RecordAt(file', map'[j]) = RecordAt(file, map[j])
        BY <1>5, <2>0, <4>1 DEF Indexes
      <4> QED BY <3>3, <4>2
    <3> QED BY <3>1, <3>2, <3>3
  <2>2. Values(file', map') = [j \in Keys |-> RecordAt(file', map'[j]).val]
    BY DEF Values
  <2>3. [Values(file, map) EXCEPT ![k] = v] =
            [j \in Keys |-> IF j = k THEN v ELSE RecordAt(file, map[j]).val]
    BY DEF Values
  <2> QED BY <2>1, <2>2, <2>3
<1>9. SM!Put(k, v)
  BY <1>1, <1>4, <1>6, <1>7, <1>8, LiveViews DEF SM!Put
<1> QED BY <1>1, <1>9

LEMMA WriteFailsRefines ==
  ASSUME Good, ~torn, NEW c \in Callers, WriteFails(c), ~torn'
  PROVE  SameViews
<1>0. op[c].pc = "write" /\ Idle.pc = "idle"
  BY IdleOp DEF WriteFails
<1>1. /\ store = "open" /\ Finds(map)
      /\ op[c].loc = [gen |-> file.gen, at |-> Len(file.recs) + 1]
      /\ \A d \in Callers \ {c} : op[d] = Idle
  BY <1>0, WriterFacts
<1>2. /\ Goes(c, Idle) /\ UNCHANGED <<idx, image, map, store>>
      /\ file' = [file EXCEPT !.recs = WriteAt(@, Len(file.recs) + 1, Torn)]
  <2>0. pos = op[c].loc.at
    BY DEF WriteFails
  <2>1. pos = Len(file.recs) + 1
    BY <1>1, <2>0
  <2> QED BY <2>1 DEF WriteFails, Returns
<1>3. \A loc \in Offsets \cup {None} :
          RecordAt(file, loc).key \in Keys => RecordAt(file', loc) = RecordAt(file, loc)
  BY <1>2, GrownDisk
<1>4. Risk' = Risk
  BY <1>2, GrownRisk
<1>5. ~Swapping /\ ~Swapping'
  BY <1>0, <1>1, <1>2, NotSwapping
<1>6. \A k \in Keys : RecordAt(file', map[k]).val = RecordAt(file, map[k]).val
  <2> SUFFICES ASSUME NEW k \in Keys
               PROVE  RecordAt(file', map[k]).val = RecordAt(file, map[k]).val
    OBVIOUS
  <2>1. CASE map[k] = None
    BY <2>1, NoRecord
  <2>2. CASE map[k] # None
    BY <1>1, <1>3, <2>2 DEF Good, Finds, Types, Indexes
  <2> QED BY <2>1, <2>2
<1>7. Values(file', map') = Values(file, map)
  BY <1>2, <1>6 DEF Values
<1> QED BY <1>1, <1>2, <1>4, <1>5, <1>7, LiveViews DEF SameViews

LEMMA TruncateRefines ==
  ASSUME Good, ~torn, NEW c \in Callers, Truncate(c)
  PROVE  SM!Save
<1> DEFINE o == [pc |-> "entries", todo |-> {k \in Keys : map[k] # None}, close |-> op[c].close]
<1>0. op[c].pc = "save" /\ o.pc = "entries"
  BY DEF Truncate
<1>1. /\ store \in {"open", "dead"} /\ \A d \in Callers \ {c} : op[d] = Idle
  BY <1>0, SaverFacts
<1>2. /\ Goes(c, o) /\ UNCHANGED <<file, map, store, torn>>
      /\ image' = Values(file, map) /\ \A k \in Keys : idx'.map[k] = None
  BY NoEntriesType DEF Truncate
<1> HIDE DEF o
<1>3. ~Swapping /\ ~Swapping'
  BY <1>0, <1>1, <1>2, NotSwapping
<1>4. Risk' \in {"saving", "none"}
  BY <1>2 DEF Risk, Stale, Foreign
<1> QED BY <1>1, <1>2, <1>3, <1>4, LiveViews DEF SM!Save

\* A step of saveIndex: what is on disk changes, the image and the rest stay.
LEMMA SavingViews ==
  ASSUME Good, ~torn, NEW c \in Callers, op[c].pc = "entries",
         NEW o, Goes(c, o), o.pc = "entries",
         UNCHANGED <<file, image, map, store, torn>>
  PROVE  /\ UNCHANGED <<CurView, SavedView, HealthView>>
         /\ HealthView \in {"up", "dead"} /\ CurView = SavedView
         /\ RiskView = Risk /\ RiskView' = Risk'
<1>1. /\ store \in {"open", "dead"} /\ \A d \in Callers \ {c} : op[d] = Idle
  BY SaverFacts
<1>2. ~Swapping /\ ~Swapping'
  BY <1>1, NotSwapping
<1>3. image = Values(file, map)
  BY EntriesFacts
<1>4. Values(file', map') = Values(file, map)
  OBVIOUS
<1> QED BY <1>1, <1>2, <1>3, <1>4, LiveViews

LEMMA SaveKeyRefines ==
  ASSUME Good, ~torn, NEW c \in Callers, NEW k \in Keys, SaveKey(c, k)
  PROVE  SM!Save \/ SameViews
<1> DEFINE o == [pc |-> "entries", todo |-> op[c].todo \ {k}, close |-> op[c].close, key |-> k]
<1>1. /\ op[c].pc = "entries" /\ o.pc = "entries" /\ Goes(c, o)
      /\ UNCHANGED <<file, image, map, store, torn>> /\ idx' = [idx EXCEPT !.half = TRUE]
  BY DEF SaveKey
<1> HIDE DEF o
<1>2. /\ UNCHANGED <<CurView, SavedView, HealthView>>
      /\ HealthView \in {"up", "dead"} /\ CurView = SavedView
      /\ RiskView = Risk /\ RiskView' = Risk'
  BY <1>1, SavingViews
<1>3. idx'.map = idx.map /\ idx'.half
  BY <1>1 DEF Good, Types
<1>4. Stale' <=> Stale
  BY <1>1, <1>3 DEF Stale, Foreign
<1>5. CASE Stale
  <2>1. Risk = "swapping" /\ Risk' = "swapping"
    BY <1>4, <1>5 DEF Risk
  <2> QED BY <1>2, <2>1 DEF SameViews
<1>6. CASE ~Stale
  <2>1. Risk' = "saving"
    BY <1>3, <1>4, <1>6 DEF Risk
  <2> QED BY <1>2, <2>1 DEF SM!Save
<1> QED BY <1>5, <1>6

LEMMA SaveOffsetRefines ==
  ASSUME Good, ~torn, NEW c \in Callers, SaveOffset(c)
  PROVE  SM!Save \/ SM!Swap
<1> DEFINE o == [pc |-> "entries", todo |-> op[c].todo, close |-> op[c].close]
<1>1. /\ op[c].pc = "entries" /\ o.pc = "entries" /\ Goes(c, o)
      /\ UNCHANGED <<file, image, map, store, torn>>
  BY DEF SaveOffset
<1> HIDE DEF o
<1>2. /\ UNCHANGED <<CurView, SavedView, HealthView>>
      /\ HealthView \in {"up", "dead"} /\ CurView = SavedView
      /\ RiskView = Risk /\ RiskView' = Risk'
  BY <1>1, SavingViews
<1>3. Risk' \in {"swapping", "saving", "none"}
  BY DEF Risk
<1> QED BY <1>2, <1>3 DEF SM!Save, SM!Swap

\* The views of a store that is down, and of one that is lost.
LEMMA ClosedViews ==
    /\ ~torn /\ store = "down" /\ ~idx.half =>
          /\ CurView = Values(file, idx.map) /\ SavedView = image
          /\ RiskView = Risk /\ HealthView = "down"
    /\ ~torn' /\ store' = "down" /\ ~idx'.half =>
          /\ CurView' = Values(file', idx'.map) /\ SavedView' = image'
          /\ RiskView' = Risk' /\ HealthView' = "down"
  BY DEF CurView, SavedView, RiskView, HealthView, Gone, Risk

LEMMA LostViews ==
    /\ torn => /\ CurView = NoEntries /\ SavedView = NoEntries
               /\ RiskView = "none" /\ HealthView = "lost"
    /\ torn' \/ (store' = "down" /\ idx'.half) =>
               /\ CurView' = NoEntries /\ SavedView' = NoEntries
               /\ RiskView' = "none" /\ HealthView' = "lost"
  BY DEF CurView, SavedView, RiskView, HealthView, Gone

\* The call that swaps the data file shows the copy it has made.
LEMMA SwapViews ==
  ASSUME ~torn, store = "open", NEW c \in Callers, Swapper = {c}
  PROVE  CurView = Values(op[c].tmp, op[c].new)
  BY DEF CurView, Gone

LEMMA SwapViewsNext ==
  ASSUME ~torn', store' = "open", NEW c \in Callers, Swapper' = {c}
  PROVE  CurView' = Values(op'[c].tmp, op'[c].new)
<1>1. \A d : d \in Swapper' <=> d = c
  OBVIOUS
<1> QED BY <1>1 DEF CurView, Gone

LEMMA SameRisk ==
  ASSUME UNCHANGED <<file, idx, image>>
  PROVE  Risk' = Risk
  BY DEF Risk, Stale, Foreign, Values

LEMMA CloseEndsRefines ==
  ASSUME Good, ~torn, NEW c \in Callers, CloseEnds(c)
  PROVE  SM!Close
<1>0. op[c].pc = "entries" /\ ~idx.half /\ store = "open"
  BY DEF CloseEnds, Synced
<1>1. store = "open" /\ \A d \in Callers \ {c} : op[d] = Idle
  BY <1>0, SaverFacts
<1>2. /\ \A k \in Keys : idx.map[k] = map[k]
      /\ ~Stale /\ image = Values(file, map)
  BY SyncedFacts DEF CloseEnds
<1>3. Values(file, idx.map) = image
  BY <1>2 DEF Values
<1>4. Risk = "none"
  BY <1>0, <1>2, <1>3 DEF Risk
<1>5. UNCHANGED <<file, idx, image, torn>> /\ store' = "down"
  BY DEF CloseEnds
<1>6. Risk' = "none"
  BY <1>4, <1>5, SameRisk
<1>7. ~Swapping
  BY <1>0, <1>1, NotSwapping
<1>8. CurView = image /\ SavedView = image /\ RiskView = "none" /\ HealthView = "up"
  BY <1>1, <1>2, <1>4, <1>7, LiveViews
<1>9. CurView' = image /\ SavedView' = image /\ RiskView' = "none" /\ HealthView' = "down"
  BY <1>0, <1>3, <1>5, <1>6, ClosedViews
<1> QED BY <1>8, <1>9 DEF SM!Close

LEMMA CompactRemoveRefines ==
  ASSUME Good, ~torn, NEW c \in Callers, CompactRemove(c)
  PROVE  SM!Swap \/ SameViews
<1> DEFINE o == [op[c] EXCEPT !.pc = "rename"]
<1>0. op[c].pc = "remove"
  BY DEF CompactRemove
<1>1. /\ store = "open"
      /\ op[c] \in [pc : {"remove", "rename", "reopen"}, tmp : Files, new : Indexes]
      /\ Values(op[c].tmp, op[c].new) = Values(file, map)
      /\ \A d \in Callers \ {c} : op[d] = Idle
  BY <1>0, SwapperFacts
<1>2. /\ o.pc = "rename" /\ o.tmp = op[c].tmp /\ o.new = op[c].new
  BY <1>1
<1>3. /\ Goes(c, o) /\ UNCHANGED <<idx, image, store, torn>>
      /\ file' = [file EXCEPT !.there = FALSE]
  BY DEF CompactRemove
<1> HIDE DEF o
<1>4. op'[c] = o /\ Swapper' = {c}
  <2>1. op'[c] = o /\ \A d \in Callers \ {c} : op'[d].pc = "idle"
    BY <1>1, <1>3, IdleOp DEF Good, Types, Goes
  <2> QED BY <1>2, <2>1 DEF Swapper
<1>5. CurView' = Values(file, map)
  BY <1>1, <1>2, <1>3, <1>4, SwapViewsNext
<1>6. ~Swapping
  BY <1>0, <1>1, NotSwapping
<1>7. ~file'.there
  BY <1>3 DEF Good, Types, Files
<1>8. /\ CurView' = CurView /\ SavedView' = SavedView
      /\ RiskView = Risk /\ RiskView' = Risk' /\ HealthView = "up" /\ HealthView' = "up"
  BY <1>1, <1>3, <1>5, <1>6, LiveViews
<1>9. CASE \E k \in Keys : idx.map[k] # None
  <2>1. Risk' = "swapping"
    BY <1>3, <1>7, <1>9 DEF Risk, Stale, Foreign
  <2> QED BY <1>8, <2>1 DEF SM!Swap
<1>10. CASE ~\E k \in Keys : idx.map[k] # None
  <2>1. ~Stale /\ ~Stale'
    BY <1>3, <1>10 DEF Stale, Foreign
  <2>2. Values(file', idx.map) = Values(file, idx.map)
    BY <1>10, EmptyIndex
  <2>3. Risk' = Risk
    BY <1>3, <2>1, <2>2 DEF Risk
  <2> QED BY <1>8, <2>3 DEF SameViews
<1> QED BY <1>9, <1>10

LEMMA CompactRenameRefines ==
  ASSUME Good, ~torn, NEW c \in Callers, CompactRename(c)
  PROVE  SameViews
<1> DEFINE o == [op[c] EXCEPT !.pc = "reopen"]
<1>0. op[c].pc = "rename"
  BY DEF CompactRename
<1>1. /\ store = "open"
      /\ op[c] \in [pc : {"remove", "rename", "reopen"}, tmp : Files, new : Indexes]
      /\ op[c].tmp.gen = file.gen + 1
      /\ \A d \in Callers \ {c} : op[d] = Idle
  BY <1>0, SwapperFacts
<1>2. o.pc = "reopen" /\ o.tmp = op[c].tmp /\ o.new = op[c].new
  BY <1>1
<1>3. /\ Goes(c, o) /\ UNCHANGED <<idx, image, store, torn>> /\ file' = op[c].tmp
  BY DEF CompactRename
<1> HIDE DEF o
<1>4. op'[c] = o /\ Swapper' = {c} /\ Swapper = {c}
  <2>1. op'[c] = o /\ \A d \in Callers \ {c} : op'[d].pc = "idle" /\ op[d].pc = "idle"
    BY <1>1, <1>3, IdleOp DEF Good, Types, Goes
  <2> QED BY <1>0, <1>2, <2>1 DEF Swapper
<1>5. CurView' = CurView
  BY <1>1, <1>2, <1>3, <1>4, SwapViews, SwapViewsNext
<1>6. ~file.there
  BY <1>0 DEF Good, Phase, SwapPhase
<1>7. \A k \in Keys : idx.map[k] # None => idx.map[k].gen # file'.gen
  BY <1>1, <1>3 DEF Good, DiskInv, Types, Files, Indexes, Offsets
<1>8. Risk' = Risk
  <2>1. CASE \E k \in Keys : idx.map[k] # None
    <3>1. Stale
      BY <1>6, <2>1 DEF Stale, Foreign
    <3>2. Stale'
      BY <1>3, <1>7, <2>1 DEF Stale, Foreign
    <3> QED BY <3>1, <3>2 DEF Risk
  <2>2. CASE ~\E k \in Keys : idx.map[k] # None
    <3>1. ~Stale /\ ~Stale'
      BY <1>3, <2>2 DEF Stale, Foreign
    <3>2. Values(file', idx.map) = Values(file, idx.map)
      BY <2>2, EmptyIndex
    <3> QED BY <1>3, <3>1, <3>2 DEF Risk
  <2> QED BY <2>1, <2>2
<1> QED BY <1>1, <1>3, <1>5, <1>8, LiveViews DEF SameViews

LEMMA ReopenRefines ==
  ASSUME Good, ~torn, NEW c \in Callers, CompactReopen(c)
  PROVE  SameViews
<1> DEFINE o == [pc |-> "save", close |-> FALSE]
<1>0. op[c].pc = "reopen" /\ o.pc = "save"
  BY DEF CompactReopen
<1>1. /\ store = "open" /\ file = op[c].tmp
      /\ \A d \in Callers \ {c} : op[d] = Idle
  BY <1>0, SwapperFacts
<1>2. /\ Goes(c, o) /\ UNCHANGED <<file, idx, image, store, torn>> /\ map' = op[c].new
  BY DEF CompactReopen
<1> HIDE DEF o
<1>3. Swapper = {c} /\ ~Swapping'
  <2>1. op'[c] = o /\ \A d \in Callers \ {c} : op'[d].pc = "idle" /\ op[d].pc = "idle"
    BY <1>1, <1>2, IdleOp DEF Good, Types, Goes
  <2> QED BY <1>0, <2>1 DEF Swapper, Swapping
<1>4. CurView = Values(file, op[c].new)
  BY <1>1, <1>3, SwapViews
<1>5. CurView' = Values(file, op[c].new)
  BY <1>1, <1>2, <1>3, LiveViews
<1>6. Risk' = Risk
  BY <1>2, SameRisk
<1> QED BY <1>1, <1>2, <1>4, <1>5, <1>6, LiveViews DEF SameViews

\* Entries of a data file that is gone give no value.
LEMMA OrphansGiveNothing ==
  ASSUME NEW f, NEW m, \A k \in Keys : m[k] # None => ~(f.there /\ m[k].gen = f.gen)
  PROVE  Values(f, m) = NoEntries
<1>1. \A k \in Keys : RecordAt(f, m[k]).val = None
  BY DEF RecordAt, Torn
<1> QED BY <1>1 DEF Values, NoEntries

LEMMA CompactDiesRefines ==
  ASSUME Good, ~torn, NEW c \in Callers, CompactDies(c)
  PROVE  SM!Die
<1>0. op[c].pc \in {"remove", "rename", "reopen"} /\ Idle.pc = "idle"
  BY IdleOp DEF CompactDies
<1>1. /\ store = "open" /\ \A d \in Callers \ {c} : op[d] = Idle
      /\ op[c].pc \in {"rename", "reopen"} =>
            \A k \in Keys : map[k] # None => ~(file.there /\ map[k].gen = file.gen)
  BY <1>0, SwapperFacts
<1>2. UNCHANGED <<file, idx, image, map, torn>> /\ store' = "dead" /\ Goes(c, Idle)
  BY DEF CompactDies, Returns
<1>3. Risk' = Risk
  BY <1>2, SameRisk
<1>4. SM!Empty = NoEntries
  BY DEF SM!Empty, NoEntries
<1>5. ~Swapping'
  <2>1. op'[c] = Idle /\ \A d \in Callers \ {c} : op'[d] = Idle
    BY <1>1, <1>2 DEF Good, Types, Goes
  <2> QED BY <1>0, <2>1 DEF Swapping
<1>6. CurView' = Values(file, map)
  BY <1>2, <1>5, LiveViews
<1>7. CurView' \in {CurView, SM!Empty}
  <2>1. CASE op[c].pc = "remove"
    <3>1. ~Swapping
      BY <1>1, <2>1, NotSwapping
    <3> QED BY <1>1, <1>6, <3>1, LiveViews
  <2>2. CASE op[c].pc \in {"rename", "reopen"}
    BY <1>1, <1>4, <1>6, <2>2, OrphansGiveNothing
  <2> QED BY <1>0, <2>1, <2>2
<1>8. /\ SavedView' = SavedView /\ RiskView' = RiskView
      /\ HealthView = "up" /\ HealthView' = "dead"
  BY <1>1, <1>2, <1>3, LiveViews
<1> QED BY <1>7, <1>8 DEF SM!Die

\* A Get that moves the position under a write or a copy.
LEMMA TornRefines ==
  ASSUME ~torn, store = "open", torn'
  PROVE  SM!Clash
<1>1. HealthView = "up"
  BY LiveViews
<1>2. SM!Empty = NoEntries
  BY DEF SM!Empty, NoEntries
<1> QED BY <1>1, <1>2, LostViews DEF SM!Clash, SM!Lost

LEMMA CrashRefines ==
  ASSUME Good, ~torn, Crash
  PROVE  SM!Crash \/ SM!Lose
<1>1. /\ UNCHANGED <<file, idx, image>> /\ store' = "down" /\ (torn' <=> Stale)
      /\ store \in {"open", "dead"}
  BY DEF Crash, Good, Types
<1>2. SavedView = image /\ RiskView = Risk /\ HealthView \in {"up", "dead"}
  BY <1>1, LiveViews
<1>3. SM!Empty = NoEntries
  BY DEF SM!Empty, NoEntries
<1>4. CASE Stale \/ idx.half
  <2>1. Risk # "none"
    BY <1>4 DEF Risk
  <2>2. /\ CurView' = NoEntries /\ SavedView' = NoEntries
        /\ RiskView' = "none" /\ HealthView' = "lost"
    BY <1>1, <1>4, LostViews
  <2> QED BY <1>2, <1>3, <2>1, <2>2 DEF SM!Lose, SM!Lost
<1>5. CASE ~Stale /\ ~idx.half
  <2>1. Risk' = Risk
    BY <1>1, SameRisk
  <2>2. /\ CurView' = Values(file, idx.map) /\ SavedView' = image
        /\ RiskView' = Risk /\ HealthView' = "down"
    BY <1>1, <1>5, <2>1, ClosedViews
  <2>3. Risk = IF Values(file, idx.map) # image THEN "saving" ELSE "none"
    BY <1>5 DEF Risk
  <2>4. Values(file, idx.map) \in Valuations
    BY ValuesType DEF Good, Types
  <2>5. \A k \in Keys : Values(file, idx.map)[k] \in {image[k], None}
    <3> SUFFICES ASSUME NEW k \in Keys PROVE RecordAt(file, idx.map[k]).val \in {image[k], None}
      BY DEF Values
    <3>1. CASE idx.map[k] = None
      BY <3>1, NoRecord
    <3>2. CASE idx.map[k] # None
      BY <1>5, <3>2 DEF Good, DiskInv
    <3> QED BY <3>1, <3>2
  <2>6. Values(file, idx.map) \in SM!Lossy(image)
    BY <2>4, <2>5 DEF SM!Lossy, SM!Maps, Valuations
  <2> QED BY <1>2, <2>2, <2>3, <2>6 DEF SM!Crash
<1> QED BY <1>4, <1>5

LEMMA OpenRefines ==
  ASSUME Good, ~torn, Open
  PROVE  SM!Open
<1>1. /\ map' = idx.map /\ image' = Values(file', idx.map)
      /\ \A k \in Keys : idx.map[k] # None => file' = file
  BY OpenFacts
<1>2. /\ store = "down" /\ store' = "open" /\ ~idx.half /\ UNCHANGED <<idx, op, torn>>
      /\ ~Stale
  BY DEF Open, Good, DiskInv
<1>3. Values(file', idx.map) = Values(file, idx.map)
  BY <1>1, EmptyIndex
<1>4. ~Swapping'
  BY <1>2, IdleOp DEF Good, OneCall, Swapping
<1>5. ~Stale'
  BY <1>1, <1>2, OpenFacts DEF Stale, Foreign
<1>6. Risk' = "none"
  BY <1>1, <1>2, <1>5 DEF Risk
<1> QED BY <1>1, <1>2, <1>3, <1>4, <1>6, LiveViews, ClosedViews DEF SM!Open

LEMMA InitRefines == Init => SM!Init
<1> SUFFICES ASSUME Init PROVE SM!Init
  OBVIOUS
<1>1. ~torn /\ store = "open" /\ image = NoEntries /\ ~idx.half /\ ~Swapping
  BY IdleOp DEF Init, Swapping
<1>2. map = NoEntries /\ idx.map = NoEntries
  BY DEF Init
<1>3. Values(file, NoEntries) = NoEntries
  <2>1. \A k \in Keys : RecordAt(file, NoEntries[k]).val = None
    BY NoEntriesType, NoRecord
  <2> QED BY <2>1 DEF Values, NoEntries
<1>4. ~Stale
  BY <1>2, NoEntriesType DEF Stale, Foreign
<1>5. Risk = "none"
  BY <1>1, <1>2, <1>3, <1>4 DEF Risk
<1>6. SM!Empty = NoEntries
  BY DEF SM!Empty, NoEntries
<1> QED BY <1>1, <1>2, <1>3, <1>5, <1>6, LiveViews DEF SM!Init

LEMMA StutterViews ==
  ASSUME UNCHANGED vars
  PROVE  SameViews
<1>1. Gone' = Gone /\ Stale' = Stale /\ Swapper' = Swapper
  BY DEF vars, Gone, Stale, Foreign, Swapper
<1> QED BY <1>1 DEF vars, SameViews, CurView, SavedView, RiskView, HealthView, Values

\* Every step of the store is one of SavedMap, or changes none of its variables.
LEMMA StepRefines ==
  ASSUME IInv, [Next]_vars
  PROVE  SM!Next \/ SameViews
<1>1. CASE torn
  BY <1>1, TornStays, LostViews DEF SameViews
<1>2. CASE ~torn
  <2> USE <1>2
  <2>0. Good
    BY DEF IInv
  <2>1. ASSUME NEW c \in Callers, Writes(c) PROVE SM!Next \/ SameViews
    <3>1. ASSUME NEW k \in Keys, NEW v \in Vals, Put(c, k, v) PROVE SM!Next
      BY <2>0, <3>1, PutRefines DEF SM!Next
    <3>2. ASSUME NEW kvs \in Batches, BatchPut(c, kvs) PROVE SameViews
      BY <2>0, <3>2, BeginsQuietly DEF BatchPut, Begins, Locks
    <3>3. CASE BadKeyReturns(c)
      BY <2>0, <3>3, QuietRefines, IdleOp DEF BadKeyReturns, Returns
    <3>4. CASE Seek(c)
      BY <2>0, <3>4, QuietRefines DEF Seek
    <3>5. CASE Write(c)
      <4>1. store = "open"
        BY <2>0, <3>5, WriterFacts DEF Write
      <4> QED BY <2>0, <3>5, <4>1, WriteRefines, TornRefines DEF SM!Next
    <3>6. CASE WriteFails(c)
      <4>1. store = "open"
        BY <2>0, <3>6, WriterFacts DEF WriteFails
      <4> QED BY <2>0, <3>6, <4>1, WriteFailsRefines, TornRefines DEF SM!Next
    <3> QED BY <2>1, <3>1, <3>2, <3>3, <3>4, <3>5, <3>6 DEF Writes
  <2>2. ASSUME NEW c \in Callers, Saves(c) PROVE SM!Next \/ SameViews
    <3>1. CASE Truncate(c)
      BY <2>0, <3>1, TruncateRefines DEF SM!Next
    <3>2. CASE SaveOffset(c)
      BY <2>0, <3>2, SaveOffsetRefines DEF SM!Next
    <3>3. CASE SaveEnds(c)
      BY <2>0, <3>3, QuietRefines, IdleOp DEF SaveEnds, Synced, Returns
    <3>4. CASE SaveFails(c)
      BY <2>0, <3>4, QuietRefines, IdleOp DEF SaveFails, Returns
    <3>5. CASE CloseEnds(c)
      BY <2>0, <3>5, CloseEndsRefines DEF SM!Next
    <3>6. ASSUME NEW k \in Keys, SaveKey(c, k) PROVE SM!Next \/ SameViews
      BY <2>0, <3>6, SaveKeyRefines DEF SM!Next
    <3> QED BY <2>2, <3>1, <3>2, <3>3, <3>4, <3>5, <3>6 DEF Saves
  <2>3. ASSUME NEW r \in Readers, Reads(r) PROVE SameViews
    <3>1. UNCHANGED <<file, idx, image, map, store, lock, op, torn>>
      BY <2>0, <2>3, ReadsKeep
    <3>2. Gone' = Gone /\ Stale' = Stale /\ Swapper' = Swapper
      BY <3>1 DEF Gone, Stale, Foreign, Swapper
    <3> QED BY <3>1, <3>2 DEF SameViews, CurView, SavedView, RiskView, HealthView, Values
  <2>4. ASSUME NEW c \in Callers, Compacts(c) PROVE SM!Next \/ SameViews
    <3>1. CASE Compact(c)
      <4>1. CASE torn'
        BY <3>1, <4>1, TornRefines DEF Compact, Begins, SM!Next
      <4>2. CASE ~torn'
        BY <2>0, <3>1, <4>2, BeginsQuietly DEF Compact, Begins, Locks
      <4> QED BY <4>1, <4>2
    <3>2. CASE CompactRemove(c)
      BY <2>0, <3>2, CompactRemoveRefines DEF SM!Next
    <3>3. CASE CompactRename(c)
      BY <2>0, <3>3, CompactRenameRefines
    <3>4. CASE CompactReopen(c)
      BY <2>0, <3>4, ReopenRefines
    <3>5. CASE CompactDies(c)
      BY <2>0, <3>5, CompactDiesRefines DEF SM!Next
    <3> QED BY <2>4, <3>1, <3>2, <3>3, <3>4, <3>5 DEF Compacts
  <2>5. ASSUME NEW c \in Callers, Close(c) PROVE SameViews
    BY <2>0, <2>5, BeginsQuietly DEF Close, Locks
  <2>6. ASSUME NEW c \in Callers, NEW k \in Keys, Delete(c, k) PROVE SM!Next
    BY <2>0, <2>6, DeleteRefines DEF SM!Next
  <2>7. CASE Crash
    BY <2>0, <2>7, CrashRefines DEF SM!Next
  <2>8. CASE Open
    BY <2>0, <2>8, OpenRefines DEF SM!Next
  <2>9. CASE UNCHANGED vars
    BY <2>9, StutterViews
  <2> QED BY <2>1, <2>2, <2>3, <2>4, <2>5, <2>6, <2>7, <2>8, <2>9 DEF Next
<1> QED BY <1>1, <1>2

\* The store implements the map of SavedMap, for any keys, values, callers and readers:
\* every Put, Delete, saveIndex, Compact, failure, crash and restart of simpledb.go
\* does to what the callers see, and to what survives a crash, what is allowed there.
THEOREM Refinement == Spec => ImplementsSavedMap
<1>1. Init => SM!Init
  BY InitRefines
<1>2. IInv /\ [Next]_vars => [SM!Next]_SM!vars
  BY StepRefines DEF SameViews, SM!vars
<1> QED BY <1>1, <1>2, Invariance, PTL DEF Spec, ImplementsSavedMap, SM!Spec
=============================================================================
