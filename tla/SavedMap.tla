------------------------------ MODULE SavedMap ------------------------------
(***************************************************************************)
(* What the file store of src/pkg/storage/simpledb.go promises: a map from *)
(* keys to values with a copy that survives a crash.                       *)
(*                                                                         *)
(* Writes change the map; saving makes the copy.  A crash between two      *)
(* saves brings back the copy, exactly.  A crash during a save may lose    *)
(* keys of the new copy, or all of the store, but never mixes values up.   *)
(* Nothing is promised once a crash has hit the files while they were      *)
(* being swapped, or a read has got in the way of a write.                 *)
(***************************************************************************)
CONSTANTS Keys, Vals, None

VARIABLES
    cur,      \* the map that Get sees, and after a crash the one it will see
    saved,    \* the copy
    risk,     \* what a crash would meet: "none", "saving", "swapping"
    health    \* "up", "down", "dead" until the next restart, "lost"

vars == <<cur, saved, risk, health>>

Maps == [Keys -> Vals \cup {None}]

Empty == [k \in Keys |-> None]

Init == cur = Empty /\ saved = Empty /\ risk = "none" /\ health = "up"

\* Some keys of m are gone.
Lossy(m) == {f \in Maps : \A k \in Keys : f[k] \in {m[k], None}}

Put(k, v) ==
    /\ health = "up"
    /\ cur' = [cur EXCEPT ![k] = v]
    /\ UNCHANGED <<saved, risk, health>>

\* A deletion, or a Put that failed.
Forget(k) ==
    /\ health \in {"up", "dead"}
    /\ cur' = [cur EXCEPT ![k] = None]
    /\ UNCHANGED <<saved, risk, health>>

\* The copy is started, and there at once if there is nothing to write.
Save ==
    /\ health \in {"up", "dead"}
    /\ saved' = cur
    /\ risk' \in {"saving", "none"}
    /\ UNCHANGED <<cur, health>>

SaveEnds ==
    /\ health \in {"up", "dead"} /\ risk = "saving"
    /\ risk' = "none"
    /\ UNCHANGED <<cur, saved, health>>

\* Compact starts to replace the files; Save ends it.  A dead store saves entries of
\* the file that is gone.
Swap ==
    /\ health \in {"up", "dead"}
    /\ risk' = "swapping"
    /\ UNCHANGED <<cur, saved, health>>

\* Compact fails after it has closed the file, which may be gone with all values.
Die ==
    /\ health = "up"
    /\ health' = "dead" /\ cur' \in {cur, Empty}
    /\ UNCHANGED <<saved, risk>>

Crash ==
    /\ health \in {"up", "dead"} /\ risk # "swapping"
    /\ health' = "down"
    /\ cur' \in (IF risk = "none" THEN {saved} ELSE Lossy(saved))
    /\ UNCHANGED <<saved, risk>>

Lost == health' = "lost" /\ cur' = Empty /\ saved' = Empty /\ risk' = "none"

Lose == risk # "none" /\ Lost

\* A Get moves the position of the data file under a Put or a Compact.
Clash == health = "up" /\ Lost

Close ==
    /\ health = "up" /\ risk = "none" /\ cur = saved
    /\ health' = "down"
    /\ UNCHANGED <<cur, saved, risk>>

Open ==
    /\ health = "down"
    /\ health' = "up" /\ saved' = cur /\ risk' = "none"
    /\ UNCHANGED cur

Next ==
    \/ \E k \in Keys : Forget(k) \/ \E v \in Vals : Put(k, v)
    \/ Save \/ SaveEnds \/ Swap \/ Die \/ Crash \/ Lose \/ Clash \/ Close \/ Open

Spec == Init /\ [][Next]_vars
=============================================================================
