---------------------------- MODULE MCFileStore ----------------------------
(***************************************************************************)
(* Two keys and two values, so that values can be mixed up; two callers    *)
(* and a Get under way; room for three records, so that a compacted file   *)
(* is written to again, and one compaction.  Callers and values are        *)
(* interchangeable.                                                        *)
(***************************************************************************)
EXTENDS FileStore, TLC

Symmetry == Permutations(Callers) \cup Permutations(Vals)

\* A torn store stays torn, and nothing is claimed of it: its steps are not followed.
Usable == ~torn
=============================================================================
