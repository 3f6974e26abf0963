------------------------- MODULE MCBlockHashChecker -------------------------
(***************************************************************************)
(* Two validators and a sync node that begin with one block and reach the  *)
(* third, in batches of two: a watch then takes one batch or two, and the  *)
(* search has a step in each direction.  One node forks, the second        *)
(* validator in the order of its transactions alone, one answer fails or   *)
(* one node restarts.                                                      *)
(***************************************************************************)
EXTENDS BlockHashChecker

MCNodes == <<"m1", "m2", "m4">>
MCSync == {"m4"}
MCReordered == {"m2"}
=============================================================================
