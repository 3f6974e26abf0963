------------------------- MODULE MCTransactionFlow -------------------------
(* Two senders with two calls each meet in the shared channels, and a      *)
(* second call meets what the first one left.                              *)
EXTENDS TransactionFlow
=============================================================================
