-------------------------- MODULE MCReceiptRouter ---------------------------
\* ReceiptRouter for TLC: two calls for the same hash or for two, and two messages,
\* so that one comes after the call it was meant for has given up.
EXTENDS ReceiptRouter
=============================================================================
