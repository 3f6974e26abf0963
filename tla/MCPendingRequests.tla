------------------------- MODULE MCPendingRequests --------------------------
\* PendingRequests for TLC: two workers, so that an ack and its result overtake each
\* other, and two answers per id, so that one is a duplicate or late.
EXTENDS PendingRequests
=============================================================================
