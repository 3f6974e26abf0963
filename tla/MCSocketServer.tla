--------------------------- MODULE MCSocketServer ---------------------------
\* SocketServer for TLC: channels of capacity 1, so that both the empty and the full
\* case happen, and three requests, so that two are on their way while a worker has one.
EXTENDS SocketServer
=============================================================================
