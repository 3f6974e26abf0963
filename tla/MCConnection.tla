---------------------------- MODULE MCConnection ----------------------------
\* Instances of Connection for TLC.  The safety instance has two sessions, so that a
\* reconnect meets the remains of the first, and a refresher; the liveness instance one
\* session and a command queue for two, so that Disconnect meets a full one.
EXTENDS Connection
=============================================================================
