------------------------- MODULE MCParentReconnect --------------------------
\* ParentReconnect for TLC, with two breaks, so that a reconnect breaks in turn or two of
\* them overlap: once with a call that reconnects by itself (ParentReconnect.cfg), once
\* with a connection that is not to the parent (ParentReconnectOthers.cfg).
EXTENDS ParentReconnect
=============================================================================
