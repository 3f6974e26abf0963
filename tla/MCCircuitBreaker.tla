-------------------------- MODULE MCCircuitBreaker --------------------------
\* CircuitBreaker for TLC: more callers than either limit, so that reports of one
\* period arrive in the next.
EXTENDS CircuitBreaker
=============================================================================
