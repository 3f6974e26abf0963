--------------------------- MODULE CircuitBreaker ---------------------------
(***************************************************************************)
(* The circuit breaker of src/pkg/network/circuit_breaker.go.              *)
(*                                                                         *)
(* Every method holds cb.mu, so a method is one step.  A caller asks       *)
(* CanExecute and, if admitted, later reports success or failure exactly   *)
(* once, as the defer of Handler.HandleRequest lays it out (its calls of   *)
(* the breaker are commented out at this commit).  In between, other       *)
(* callers may change the state of the breaker any number of times.  Time  *)
(* is kept as one bit: has timeout passed since the last failure.          *)
(***************************************************************************)
EXTENDS Integers, FiniteSets

CONSTANTS
    Callers,       \* goroutines that use the breaker
    MaxFailures,   \* maxFailures
    MaxRequests,   \* maxRequests
    MaxCalls       \* bound on the calls of CanExecute

ASSUME BreakerAssumption ==
    /\ IsFiniteSet(Callers)
    /\ MaxFailures \in Nat \ {0}
    /\ MaxRequests \in Nat
    /\ MaxCalls \in Nat

VARIABLES
    state,     \* cb.state
    failures,  \* cb.failures
    requests,  \* cb.requests: admitted in HALF_OPEN, the first one not counted
    cooled,    \* time.Since(lastFailureTime) > timeout
    inFlight,  \* callers admitted that have not reported yet
    probes,    \* callers admitted since the breaker last became HALF_OPEN
    total      \* the metrics of GetStats

vars == <<state, failures, requests, cooled, inFlight, probes, total>>

Metrics == [requests : 0..MaxCalls, failures : Nat, successes : Nat, rejected : Nat]

TypeOK ==
    /\ state \in {"CLOSED", "OPEN", "HALF_OPEN"}
    /\ failures \in Nat
    /\ requests \in 0..MaxRequests
    /\ cooled \in BOOLEAN
    /\ inFlight \in SUBSET Callers
    /\ probes \in Nat
    /\ total \in Metrics

Init ==
    /\ state = "CLOSED"
    /\ failures = 0
    /\ requests = 0
    /\ cooled = TRUE
    /\ inFlight = {}
    /\ probes = 0
    /\ total = [requests |-> 0, failures |-> 0, successes |-> 0, rejected |-> 0]

Admit(c) ==
    /\ inFlight' = inFlight \cup {c}
    /\ total' = [total EXCEPT !.requests = @ + 1]

Reject ==
    /\ total' = [total EXCEPT !.requests = @ + 1, !.rejected = @ + 1]
    /\ UNCHANGED <<state, requests, inFlight, probes>>

\* A caller asks once at a time.
Asks(c) ==
    /\ c \in Callers \ inFlight
    /\ total.requests < MaxCalls
    /\ UNCHANGED <<failures, cooled>>

CanExecuteClosed(c) ==
    /\ Asks(c) /\ state = "CLOSED"
    /\ Admit(c)
    /\ UNCHANGED <<state, requests, probes>>

\* The first request after the cool-down opens the half-open period.
CanExecuteOpen(c) ==
    /\ Asks(c) /\ state = "OPEN"
    /\ \/ /\ cooled
          /\ state' = "HALF_OPEN" /\ requests' = 0 /\ probes' = 1
          /\ Admit(c)
       \/ ~cooled /\ Reject

CanExecuteHalfOpen(c) ==
    /\ Asks(c) /\ state = "HALF_OPEN"
    /\ \/ /\ requests < MaxRequests
          /\ requests' = requests + 1 /\ probes' = probes + 1
          /\ Admit(c)
          /\ UNCHANGED state
       \/ requests >= MaxRequests /\ Reject

\* Mutant of RecordSuccess: off by one in the test that closes the circuit.
RecordSuccessStrict(c) ==
    /\ c \in inFlight
    /\ inFlight' = inFlight \ {c}
    /\ total' = [total EXCEPT !.successes = @ + 1]
    /\ \/ /\ state = "HALF_OPEN" /\ requests > MaxRequests
          /\ state' = "CLOSED" /\ failures' = 0 /\ requests' = 0
       \/ /\ state = "HALF_OPEN" /\ requests <= MaxRequests
          /\ UNCHANGED <<state, failures, requests>>
       \/ state = "CLOSED" /\ failures' = 0 /\ UNCHANGED <<state, requests>>
       \/ state = "OPEN" /\ UNCHANGED <<state, failures, requests>>
    /\ UNCHANGED <<cooled, probes>>

\* Mutant of RecordSuccess: closing the circuit keeps the failure count.
RecordSuccessKeepsFailures(c) ==
    /\ c \in inFlight
    /\ inFlight' = inFlight \ {c}
    /\ total' = [total EXCEPT !.successes = @ + 1]
    /\ \/ /\ state = "HALF_OPEN" /\ requests >= MaxRequests
          /\ state' = "CLOSED" /\ requests' = 0 /\ UNCHANGED failures
       \/ /\ state = "HALF_OPEN" /\ requests < MaxRequests
          /\ UNCHANGED <<state, failures, requests>>
       \/ state = "CLOSED" /\ failures' = 0 /\ UNCHANGED <<state, requests>>
       \/ state = "OPEN" /\ UNCHANGED <<state, failures, requests>>
    /\ UNCHANGED <<cooled, probes>>

RecordSuccess(c) ==
    /\ c \in inFlight
    /\ inFlight' = inFlight \ {c}
    /\ total' = [total EXCEPT !.successes = @ + 1]
    /\ \/ /\ state = "HALF_OPEN" /\ requests >= MaxRequests
          /\ state' = "CLOSED" /\ failures' = 0 /\ requests' = 0
       \/ /\ state = "HALF_OPEN" /\ requests < MaxRequests
          /\ UNCHANGED <<state, failures, requests>>
       \/ state = "CLOSED" /\ failures' = 0 /\ UNCHANGED <<state, requests>>
       \/ state = "OPEN" /\ UNCHANGED <<state, failures, requests>>
    /\ UNCHANGED <<cooled, probes>>

\* A failure counts and restarts the cool-down in every state.
RecordFailure(c) ==
    /\ c \in inFlight
    /\ inFlight' = inFlight \ {c}
    /\ total' = [total EXCEPT !.failures = @ + 1]
    /\ failures' = failures + 1
    /\ cooled' = FALSE
    /\ \/ /\ state = "CLOSED"
          /\ state' = IF failures + 1 >= MaxFailures THEN "OPEN" ELSE state
          /\ UNCHANGED requests
       \/ state = "HALF_OPEN" /\ state' = "OPEN" /\ requests' = 0
       \/ state = "OPEN" /\ UNCHANGED <<state, requests>>
    /\ UNCHANGED probes

Reset ==
    /\ state' = "CLOSED" /\ failures' = 0 /\ requests' = 0
    /\ UNCHANGED <<cooled, inFlight, probes, total>>

\* timeout passes without a failure.
CoolDown ==
    /\ ~cooled
    /\ cooled' = TRUE
    /\ UNCHANGED <<state, failures, requests, inFlight, probes, total>>

Next ==
    \/ \E c \in Callers : CanExecuteClosed(c)
    \/ \E c \in Callers : CanExecuteOpen(c)
    \/ \E c \in Callers : CanExecuteHalfOpen(c)
    \/ \E c \in Callers : RecordSuccess(c)
    \/ \E c \in Callers : RecordFailure(c)
    \/ Reset
    \/ CoolDown

Spec == Init /\ [][Next]_vars

\* An admitted caller reports in the end: the report is laid out as a defer of
\* HandleRequest, which runs however the request ends.
FairSpec == Spec /\ \A c \in Callers : WF_vars(RecordSuccess(c) \/ RecordFailure(c))

-----------------------------------------------------------------------------
(* Properties                                                              *)

\* The half-open period cannot wedge: when CanExecute rejects because the quota
\* is used up, some admitted caller has yet to report, and any report ends the
\* period.  Late reports of callers admitted before do not get in the way.
QuotaUsedMeansInFlight ==
    state = "HALF_OPEN" /\ requests >= MaxRequests => inFlight # {}

\* A closed circuit has fewer than maxFailures failures in a row, also after a
\* half-open period and after failures reported late, while it was open.
ClosedIsBelowLimit == state = "CLOSED" => failures < MaxFailures

\* A half-open period admits maxRequests callers and the one that started it.
HalfOpenAdmitsAtMost == state = "HALF_OPEN" => probes <= MaxRequests + 1

\* The metrics of GetStats add up: every call was rejected, has reported or is
\* still in flight.
MetricsAddUp ==
    total.requests = total.rejected + total.successes + total.failures
                     + Cardinality(inFlight)

\* When the quota is used up, the half-open period ends.
HalfOpenEnds ==
    (state = "HALF_OPEN" /\ requests >= MaxRequests) ~> (state # "HALF_OPEN")
=============================================================================
