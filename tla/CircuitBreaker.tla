---------------------------- MODULE CircuitBreaker ----------------------------
(***************************************************************************)
(* The circuit breaker of go-connectors (internal/retry/retry.go) shared   *)
(* by several goroutines.  Call holds the mutex twice: to be admitted, and *)
(* after fn returned, to count its outcome.  fn runs in between with the   *)
(* mutex free, so a call admitted in one state is counted in another.      *)
(* The service behind fn goes down and comes up; a call fails exactly when *)
(* the service is down as it returns.                                      *)
(***************************************************************************)
EXTENDS Integers

CONSTANTS
    Callers,       \* goroutines that use the breaker
    Threshold      \* threshold of NewCircuitBreaker

ASSUME BreakerAssumption == Threshold \in Nat \ {0}

VARIABLES
    state,       \* cb.state
    failures,    \* cb.failures, counted up to the threshold it is compared with
    successes,   \* cb.successes, counted up to the 2 it is compared with
    elapsed,     \* time.Since(cb.lastOpen) > cb.resetTimeout
    inFlight,    \* callers inside fn
    healthy,     \* the service behind fn is up
    tripped      \* callers in flight since before the breaker last opened

vars == <<state, failures, successes, elapsed, inFlight, healthy, tripped>>

CBState == {"closed", "open", "half_open"}

Init ==
    /\ state = "closed" /\ failures = 0 /\ successes = 0
    /\ elapsed = FALSE
    /\ inFlight = {}
    /\ healthy = TRUE
    /\ tripped = {}

UpTo(limit, n) == IF n < limit THEN n ELSE limit

(* The first critical section. *)

\* Variant: successes is reset whenever a call is let through half-open.
AdmitResetting(c) ==
    /\ c \notin inFlight /\ state # "open"
    /\ inFlight' = inFlight \cup {c}
    /\ successes' = IF state = "half_open" THEN 0 ELSE successes
    /\ UNCHANGED <<state, failures, elapsed, tripped, healthy>>

\* Variant: the breaker admits calls without looking at its state.
AdmitAlways(c) ==
    /\ c \notin inFlight
    /\ inFlight' = inFlight \cup {c}
    /\ UNCHANGED <<state, failures, successes, elapsed, tripped, healthy>>

\* Closed or half-open: every call is let through.
Admit(c) ==
    /\ c \notin inFlight
    /\ state # "open"
    /\ inFlight' = inFlight \cup {c}
    /\ UNCHANGED <<state, failures, successes, elapsed, tripped, healthy>>

\* Open for longer than resetTimeout: the call turns it half-open.
Probe(c) ==
    /\ c \notin inFlight
    /\ state = "open" /\ elapsed
    /\ state' = "half_open"
    /\ successes' = 0
    /\ inFlight' = inFlight \cup {c}
    /\ UNCHANGED <<failures, elapsed, tripped, healthy>>

\* Open and not yet elapsed: "circuit breaker open", nothing changes.
Reject(c) ==
    /\ c \notin inFlight
    /\ state = "open" /\ ~elapsed
    /\ UNCHANGED vars

(* The second critical section. *)

Return(c) ==
    /\ c \in inFlight
    /\ inFlight' = inFlight \ {c}

\* Variant: failures is compared with > instead of >=.
FailLate(c) ==
    /\ ~healthy
    /\ Return(c)
    /\ failures' = UpTo(Threshold, failures + 1)
    /\ successes' = 0
    /\ IF state = "half_open" \/ failures' > Threshold
       THEN state' = "open" /\ elapsed' = FALSE /\ tripped' = inFlight'
       ELSE UNCHANGED <<state, elapsed>> /\ tripped' = tripped \ {c}
    /\ UNCHANGED healthy

\* Also a late failure that finds the breaker open starts its timeout again.
Fail(c) ==
    /\ ~healthy
    /\ Return(c)
    /\ failures' = UpTo(Threshold, failures + 1)
    /\ successes' = 0
    /\ IF state = "half_open" \/ failures' >= Threshold
       THEN state' = "open" /\ elapsed' = FALSE /\ tripped' = inFlight'
       ELSE UNCHANGED <<state, elapsed>> /\ tripped' = tripped \ {c}
    /\ UNCHANGED healthy

\* Variant: failures is not reset when the breaker closes.
SucceedKeeping(c) ==
    /\ healthy
    /\ Return(c)
    /\ successes' = UpTo(2, successes + 1)
    /\ state' = IF state = "half_open" /\ successes + 1 >= 2 THEN "closed" ELSE state
    /\ tripped' = tripped \ {c}
    /\ UNCHANGED <<failures, elapsed, healthy>>

\* A success resets failures only by closing the breaker.
Succeed(c) ==
    /\ healthy
    /\ Return(c)
    /\ successes' = UpTo(2, successes + 1)
    /\ IF state = "half_open" /\ successes + 1 >= 2
       THEN state' = "closed" /\ failures' = 0
       ELSE UNCHANGED <<state, failures>>
    /\ tripped' = tripped \ {c}
    /\ UNCHANGED <<elapsed, healthy>>

(* Time, and the service. *)

TimeoutElapses ==
    /\ state = "open" /\ ~elapsed
    /\ elapsed' = TRUE
    /\ UNCHANGED <<state, failures, successes, inFlight, tripped, healthy>>

GoesDown ==
    /\ healthy
    /\ healthy' = FALSE
    /\ UNCHANGED <<state, failures, successes, elapsed, inFlight, tripped>>

ComesUp ==
    /\ ~healthy
    /\ healthy' = TRUE
    /\ UNCHANGED <<state, failures, successes, elapsed, inFlight, tripped>>

Next ==
    \/ \E c \in Callers : Admit(c) \/ Probe(c) \/ Reject(c) \/ Fail(c) \/ Succeed(c)
    \/ TimeoutElapses \/ GoesDown \/ ComesUp

Spec == Init /\ [][Next]_vars

\* fn returns (the HTTP clients have timeouts), time passes, and there is
\* always some goroutine that calls again.
Fairness ==
    /\ \A c \in Callers : WF_vars(Fail(c) \/ Succeed(c))
    /\ WF_vars(TimeoutElapses)
    /\ WF_vars(\E c \in Callers : Admit(c) \/ Probe(c))

FairSpec == Spec /\ Fairness

-----------------------------------------------------------------------------
(* Properties.                                                             *)

TypeOK ==
    /\ state \in CBState
    /\ failures \in 0..Threshold
    /\ successes \in 0..2
    /\ elapsed \in BOOLEAN /\ healthy \in BOOLEAN
    /\ inFlight \in SUBSET Callers
    /\ tripped \in SUBSET inFlight

\* The counters and the state agree between any two critical sections,
\* although calls are counted in a state they were not admitted in: a closed
\* breaker has failures to spare, another one has none, and a half-open one
\* lacks a success (retry.go:141-155).
CountersAgree ==
    /\ state = "closed" <=> failures < Threshold
    /\ state = "half_open" => successes < 2

\* What an open breaker spares the service: the only calls it still gets are
\* those that were inside fn when the breaker last opened, also while late
\* failures start the timeout again (retry.go:125-131, 144-147).
QuietWhileOpen ==
    state = "open" => inFlight \subseteq tripped

\* A service that recovers for good gets its traffic back: the breaker ends
\* closed, whatever calls were in flight across its states (retry.go:125-128,
\* 151-155).
Recovers ==
    <>[]healthy => <>[](state = "closed")

\* A service that stays down is noticed: the breaker does not stay closed, nor
\* is it found closed again and again (retry.go:141-147).
Trips ==
    <>[]~healthy => <>[](state # "closed")
=============================================================================
