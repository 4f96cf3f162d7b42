------------------------ MODULE CircuitBreakerProofs ------------------------
(***************************************************************************)
(* Theorems about CircuitBreaker for any threshold and any goroutines.     *)
(***************************************************************************)
EXTENDS CircuitBreaker, TLAPS

\* The outcome of a call: what the second critical section leaves.
LEMMA ReturnKeeps ==
    ASSUME TypeOK, NEW c \in Callers, Return(c)
    PROVE  inFlight' \in SUBSET Callers /\ tripped \ {c} \subseteq inFlight'
  BY DEF TypeOK, Return

LEMMA UpToType ==
    ASSUME NEW limit \in Nat, NEW n \in 0..limit
    PROVE  /\ UpTo(limit, n + 1) \in 0..limit
           /\ n + 1 >= limit => UpTo(limit, n + 1) = limit
           /\ n + 1 < limit => UpTo(limit, n + 1) = n + 1
  BY DEF UpTo

IInv == TypeOK /\ CountersAgree /\ QuietWhileOpen

LEMMA InitIInv == Init => IInv
<1> SUFFICES ASSUME Init PROVE IInv
  OBVIOUS
<1>1. TypeOK
  <2>1. /\ state \in CBState
        /\ failures \in 0..Threshold /\ successes \in 0..2
    BY BreakerAssumption DEF Init, CBState
  <2>2. /\ elapsed \in BOOLEAN /\ healthy \in BOOLEAN
        /\ inFlight \in SUBSET Callers /\ tripped \in SUBSET inFlight
    BY Zenon DEF Init
  <2>3. QED  BY <2>1, <2>2 DEF TypeOK
<1>2. CountersAgree
  BY BreakerAssumption DEF Init, CountersAgree
<1>3. QuietWhileOpen
  BY DEF Init, QuietWhileOpen
<1>4. QED  BY <1>1, <1>2, <1>3 DEF IInv

LEMMA FailStep ==
    ASSUME IInv, NEW c \in Callers, Fail(c)
    PROVE  IInv'
<1>1. inFlight' \in SUBSET Callers /\ tripped \ {c} \subseteq inFlight'
  BY ReturnKeeps DEF IInv, Fail
<1>2. /\ failures' \in 0..Threshold
      /\ failures + 1 >= Threshold => failures' = Threshold
      /\ failures + 1 < Threshold => failures' = failures + 1
  BY UpToType, BreakerAssumption DEF IInv, TypeOK, Fail
<1>3. CASE state = "half_open" \/ failures' >= Threshold
  <2>1. state' = "open" /\ tripped' = inFlight' /\ elapsed' = FALSE /\ successes' = 0
    BY <1>3 DEF Fail
  <2>2. failures' = Threshold
    BY <1>2, <1>3, BreakerAssumption DEF IInv, TypeOK, CountersAgree
  <2>3. healthy' \in BOOLEAN
    BY DEF Fail, IInv, TypeOK
  <2>4. TypeOK'
    <3>1. state' \in CBState /\ successes' \in 0..2
      BY <2>1 DEF CBState
    <3>2. elapsed' \in BOOLEAN
      BY <2>1, Zenon
    <3>3. tripped' \in SUBSET inFlight'
      BY <2>1
    <3>4. QED  BY <1>1, <1>2, <2>3, <3>1, <3>2, <3>3 DEF TypeOK
  <2>5. CountersAgree'
    BY <2>1, <2>2, BreakerAssumption DEF CountersAgree
  <2>6. QuietWhileOpen'
    BY <2>1 DEF QuietWhileOpen
  <2>7. QED  BY <2>4, <2>5, <2>6 DEF IInv
<1>4. CASE ~(state = "half_open" \/ failures' >= Threshold)
  <2>1. UNCHANGED <<state, elapsed>> /\ tripped' = tripped \ {c} /\ successes' = 0
    BY <1>4 DEF Fail
  <2>2. state = "closed" /\ failures' < Threshold
    BY <1>2, <1>4, BreakerAssumption DEF IInv, TypeOK, CountersAgree, CBState
  <2>3. QED
    BY <1>1, <1>2, <2>1, <2>2
    DEF Fail, IInv, TypeOK, CountersAgree, QuietWhileOpen, CBState
<1>5. QED  BY <1>3, <1>4

LEMMA SucceedStep ==
    ASSUME IInv, NEW c \in Callers, Succeed(c)
    PROVE  IInv'
<1>1. inFlight' \in SUBSET Callers /\ tripped \ {c} \subseteq inFlight'
  BY ReturnKeeps DEF IInv, Succeed
<1>2. /\ successes' \in 0..2
      /\ successes + 1 < 2 => successes' < 2
  BY UpToType DEF IInv, TypeOK, Succeed
<1>3. CASE state = "half_open" /\ successes + 1 >= 2
  BY <1>1, <1>2, <1>3, BreakerAssumption
  DEF Succeed, IInv, TypeOK, CountersAgree, QuietWhileOpen, CBState
<1>4. CASE ~(state = "half_open" /\ successes + 1 >= 2)
  <2>1. UNCHANGED <<state, failures, elapsed, healthy>> /\ tripped' = tripped \ {c}
    BY <1>4 DEF Succeed
  <2>2. state = "half_open" => successes' < 2
    BY <1>2, <1>4 DEF IInv, TypeOK
  <2>3. state = "open" => inFlight' \subseteq tripped'
    BY <2>1 DEF Succeed, Return, IInv, QuietWhileOpen
  <2>4. QED
    BY <1>1, <1>2, <2>1, <2>2, <2>3 DEF IInv, TypeOK, CountersAgree, QuietWhileOpen
<1>5. QED  BY <1>3, <1>4

LEMMA NextIInv == IInv /\ [Next]_vars => IInv'
<1> SUFFICES ASSUME IInv, [Next]_vars PROVE IInv'
  OBVIOUS
<1> USE DEF IInv, TypeOK, CountersAgree, QuietWhileOpen
<1>1. ASSUME NEW c \in Callers, Admit(c) PROVE IInv'
  BY <1>1 DEF Admit
<1>2. ASSUME NEW c \in Callers, Probe(c) PROVE IInv'
  BY <1>2 DEF Probe, CBState
<1>3. ASSUME NEW c \in Callers, Reject(c) PROVE IInv'
  BY <1>3 DEF Reject, vars
<1>4. ASSUME NEW c \in Callers, Fail(c) PROVE IInv'
  BY <1>4, FailStep
<1>5. ASSUME NEW c \in Callers, Succeed(c) PROVE IInv'
  BY <1>5, SucceedStep
<1>6. CASE TimeoutElapses \/ GoesDown \/ ComesUp
  BY <1>6 DEF TimeoutElapses, GoesDown, ComesUp
<1>7. CASE UNCHANGED vars
  BY <1>7 DEF vars
<1>8. QED  BY <1>1, <1>2, <1>3, <1>4, <1>5, <1>6, <1>7 DEF Next

LEMMA Inductive == Spec => []IInv
  BY InitIInv, NextIInv, PTL DEF Spec

\* For any threshold and any number of goroutines, the counters and the state
\* of the breaker agree between any two critical sections.
THEOREM BreakerCounts == Spec => []CountersAgree
<1>1. IInv => CountersAgree  BY DEF IInv
<1>2. QED  BY <1>1, Inductive, PTL

\* While the breaker is open the service gets no call but those that were
\* already running when it opened.
THEOREM OpenIsQuiet == Spec => []QuietWhileOpen
<1>1. IInv => QuietWhileOpen  BY DEF IInv
<1>2. QED  BY <1>1, Inductive, PTL
=============================================================================
