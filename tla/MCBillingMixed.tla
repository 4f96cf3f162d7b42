--------------------------- MODULE MCBillingMixed ---------------------------
(***************************************************************************)
(* Model-checking Billing in two worlds, one of which is chosen at the     *)
(* start: every operation, apply_late_fee included, of one handler at a    *)
(* time; and two handlers in flight together, of the operations that have  *)
(* a route.  The overdue job runs in both.                                 *)
(***************************************************************************)
EXTENDS MCBilling

VARIABLE world

Alone == world = "alone"

MixedInit == Init /\ world \in {"alone", "together"}

MixedNext ==
    /\ \/ Alone /\ Handler(r1)
       \/ ~Alone /\ \E r \in Requests : Handler(r) /\ pc'[r] # "fee_read"
       \/ OverdueJob
       \/ \E i \in Invoices : DuePasses(i)
    /\ UNCHANGED world

MixedSpec == MixedInit /\ [][MixedNext]_<<vars, world>> /\ Fairness

\* One handler at a time, beside the overdue job, the engine implements the one-step
\* lifecycle of InvoiceLifecycle: no invoice is paid twice, paid in part, or paid
\* after it was cancelled (engine.rs:66-201).  In the other world nothing is claimed:
\* there the lifecycle does not move.
AloneLifecycle == INSTANCE InvoiceLifecycle
    WITH status   <- [i \in Invoices |-> IF Alone THEN status[i] ELSE "absent"],
         total    <- [i \in Invoices |-> IF Alone THEN total[i] ELSE 0],
         payments <- [i \in Invoices |-> IF Alone THEN payments[i] ELSE <<>>]
AloneImplementsLifecycle == AloneLifecycle!Spec
=============================================================================
