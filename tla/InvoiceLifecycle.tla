--------------------------- MODULE InvoiceLifecycle ---------------------------
(***************************************************************************)
(* What billing promises about an invoice, with every operation in one     *)
(* step: it is issued, may fall overdue, and ends paid by one payment of   *)
(* its total or cancelled.  Billing implements it when its handlers run    *)
(* one at a time (see MCBilling).                                          *)
(***************************************************************************)
EXTENDS Integers, Sequences

CONSTANT Invoices

VARIABLES status, total, payments

lifecycleVars == <<status, total, payments>>

Init ==
    /\ status = [i \in Invoices |-> "absent"]
    /\ total = [i \in Invoices |-> 0]
    /\ payments = [i \in Invoices |-> <<>>]

Issue(i) ==
    /\ status[i] = "absent"
    /\ status' = [status EXCEPT ![i] = "pending"]
    /\ total'[i] \in Nat
    /\ total' = [total EXCEPT ![i] = total'[i]]
    /\ UNCHANGED payments

Settle(i) ==
    /\ status[i] \in {"pending", "overdue"}
    /\ status' = [status EXCEPT ![i] = "paid"]
    /\ payments' = [payments EXCEPT ![i] = <<total[i]>>]
    /\ UNCHANGED total

Withdraw(i) ==
    /\ status[i] = "pending"
    /\ status' = [status EXCEPT ![i] = "cancelled"]
    /\ UNCHANGED <<total, payments>>

FallOverdue(S) ==
    /\ \A i \in S : status[i] = "pending"
    /\ status' = [i \in Invoices |-> IF i \in S THEN "overdue" ELSE status[i]]
    /\ UNCHANGED <<total, payments>>

Surcharge(i) ==
    /\ status[i] = "overdue"
    /\ total'[i] \in Nat /\ total'[i] >= total[i]
    /\ total' = [total EXCEPT ![i] = total'[i]]
    /\ UNCHANGED <<status, payments>>

Next ==
    \/ \E i \in Invoices : Issue(i) \/ Settle(i) \/ Withdraw(i) \/ Surcharge(i)
    \/ \E S \in SUBSET Invoices : FallOverdue(S)

Spec == Init /\ [][Next]_lifecycleVars
=============================================================================
