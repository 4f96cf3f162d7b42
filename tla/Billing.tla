------------------------------- MODULE Billing -------------------------------
(***************************************************************************)
(* The billing engine of rust-core (billing/engine.rs, billing/handlers.rs)*)
(* over the tables invoices and billing_payments.                          *)
(*                                                                         *)
(* Every HTTP handler opens one READ COMMITTED transaction, calls the      *)
(* engine and commits.  A transaction of one statement (create, cancel) is *)
(* one step.  pay_invoice and apply_late_fee read the row, decide, then    *)
(* UPDATE it "WHERE id = $1": they are a read of the committed row into    *)
(* snap, an UPDATE that takes the row lock (and waits while another        *)
(* transaction holds it) and a commit that publishes the writes computed   *)
(* from snap.  The overdue job (main.rs) is one UPDATE over many rows: it  *)
(* selects them, locks them one by one re-evaluating its WHERE clause, and *)
(* commits.  Any transaction may be rolled back between two statements     *)
(* (error, dropped connection, crash of the process).                      *)
(***************************************************************************)
EXTENDS Integers, Sequences, FiniteSets

CONSTANTS
    Invoices,      \* primary keys of table invoices
    Requests,      \* handlers that may be in flight together (pool slots)
    Amounts,       \* amount_tiyin values of CreateInvoiceRequest
    TaxRates,      \* its tax_rate, in basis points
    Discounts,     \* its discount_tiyin
    LateFeeBp,     \* fee_rate of apply_late_fee, in basis points
    LateFees,      \* does any caller invoke apply_late_fee (no route does)
    MaxTotal,      \* bound on the growth of an invoice by late fees
    MaxJobFaults,  \* bound on the failed executions of the overdue job
    Job,           \* lock owner: the overdue job
    NoOne,         \* lock owner: nobody
    NoInvoice      \* the invoice of an empty snapshot

ASSUME InputAssumption ==
    /\ Amounts \subseteq Int /\ TaxRates \subseteq Int /\ Discounts \subseteq Int
    /\ LateFeeBp \in Nat /\ LateFees \in BOOLEAN
    /\ MaxTotal \in Nat /\ MaxJobFaults \in Nat

ASSUME OwnerAssumption ==
    /\ Job \notin Requests /\ NoOne \notin Requests \cup {Job}
    /\ NoInvoice \notin Invoices

ASSUME RequestsAssumption == IsFiniteSet(Requests)

VARIABLES
    status,     \* committed invoices.status; "absent" before the INSERT
    total,      \* committed invoices.total_tiyin
    due,        \* invoices.due_date: none, ahead of NOW() or past
    payments,   \* committed billing_payments.amount_tiyin, per invoice
    lock,       \* owner of the row lock of each invoice
    pc,         \* where each in-flight handler is
    snap,       \* the row its get_invoice_by_id returned
    scan,       \* rows the running overdue UPDATE has still to lock
    jobFaults   \* failed executions of the job so far

vars == <<status, total, due, payments, lock, pc, snap, scan, jobFaults>>

InvoiceStatus == {"draft", "pending", "paid", "overdue", "cancelled", "refunded"}
Payable       == {"pending", "overdue"}
Owner         == Requests \cup {Job, NoOne}
Phase         == {"idle", "pay_read", "pay_locked", "fee_read", "fee_locked"}
NoSnapshot    == [invoice |-> NoInvoice, status |-> "absent", total |-> 0]
Snapshot      == [invoice : Invoices, status : InvoiceStatus, total : Nat]

-----------------------------------------------------------------------------
(* Amounts.                                                                *)

\* i64 division truncates towards zero, also for a negative rate.
ComputeTax(amount, rateBp) ==
    LET p == amount * rateBp
    IN  IF p >= 0 THEN p \div 10000 ELSE -((-p) \div 10000)

InvoiceTotal(amount, rateBp, discount) == amount + ComputeTax(amount, rateBp) - discount

\* fee_tiyin: the product rounded half up.
FeeTiyin(amount) == (amount * LateFeeBp + 5000) \div 10000

-----------------------------------------------------------------------------
Init ==
    /\ status = [i \in Invoices |-> "absent"]
    /\ total = [i \in Invoices |-> 0]
    /\ due = [i \in Invoices |-> "none"]
    /\ payments = [i \in Invoices |-> <<>>]
    /\ lock = [i \in Invoices |-> NoOne]
    /\ pc = [r \in Requests |-> "idle"]
    /\ snap = [r \in Requests |-> NoSnapshot]
    /\ scan = {}
    /\ jobFaults = 0

(* The single-statement handlers. *)

\* Variant: the total is not tested.
CreateInvoiceUntested(r, i, amount, rateBp, discount, when) ==
    /\ pc[r] = "idle" /\ status[i] = "absent" /\ amount >= 1
    /\ status' = [status EXCEPT ![i] = "pending"]
    /\ total' = [total EXCEPT ![i] = InvoiceTotal(amount, rateBp, discount)]
    /\ due' = [due EXCEPT ![i] = when]
    /\ UNCHANGED <<payments, lock, pc, snap, scan, jobFaults>>

CreateInvoice(r, i, amount, rateBp, discount, when) ==
    /\ pc[r] = "idle"
    /\ status[i] = "absent"
    /\ amount >= 1
    /\ InvoiceTotal(amount, rateBp, discount) >= 0
    /\ status' = [status EXCEPT ![i] = "pending"]
    /\ total' = [total EXCEPT ![i] = InvoiceTotal(amount, rateBp, discount)]
    /\ due' = [due EXCEPT ![i] = when]
    /\ UNCHANGED <<payments, lock, pc, snap, scan, jobFaults>>

\* Variant: the UPDATE of a cancellation without its status condition.
CancelAnyInvoice(r, i) ==
    /\ pc[r] = "idle" /\ lock[i] = NoOne /\ status[i] # "absent"
    /\ status' = [status EXCEPT ![i] = "cancelled"]
    /\ UNCHANGED <<total, due, payments, lock, pc, snap, scan, jobFaults>>

CancelInvoice(r, i) ==
    /\ pc[r] = "idle"
    /\ lock[i] = NoOne
    /\ status[i] \in {"draft", "pending"}
    /\ status' = [status EXCEPT ![i] = "cancelled"]
    /\ UNCHANGED <<total, due, payments, lock, pc, snap, scan, jobFaults>>

(* The read that starts pay_invoice and apply_late_fee: get_invoice_by_id. *)

ReadInvoice(r, i, next) ==
    /\ pc[r] = "idle"
    /\ status[i] # "absent"
    /\ snap' = [snap EXCEPT ![r] = [invoice |-> i, status |-> status[i], total |-> total[i]]]
    /\ pc' = [pc EXCEPT ![r] = next]
    /\ UNCHANGED <<status, total, due, payments, lock, scan, jobFaults>>

\* The UPDATE ... WHERE id = $1: waits for the row lock, tests nothing else.
LockRow(r, next) ==
    /\ lock[snap[r].invoice] = NoOne
    /\ lock' = [lock EXCEPT ![snap[r].invoice] = r]
    /\ pc' = [pc EXCEPT ![r] = next]
    /\ UNCHANGED <<status, total, due, payments, snap, scan, jobFaults>>

\* Variant: a connection goes back to the pool with its transaction open.
FinishHoldingLock(r) ==
    /\ pc' = [pc EXCEPT ![r] = "idle"]
    /\ snap' = [snap EXCEPT ![r] = NoSnapshot]
    /\ UNCHANGED lock

\* The handler ends: its transaction, committed or not, holds no lock.
Finish(r) ==
    /\ pc' = [pc EXCEPT ![r] = "idle"]
    /\ snap' = [snap EXCEPT ![r] = NoSnapshot]
    /\ lock' = [i \in Invoices |-> IF lock[i] = r THEN NoOne ELSE lock[i]]

PayRead(r, i) == ReadInvoice(r, i, "pay_read")

PayUpdate(r) ==
    /\ pc[r] = "pay_read"
    /\ snap[r].status \in Payable
    /\ LockRow(r, "pay_locked")

\* INSERT INTO billing_payments, with the amount read before the lock, and commit.
PayCommit(r) ==
    /\ pc[r] = "pay_locked"
    /\ snap[r].total > 0
    /\ status' = [status EXCEPT ![snap[r].invoice] = "paid"]
    /\ payments' = [payments EXCEPT ![snap[r].invoice] = Append(@, snap[r].total)]
    /\ Finish(r)
    /\ UNCHANGED <<total, due, scan, jobFaults>>

\* Variant: UPDATE and INSERT are not in one transaction.
PayRefusedHalfDone(r) ==
    /\ pc[r] = "pay_locked" /\ snap[r].total = 0
    /\ status' = [status EXCEPT ![snap[r].invoice] = "paid"]
    /\ Finish(r)
    /\ UNCHANGED <<total, due, payments, scan, jobFaults>>

\* Refused: the status test, or CHECK (amount_tiyin > 0) on the INSERT.
PayRefused(r) ==
    /\ \/ pc[r] = "pay_read" /\ snap[r].status \notin Payable
       \/ pc[r] = "pay_locked" /\ snap[r].total = 0
    /\ Finish(r)
    /\ UNCHANGED <<status, total, due, payments, scan, jobFaults>>

LateFeeRead(r, i) == LateFees /\ ReadInvoice(r, i, "fee_read")

\* Variant: the fee is added whatever the status.
LateFeeUpdateUntested(r) ==
    /\ pc[r] = "fee_read"
    /\ snap[r].total + FeeTiyin(snap[r].total) <= MaxTotal
    /\ LockRow(r, "fee_locked")

LateFeeUpdate(r) ==
    /\ pc[r] = "fee_read"
    /\ snap[r].status = "overdue"
    /\ snap[r].total + FeeTiyin(snap[r].total) <= MaxTotal
    /\ LockRow(r, "fee_locked")

LateFeeCommit(r) ==
    /\ pc[r] = "fee_locked"
    /\ total' = [total EXCEPT ![snap[r].invoice] = snap[r].total + FeeTiyin(snap[r].total)]
    /\ Finish(r)
    /\ UNCHANGED <<status, due, payments, scan, jobFaults>>

LateFeeRefused(r) ==
    /\ pc[r] = "fee_read"
    /\ \/ snap[r].status # "overdue"
       \/ snap[r].total + FeeTiyin(snap[r].total) > MaxTotal
    /\ Finish(r)
    /\ UNCHANGED <<status, total, due, payments, scan, jobFaults>>

\* A database error, a client that hangs up or a crash drops the transaction.
Rollback(r) ==
    /\ pc[r] # "idle"
    /\ Finish(r)
    /\ UNCHANGED <<status, total, due, payments, scan, jobFaults>>

-----------------------------------------------------------------------------
(* The overdue job: mark_overdue_invoices, run every ten minutes.          *)

JobRows    == {i \in Invoices : lock[i] = Job}
JobRunning == scan # {} \/ JobRows # {}

\* Variant: the comparison of due_date with NOW() the wrong way round.
NotYetDueRows == {i \in Invoices : status[i] = "pending" /\ due[i] = "ahead"}

DueRows == {i \in Invoices : status[i] = "pending" /\ due[i] = "past"}

JobScan ==
    /\ ~JobRunning
    /\ DueRows # {}
    /\ scan' = DueRows
    /\ UNCHANGED <<status, total, due, payments, lock, pc, snap, jobFaults>>

\* Wait for one row, re-evaluate the WHERE clause on its latest version.
JobLock(i) ==
    /\ i \in scan
    /\ lock[i] = NoOne
    /\ scan' = scan \ {i}
    /\ lock' = IF i \in DueRows THEN [lock EXCEPT ![i] = Job] ELSE lock
    /\ UNCHANGED <<status, total, due, payments, pc, snap, jobFaults>>

JobReleased == [i \in Invoices |-> IF lock[i] = Job THEN NoOne ELSE lock[i]]

JobCommit ==
    /\ scan = {}
    /\ JobRows # {}
    /\ status' = [i \in Invoices |-> IF i \in JobRows THEN "overdue" ELSE status[i]]
    /\ lock' = JobReleased
    /\ UNCHANGED <<total, due, payments, pc, snap, scan, jobFaults>>

JobFails ==
    /\ JobRunning
    /\ jobFaults < MaxJobFaults
    /\ jobFaults' = jobFaults + 1
    /\ scan' = {}
    /\ lock' = JobReleased
    /\ UNCHANGED <<status, total, due, payments, pc, snap>>

\* Time: NOW() moves past a due date.
DuePasses(i) ==
    /\ due[i] = "ahead"
    /\ due' = [due EXCEPT ![i] = "past"]
    /\ UNCHANGED <<status, total, payments, lock, pc, snap, scan, jobFaults>>

-----------------------------------------------------------------------------
Creates(r) ==
    \E i \in Invoices, a \in Amounts, t \in TaxRates, d \in Discounts,
       when \in {"none", "ahead", "past"} : CreateInvoice(r, i, a, t, d, when)

Handler(r) ==
    \/ Creates(r)
    \/ \E i \in Invoices : CancelInvoice(r, i) \/ PayRead(r, i) \/ LateFeeRead(r, i)
    \/ PayUpdate(r) \/ PayCommit(r) \/ PayRefused(r)
    \/ LateFeeUpdate(r) \/ LateFeeCommit(r) \/ LateFeeRefused(r)
    \/ Rollback(r)

OverdueJob == JobScan \/ (\E i \in Invoices : JobLock(i)) \/ JobCommit \/ JobFails

Next ==
    \/ \E r \in Requests : Handler(r)
    \/ OverdueJob
    \/ \E i \in Invoices : DuePasses(i)

Spec == Init /\ [][Next]_vars

\* A started handler runs to its end unless it waits for a lock; PostgreSQL
\* grants a row lock to a waiter when it is released (strong fairness of the
\* lock steps); the interval timer runs the job again and again.
Fairness ==
    /\ \A r \in Requests :
         /\ SF_vars(PayUpdate(r)) /\ SF_vars(LateFeeUpdate(r))
         /\ WF_vars(PayCommit(r)) /\ WF_vars(PayRefused(r))
         /\ WF_vars(LateFeeCommit(r)) /\ WF_vars(LateFeeRefused(r))
    /\ WF_vars(JobScan) /\ WF_vars(JobCommit)
    /\ \A i \in Invoices : SF_vars(JobLock(i))

FairSpec == Spec /\ Fairness

-----------------------------------------------------------------------------
(* Properties.                                                             *)

\* Types of every variable; a due date exists only on an issued invoice.
TypeOK ==
    /\ status \in [Invoices -> InvoiceStatus \cup {"absent"}]
    /\ total \in [Invoices -> Nat]
    /\ due \in [Invoices -> {"none", "ahead", "past"}]
    /\ payments \in [Invoices -> Seq(Nat \ {0})]
    /\ lock \in [Invoices -> Owner]
    /\ pc \in [Requests -> Phase]
    /\ snap \in [Requests -> Snapshot \cup {NoSnapshot}]
    /\ \A r \in Requests : pc[r] # "idle" => snap[r] \in Snapshot
    /\ scan \in SUBSET Invoices
    /\ jobFaults \in 0..MaxJobFaults

\* Row locks: a handler holds the lock of its invoice exactly between its
\* UPDATE and its end, one row at a time; a row the job holds is still pending
\* when the job commits (engine.rs:86-107, 189-199).
LockDiscipline ==
    /\ \A i \in Invoices, r \in Requests :
         lock[i] = r <=> pc[r] \in {"pay_locked", "fee_locked"} /\ snap[r].invoice = i
    /\ \A i \in JobRows : status[i] = "pending"

\* The two tables agree in every committed state: an invoice is paid exactly
\* when a payment row exists for it, whatever pay_invoice, cancel_invoice,
\* the overdue job and rollbacks interleave (engine.rs:86-107 in one
\* transaction, the WHERE clauses at 115 and 192).
PaymentIffPaid ==
    \A i \in Invoices : status[i] = "paid" <=> payments[i] # <<>>

\* As long as no caller applies late fees, or one handler is in flight at a time,
\* every payment recorded is of the whole invoice, although its amount was read
\* before the row was locked (engine.rs:77 and 102).
PaidInFull ==
    \A i \in Invoices : \A k \in DOMAIN payments[i] : payments[i][k] = total[i]

\* How far a double payment can go: only handlers whose read preceded the
\* first commit can pay again, so an invoice gets at most one payment per
\* handler in flight, and none that starts later (engine.rs:77-84).
PaymentsBounded ==
    \A i \in Invoices : Len(payments[i]) <= Cardinality(Requests)

\* No step takes a paid invoice out of paid: neither a cancellation, nor the
\* overdue UPDATE that selected the row while it was still pending, nor a
\* handler that commits late (engine.rs:112-124, 187-201).
PaidIsFinal ==
    [][\A i \in Invoices : status[i] = "paid" => status'[i] = "paid"]_vars

\* pay_invoice's message for a refused payment, "Invoice cannot be paid:
\* current status is Paid" (engine.rs:79-83): a paid invoice is not paid again.
AtMostOnePayment ==
    \A i \in Invoices : Len(payments[i]) <= 1

\* Every handler that starts gets an answer: waiting for row locks among the
\* handlers and the overdue job ends (engine.rs:86, 115, 190).
HandlersFinish ==
    \A r \in Requests : pc[r] # "idle" ~> pc[r] = "idle"

\* A pending invoice past its due date does not stay pending: the job reaches
\* it, or it is paid or cancelled first (main.rs:59-73, engine.rs:187-201).
OverdueIsNoticed ==
    \A i \in Invoices : (status[i] = "pending" /\ due[i] = "past") ~> status[i] # "pending"

\* Run one handler at a time, still beside the overdue job, the engine
\* implements the one-step lifecycle of InvoiceLifecycle.
Lifecycle == INSTANCE InvoiceLifecycle
    WITH Invoices <- Invoices, status <- status, total <- total, payments <- payments
ImplementsLifecycle == Lifecycle!Spec
=============================================================================
