---------------------------- MODULE BillingProofs ----------------------------
(***************************************************************************)
(* Theorems about Billing for any invoices, handlers and amounts.          *)
(***************************************************************************)
EXTENDS Billing, SequenceTheorems, FiniteSetTheorems, TLAPS

-----------------------------------------------------------------------------
(* Operators on amounts.                                                   *)

LEMMA TaxIsInt ==
    ASSUME NEW a \in Int, NEW b \in Int
    PROVE  ComputeTax(a, b) \in Int
<1>1. a * b \in Int  OBVIOUS
<1> DEFINE p == a * b
<1>2. p >= 0 => p \div 10000 \in Int  BY <1>1
<1>3. p < 0 => -((-p) \div 10000) \in Int  BY <1>1
<1>4. QED  BY <1>1, <1>2, <1>3 DEF ComputeTax

LEMMA TotalIsInt ==
    ASSUME NEW a \in Amounts, NEW b \in TaxRates, NEW d \in Discounts
    PROVE  InvoiceTotal(a, b, d) \in Int
<1>1. a \in Int /\ b \in Int /\ d \in Int  BY InputAssumption
<1>2. QED  BY <1>1, TaxIsInt DEF InvoiceTotal

LEMMA FeeIsNat ==
    ASSUME NEW a \in Nat
    PROVE  FeeTiyin(a) \in Nat
<1>1. a * LateFeeBp \in Nat  BY InputAssumption
<1> DEFINE p == a * LateFeeBp + 5000
<1>2. p \in Nat /\ p \div 10000 \in Nat  BY <1>1
<1>3. QED  BY <1>2 DEF FeeTiyin

-----------------------------------------------------------------------------
(* Type correctness.                                                       *)

LEMMA InitType == Init => TypeOK
<1>1. <<>> \in Seq(Nat \ {0})  BY EmptySeq
<1>2. QED
  BY <1>1, OwnerAssumption, InputAssumption
  DEF Init, TypeOK, Owner, Phase

\* Ending a handler keeps the types of what it touches.
LEMMA FinishType ==
    ASSUME TypeOK, NEW r \in Requests, Finish(r)
    PROVE  /\ lock' \in [Invoices -> Owner]
           /\ pc' \in [Requests -> Phase]
           /\ snap' \in [Requests -> Snapshot \cup {NoSnapshot}]
           /\ \A q \in Requests : pc'[q] # "idle" => snap'[q] \in Snapshot
  BY DEF TypeOK, Finish, Owner, Phase

LEMMA NextType == TypeOK /\ [Next]_vars => TypeOK'
<1> SUFFICES ASSUME TypeOK, [Next]_vars PROVE TypeOK'
  OBVIOUS
<1> USE DEF TypeOK
<1>1. ASSUME NEW r \in Requests, Creates(r) PROVE TypeOK'
  <2>1. PICK i \in Invoices, a \in Amounts, t \in TaxRates, d \in Discounts,
             when \in {"none", "ahead", "past"} : CreateInvoice(r, i, a, t, d, when)
    BY <1>1 DEF Creates
  <2>2. InvoiceTotal(a, t, d) \in Nat
    BY <2>1, TotalIsInt DEF CreateInvoice
  <2>3. QED  BY <2>1, <2>2 DEF CreateInvoice, InvoiceStatus
<1>2. ASSUME NEW r \in Requests, NEW i \in Invoices, CancelInvoice(r, i) PROVE TypeOK'
  BY <1>2 DEF CancelInvoice, InvoiceStatus
<1>3. ASSUME NEW r \in Requests, NEW i \in Invoices, NEW p \in {"pay_read", "fee_read"},
             ReadInvoice(r, i, p)
      PROVE  TypeOK'
  BY <1>3 DEF ReadInvoice, Phase, Snapshot
<1>4. ASSUME NEW r \in Requests, NEW p \in {"pay_locked", "fee_locked"},
             pc[r] # "idle", LockRow(r, p)
      PROVE  TypeOK'
  BY <1>4 DEF LockRow, Phase, Owner, Snapshot
<1>5. ASSUME NEW r \in Requests, PayCommit(r) PROVE TypeOK'
  <2>1. snap[r].invoice \in Invoices /\ snap[r].total \in Nat \ {0}
    BY <1>5 DEF PayCommit, Snapshot
  <2>2. payments' \in [Invoices -> Seq(Nat \ {0})]
    BY <1>5, <2>1, AppendProperties DEF PayCommit
  <2>3. QED  BY <1>5, <2>1, <2>2, FinishType DEF PayCommit, InvoiceStatus
<1>6. ASSUME NEW r \in Requests, LateFeeCommit(r) PROVE TypeOK'
  <2>1. snap[r].invoice \in Invoices /\ snap[r].total \in Nat
    BY <1>6 DEF LateFeeCommit, Snapshot
  <2>2. FeeTiyin(snap[r].total) \in Nat
    BY <2>1, FeeIsNat, Zenon DEF LateFeeCommit
  <2>3. QED  BY <1>6, <2>1, <2>2, FinishType DEF LateFeeCommit
<1>7. ASSUME NEW r \in Requests, PayRefused(r) \/ LateFeeRefused(r) \/ Rollback(r)
      PROVE  TypeOK'
  BY <1>7, FinishType DEF PayRefused, LateFeeRefused, Rollback
<1>8. ASSUME OverdueJob PROVE TypeOK'
  <2>1. CASE JobScan
    BY <2>1 DEF JobScan, DueRows
  <2>2. ASSUME NEW i \in Invoices, JobLock(i) PROVE TypeOK'
    BY <2>2 DEF JobLock, Owner
  <2>3. JobReleased \in [Invoices -> Owner]
    BY DEF JobReleased, Owner
  <2>4. CASE JobCommit
    BY <2>3, <2>4 DEF JobCommit, JobRows, InvoiceStatus
  <2>5. CASE JobFails
    BY <2>3, <2>5, InputAssumption DEF JobFails
  <2>6. QED  BY <1>8, <2>1, <2>2, <2>4, <2>5 DEF OverdueJob
<1>9. ASSUME NEW i \in Invoices, DuePasses(i) PROVE TypeOK'
  BY <1>9 DEF DuePasses
<1>10. CASE UNCHANGED vars
  BY <1>10 DEF vars
<1>11. QED
  BY <1>1, <1>2, <1>3, <1>4, <1>5, <1>6, <1>7, <1>8, <1>9, <1>10
  DEF Next, Handler, PayRead, LateFeeRead, PayUpdate, LateFeeUpdate

\* Every reachable state of the engine has the declared types, for any sets
\* of invoices, handlers and amounts.
THEOREM TypeCorrect == Spec => []TypeOK
<1>1. QED  BY InitType, NextType, PTL DEF Spec

-----------------------------------------------------------------------------
(* Row locks.  Both parts are needed together: a row the job holds stays    *)
(* pending because every other writer of status needs the lock.            *)

LEMMA InitLocks == Init => LockDiscipline
  BY OwnerAssumption DEF Init, LockDiscipline, JobRows

\* Ending a handler gives back its locks and nobody else's.
LEMMA FinishLocks ==
    ASSUME TypeOK, LockDiscipline, NEW r \in Requests, Finish(r)
    PROVE  /\ \A i \in Invoices, q \in Requests :
                 lock'[i] = q <=> pc'[q] \in {"pay_locked", "fee_locked"} /\ snap'[q].invoice = i
           /\ JobRows' = JobRows
<1>1. \A i \in Invoices : lock'[i] = IF lock[i] = r THEN NoOne ELSE lock[i]
  BY DEF Finish
<1>2. r # NoOne /\ r # Job /\ NoOne # Job
  BY OwnerAssumption
<1>3. JobRows' = JobRows
  BY <1>1, <1>2 DEF JobRows
<1>4. ASSUME NEW i \in Invoices, NEW q \in Requests
      PROVE  lock'[i] = q <=> pc'[q] \in {"pay_locked", "fee_locked"} /\ snap'[q].invoice = i
  <2>1. CASE q = r
    BY <1>1, <1>2, <2>1 DEF Finish, TypeOK
  <2>2. CASE q # r
    <3>1. q # NoOne  BY OwnerAssumption
    <3>2. pc'[q] = pc[q] /\ snap'[q] = snap[q]
      BY <2>2 DEF Finish, TypeOK
    <3>3. lock'[i] = q <=> lock[i] = q
      BY <1>1, <2>2, <3>1
    <3>4. QED  BY <3>2, <3>3 DEF LockDiscipline
  <2>3. QED  BY <2>1, <2>2
<1>5. QED  BY <1>3, <1>4

LEMMA NextLocks == TypeOK /\ LockDiscipline /\ [Next]_vars => LockDiscipline'
<1> SUFFICES ASSUME TypeOK, LockDiscipline, [Next]_vars PROVE LockDiscipline'
  OBVIOUS
<1>1. ASSUME NEW r \in Requests, Creates(r) PROVE LockDiscipline'
  <2>1. PICK i \in Invoices, a \in Amounts, t \in TaxRates, d \in Discounts,
             when \in {"none", "ahead", "past"} : CreateInvoice(r, i, a, t, d, when)
    BY <1>1 DEF Creates
  <2>2. \A j \in Invoices : status[j] = "pending" => status'[j] = "pending"
    BY <2>1 DEF CreateInvoice, TypeOK
  <2>3. QED  BY <2>1, <2>2 DEF CreateInvoice, LockDiscipline, JobRows
<1>2. ASSUME NEW r \in Requests, NEW i \in Invoices, CancelInvoice(r, i)
      PROVE  LockDiscipline'
  BY <1>2, OwnerAssumption DEF CancelInvoice, LockDiscipline, JobRows, TypeOK
<1>3. ASSUME NEW r \in Requests, NEW i \in Invoices, NEW p \in {"pay_read", "fee_read"},
             ReadInvoice(r, i, p)
      PROVE  LockDiscipline'
  BY <1>3 DEF ReadInvoice, LockDiscipline, JobRows, TypeOK
<1>4. ASSUME NEW r \in Requests, NEW p \in {"pay_locked", "fee_locked"},
             pc[r] \in {"pay_read", "fee_read"}, LockRow(r, p)
      PROVE  LockDiscipline'
  <2>1. snap[r].invoice \in Invoices
    BY <1>4 DEF TypeOK, Snapshot
  <2>2. \A j \in Invoices : lock'[j] = IF j = snap[r].invoice THEN r ELSE lock[j]
    BY <1>4, <2>1 DEF LockRow, TypeOK
  <2>3. lock[snap[r].invoice] = NoOne  BY <1>4 DEF LockRow
  <2>4. JobRows' = JobRows
    BY <2>2, <2>3, OwnerAssumption DEF JobRows
  <2>5. ASSUME NEW i \in Invoices, NEW q \in Requests
        PROVE  lock'[i] = q <=> pc'[q] \in {"pay_locked", "fee_locked"} /\ snap'[q].invoice = i
    <3>1. CASE q = r
      BY <1>4, <2>1, <2>2, <3>1 DEF LockRow, LockDiscipline, TypeOK
    <3>2. CASE q # r
      BY <1>4, <2>1, <2>2, <2>3, <3>2, OwnerAssumption DEF LockRow, LockDiscipline, TypeOK
    <3>3. QED  BY <3>1, <3>2
  <2>6. QED  BY <1>4, <2>4, <2>5 DEF LockRow, LockDiscipline
<1>5. ASSUME NEW r \in Requests, PayCommit(r) PROVE LockDiscipline'
  <2>1. lock[snap[r].invoice] = r /\ snap[r].invoice \in Invoices
    BY <1>5 DEF PayCommit, LockDiscipline, TypeOK, Snapshot
  <2>2. snap[r].invoice \notin JobRows
    BY <2>1, OwnerAssumption DEF JobRows
  <2>3. \A i \in JobRows : status'[i] = "pending"
    BY <1>5, <2>1, <2>2 DEF PayCommit, LockDiscipline, TypeOK, JobRows
  <2>4. QED  BY <1>5, <2>3, FinishLocks DEF PayCommit, LockDiscipline
<1>6. ASSUME NEW r \in Requests,
             LateFeeCommit(r) \/ PayRefused(r) \/ LateFeeRefused(r) \/ Rollback(r)
      PROVE  LockDiscipline'
  <2>1. Finish(r) /\ status' = status
    BY <1>6 DEF LateFeeCommit, PayRefused, LateFeeRefused, Rollback
  <2>2. QED  BY <2>1, FinishLocks DEF LockDiscipline
<1>7. ASSUME NEW i \in Invoices, JobLock(i) PROVE LockDiscipline'
  <2>1. \A j \in Invoices, q \in Requests : lock'[j] = q <=> lock[j] = q
    BY <1>7, OwnerAssumption DEF JobLock, TypeOK
  <2>2. \A j \in Invoices : lock'[j] = Job => lock[j] = Job \/ j \in DueRows
    BY <1>7 DEF JobLock, TypeOK
  <2>3. QED  BY <1>7, <2>1, <2>2 DEF JobLock, LockDiscipline, JobRows, DueRows
<1>8. ASSUME JobCommit \/ JobFails PROVE LockDiscipline'
  <2>1. lock' = JobReleased
    BY <1>8 DEF JobCommit, JobFails
  <2>2. \A j \in Invoices, q \in Requests : lock'[j] = q <=> lock[j] = q
    BY <2>1, OwnerAssumption DEF JobReleased
  <2>3. JobRows' = {}
    BY <2>1, OwnerAssumption DEF JobReleased, JobRows
  <2>4. QED  BY <1>8, <2>2, <2>3 DEF JobCommit, JobFails, LockDiscipline
<1>9. CASE JobScan
  BY <1>9 DEF JobScan, LockDiscipline, JobRows
<1>10. ASSUME NEW i \in Invoices, DuePasses(i) PROVE LockDiscipline'
  BY <1>10 DEF DuePasses, LockDiscipline, JobRows
<1>11. CASE UNCHANGED vars
  BY <1>11 DEF vars, LockDiscipline, JobRows
<1>12. QED
  BY <1>1, <1>2, <1>3, <1>4, <1>5, <1>6, <1>7, <1>8, <1>9, <1>10, <1>11
  DEF Next, Handler, OverdueJob, PayRead, LateFeeRead, PayUpdate, LateFeeUpdate

\* Row locks are held exactly between UPDATE and end of transaction, and the
\* rows the overdue job holds stay pending until it commits.
THEOREM LocksCorrect == Spec => []LockDiscipline
<1>1. Spec => []TypeOK  BY TypeCorrect
<1>2. QED  BY <1>1, InitLocks, NextLocks, PTL DEF Spec

-----------------------------------------------------------------------------
(* The status of an invoice and its payment rows.                          *)

BillingInv == TypeOK /\ LockDiscipline /\ PaymentIffPaid

\* The only steps that write a payment or move an invoice in or out of paid.
LEMMA StatusAndPayments ==
    ASSUME TypeOK, LockDiscipline, [Next]_vars
    PROVE  \/ \E r \in Requests : PayCommit(r)
           \/ /\ payments' = payments
              /\ \A i \in Invoices : status'[i] = "paid" <=> status[i] = "paid"
<1> DEFINE Kept == /\ payments' = payments
                   /\ \A i \in Invoices : status'[i] = "paid" <=> status[i] = "paid"
<1>1. ASSUME NEW r \in Requests, NEW i \in Invoices, NEW a \in Amounts, NEW t \in TaxRates,
             NEW d \in Discounts, NEW when \in {"none", "ahead", "past"},
             CreateInvoice(r, i, a, t, d, when)
      PROVE  Kept
  BY <1>1 DEF CreateInvoice, TypeOK
<1>2. ASSUME NEW r \in Requests, NEW i \in Invoices, CancelInvoice(r, i)
      PROVE  Kept
  BY <1>2 DEF CancelInvoice, TypeOK
<1>3. ASSUME JobCommit PROVE Kept
  BY <1>3 DEF JobCommit, LockDiscipline, TypeOK
<1>4. ASSUME UNCHANGED <<status, payments>> PROVE Kept
  BY <1>4
<1>5. QED
  BY <1>1, <1>2, <1>3, <1>4
  DEF Next, Handler, Creates, OverdueJob, PayRead, LateFeeRead, ReadInvoice, PayUpdate,
      LateFeeUpdate, LockRow, PayRefused, LateFeeRefused, LateFeeCommit, Rollback,
      JobScan, JobLock, JobFails, DuePasses, vars

LEMMA NextPaymentIffPaid ==
    ASSUME TypeOK, LockDiscipline, PaymentIffPaid, [Next]_vars
    PROVE  PaymentIffPaid'
<1>1. ASSUME NEW r \in Requests, PayCommit(r), NEW i \in Invoices
      PROVE  status'[i] = "paid" <=> payments'[i] # <<>>
  <2>1. CASE i = snap[r].invoice
    <3>1. status'[i] = "paid" /\ payments'[i] = Append(payments[i], snap[r].total)
      BY <1>1, <2>1 DEF PayCommit, TypeOK
    <3>2. payments[i] \in Seq(Nat \ {0}) /\ snap[r].total \in Nat \ {0}
      BY <1>1 DEF PayCommit, TypeOK, Snapshot
    <3>3. Len(payments'[i]) = Len(payments[i]) + 1 /\ Len(payments[i]) \in Nat
      BY <3>1, <3>2, AppendProperties, LenProperties
    <3>4. QED  BY <3>1, <3>3, EmptySeq
  <2>2. CASE i # snap[r].invoice
    BY <1>1, <2>2 DEF PayCommit, TypeOK, PaymentIffPaid
  <2>3. QED  BY <2>1, <2>2
<1>2. QED  BY <1>1, StatusAndPayments DEF PaymentIffPaid

LEMMA BillingInvariant == Spec => []BillingInv
<1>1. Init => PaymentIffPaid
  BY DEF Init, PaymentIffPaid
<1>2. BillingInv /\ [Next]_vars => BillingInv'
  BY NextType, NextLocks, NextPaymentIffPaid DEF BillingInv
<1>3. Init => BillingInv
  BY <1>1, InitType, InitLocks DEF BillingInv
<1>4. QED  BY <1>2, <1>3, PTL DEF Spec

\* An invoice is paid exactly when it has a payment row, in every reachable
\* state and for any number of concurrent handlers, late fees included.
THEOREM PaidIffPaymentExists == Spec => []PaymentIffPaid
<1>1. BillingInv => PaymentIffPaid  BY DEF BillingInv
<1>2. QED  BY <1>1, BillingInvariant, PTL

\* No step of any handler or of the overdue job takes an invoice out of paid.
THEOREM PaidStaysPaid == Spec => PaidIsFinal
<1>1. ASSUME BillingInv, [Next]_vars
      PROVE  [\A i \in Invoices : status[i] = "paid" => status'[i] = "paid"]_vars
  <2>1. ASSUME NEW r \in Requests, PayCommit(r), NEW i \in Invoices, status[i] = "paid"
        PROVE  status'[i] = "paid"
    BY <2>1 DEF PayCommit, TypeOK, BillingInv
  <2>2. QED  BY <1>1, <2>1, StatusAndPayments DEF BillingInv
<1>2. QED  BY <1>1, BillingInvariant, PTL DEF Spec, PaidIsFinal

-----------------------------------------------------------------------------
(* The amount of a payment.  It is read before the row is locked, so it is  *)
(* the invoice's total only as long as nothing changes a total in between.  *)

SnapshotIssued ==
    \A r \in Requests : pc[r] # "idle" => status[snap[r].invoice] # "absent"

SnapshotCurrent ==
    LateFees \/ \A r \in Requests : pc[r] # "idle" =>
                   /\ pc[r] \in {"pay_read", "pay_locked"}
                   /\ snap[r].total = total[snap[r].invoice]

AmountInv == SnapshotIssued /\ SnapshotCurrent /\ (LateFees \/ PaidInFull)

\* No step makes an issued invoice unissued; without late fees none changes
\* the total of an issued invoice.
LEMMA IssuedKept ==
    ASSUME TypeOK, [Next]_vars, NEW i \in Invoices, status[i] # "absent"
    PROVE  /\ status'[i] # "absent"
           /\ (\E r \in Requests : LateFeeCommit(r)) \/ total'[i] = total[i]
<1> DEFINE Kept == status'[i] # "absent" /\ total'[i] = total[i]
<1>1. ASSUME NEW r \in Requests, NEW j \in Invoices, NEW a \in Amounts, NEW t \in TaxRates,
             NEW d \in Discounts, NEW when \in {"none", "ahead", "past"},
             CreateInvoice(r, j, a, t, d, when)
      PROVE  Kept
  BY <1>1 DEF CreateInvoice, TypeOK
<1>2. ASSUME NEW r \in Requests, NEW j \in Invoices, CancelInvoice(r, j) PROVE Kept
  BY <1>2 DEF CancelInvoice, TypeOK
<1>3. ASSUME NEW r \in Requests, PayCommit(r) PROVE Kept
  BY <1>3 DEF PayCommit, TypeOK
<1>4. ASSUME JobCommit PROVE Kept
  BY <1>4 DEF JobCommit, TypeOK
<1>5. ASSUME NEW r \in Requests, LateFeeCommit(r) PROVE status'[i] # "absent"
  BY <1>5 DEF LateFeeCommit
<1>6. ASSUME UNCHANGED <<status, total>> PROVE Kept
  BY <1>6
<1>7. QED
  BY <1>1, <1>2, <1>3, <1>4, <1>5, <1>6
  DEF Next, Handler, Creates, OverdueJob, PayRead, LateFeeRead, ReadInvoice, PayUpdate,
      LateFeeUpdate, LockRow, PayRefused, LateFeeRefused, Rollback,
      JobScan, JobLock, JobFails, DuePasses, vars

\* What a step does to a handler that is not idle after it: it has just read
\* the row, or it goes on with the snapshot it has.
LEMMA HandlerStep ==
    ASSUME TypeOK, [Next]_vars, NEW r \in Requests, pc'[r] # "idle"
    PROVE  \/ /\ pc[r] = "idle"
              /\ \E i \in Invoices : /\ status[i] # "absent"
                                     /\ snap'[r] = [invoice |-> i, status |-> status[i],
                                                    total |-> total[i]]
              /\ pc'[r] \in {"pay_read", "fee_read"}
              /\ pc'[r] = "fee_read" => LateFees
              /\ UNCHANGED <<status, total, payments>>
           \/ /\ snap'[r] = snap[r]
              /\ \/ pc'[r] = pc[r]
                 \/ /\ pc[r] = "pay_read" /\ pc'[r] = "pay_locked"
                    /\ snap[r].status \in Payable
                    /\ UNCHANGED <<status, total, payments>>
                 \/ /\ pc[r] = "fee_read" /\ pc'[r] = "fee_locked"
                    /\ UNCHANGED <<status, total, payments>>
<1> DEFINE Kept == snap'[r] = snap[r] /\ pc'[r] = pc[r]
<1>1. ASSUME NEW q \in Requests, Finish(q) PROVE Kept
  BY <1>1 DEF Finish, TypeOK
<1>2. ASSUME NEW q \in Requests, NEW i \in Invoices, PayRead(q, i) \/ LateFeeRead(q, i), q # r
      PROVE  Kept
  BY <1>2 DEF PayRead, LateFeeRead, ReadInvoice, TypeOK
<1>3. ASSUME NEW q \in Requests, PayUpdate(q) \/ LateFeeUpdate(q), q # r PROVE Kept
  BY <1>3 DEF PayUpdate, LateFeeUpdate, LockRow, TypeOK
<1>4. ASSUME UNCHANGED <<pc, snap>> PROVE Kept
  BY <1>4
<1>5. CASE \E i \in Invoices : PayRead(r, i) \/ LateFeeRead(r, i)
  BY <1>5 DEF PayRead, LateFeeRead, ReadInvoice, TypeOK
<1>6. CASE PayUpdate(r)
  BY <1>6 DEF PayUpdate, LockRow, TypeOK
<1>7. CASE LateFeeUpdate(r)
  BY <1>7 DEF LateFeeUpdate, LockRow, TypeOK
<1>8. QED
  BY <1>1, <1>2, <1>3, <1>4, <1>5, <1>6, <1>7
  DEF Next, Handler, Creates, CreateInvoice, CancelInvoice, PayCommit, PayRefused,
      LateFeeCommit, LateFeeRefused, Rollback, OverdueJob, JobScan, JobLock, JobCommit,
      JobFails, DuePasses, vars

LEMMA NextAmount ==
    ASSUME BillingInv, AmountInv, [Next]_vars
    PROVE  AmountInv'
<1> USE DEF BillingInv
<1>1. ASSUME NEW r \in Requests, pc'[r] # "idle"
      PROVE  status'[snap'[r].invoice] # "absent"
  <2>1. CASE pc[r] = "idle"
    <3>1. PICK i \in Invoices :
            /\ status[i] # "absent" /\ status' = status
            /\ snap'[r] = [invoice |-> i, status |-> status[i], total |-> total[i]]
      BY <1>1, <2>1, HandlerStep
    <3>2. QED  BY <3>1
  <2>2. CASE pc[r] # "idle"
    <3>1. snap'[r] = snap[r] /\ snap[r].invoice \in Invoices
      BY <1>1, <2>2, HandlerStep DEF TypeOK, Snapshot
    <3>2. QED  BY <2>2, <3>1, IssuedKept DEF AmountInv, SnapshotIssued
  <2>3. QED  BY <2>1, <2>2
<1>2. ASSUME ~LateFees PROVE \A r \in Requests : ~LateFeeCommit(r)
  BY <1>2 DEF AmountInv, SnapshotCurrent, LateFeeCommit
<1>3. ASSUME ~LateFees, NEW r \in Requests, pc'[r] # "idle"
      PROVE  pc'[r] \in {"pay_read", "pay_locked"} /\ snap'[r].total = total'[snap'[r].invoice]
  <2>1. CASE pc[r] = "idle"
    <3>1. PICK i \in Invoices :
            /\ total' = total
            /\ snap'[r] = [invoice |-> i, status |-> status[i], total |-> total[i]]
            /\ pc'[r] = "pay_read"
      BY <1>3, <2>1, HandlerStep
    <3>2. QED  BY <3>1
  <2>2. CASE pc[r] # "idle"
    <3>1. snap'[r] = snap[r] /\ snap[r].invoice \in Invoices
      BY <1>3, <2>2, HandlerStep DEF TypeOK, Snapshot
    <3>2. total'[snap[r].invoice] = total[snap[r].invoice]
      BY <1>2, <1>3, <2>2, <3>1, IssuedKept DEF AmountInv, SnapshotIssued
    <3>3. pc'[r] \in {"pay_read", "pay_locked"}
      BY <1>3, <2>2, HandlerStep DEF AmountInv, SnapshotCurrent
    <3>4. QED  BY <1>3, <2>2, <3>1, <3>2, <3>3 DEF AmountInv, SnapshotCurrent
  <2>3. QED  BY <2>1, <2>2
<1>4. ASSUME ~LateFees, NEW i \in Invoices, NEW k \in DOMAIN payments'[i]
      PROVE  payments'[i][k] = total'[i]
  <2>1. ASSUME NEW r \in Requests, PayCommit(r), i = snap[r].invoice
        PROVE  payments'[i][k] = total'[i]
    <3>0. payments[i] \in Seq(Nat \ {0}) /\ snap[r] \in Snapshot
      BY <2>1 DEF PayCommit, TypeOK
    <3>1. payments[i] \in Seq(Nat \ {0}) /\ snap[r].total \in Nat \ {0}
      BY <2>1, <3>0 DEF PayCommit, Snapshot
    <3>2. payments'[i] = Append(payments[i], snap[r].total) /\ total' = total
      BY <2>1 DEF PayCommit, TypeOK
    <3>3. snap[r].total = total[i]
      BY <1>4, <2>1 DEF PayCommit, AmountInv, SnapshotCurrent
    <3>4. k \in 1 .. Len(payments[i]) + 1
      BY <1>4, <3>1, <3>2, AppendProperties
    <3>5. CASE k = Len(payments[i]) + 1
      BY <3>1, <3>2, <3>3, <3>5, AppendProperties
    <3>6. CASE k \in DOMAIN payments[i]
      BY <1>4, <3>1, <3>2, <3>6, AppendProperties DEF AmountInv, PaidInFull
    <3>7. QED  BY <3>1, <3>4, <3>5, <3>6, LenProperties
  <2>2. ASSUME payments'[i] = payments[i]
        PROVE  payments'[i][k] = total'[i]
    <3>1. payments[i] # <<>>
      BY <1>4, <2>2 DEF TypeOK
    <3>2. status[i] # "absent"
      BY <3>1 DEF PaymentIffPaid
    <3>3. total'[i] = total[i]
      BY <1>2, <1>4, <3>2, IssuedKept
    <3>4. QED  BY <1>4, <2>2, <3>3 DEF AmountInv, PaidInFull
  <2>3. (\E r \in Requests : PayCommit(r) /\ i = snap[r].invoice) \/ payments'[i] = payments[i]
    BY StatusAndPayments DEF PayCommit, TypeOK
  <2>4. QED  BY <2>1, <2>2, <2>3
<1>5. QED  BY <1>1, <1>3, <1>4 DEF AmountInv, SnapshotIssued, SnapshotCurrent, PaidInFull

\* When no caller applies late fees, every payment row has the amount of its
\* invoice's total, although it was read before the row was locked.
THEOREM PaymentsAreInFull ==
    ASSUME ~LateFees PROVE Spec => []PaidInFull
<1>1. Init => AmountInv
  BY DEF Init, AmountInv, SnapshotIssued, SnapshotCurrent, PaidInFull
<1>2. BillingInv /\ AmountInv /\ [Next]_vars => AmountInv'
  BY NextAmount
<1>3. AmountInv => PaidInFull
  BY DEF AmountInv
<1>4. QED  BY <1>1, <1>2, <1>3, BillingInvariant, PTL DEF Spec

-----------------------------------------------------------------------------
(* How many payments an invoice can get.  A handler counts against the     *)
(* invoice from the moment it reads it payable until its payment row, which*)
(* then counts in its place; once the invoice is paid nobody joins.        *)

Payers(i) == {r \in Requests : /\ pc[r] \in {"pay_read", "pay_locked"}
                               /\ snap[r].invoice = i
                               /\ snap[r].status \in Payable}

PayersInv ==
    \A i \in Invoices : Len(payments[i]) + Cardinality(Payers(i)) <= Cardinality(Requests)

LEMMA PayersFinite ==
    ASSUME NEW i
    PROVE  /\ IsFiniteSet(Payers(i)) /\ IsFiniteSet(Requests)
           /\ Cardinality(Payers(i)) \in Nat /\ Cardinality(Requests) \in Nat
           /\ Cardinality(Payers(i)) <= Cardinality(Requests)
<1>1. Payers(i) \in SUBSET Requests  BY DEF Payers
<1>2. QED  BY <1>1, RequestsAssumption, FS_Subset, FS_CardinalityType

\* Nobody starts to pay an invoice that has a payment.
LEMMA NoNewPayer ==
    ASSUME BillingInv, [Next]_vars, NEW i \in Invoices, status[i] = "paid"
    PROVE  Payers(i)' \subseteq Payers(i)
<1> USE DEF BillingInv
<1>1. SUFFICES ASSUME NEW r \in Requests, pc'[r] \in {"pay_read", "pay_locked"},
                      snap'[r].invoice = i, snap'[r].status \in Payable
               PROVE  r \in Payers(i)
  BY DEF Payers
<1>2. pc[r] # "idle"
  <2>1. SUFFICES ASSUME pc[r] = "idle" PROVE FALSE
    OBVIOUS
  <2>2. PICK j \in Invoices :
          snap'[r] = [invoice |-> j, status |-> status[j], total |-> total[j]]
    BY <1>1, <2>1, HandlerStep
  <2>3. j = i /\ snap'[r].status = "paid"
    BY <1>1, <2>2
  <2>4. QED  BY <1>1, <2>3 DEF Payable
<1>3. snap'[r] = snap[r] /\ pc[r] \in {"pay_read", "pay_locked"}
  BY <1>1, <1>2, HandlerStep
<1>4. QED  BY <1>1, <1>3 DEF Payers

LockedPayable ==
    \A r \in Requests : pc[r] = "pay_locked" => snap[r].status \in Payable

LEMMA NextLockedPayable ==
    ASSUME BillingInv, LockedPayable, [Next]_vars
    PROVE  LockedPayable'
<1> USE DEF BillingInv
<1>1. SUFFICES ASSUME NEW r \in Requests, pc'[r] = "pay_locked"
               PROVE  snap'[r].status \in Payable
  BY DEF LockedPayable
<1>2. snap'[r] = snap[r] /\ pc[r] \in {"pay_read", "pay_locked"}
  BY <1>1, HandlerStep
<1>3. pc[r] = "pay_locked" \/ snap[r].status \in Payable
  BY <1>1, HandlerStep
<1>4. QED  BY <1>2, <1>3 DEF LockedPayable

LEMMA NextPayers ==
    ASSUME BillingInv, LockedPayable, PayersInv, [Next]_vars
    PROVE  PayersInv'
<1> USE DEF BillingInv
<1>1. SUFFICES ASSUME NEW i \in Invoices
               PROVE  Len(payments'[i]) + Cardinality(Payers(i)') <= Cardinality(Requests)
  BY DEF PayersInv
<1>2. /\ IsFiniteSet(Payers(i)) /\ Cardinality(Payers(i)) \in Nat
      /\ Cardinality(Requests) \in Nat
  BY PayersFinite
<1>3. /\ Cardinality(Payers(i)') \in Nat
      /\ Cardinality(Payers(i)') <= Cardinality(Requests)
  <2>1. Payers(i)' \in SUBSET Requests  BY DEF Payers
  <2>2. QED  BY <2>1, RequestsAssumption, FS_Subset, FS_CardinalityType
<1>4. payments[i] \in Seq(Nat \ {0}) /\ Len(payments[i]) \in Nat
  BY LenProperties DEF TypeOK
<1>5. Len(payments[i]) + Cardinality(Payers(i)) <= Cardinality(Requests)
  BY DEF PayersInv
<1>6. CASE \E r \in Requests : PayCommit(r) /\ snap[r].invoice = i
  <2>1. PICK r \in Requests : PayCommit(r) /\ snap[r].invoice = i
    BY <1>6
  <2>2. r \in Payers(i)
    BY <2>1 DEF PayCommit, Payers, LockedPayable
  <2>3. Payers(i)' = Payers(i) \ {r}
    <3>1. pc' = [pc EXCEPT ![r] = "idle"] /\ snap' = [snap EXCEPT ![r] = NoSnapshot]
      BY <2>1 DEF PayCommit, Finish
    <3>2. QED  BY <3>1 DEF Payers, TypeOK
  <2>4. Cardinality(Payers(i)') = Cardinality(Payers(i)) - 1
    BY <1>2, <2>2, <2>3, FS_RemoveElement
  <2>5. payments'[i] = Append(payments[i], snap[r].total) /\ snap[r].total \in Nat \ {0}
    <3>1. snap[r] \in Snapshot  BY <2>1 DEF PayCommit, TypeOK
    <3>2. QED  BY <2>1, <3>1 DEF PayCommit, TypeOK, Snapshot
  <2>6. Len(payments'[i]) = Len(payments[i]) + 1
    BY <1>4, <2>5, AppendProperties
  <2>7. QED  BY <1>2, <1>4, <1>5, <2>4, <2>6
<1>7. CASE payments'[i] = payments[i]
  <2>1. CASE status[i] = "paid"
    <3>1. Payers(i)' \subseteq Payers(i)  BY <2>1, NoNewPayer
    <3>2. Cardinality(Payers(i)') <= Cardinality(Payers(i))
      BY <1>2, <3>1, FS_Subset
    <3>3. QED  BY <1>2, <1>3, <1>4, <1>5, <1>7, <3>2
  <2>2. CASE status[i] # "paid"
    <3>1. payments[i] = <<>>  BY <2>2 DEF PaymentIffPaid
    <3>2. Len(payments'[i]) = 0  BY <1>7, <3>1
    <3>3. QED  BY <1>3, <3>2
  <2>3. QED  BY <2>1, <2>2
<1>8. QED
  BY <1>6, <1>7, StatusAndPayments DEF PayCommit, TypeOK

\* An invoice never gets more payments than handlers can be in flight: the
\* double payment of two concurrent requests cannot repeat without end.
THEOREM PaymentsAreBounded == Spec => []PaymentsBounded
<1>1. Init => LockedPayable /\ PayersInv
  <2>1. ASSUME Init, NEW i \in Invoices
        PROVE  Len(payments[i]) + Cardinality(Payers(i)) <= Cardinality(Requests)
    <3>1. payments[i] = <<>>  BY <2>1 DEF Init
    <3>2. Len(payments[i]) = 0  BY <3>1
    <3>3. QED  BY <3>2, PayersFinite
  <2>2. QED  BY <2>1 DEF Init, LockedPayable, PayersInv
<1>2. BillingInv /\ LockedPayable /\ PayersInv /\ [Next]_vars => (LockedPayable /\ PayersInv)'
  BY NextLockedPayable, NextPayers
<1>3. BillingInv /\ PayersInv => PaymentsBounded
  <2>1. ASSUME BillingInv, PayersInv, NEW i \in Invoices
        PROVE  Len(payments[i]) <= Cardinality(Requests)
    <3>1. Len(payments[i]) \in Nat
      BY <2>1, LenProperties DEF BillingInv, TypeOK
    <3>2. Len(payments[i]) + Cardinality(Payers(i)) <= Cardinality(Requests)
      BY <2>1 DEF PayersInv
    <3>3. QED  BY <3>1, <3>2, PayersFinite
  <2>2. QED  BY <2>1 DEF PaymentsBounded
<1>4. QED  BY <1>1, <1>2, <1>3, BillingInvariant, PTL DEF Spec

-----------------------------------------------------------------------------
(* The refinement: one handler at a time, beside the overdue job, every    *)
(* step of the engine is one of InvoiceLifecycle or changes nothing of     *)
(* what it speaks about.                                                   *)

Serial == \A q, r \in Requests : q = r

\* What the handler in flight has read is still so, except that the job may have
\* turned a pending invoice overdue.
Unchanged(r) ==
    LET i == snap[r].invoice
    IN  /\ total[i] = snap[r].total
        /\ \/ status[i] = snap[r].status
           \/ snap[r].status = "pending" /\ status[i] = "overdue"
        /\ pc[r] = "pay_locked" => snap[r].status \in Payable
        /\ pc[r] = "fee_locked" => snap[r].status = "overdue"

SerialInv == \A r \in Requests : pc[r] # "idle" => Unchanged(r)

\* A handler that is over leaves none in flight.
LEMMA FinishSerial ==
    ASSUME TypeOK, Serial, NEW r \in Requests, Finish(r) PROVE SerialInv'
  BY DEF Finish, TypeOK, Serial, SerialInv

\* Only the overdue job changes what the handler in flight has read.
LEMMA NextSerial == BillingInv /\ Serial /\ SerialInv /\ [Next]_vars => SerialInv'
<1> SUFFICES ASSUME BillingInv, Serial, SerialInv, [Next]_vars PROVE SerialInv'
  OBVIOUS
<1> USE DEF BillingInv
<1>1. ASSUME NEW r \in Requests, pc[r] = "idle", UNCHANGED pc PROVE SerialInv'
  BY <1>1 DEF Serial, SerialInv
<1>2. ASSUME NEW r \in Requests, NEW i \in Invoices, NEW p \in {"pay_read", "fee_read"},
             ReadInvoice(r, i, p)
      PROVE  SerialInv'
  BY <1>2 DEF ReadInvoice, TypeOK, Serial, SerialInv, Unchanged
<1>3. ASSUME NEW r \in Requests, PayUpdate(r) \/ LateFeeUpdate(r) PROVE SerialInv'
  BY <1>3 DEF PayUpdate, LateFeeUpdate, LockRow, TypeOK, Serial, SerialInv, Unchanged, Payable
<1>4. ASSUME NEW r \in Requests,
             PayCommit(r) \/ PayRefused(r) \/ LateFeeCommit(r) \/ LateFeeRefused(r) \/ Rollback(r)
      PROVE  SerialInv'
  BY <1>4, FinishSerial DEF PayCommit, PayRefused, LateFeeCommit, LateFeeRefused, Rollback
<1>5. CASE JobCommit
  <2>1. \A i \in Invoices :
          status'[i] = status[i] \/ (status[i] = "pending" /\ status'[i] = "overdue")
    BY <1>5 DEF JobCommit, LockDiscipline
  <2> QED  BY <1>5, <2>1 DEF JobCommit, TypeOK, SerialInv, Unchanged, Snapshot
<1>6. CASE UNCHANGED <<status, total, pc, snap>>
  BY <1>6 DEF SerialInv, Unchanged
<1> QED
  BY <1>1, <1>2, <1>3, <1>4, <1>5, <1>6
     DEF Next, Handler, Creates, CreateInvoice, CancelInvoice, PayRead, LateFeeRead,
         OverdueJob, JobScan, JobLock, JobFails, DuePasses, vars

\* No code path creates a draft.
NoDrafts == \A i \in Invoices : status[i] # "draft"

\* Invoices are created pending, and no step makes a draft of one.
LEMMA NextNoDrafts == BillingInv /\ NoDrafts /\ [Next]_vars => NoDrafts'
<1> SUFFICES ASSUME BillingInv, NoDrafts, [Next]_vars PROVE NoDrafts'
  OBVIOUS
<1>1. ASSUME NEW i \in Invoices, NEW s \in {"pending", "cancelled", "paid"},
             status' = [status EXCEPT ![i] = s]
      PROVE  NoDrafts'
  BY <1>1 DEF BillingInv, TypeOK, NoDrafts
<1>2. ASSUME NEW r \in Requests, PayCommit(r) PROVE NoDrafts'
  <2>1. snap[r].invoice \in Invoices
    BY <1>2 DEF BillingInv, TypeOK, PayCommit, Snapshot
  <2> QED  BY <1>1, <1>2, <2>1 DEF PayCommit
<1>3. CASE JobCommit
  BY <1>3 DEF JobCommit, NoDrafts
<1>4. CASE UNCHANGED status
  BY <1>4 DEF NoDrafts
<1> QED
  BY <1>1, <1>2, <1>3, <1>4
     DEF Next, Handler, Creates, CreateInvoice, CancelInvoice, PayRead, LateFeeRead, ReadInvoice,
         PayUpdate, LateFeeUpdate, LockRow, PayRefused, LateFeeCommit, LateFeeRefused, Rollback,
         OverdueJob, JobScan, JobLock, JobFails, DuePasses, vars

\* A late fee never lowers a total.
LEMMA FeeGrows ==
    ASSUME NEW a \in Nat PROVE a + FeeTiyin(a) \in Nat /\ a + FeeTiyin(a) >= a
<1>1. FeeTiyin(a) \in Nat
  BY FeeIsNat
<1> QED  BY <1>1

\* Every step is one of the lifecycle, or changes nothing of what it speaks about.
LEMMA StepImplements ==
    BillingInv /\ NoDrafts /\ SerialInv /\ [Next]_vars => [Lifecycle!Next]_(Lifecycle!lifecycleVars)
<1> SUFFICES ASSUME BillingInv, NoDrafts, SerialInv, [Next]_vars
             PROVE  Lifecycle!Next \/ UNCHANGED <<status, total, payments>>
  BY DEF Lifecycle!lifecycleVars
<1> USE DEF BillingInv
<1>1. ASSUME NEW r \in Requests, Creates(r) PROVE Lifecycle!Next
  <2>1. PICK i \in Invoices, a \in Amounts, t \in TaxRates, d \in Discounts,
             when \in {"none", "ahead", "past"} : CreateInvoice(r, i, a, t, d, when)
    BY <1>1 DEF Creates
  <2>2. InvoiceTotal(a, t, d) \in Nat
    BY <2>1, TotalIsInt DEF CreateInvoice
  <2>3. Lifecycle!Issue(i)
    BY <2>1, <2>2 DEF CreateInvoice, Lifecycle!Issue, TypeOK
  <2> QED  BY <2>3 DEF Lifecycle!Next
<1>2. ASSUME NEW r \in Requests, NEW i \in Invoices, CancelInvoice(r, i) PROVE Lifecycle!Next
  <2>1. status[i] = "pending"
    BY <1>2 DEF CancelInvoice, NoDrafts
  <2>2. Lifecycle!Withdraw(i)
    BY <1>2, <2>1 DEF CancelInvoice, Lifecycle!Withdraw
  <2> QED  BY <2>2 DEF Lifecycle!Next
<1>3. ASSUME NEW r \in Requests, PayCommit(r) PROVE Lifecycle!Next
  <2> DEFINE i == snap[r].invoice
  <2>1. i \in Invoices /\ total[i] = snap[r].total /\ status[i] \in Payable
    BY <1>3 DEF PayCommit, TypeOK, Snapshot, SerialInv, Unchanged, Payable
  <2>2. payments[i] = << >>
    BY <2>1 DEF PaymentIffPaid, Payable
  <2>3. Lifecycle!Settle(i)
    BY <1>3, <2>1, <2>2 DEF PayCommit, Payable, Lifecycle!Settle
  <2> QED  BY <2>1, <2>3 DEF Lifecycle!Next
<1>4. ASSUME NEW r \in Requests, LateFeeCommit(r) PROVE Lifecycle!Next
  <2> DEFINE i == snap[r].invoice
             t == snap[r].total
  <2>1. i \in Invoices /\ t \in Nat /\ total[i] = t /\ status[i] = "overdue"
    BY <1>4 DEF LateFeeCommit, TypeOK, Snapshot, SerialInv, Unchanged
  <2>2. t + FeeTiyin(t) \in Nat /\ t + FeeTiyin(t) >= t
    BY <2>1, FeeGrows
  <2>3. total' = [total EXCEPT ![i] = t + FeeTiyin(t)] /\ UNCHANGED <<status, payments>>
    BY <1>4 DEF LateFeeCommit
  <2>4. Lifecycle!Surcharge(i)
    BY <2>1, <2>2, <2>3 DEF Lifecycle!Surcharge, TypeOK
  <2> QED  BY <2>1, <2>4 DEF Lifecycle!Next
<1>5. CASE JobCommit
  <2>1. Lifecycle!FallOverdue(JobRows)
    BY <1>5 DEF JobCommit, LockDiscipline, Lifecycle!FallOverdue
  <2> QED  BY <2>1 DEF Lifecycle!Next, JobRows
<1>6. CASE UNCHANGED <<status, total, payments>>
  BY <1>6
<1> QED
  BY <1>1, <1>2, <1>3, <1>4, <1>5, <1>6
     DEF Next, Handler, PayRead, LateFeeRead, ReadInvoice, PayUpdate, LateFeeUpdate, LockRow,
         PayRefused, LateFeeRefused, Rollback, OverdueJob, JobScan, JobLock, JobFails,
         DuePasses, vars

\* With one handler in flight at a time, for any invoices, amounts and executions
\* of the overdue job, the engine implements the one-step lifecycle: no invoice is paid
\* twice or after its cancellation (engine.rs:66-201).
THEOREM SerialImplementsLifecycle ==
    ASSUME Serial PROVE Spec => ImplementsLifecycle
<1>1. Init => Lifecycle!Init /\ NoDrafts /\ SerialInv
  BY DEF Init, Lifecycle!Init, NoDrafts, SerialInv
<1>2. BillingInv /\ SerialInv /\ [Next]_vars => SerialInv'
  BY NextSerial
<1> QED
  BY <1>1, <1>2, NextNoDrafts, StepImplements, BillingInvariant, PTL
     DEF Spec, ImplementsLifecycle, Lifecycle!Spec
=============================================================================
