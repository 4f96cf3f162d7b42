------------------------- MODULE ClientLedgerProofs -------------------------
(***************************************************************************)
(* Proofs about ClientLedger, for any payments, records, amounts, dates    *)
(* and any number of auto_reconcile requests in flight.                    *)
(***************************************************************************)
EXTENDS ClientLedger, FiniteSetTheorems, TLAPS

\* A step of one of the handlers, with its arguments bound.
LEMMA StepCases ==
  ASSUME [Next]_vars
  PROVE  \/ \E u \in Users, p \in Payments, o \in Orgs, a \in Amounts, d \in Dates :
               AddPayment(u, p, o, a, d) /\ Runs
         \/ \E u \in Users, p \in Payments : Confirm(u, p)
         \/ \E u \in Users, p \in Payments : Reject(u, p)
         \/ DeleteClient
         \/ \E u \in Users, batch \in Batches : Import(u, batch)
         \/ \E u \in Users, r \in Records : Ignore(u, r)
         \/ \E u \in Users, r \in Records, p \in Payments : MatchPayment(u, r, p)
         \/ \E q \in Reconcilers, o \in Orgs : AutoScan(q, o)
         \/ \E q \in Reconcilers : AutoCommit(q)
         \/ \E q \in Reconcilers : AutoFail(q)
         \/ UNCHANGED vars
  BY LedgerAssumption DEF Next, CreatePayment, RecordPayment

\* What Import writes is a row of the table.
LEMMA BatchRows ==
  ASSUME NEW batch \in Batches, NEW r \in DOMAIN batch
  PROVE  batch[r] \in RecordRow /\ batch[r].with = None /\ batch[r].status = "new"
  BY DEF Batches, RecordRow

\* The part of the invariant that only the types depend on.
LEMMA TypePreserved ==
  ASSUME TypeOK, [Next]_vars
  PROVE  TypeOK'
<1> USE LedgerAssumption DEF TypeOK
<1>0. \A q \in Reconcilers : pairs[q] \subseteq Records \X Payments
  OBVIOUS
<1>a. overlapped' \in BOOLEAN
  <2>1. CASE Runs
    BY <2>1 DEF Runs
  <2>2. CASE UNCHANGED overlapped
    BY <2>2
  <2> QED BY <2>1, <2>2, StepCases DEF Confirm, Reject, DeleteClient, Import, Ignore,
          MatchPayment, AutoScan, AutoCommit, AutoFail, vars
<1>1. ASSUME NEW u \in Users, NEW p \in Payments, NEW o \in Orgs, NEW a \in Amounts,
             NEW d \in Dates, AddPayment(u, p, o, a, d)
      PROVE  TypeOK'
  <2>1. [org |-> o, status |-> "pending", amount |-> a, date |-> d, with |-> None] \in PaymentRow
    BY <1>1 DEF AddPayment, PaymentRow
  <2>2. paid' \in Nat
    BY <1>1 DEF AddPayment
  <2> QED BY <1>a, <1>1, <2>1, <2>2 DEF AddPayment
<1>2. ASSUME NEW u \in Users, NEW p \in Payments, Confirm(u, p)
      PROVE  TypeOK'
  <2>1. pay[p] \in PaymentRow
    BY <1>2 DEF Confirm, NoRow
  <2>2. [pay[p] EXCEPT !.status = "confirmed"] \in PaymentRow
    BY <2>1 DEF PaymentRow
  <2> QED BY <1>a, <1>2, <2>1, <2>2 DEF Confirm
<1>3. ASSUME NEW u \in Users, NEW p \in Payments, Reject(u, p)
      PROVE  TypeOK'
  <2>1. pay[p] \in PaymentRow
    BY <1>3 DEF Reject, NoRow
  <2>2. [pay[p] EXCEPT !.status = "rejected"] \in PaymentRow /\ pay[p].amount \in Int
    BY <2>1 DEF PaymentRow
  <2>3. paid' \in Nat
    BY <1>3, <2>2 DEF Reject, Reduced
  <2> QED BY <1>a, <1>3, <2>1, <2>2, <2>3 DEF Reject
<1>4. ASSUME DeleteClient PROVE TypeOK'
  BY <1>a, <1>4 DEF DeleteClient
<1>5. ASSUME NEW u \in Users, NEW batch \in Batches, Import(u, batch) PROVE TypeOK'
  <2>1. rec' \in [Records -> RecordRow \cup {NoRow}]
    BY <1>5, BatchRows DEF Import
  <2>2. \A r \in Records : IsRow(rec[r]) => rec'[r] = rec[r]
    BY <1>5 DEF Import
  <2> QED BY <1>a, <1>0, <1>5, <2>1, <2>2 DEF Import
<1>6. ASSUME NEW u \in Users, NEW r \in Records, Ignore(u, r) PROVE TypeOK'
  <2>1. rec[r] \in RecordRow
    BY <1>6 DEF Ignore, IsRow, NoRow
  <2>2. [rec[r] EXCEPT !.status = IF @ = "new" THEN "ignored" ELSE @] \in RecordRow
    BY <2>1 DEF RecordRow
  <2>3. rec' \in [Records -> RecordRow \cup {NoRow}] /\ rec'[r] \in RecordRow
    BY <1>6, <2>2 DEF Ignore
  <2>4. \A s \in Records : s # r => rec'[s] = rec[s]
    BY <1>6 DEF Ignore
  <2>5. \A s \in Records : IsRow(rec[s]) => IsRow(rec'[s])
    BY <2>3, <2>4 DEF RecordRow, IsRow
  <2> QED BY <1>a, <1>0, <1>6, <2>3, <2>5 DEF Ignore
<1>7. ASSUME NEW u \in Users, NEW r \in Records, NEW p \in Payments, MatchPayment(u, r, p)
      PROVE  TypeOK'
  <2>1. rec[r] \in RecordRow /\ pay[p] \in PaymentRow
    BY <1>7 DEF MatchPayment, IsRow, NoRow
  <2>2. /\ [rec[r] EXCEPT !.status = "matched", !.with = p] \in RecordRow
        /\ [pay[p] EXCEPT !.status = "confirmed", !.with = r] \in PaymentRow
    BY <2>1 DEF RecordRow, PaymentRow
  <2>3. /\ rec' \in [Records -> RecordRow \cup {NoRow}] /\ rec'[r] \in RecordRow
        /\ pay' \in [Payments -> PaymentRow \cup {NoRow}]
    BY <1>7, <2>2 DEF MatchPayment
  <2>4. \A s \in Records : s # r => rec'[s] = rec[s]
    BY <1>7 DEF MatchPayment
  <2>5. \A s \in Records : IsRow(rec[s]) => IsRow(rec'[s])
    BY <2>3, <2>4 DEF RecordRow, IsRow
  <2> QED BY <1>a, <1>0, <1>7, <2>3, <2>5 DEF MatchPayment
<1>8. ASSUME NEW q \in Reconcilers, NEW o \in Orgs, AutoScan(q, o) PROVE TypeOK'
  <2>1. /\ Matches(o) \in SUBSET (Records \X Payments)
        /\ \A m \in Matches(o) : IsRow(rec[m[1]])
    BY DEF Matches, IsRow
  <2> QED BY <1>a, <1>8, <2>1 DEF AutoScan
<1>9. ASSUME NEW q \in Reconcilers, AutoCommit(q) PROVE TypeOK'
  <2>1. PICK choice \in [Matched(q) -> Payments] :
          /\ rec' = [r \in Records |->
                       IF r \in Matched(q)
                       THEN [rec[r] EXCEPT !.status = "matched", !.with = choice[r]]
                       ELSE rec[r]]
          /\ pairs' = [pairs EXCEPT ![q] = {}]
          /\ UNCHANGED <<client, paid, pay>>
    BY <1>9 DEF AutoCommit
  <2>2. ASSUME NEW r \in Matched(q)
        PROVE  r \in Records /\ rec'[r] \in RecordRow
    <3>1. PICK m \in pairs[q] : m[1] = r
      BY DEF Matched
    <3>2. r \in Records /\ IsRow(rec[r])
      BY <3>1, <1>0
    <3>3. rec[r] \in RecordRow
      BY <3>2 DEF IsRow, NoRow
    <3>4. [rec[r] EXCEPT !.status = "matched", !.with = choice[r]] \in RecordRow
      BY <3>3 DEF RecordRow
    <3> QED BY <2>1, <3>2, <3>4
  <2>3. rec' \in [Records -> RecordRow \cup {NoRow}]
    BY <2>1, <2>2
  <2>4. \A r \in Records : IsRow(rec[r]) => IsRow(rec'[r])
    BY <2>1, <2>2 DEF RecordRow, IsRow
  <2>5. \A k \in Reconcilers : pairs'[k] \subseteq pairs[k]
    BY <2>1
  <2> QED BY <1>a, <1>0, <2>1, <2>3, <2>4, <2>5
<1>10. ASSUME NEW q \in Reconcilers, AutoFail(q) PROVE TypeOK'
  BY <1>a, <1>10 DEF AutoFail
<1>11. ASSUME UNCHANGED vars PROVE TypeOK'
  BY <1>11 DEF vars
<1> QED BY <1>1, <1>2, <1>3, <1>4, <1>5, <1>6, <1>7, <1>8, <1>9, <1>10, <1>11, StepCases

-----------------------------------------------------------------------------
(* What no interleaving of the handlers breaks.                            *)

LedgerInv == TypeOK /\ ReconciledIsConfirmed /\ MatchedPaymentExists

\* Only the deletion of the client removes payments.
LEMMA PaymentsStay ==
  ASSUME TypeOK, [Next]_vars, ~DeleteClient, NEW p \in Payments, IsRow(pay[p])
  PROVE  IsRow(pay'[p])
<1>1. CASE \E u \in Users, x \in Payments, o \in Orgs, a \in Amounts, d \in Dates :
             AddPayment(u, x, o, a, d) /\ Runs
  BY <1>1 DEF AddPayment, TypeOK, IsRow
<1>2. CASE \E u \in Users, x \in Payments : Confirm(u, x) \/ Reject(u, x)
  BY <1>2 DEF Confirm, Reject, TypeOK, IsRow, PaymentRow, NoRow
<1>3. CASE \E u \in Users, r \in Records, x \in Payments : MatchPayment(u, r, x)
  BY <1>3 DEF MatchPayment, TypeOK, IsRow, PaymentRow, NoRow
<1>4. CASE UNCHANGED pay
  BY <1>4
<1> QED BY <1>1, <1>2, <1>3, <1>4, StepCases
        DEF Import, Ignore, AutoScan, AutoCommit, AutoFail, vars

\* How a step may change the reconciliation of a payment.
LEMMA ReconciledStep ==
  ASSUME TypeOK, ReconciledIsConfirmed, [Next]_vars,
         NEW p \in Payments, Reconciled(p)'
  PROVE  \/ Reconciled(p) /\ pay'[p] = pay[p]
         \/ \E u \in Users, r \in Records : MatchPayment(u, r, p) /\ pay[p].org \in u
                                          /\ pay'[p].with = r
<1> USE DEF TypeOK, Reconciled, IsRow
<1>1. CASE \E u \in Users, x \in Payments, o \in Orgs, a \in Amounts, d \in Dates :
             AddPayment(u, x, o, a, d) /\ Runs
  <2>1. PICK u \in Users, x \in Payments, o \in Orgs, a \in Amounts, d \in Dates :
               AddPayment(u, x, o, a, d)
    BY <1>1
  <2> QED BY <2>1 DEF AddPayment
<1>2. CASE \E u \in Users, x \in Payments : Confirm(u, x) \/ Reject(u, x)
  <2>1. PICK u \in Users, x \in Payments : Confirm(u, x) \/ Reject(u, x)
    BY <1>2
  <2>2. pay[x].status = "pending" /\ pay[x] \in PaymentRow
    BY <2>1 DEF Confirm, Reject, NoRow
  <2>3. pay[x].with = None
    BY <2>2 DEF ReconciledIsConfirmed
  <2>4. pay'[x].with = None
    BY <2>1, <2>2, <2>3 DEF Confirm, Reject, PaymentRow
  <2>5. p # x
    BY <2>4
  <2> QED BY <2>1, <2>5 DEF Confirm, Reject
<1>3. CASE \E u \in Users, r \in Records, x \in Payments : MatchPayment(u, r, x)
  <2>1. PICK u \in Users, r \in Records, x \in Payments : MatchPayment(u, r, x)
    BY <1>3
  <2>2. pay[x] \in PaymentRow
    BY <2>1 DEF MatchPayment, NoRow
  <2>3. CASE pay[x].org \in u /\ p = x
    <3>1. pay'[x].with = r
      BY <2>1, <2>2, <2>3 DEF MatchPayment, PaymentRow
    <3> QED BY <2>1, <2>3, <3>1
  <2>4. CASE pay[x].org \notin u \/ p # x
    BY <2>1, <2>4 DEF MatchPayment
  <2> QED BY <2>3, <2>4
<1>4. CASE DeleteClient
  BY <1>4 DEF DeleteClient, NoRow
<1>5. CASE UNCHANGED pay
  BY <1>5
<1> QED BY <1>1, <1>2, <1>3, <1>4, <1>5, StepCases
        DEF Import, Ignore, AutoScan, AutoCommit, AutoFail, vars

\* How a step may change a record.
LEMMA RecordStep ==
  ASSUME TypeOK, [Next]_vars, NEW r \in Records
  PROVE  \/ rec'[r] = rec[r]
         \/ ~IsRow(rec[r]) /\ rec'[r].status = "new"
         \/ /\ (\E u \in Users : Ignore(u, r)) /\ rec[r].status = "new"
            /\ rec'[r].status = "ignored"
         \/ \E u \in Users, p \in Payments :
               /\ MatchPayment(u, r, p)
               /\ rec'[r].status = "matched" /\ rec'[r].with = p
         \/ \E q \in Reconcilers, p \in Payments :
               /\ AutoCommit(q) /\ r \in Matched(q) /\ IsRow(pay[p]) /\ pay' = pay
               /\ rec'[r].status = "matched" /\ rec'[r].with = p
<1> USE DEF TypeOK
<1>1. CASE \E u \in Users, batch \in Batches : Import(u, batch)
  BY <1>1, BatchRows DEF Import
<1>2. CASE \E u \in Users, x \in Records : Ignore(u, x)
  <2>1. PICK u \in Users, x \in Records : Ignore(u, x)
    BY <1>2
  <2>2. rec[x] \in RecordRow
    BY <2>1 DEF Ignore, IsRow, NoRow
  <2>3. CASE r = x
    <3>1. rec'[r] = [rec[r] EXCEPT !.status = IF @ = "new" THEN "ignored" ELSE @]
      BY <2>1, <2>3 DEF Ignore
    <3>2. CASE rec[r].status = "new"
      BY <2>1, <2>2, <2>3, <3>1, <3>2 DEF RecordRow
    <3>3. CASE rec[r].status # "new"
      BY <2>2, <2>3, <3>1, <3>3 DEF RecordRow
    <3> QED BY <3>2, <3>3
  <2>4. CASE r # x
    BY <2>1, <2>4 DEF Ignore
  <2> QED BY <2>3, <2>4
<1>3. CASE \E u \in Users, x \in Records, p \in Payments : MatchPayment(u, x, p)
  <2>1. PICK u \in Users, x \in Records, p \in Payments : MatchPayment(u, x, p)
    BY <1>3
  <2>2. rec[x] \in RecordRow
    BY <2>1 DEF MatchPayment, NoRow
  <2>3. rec'[x].status = "matched" /\ rec'[x].with = p
    BY <2>1, <2>2 DEF MatchPayment, RecordRow
  <2>4. CASE r = x
    BY <2>1, <2>3, <2>4
  <2>5. CASE r # x
    BY <2>1, <2>5 DEF MatchPayment
  <2> QED BY <2>4, <2>5
<1>4. CASE \E q \in Reconcilers : AutoCommit(q)
  <2>1. PICK q \in Reconcilers : AutoCommit(q)
    BY <1>4
  <2>2. PICK choice \in [Matched(q) -> Payments] :
          /\ \A x \in Matched(q) : IsRow(pay[choice[x]])
          /\ rec' = [x \in Records |->
                       IF x \in Matched(q)
                       THEN [rec[x] EXCEPT !.status = "matched", !.with = choice[x]]
                       ELSE rec[x]]
          /\ pay' = pay
    BY <2>1 DEF AutoCommit
  <2>3. CASE r \in Matched(q)
    <3>1. PICK m \in pairs[q] : m[1] = r
      BY <2>3 DEF Matched
    <3>2. rec[r] \in RecordRow
      BY <3>1 DEF IsRow, NoRow
    <3>3. rec'[r].status = "matched" /\ rec'[r].with = choice[r]
      BY <2>2, <2>3, <3>2 DEF RecordRow
    <3>4. choice[r] \in Payments /\ IsRow(pay[choice[r]])
      BY <2>2, <2>3
    <3> QED BY <2>1, <2>2, <2>3, <3>3, <3>4
  <2>4. CASE r \notin Matched(q)
    BY <2>2, <2>4
  <2> QED BY <2>3, <2>4
<1>5. CASE UNCHANGED rec
  BY <1>5
<1> QED BY <1>1, <1>2, <1>3, <1>4, <1>5, StepCases
        DEF AddPayment, Confirm, Reject, DeleteClient, AutoScan, AutoFail, vars

\* Empty tables satisfy the invariant.
LEMMA LedgerInvInit == Init => LedgerInv
<1> SUFFICES ASSUME Init PROVE LedgerInv
  OBVIOUS
<1>1. TypeOK
  BY DEF Init, TypeOK
<1>2. ReconciledIsConfirmed
  BY DEF Init, ReconciledIsConfirmed, Reconciled, IsRow, NoRow
<1>3. MatchedPaymentExists
  BY DEF Init, MatchedPaymentExists, NoRow
<1> QED BY <1>1, <1>2, <1>3 DEF LedgerInv

\* Every step of a handler keeps it.
LEMMA LedgerInvStep == LedgerInv /\ [Next]_vars => LedgerInv'
<1> SUFFICES ASSUME LedgerInv, [Next]_vars PROVE LedgerInv'
  OBVIOUS
<1> USE DEF LedgerInv
<1>1. TypeOK'
  BY TypePreserved
<1>2. ReconciledIsConfirmed'
  <2> SUFFICES ASSUME NEW p \in Payments, Reconciled(p)' PROVE pay'[p].status = "confirmed"
    BY DEF ReconciledIsConfirmed
  <2>1. CASE Reconciled(p) /\ pay'[p] = pay[p]
    BY <2>1 DEF ReconciledIsConfirmed
  <2>2. CASE \E u \in Users, r \in Records : MatchPayment(u, r, p) /\ pay[p].org \in u
    <3>1. pay[p] \in PaymentRow
      BY <2>2 DEF MatchPayment, IsRow, NoRow, TypeOK
    <3> QED BY <2>2, <3>1 DEF MatchPayment, PaymentRow, TypeOK
  <2> QED BY <2>1, <2>2, ReconciledStep
<1>3. MatchedPaymentExists'
  <2> SUFFICES ASSUME NEW r \in Records, rec'[r].status = "matched"
               PROVE  rec'[r].with # None /\ IsRow(pay'[rec'[r].with])
    BY DEF MatchedPaymentExists, IsRow
  <2>1. CASE rec'[r] = rec[r]
    <3>1. rec[r] \in RecordRow /\ rec[r].with # None /\ IsRow(pay[rec[r].with])
      BY <2>1 DEF TypeOK, NoRow, MatchedPaymentExists
    <3>2. rec[r].with \in Payments
      BY <3>1 DEF RecordRow
    <3>3. ~DeleteClient
      BY <3>1, <3>2 DEF DeleteClient, MatchedWith, IsRow, RecordRow
    <3> QED BY <2>1, <3>1, <3>2, <3>3, PaymentsStay
  <2>2. CASE \E u \in Users, p \in Payments : MatchPayment(u, r, p) /\ rec'[r].with = p
    <3>1. PICK u \in Users, p \in Payments : MatchPayment(u, r, p) /\ rec'[r].with = p
      BY <2>2
    <3>2. pay[p] \in PaymentRow
      BY <3>1 DEF MatchPayment, IsRow, NoRow, TypeOK
    <3>3. IsRow(pay'[p])
      BY <3>1, <3>2 DEF MatchPayment, TypeOK, PaymentRow, IsRow
    <3> QED BY <3>1, <3>3, LedgerAssumption
  <2>3. CASE \E p \in Payments : IsRow(pay[p]) /\ pay' = pay /\ rec'[r].with = p
    BY <2>3, LedgerAssumption
  <2> QED BY <2>1, <2>2, <2>3, RecordStep
<1> QED BY <1>1, <1>2, <1>3

\* It holds in every reachable state.
LEMMA LedgerInvariant == Spec => []LedgerInv
  BY LedgerInvInit, LedgerInvStep, PTL DEF Spec

\* Every row keeps the type of its table, paid_amount is never negative and no
\* payment has an amount of zero, whatever runs concurrently.
THEOREM TypeCorrect == Spec => []TypeOK
  BY LedgerInvariant, PTL DEF LedgerInv

\* No interleaving of match_payment with confirm and reject leaves a reconciled
\* payment in any status but confirmed.
THEOREM ReconciledConfirmed == Spec => []ReconciledIsConfirmed
  BY LedgerInvariant, PTL DEF LedgerInv

\* A record never names a payment that is gone, also when the client is deleted
\* between the scan and the commit of auto_reconcile.
THEOREM MatchesExist == Spec => []MatchedPaymentExists
  BY LedgerInvariant, PTL DEF LedgerInv

-----------------------------------------------------------------------------
(* The balance of the client and the sum of its payments.                  *)

AmountsIn(table, ps) == \A p \in ps : table[p].amount \in Nat

\* A finite set of payments has finitely many units of money.
LEMMA UnitsFinite ==
  ASSUME NEW table, NEW ps, IsFiniteSet(ps), AmountsIn(table, ps)
  PROVE  IsFiniteSet(Units(table, ps)) /\ SumOf(table, ps) \in Nat
<1> DEFINE unitsOf == [p \in ps |-> {p} \X (1 .. table[p].amount)]
           parts == {{p} \X (1 .. table[p].amount) : p \in ps}
<1>1. unitsOf \in Surjection(ps, parts)
  BY DEF Surjection
<1>2. IsFiniteSet(parts)
  BY <1>1, FS_Surjection
<1>3. ASSUME NEW p \in ps PROVE IsFiniteSet({p} \X (1 .. table[p].amount))
  <2>1. IsFiniteSet({p})
    BY FS_Singleton
  <2>2. table[p].amount \in Int
    BY DEF AmountsIn
  <2>3. IsFiniteSet(1 .. table[p].amount)
    BY <2>2, FS_Interval
  <2> QED BY <2>1, <2>3, FS_Product
<1>4. \A part \in parts : IsFiniteSet(part)
  BY <1>3
<1>5. IsFiniteSet(Units(table, ps))
  <2> HIDE DEF parts
  <2>1. IsFiniteSet(UNION parts)
    BY <1>2, <1>4, FS_UNION
  <2> QED BY <2>1 DEF Units, parts
<1> QED BY <1>5, FS_CardinalityType DEF SumOf

\* One more payment adds its amount.
LEMMA SumAdd ==
  ASSUME NEW table, NEW ps, IsFiniteSet(ps), NEW p, p \notin ps,
         AmountsIn(table, ps \cup {p})
  PROVE  SumOf(table, ps \cup {p}) = SumOf(table, ps) + table[p].amount
<1> DEFINE part == {p} \X (1 .. table[p].amount)
<1>1. IsFiniteSet(Units(table, ps)) /\ SumOf(table, ps) \in Nat
  BY UnitsFinite DEF AmountsIn
<1>2. table[p].amount \in Nat
  BY DEF AmountsIn
<1>3. IsFiniteSet(part) /\ Cardinality(part) = table[p].amount
  <2>1. IsFiniteSet({p}) /\ Cardinality({p}) = 1
    BY FS_Singleton
  <2>2. /\ IsFiniteSet(1 .. table[p].amount)
        /\ Cardinality(1 .. table[p].amount)
             = IF 1 > table[p].amount THEN 0 ELSE table[p].amount - 1 + 1
    BY <1>2, FS_Interval
  <2>3. Cardinality(1 .. table[p].amount) = table[p].amount
    BY <1>2, <2>2
  <2>4. IsFiniteSet(part) /\ Cardinality(part) = 1 * table[p].amount
    BY <2>1, <2>2, <2>3, FS_Product
  <2> QED BY <1>2, <2>4
<1>4. Units(table, ps \cup {p}) = Units(table, ps) \cup part
  BY DEF Units
<1>5. Units(table, ps) \cap part = {}
  BY DEF Units
<1>6. Cardinality(Units(table, ps) \cap part) = 0
  BY <1>5, FS_EmptySet
<1> HIDE DEF part
<1>7. Cardinality(Units(table, ps) \cup part)
        = Cardinality(Units(table, ps)) + Cardinality(part)
            - Cardinality(Units(table, ps) \cap part)
  BY <1>1, <1>3, FS_Union
<1>8. /\ SumOf(table, ps) = Cardinality(Units(table, ps))
      /\ SumOf(table, ps \cup {p}) = Cardinality(Units(table, ps) \cup part)
  BY <1>4 DEF SumOf
<1> QED BY <1>1, <1>2, <1>3, <1>6, <1>7, <1>8

\* The sum of more payments is not smaller.
LEMMA SumMonotone ==
  ASSUME NEW table, NEW qs, IsFiniteSet(qs), AmountsIn(table, qs), NEW ps \in SUBSET qs
  PROVE  SumOf(table, ps) <= SumOf(table, qs)
<1>1. Units(table, ps) \subseteq Units(table, qs)
  BY DEF Units
<1> QED BY <1>1, UnitsFinite, FS_Subset DEF SumOf

\* A sum depends on the amounts only.
LEMMA SumSame ==
  ASSUME NEW table, NEW other, NEW ps, \A p \in ps : other[p].amount = table[p].amount
  PROVE  SumOf(other, ps) = SumOf(table, ps)
<1>1. Units(other, ps) = Units(table, ps)
  BY DEF Units
<1> QED BY <1>1 DEF SumOf

\* The same for a table in which the other rows keep their amounts.
LEMMA SumAddRow ==
  ASSUME NEW table, NEW other, NEW ps, IsFiniteSet(ps), NEW p, p \notin ps,
         AmountsIn(other, ps \cup {p}),
         \A x \in ps : other[x].amount = table[x].amount
  PROVE  SumOf(other, ps \cup {p}) = SumOf(table, ps) + other[p].amount
  BY SumAdd, SumSame

\* And for more payments whose amounts stay.
LEMMA SumGrows ==
  ASSUME NEW table, NEW other, NEW qs, IsFiniteSet(qs), AmountsIn(other, qs),
         NEW ps \in SUBSET qs, \A x \in ps : other[x].amount = table[x].amount
  PROVE  SumOf(table, ps) <= SumOf(other, qs)
  BY SumMonotone, SumSame

Counted == OwnLive \cup Foreign

\* The payments of the sums are finitely many, with the amounts of their rows.
SumsDefined ==
  /\ IsFiniteSet(Counted) /\ AmountsIn(pay, Counted)
  /\ IsFiniteSet(OwnLiveUnsettled) /\ AmountsIn(pay, OwnLiveUnsettled)
  /\ IsFiniteSet(ForeignDecided) /\ AmountsIn(pay, ForeignDecided)
  /\ SumOf(pay, Counted) \in Nat /\ SumOf(pay, OwnLiveUnsettled) \in Nat
  /\ SumOf(pay, ForeignDecided) \in Nat

\* Rows of the right type have such sums.
LEMMA LiveAmounts == TypeOK => SumsDefined
<1> SUFFICES ASSUME TypeOK PROVE SumsDefined
  OBVIOUS
<1>1. /\ Counted \subseteq Payments
      /\ OwnLiveUnsettled \subseteq Counted /\ ForeignDecided \subseteq Counted
  BY DEF Counted, OwnLive, OwnLiveUnsettled, Foreign, ForeignDecided
<1>2. IsFiniteSet(Counted) /\ IsFiniteSet(OwnLiveUnsettled) /\ IsFiniteSet(ForeignDecided)
  BY <1>1, LedgerAssumption, FS_Subset
<1>3. ASSUME NEW p \in Counted PROVE pay[p].amount \in Nat
  <2>1. pay[p] \in PaymentRow
    BY DEF Counted, OwnLive, Foreign, IsRow, TypeOK, NoRow
  <2>2. pay[p].amount \in Amounts /\ pay[p].amount > 0
    BY <2>1 DEF PaymentRow
  <2>3. pay[p].amount \in Int
    BY <2>2, LedgerAssumption
  <2> QED BY <2>2, <2>3
<1>4. /\ AmountsIn(pay, Counted) /\ AmountsIn(pay, OwnLiveUnsettled)
      /\ AmountsIn(pay, ForeignDecided)
  BY <1>1, <1>3 DEF AmountsIn
<1> QED BY <1>2, <1>4, UnitsFinite DEF SumsDefined

\* The rows of payments, spelled out for one of them.
LEMMA CountedRow ==
  ASSUME NEW p \in Payments
  PROVE  /\ p \in Counted <=> /\ IsRow(pay[p])
                              /\ pay[p].org # Home \/ pay[p].status \in {"pending", "confirmed"}
         /\ p \in OwnLiveUnsettled <=> /\ pay[p].status \in {"pending", "confirmed"}
                                       /\ pay[p].org = Home /\ pay[p].with = None
         /\ p \in ForeignDecided <=> /\ IsRow(pay[p])
                                     /\ pay[p].org # Home /\ pay[p].status # "pending"
  BY DEF Counted, OwnLive, OwnLiveUnsettled, Foreign, ForeignDecided, Reconciled, IsRow

\* A handler that changes the balance changes the sums by as much, or by
\* more where the bounds allow it.
LEMMA BalanceStep ==
  ASSUME LedgerInv, BalanceWithinLive, [Next]_vars
  PROVE  BalanceWithinLive'
<1> USE DEF LedgerInv
<1> DEFINE Bounded(balance, table, counted, unsettled, decided) ==
      /\ balance <= SumOf(table, counted)
      /\ SumOf(table, unsettled) <= balance + SumOf(table, decided)
<1>t. TypeOK'
  BY LedgerInvStep
<1>u. SumsDefined
  BY LiveAmounts
<1>v. SumsDefined'
  BY <1>t, LiveAmounts, PTL
<1>p. paid \in Nat /\ pay \in [Payments -> PaymentRow \cup {NoRow}]
  BY DEF TypeOK
<1>s. /\ Counted \subseteq Payments /\ OwnLiveUnsettled \subseteq Payments
      /\ ForeignDecided \subseteq Payments /\ Counted' \subseteq Payments
      /\ OwnLiveUnsettled' \subseteq Payments /\ ForeignDecided' \subseteq Payments
  BY DEF Counted, OwnLive, OwnLiveUnsettled, Foreign, ForeignDecided
<1>r. \A x \in Payments :
         /\ x \in Counted' <=>
              /\ IsRow(pay'[x])
              /\ pay'[x].org # Home \/ pay'[x].status \in {"pending", "confirmed"}
         /\ x \in OwnLiveUnsettled' <=>
              /\ pay'[x].status \in {"pending", "confirmed"}
              /\ pay'[x].org = Home /\ pay'[x].with = None
         /\ x \in ForeignDecided' <=>
              /\ IsRow(pay'[x])
              /\ pay'[x].org # Home /\ pay'[x].status # "pending"
  BY DEF Counted, OwnLive, OwnLiveUnsettled, Foreign, ForeignDecided, Reconciled, IsRow
<1>w. ASSUME NEW x \in Payments, pay'[x] = pay[x]
      PROVE  /\ x \in Counted' <=> x \in Counted
             /\ x \in OwnLiveUnsettled' <=> x \in OwnLiveUnsettled
             /\ x \in ForeignDecided' <=> x \in ForeignDecided
  BY <1>r, <1>w, CountedRow DEF IsRow
<1> SUFFICES ASSUME client' = TRUE
             PROVE  Bounded(paid', pay', Counted', OwnLiveUnsettled', ForeignDecided')
  BY <1>t DEF BalanceWithinLive, Counted, TypeOK
<1>c. Bounded(paid, pay, Counted, OwnLiveUnsettled, ForeignDecided)
  <2>1. client = TRUE
    BY StepCases DEF AddPayment, Confirm, Reject, DeleteClient, Import, Ignore,
         MatchPayment, AutoScan, AutoCommit, AutoFail, vars
  <2> QED BY <2>1 DEF BalanceWithinLive, Counted
<1>1. ASSUME NEW u \in Users, NEW p \in Payments, NEW o \in Orgs, NEW a \in Amounts,
             NEW d \in Dates, AddPayment(u, p, o, a, d)
      PROVE  Bounded(paid', pay', Counted', OwnLiveUnsettled', ForeignDecided')
  <2>1. /\ pay'[p] = [org |-> o, status |-> "pending", amount |-> a, date |-> d, with |-> None]
        /\ \A x \in Payments : x # p => pay'[x] = pay[x]
        /\ a \in Nat /\ paid' \in {paid, paid + a} /\ (o = Home => paid' = paid + a)
    BY <1>1, <1>p, LedgerAssumption DEF AddPayment
  <2>2. p \notin Counted /\ p \notin OwnLiveUnsettled /\ p \notin ForeignDecided
    BY <1>1, CountedRow DEF AddPayment, IsRow
  <2>3. /\ Counted' = Counted \cup {p} /\ ForeignDecided' = ForeignDecided
        /\ OwnLiveUnsettled' = IF o = Home THEN OwnLiveUnsettled \cup {p} ELSE OwnLiveUnsettled
    <3>1. \A x \in Payments : x # p =>
            /\ x \in Counted' <=> x \in Counted
            /\ x \in OwnLiveUnsettled' <=> x \in OwnLiveUnsettled
            /\ x \in ForeignDecided' <=> x \in ForeignDecided
      BY <1>w, <2>1
    <3>2. /\ p \in Counted' /\ p \notin ForeignDecided'
          /\ p \in OwnLiveUnsettled' <=> o = Home
      BY <1>r, <2>1 DEF IsRow
    <3> QED BY <1>s, <2>2, <3>1, <3>2
  <2>4. \A x \in Counted \cup OwnLiveUnsettled \cup ForeignDecided :
           pay'[x].amount = pay[x].amount
    BY <1>s, <2>1, <2>2
  <2>5. SumOf(pay', Counted') = SumOf(pay, Counted) + a
    BY <1>u, <1>v, <2>1, <2>2, <2>3, <2>4, SumAddRow DEF SumsDefined
  <2>6. SumOf(pay', ForeignDecided') = SumOf(pay, ForeignDecided)
    BY <2>3, <2>4, SumSame
  <2>7. CASE o = Home
    <3>1. SumOf(pay', OwnLiveUnsettled') = SumOf(pay, OwnLiveUnsettled) + a
      BY <1>u, <1>v, <2>1, <2>2, <2>3, <2>4, <2>7, SumAddRow DEF SumsDefined
    <3> QED BY <1>c, <1>p, <1>u, <2>1, <2>5, <2>6, <2>7, <3>1 DEF SumsDefined
  <2>8. CASE o # Home
    <3>1. SumOf(pay', OwnLiveUnsettled') = SumOf(pay, OwnLiveUnsettled)
      BY <2>3, <2>4, <2>8, SumSame
    <3> QED BY <1>c, <1>p, <1>u, <2>1, <2>5, <2>6, <3>1 DEF SumsDefined
  <2> QED BY <2>7, <2>8
<1>2. ASSUME NEW p \in Payments, pay[p] \in PaymentRow, NEW row \in PaymentRow,
             pay' = [pay EXCEPT ![p] = row], paid' = paid,
             row.org = pay[p].org, row.amount = pay[p].amount, row.status = "confirmed",
             row.with = pay[p].with \/ row.with # None,
             pay[p].status = "rejected" => row.with # None
      PROVE  Bounded(paid', pay', Counted', OwnLiveUnsettled', ForeignDecided')
  <2>1. pay'[p] = row /\ \A x \in Payments : x # p => pay'[x] = pay[x]
    BY <1>2, <1>p
  <2>2. IsRow(pay[p]) /\ pay[p].status \in {"pending", "confirmed", "rejected"}
    BY <1>2 DEF PaymentRow, IsRow
  <2>3. /\ Counted \subseteq Counted' /\ ForeignDecided \subseteq ForeignDecided'
        /\ OwnLiveUnsettled' \subseteq OwnLiveUnsettled
    BY <1>2, <1>r, <1>s, <2>1, <2>2, CountedRow DEF IsRow
  <2>4. \A x \in Payments : pay'[x].amount = pay[x].amount
    BY <1>2, <2>1
  <2>5. SumOf(pay, Counted) <= SumOf(pay', Counted')
    BY <1>s, <1>v, <2>3, <2>4, SumGrows DEF SumsDefined
  <2>6. SumOf(pay, ForeignDecided) <= SumOf(pay', ForeignDecided')
    BY <1>s, <1>v, <2>3, <2>4, SumGrows DEF SumsDefined
  <2>7. SumOf(pay', OwnLiveUnsettled') <= SumOf(pay, OwnLiveUnsettled)
    BY <1>s, <1>u, <2>3, <2>4, SumGrows DEF SumsDefined
  <2> QED BY <1>2, <1>c, <1>p, <1>u, <1>v, <2>5, <2>6, <2>7 DEF SumsDefined
<1>3. ASSUME NEW u \in Users, NEW p \in Payments, Confirm(u, p)
      PROVE  Bounded(paid', pay', Counted', OwnLiveUnsettled', ForeignDecided')
  <2> DEFINE row == [pay[p] EXCEPT !.status = "confirmed"]
  <2>1. pay[p] \in PaymentRow /\ pay[p].status = "pending"
    BY <1>3, <1>p DEF Confirm, NoRow
  <2>2. /\ row \in PaymentRow /\ row.status = "confirmed" /\ row.org = pay[p].org
        /\ row.amount = pay[p].amount /\ row.with = pay[p].with
    BY <2>1 DEF PaymentRow
  <2>3. pay' = [pay EXCEPT ![p] = row] /\ paid' = paid
    BY <1>3, <1>p DEF Confirm
  <2> HIDE DEF row
  <2> QED BY <1>2, <2>1, <2>2, <2>3
<1>4. ASSUME NEW u \in Users, NEW p \in Payments, Reject(u, p)
      PROVE  Bounded(paid', pay', Counted', OwnLiveUnsettled', ForeignDecided')
  <2>1. pay[p] \in PaymentRow /\ pay[p].status = "pending" /\ pay[p].amount \in Nat
    <3>1. pay[p] \in PaymentRow /\ pay[p].status = "pending"
      BY <1>4, <1>p DEF Reject, NoRow
    <3>2. pay[p].amount \in Amounts /\ pay[p].amount > 0
      BY <3>1 DEF PaymentRow
    <3>3. pay[p].amount \in Int
      BY <3>2, LedgerAssumption
    <3> QED BY <3>1, <3>2, <3>3
  <2>2. /\ pay'[p].status = "rejected" /\ pay'[p].org = pay[p].org
        /\ pay'[p].amount = pay[p].amount
        /\ \A x \in Payments : x # p => pay'[x] = pay[x]
    BY <1>4, <1>p, <2>1 DEF Reject, PaymentRow
  <2>3. /\ paid' \in {paid, Reduced(pay[p].amount)}
        /\ pay[p].org = Home => paid' = Reduced(pay[p].amount)
    BY <1>4 DEF Reject
  <2>4. pay[p].with = None
    BY <2>1 DEF ReconciledIsConfirmed, Reconciled, IsRow
  <2>5. \A x \in Payments : pay'[x].amount = pay[x].amount
    BY <2>2
  <2>6. p \in Counted /\ p \notin ForeignDecided /\ p \notin OwnLiveUnsettled'
    BY <1>r, <2>1, <2>2, CountedRow DEF IsRow
  <2>9. \A x \in Payments : x # p =>
          /\ x \in Counted' <=> x \in Counted
          /\ x \in OwnLiveUnsettled' <=> x \in OwnLiveUnsettled
          /\ x \in ForeignDecided' <=> x \in ForeignDecided
    BY <1>w, <2>2
  <2>7. CASE pay[p].org = Home
    <3>1. /\ p \notin Counted' /\ Counted = Counted' \cup {p}
          /\ OwnLiveUnsettled = OwnLiveUnsettled' \cup {p} /\ ForeignDecided' = ForeignDecided
      <4>1. p \in OwnLiveUnsettled /\ p \notin Counted' /\ p \notin ForeignDecided'
        BY <1>r, <2>1, <2>2, <2>4, <2>7, CountedRow
      <4> QED BY <1>s, <2>6, <2>9, <4>1
    <3>2. SumOf(pay, Counted) = SumOf(pay', Counted') + pay[p].amount
      BY <1>s, <1>u, <1>v, <2>5, <3>1, SumAddRow DEF SumsDefined
    <3>3. SumOf(pay, OwnLiveUnsettled) = SumOf(pay', OwnLiveUnsettled') + pay[p].amount
      BY <1>s, <1>u, <1>v, <2>5, <2>6, <3>1, SumAddRow DEF SumsDefined
    <3>4. SumOf(pay', ForeignDecided') = SumOf(pay, ForeignDecided)
      BY <1>s, <2>5, <3>1, SumSame
    <3> QED BY <1>c, <1>p, <1>v, <2>1, <2>3, <2>7, <3>2, <3>3, <3>4 DEF Reduced, SumsDefined
  <2>8. CASE pay[p].org # Home
    <3>1. /\ Counted' = Counted /\ OwnLiveUnsettled' = OwnLiveUnsettled
          /\ ForeignDecided' = ForeignDecided \cup {p}
      <4>1. /\ p \in Counted' /\ p \in ForeignDecided'
            /\ p \notin OwnLiveUnsettled /\ p \notin OwnLiveUnsettled'
        BY <1>r, <2>1, <2>2, <2>8, CountedRow DEF IsRow
      <4> QED BY <1>s, <2>6, <2>9, <4>1
    <3>2. /\ SumOf(pay', Counted') = SumOf(pay, Counted)
          /\ SumOf(pay', OwnLiveUnsettled') = SumOf(pay, OwnLiveUnsettled)
      BY <1>s, <2>5, <3>1, SumSame
    <3>3. SumOf(pay', ForeignDecided') = SumOf(pay, ForeignDecided) + pay[p].amount
      BY <1>s, <1>u, <1>v, <2>2, <2>5, <2>6, <3>1, SumAddRow DEF SumsDefined
    <3> QED BY <1>c, <1>p, <1>u, <2>1, <2>3, <3>2, <3>3 DEF Reduced, SumsDefined
  <2> QED BY <2>7, <2>8
<1>5. ASSUME NEW u \in Users, NEW r \in Records, NEW p \in Payments,
             MatchPayment(u, r, p), pay[p].org \in u
      PROVE  Bounded(paid', pay', Counted', OwnLiveUnsettled', ForeignDecided')
  <2> DEFINE row == [pay[p] EXCEPT !.status = "confirmed", !.with = r]
  <2>1. pay[p] \in PaymentRow
    BY <1>5, <1>p DEF MatchPayment, IsRow, NoRow
  <2>2. /\ row \in PaymentRow /\ row.status = "confirmed" /\ row.org = pay[p].org
        /\ row.amount = pay[p].amount /\ row.with = r /\ r # None
    BY <2>1, LedgerAssumption DEF PaymentRow
  <2>3. pay' = [pay EXCEPT ![p] = row] /\ paid' = paid
    BY <1>5, <1>p DEF MatchPayment
  <2> HIDE DEF row
  <2> QED BY <1>2, <2>1, <2>2, <2>3
<1>6. CASE UNCHANGED <<paid, pay>>
  <2>1. /\ Counted' = Counted /\ OwnLiveUnsettled' = OwnLiveUnsettled
        /\ ForeignDecided' = ForeignDecided
    BY <1>6 DEF Counted, OwnLive, OwnLiveUnsettled, Foreign, ForeignDecided, Reconciled
  <2> QED BY <1>6, <1>c, <2>1
<1>7. ASSUME NEW u \in Users, NEW r \in Records, NEW p \in Payments,
             MatchPayment(u, r, p), pay[p].org \notin u
      PROVE  UNCHANGED <<paid, pay>>
  BY <1>7 DEF MatchPayment
<1> QED BY <1>1, <1>3, <1>4, <1>5, <1>6, <1>7, StepCases
        DEF DeleteClient, Import, Ignore, AutoScan, AutoCommit, AutoFail, vars

\* Without payments the balance is zero.
LEMMA BalanceInit == Init => BalanceWithinLive
<1> SUFFICES ASSUME Init PROVE BalanceWithinLive
  OBVIOUS
<1>1. OwnLive \cup Foreign = {} /\ OwnLiveUnsettled = {} /\ ForeignDecided = {}
  BY DEF Init, OwnLive, OwnLiveUnsettled, Foreign, ForeignDecided, NoRow, IsRow
<1>2. SumOf(pay, {}) = 0
  <2>1. Units(pay, {}) = {}
    BY DEF Units
  <2> QED BY <2>1, FS_EmptySet DEF SumOf
<1> QED BY <1>1, <1>2 DEF BalanceWithinLive, Init

\* The balance counts every live payment of the client's organization at most
\* once, and only one that a bank record settled may be missing from it, however
\* create, confirm, reject, match_payment and the deletion of the client interleave
\* and whoever sends them; payments of other organizations distort it by their own
\* amounts at most.
THEOREM BalanceCounted == Spec => []BalanceWithinLive
  BY BalanceInit, BalanceStep, LedgerInvariant, PTL DEF Spec

-----------------------------------------------------------------------------
(* What holds as long as nothing ran beside an auto_reconcile: the records   *)
(* of its CTE are then still new when it commits.                            *)

ScannedAreNew ==
  \A q \in Reconcilers : \A m \in pairs[q] : rec[m[1]].status = "new"

OneScan == \A q, k \in Reconcilers : pairs[q] # {} /\ pairs[k] # {} => q = k

AloneInv ==
  /\ LedgerInv
  /\ ~overlapped => ScannedAreNew /\ OneScan
  /\ PairsAgree

\* overlapped never becomes FALSE again, and while it is FALSE only
\* auto_reconcile runs beside an auto_reconcile.
LEMMA NothingBeside ==
  ASSUME TypeOK, [Next]_vars, ~overlapped'
  PROVE  /\ ~overlapped
         /\ \/ \A q \in Reconcilers : pairs[q] = {}
            \/ \E k \in Reconcilers : AutoCommit(k) \/ AutoFail(k)
            \/ UNCHANGED vars
<1>1. CASE Runs
  BY <1>1 DEF Runs, TypeOK
<1>2. CASE \E k \in Reconcilers : AutoCommit(k) \/ AutoFail(k)
  <2>1. overlapped' = overlapped
    BY <1>2 DEF AutoCommit, AutoFail
  <2> QED BY <1>2, <2>1
<1>3. CASE UNCHANGED vars
  BY <1>3 DEF vars
<1> QED BY <1>1, <1>2, <1>3, StepCases
        DEF Confirm, Reject, DeleteClient, Import, Ignore, MatchPayment, AutoScan

\* While nothing runs beside it, the records an auto_reconcile has picked stay new.
LEMMA ScanStep ==
  ASSUME AloneInv, [Next]_vars, ~overlapped'
  PROVE  ScannedAreNew' /\ OneScan'
<1> USE DEF AloneInv, LedgerInv, TypeOK
<1>0. ScannedAreNew /\ OneScan
  BY NothingBeside
<1>1. CASE \E q \in Reconcilers : pairs[q] # {}
  <2>1. PICK q \in Reconcilers : pairs[q] # {}
    BY <1>1
  <2>2. \A k \in Reconcilers : k # q => pairs[k] = {}
    BY <1>0, <2>1 DEF OneScan
  <2>3. CASE \E k \in Reconcilers : AutoCommit(k) \/ AutoFail(k)
    <3>1. PICK k \in Reconcilers : AutoCommit(k) \/ AutoFail(k)
      BY <2>3
    <3>2. k = q /\ pairs' = [pairs EXCEPT ![k] = {}]
      BY <2>2, <3>1 DEF AutoCommit, AutoFail
    <3>3. \A j \in Reconcilers : pairs'[j] = {}
      BY <2>2, <3>2
    <3> QED BY <3>3 DEF ScannedAreNew, OneScan
  <2>4. CASE UNCHANGED vars
    BY <1>0, <2>4 DEF ScannedAreNew, OneScan, vars
  <2> QED BY <2>1, <2>3, <2>4, NothingBeside
<1>2. CASE \A q \in Reconcilers : pairs[q] = {}
  <2>1. CASE \E q \in Reconcilers, o \in Orgs : AutoScan(q, o)
    <3>1. PICK q \in Reconcilers, o \in Orgs : AutoScan(q, o)
      BY <2>1
    <3>2. \A m \in Matches(o) : rec[m[1]].status = "new"
      BY DEF Matches
    <3>3. rec' = rec /\ pairs' = [pairs EXCEPT ![q] = Matches(o)]
      BY <3>1 DEF AutoScan
    <3>4. \A k \in Reconcilers : k # q => pairs'[k] = {}
      BY <1>2, <3>3
    <3> QED BY <3>2, <3>3, <3>4 DEF ScannedAreNew, OneScan
  <2>2. CASE UNCHANGED pairs
    BY <1>2, <2>2 DEF ScannedAreNew, OneScan
  <2> QED BY <1>2, <2>1, <2>2, StepCases
          DEF AddPayment, Confirm, Reject, DeleteClient, Import, Ignore,
              MatchPayment, AutoCommit, AutoFail, vars
<1> QED BY <1>1, <1>2

\* While nothing runs beside an auto_reconcile, settled records stay as they are.
LEMMA SettledStep ==
  ASSUME AloneInv, [Next]_vars, ~overlapped', NEW r \in Settled
  PROVE  rec'[r] = rec[r]
<1> USE DEF Settled
<1>1. ~(\E u \in Users, p \in Payments : MatchPayment(u, r, p))
  BY DEF MatchPayment
<1>2. ASSUME NEW q \in Reconcilers, r \in Matched(q)
      PROVE  FALSE
  BY <1>2, NothingBeside DEF Matched, AloneInv, LedgerInv, ScannedAreNew
<1> QED BY <1>1, <1>2, RecordStep DEF AloneInv, LedgerInv, IsRow

\* While nothing runs beside an auto_reconcile, the two tables keep agreeing.
LEMMA PairsStep ==
  ASSUME AloneInv, [Next]_vars
  PROVE  PairsAgree'
<1> USE DEF AloneInv, LedgerInv
<1> SUFFICES ASSUME ~overlapped', NEW p \in Payments, Reconciled(p)'
             PROVE  /\ rec'[pay'[p].with].status = "matched"
                    /\ rec'[pay'[p].with].with = p
  BY DEF PairsAgree
<1>0. ~overlapped
  BY NothingBeside
<1>1. CASE Reconciled(p) /\ pay'[p] = pay[p]
  <2>1. pay[p] \in PaymentRow /\ pay[p].with # None
    BY <1>1 DEF Reconciled, IsRow, NoRow, TypeOK
  <2>2. pay[p].with \in Records
    BY <2>1 DEF PaymentRow
  <2>3. rec[pay[p].with].status = "matched" /\ rec[pay[p].with].with = p
    BY <1>0, <1>1 DEF PairsAgree
  <2> QED BY <1>1, <2>2, <2>3, SettledStep DEF Settled
<1>2. CASE \E u \in Users, r \in Records : MatchPayment(u, r, p) /\ pay[p].org \in u
                                          /\ pay'[p].with = r
  <2>1. PICK u \in Users, r \in Records : MatchPayment(u, r, p) /\ pay[p].org \in u
                                               /\ pay'[p].with = r
    BY <1>2
  <2>2. rec[r] \in RecordRow
    BY <2>1 DEF MatchPayment, NoRow, TypeOK
  <2>3. rec'[r].status = "matched" /\ rec'[r].with = p
    BY <2>1, <2>2 DEF MatchPayment, RecordRow, TypeOK
  <2> QED BY <2>1, <2>3
<1> QED BY <1>1, <1>2, ReconciledStep

\* What holds alone holds in every reachable state.
LEMMA AloneInvariant == Spec => []AloneInv
<1>1. Init => AloneInv
  <2> SUFFICES ASSUME Init PROVE AloneInv
    OBVIOUS
  <2>1. ScannedAreNew /\ OneScan
    BY DEF Init, ScannedAreNew, OneScan
  <2>2. PairsAgree
    BY DEF Init, PairsAgree, Reconciled, IsRow, NoRow
  <2> QED BY <2>1, <2>2, LedgerInvInit DEF AloneInv
<1>2. AloneInv /\ [Next]_vars => AloneInv'
  BY ScanStep, PairsStep, LedgerInvStep DEF AloneInv
<1> QED BY <1>1, <1>2, PTL DEF Spec

\* As long as nothing ran beside an auto_reconcile, the record that a payment
\* says it was reconciled with names that payment.
THEOREM PairsAgreeAlone == Spec => []PairsAgree
  BY AloneInvariant, PTL DEF AloneInv

\* As long as nothing ran beside an auto_reconcile, no record is settled twice,
\* by hand or by auto_reconcile.
THEOREM RecordsSettledOnce == Spec => SettledOnceAlone
<1>1. AloneInv /\ [Next]_vars =>
        [~overlapped' => \A r \in Settled : rec'[r] = rec[r]]_vars
  BY SettledStep
<1> QED BY <1>1, AloneInvariant, PTL DEF Spec, SettledOnceAlone
=============================================================================
