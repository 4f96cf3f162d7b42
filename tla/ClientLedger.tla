---------------------------- MODULE ClientLedger ----------------------------
(***************************************************************************)
(* One client's money in rust-core: clients.paid_amount, the table         *)
(* payments and the bank statement lines of bank_records, kept in step by  *)
(* payments/mod.rs, clients/service.rs and bank_records/handlers.rs.       *)
(*                                                                         *)
(* Every handler but auto_reconcile is one step: whatever it tests, it     *)
(* tests on a row it has locked until its commit (UPDATE ... WHERE, which  *)
(* is evaluated again after a wait, and foreign keys), so its transactions *)
(* are serializable, and one that fails leaves no trace.  auto_reconcile   *)
(* picks its pairs in a CTE that reads a snapshot, and its UPDATE tests    *)
(* only that a record is among those pairs: it is a scan and a commit.     *)
(*                                                                         *)
(* Payments and bank records carry an organization of their own, and row   *)
(* level security shows a user the rows of one organization, or of all.    *)
(* A payment may belong to another organization than its client, whose row *)
(* an UPDATE then silently misses; foreign keys look past the policies.    *)
(***************************************************************************)
EXTENDS Integers, FiniteSets

CONSTANTS
    Payments,     \* primary keys of table payments
    Records,      \* primary keys of table bank_records
    Reconcilers,  \* auto_reconcile requests that may be in flight together
    Amounts,      \* amounts in requests and in imported lines
    Dates,        \* payment_date and transaction_date, in hours
    Orgs,         \* organizations
    Home,         \* the organization of the client
    RowsDecode,   \* does sqlx decode payments.status (an enum) into a String
    None          \* NULL in matched_with and reconciled_with

ASSUME LedgerAssumption ==
    /\ IsFiniteSet(Payments)
    /\ Amounts \subseteq Int /\ Dates \subseteq Int
    /\ Home \in Orgs
    /\ RowsDecode \in BOOLEAN
    /\ None \notin Payments \cup Records

VARIABLES
    client,   \* is the row of the client there
    paid,     \* clients.paid_amount
    pay,      \* table payments; status "absent" where there is no row
    rec,      \* table bank_records, likewise
    pairs,    \* per auto_reconcile in flight: its CTE "matches"
    overlapped  \* history: has a handler run beside an auto_reconcile

vars == <<client, paid, pay, rec, pairs, overlapped>>

\* A user is the set of organizations whose rows the policies let it see.
Users == {{o} : o \in Orgs} \cup {Orgs}

\* reconciled is TRUE exactly when reconciled_with is set.
PaymentRow == [org : Orgs, status : {"pending", "confirmed", "rejected"},
               amount : {a \in Amounts : a > 0}, date : Dates,
               with : Records \cup {None}]
RecordRow  == [org : Orgs, status : {"new", "matched", "ignored"},
               amount : Amounts, date : Dates, with : Payments \cup {None}]
NoRow      == [status |-> "absent"]

IsRow(row) == row.status # "absent"
Reconciled(p) == IsRow(pay[p]) /\ pay[p].with # None

Init ==
    /\ client = TRUE
    /\ paid = 0
    /\ pay = [p \in Payments |-> NoRow]
    /\ rec = [r \in Records |-> NoRow]
    /\ pairs = [q \in Reconcilers |-> {}]
    /\ overlapped = FALSE

\* The bookkeeping of a handler that runs now.
Runs == overlapped' = (overlapped \/ \E q \in Reconcilers : pairs[q] # {})

-----------------------------------------------------------------------------
(* Payments: payments/mod.rs and clients::record_payment.                  *)

\* Variant: neither the handler nor the table tests the amount.
AddAnyPayment(u, p, o, a, d) ==
    /\ client /\ ~IsRow(pay[p]) /\ o \in u
    /\ pay' = [pay EXCEPT ![p] = [org |-> o, status |-> "pending",
                                 amount |-> a, date |-> d, with |-> None]]
    /\ paid' = IF Home \in u THEN paid + a ELSE paid
    /\ UNCHANGED <<client, rec, pairs>>

\* INSERT INTO payments (CHECK amount > 0, policy on its org_id, foreign key
\* client_id), then UPDATE clients, which changes no row for a user who does not
\* see the client.
AddPayment(u, p, o, a, d) ==
    /\ client /\ ~IsRow(pay[p]) /\ o \in u
    /\ a > 0
    /\ pay' = [pay EXCEPT ![p] = [org |-> o, status |-> "pending",
                                 amount |-> a, date |-> d, with |-> None]]
    /\ paid' = IF Home \in u THEN paid + a ELSE paid
    /\ UNCHANGED <<client, rec, pairs>>

\* payments::create takes any organization and reads the row back (RETURNING *);
\* record_payment reads the client first and takes its organization.
CreatePayment(u, p, o, a, d) == Runs /\ RowsDecode /\ AddPayment(u, p, o, a, d)
RecordPayment(u, p, a, d)    == Runs /\ Home \in u /\ AddPayment(u, p, Home, a, d)

\* Variant: a confirmation adds the amount to the balance as well.
ConfirmCounting(u, p) ==
    /\ Runs /\ RowsDecode
    /\ pay[p].status = "pending" /\ pay[p].org \in u
    /\ pay' = [pay EXCEPT ![p].status = "confirmed"]
    /\ paid' = paid + pay[p].amount
    /\ UNCHANGED <<client, rec, pairs>>

Confirm(u, p) ==
    /\ Runs /\ RowsDecode
    /\ pay[p].status = "pending" /\ pay[p].org \in u
    /\ pay' = [pay EXCEPT ![p].status = "confirmed"]
    /\ UNCHANGED <<client, paid, rec, pairs>>

\* GREATEST(paid_amount - amount, 0)
Reduced(a) == IF paid - a > 0 THEN paid - a ELSE 0

\* Variant: the status is not tested.
RejectAny(u, p) ==
    /\ Runs /\ RowsDecode
    /\ IsRow(pay[p]) /\ pay[p].org \in u
    /\ pay' = [pay EXCEPT ![p].status = "rejected"]
    /\ paid' = IF Home \in u THEN Reduced(pay[p].amount) ELSE paid
    /\ UNCHANGED <<client, rec, pairs>>

\* Here too UPDATE clients may change no row.
Reject(u, p) ==
    /\ Runs /\ RowsDecode
    /\ pay[p].status = "pending" /\ pay[p].org \in u
    /\ pay' = [pay EXCEPT ![p].status = "rejected"]
    /\ paid' = IF Home \in u THEN Reduced(pay[p].amount) ELSE paid
    /\ UNCHANGED <<client, rec, pairs>>

MatchedWith(p) == \E r \in Records : IsRow(rec[r]) /\ rec[r].with = p

\* By a user who sees the client.  Its payments of any organization go with it
\* (ON DELETE CASCADE), which the foreign key of matched_with refuses for a
\* payment that a record names.
DeleteClient ==
    /\ Runs /\ client
    /\ \A p \in Payments : ~MatchedWith(p)
    /\ client' = FALSE /\ paid' = 0
    /\ pay' = [p \in Payments |-> NoRow]
    /\ UNCHANGED <<rec, pairs>>

-----------------------------------------------------------------------------
(* Bank records: bank_records/handlers.rs.                                 *)

\* Lines whose transaction_id is known are skipped; one that is known but not
\* visible is inserted again and fails the whole request (UNIQUE).
Import(u, batch) ==
    /\ Runs
    /\ \A r \in DOMAIN batch : batch[r].org \in u /\ (IsRow(rec[r]) => rec[r].org \in u)
    /\ rec' = [r \in Records |->
                 IF r \in DOMAIN batch /\ ~IsRow(rec[r]) THEN batch[r] ELSE rec[r]]
    /\ UNCHANGED <<client, paid, pay, pairs>>

\* The organization is one for the whole batch.
Batches == UNION {[lines -> [org : {o}, status : {"new"}, amount : Amounts, date : Dates,
                             with : {None}]] : lines \in SUBSET Records \ {{}}, o \in Orgs}

\* Variant: the status is not tested.
IgnoreAny(u, r) ==
    /\ Runs /\ IsRow(rec[r]) /\ rec[r].org \in u
    /\ rec' = [rec EXCEPT ![r].status = "ignored"]
    /\ UNCHANGED <<client, paid, pay, pairs>>

Ignore(u, r) ==
    /\ Runs /\ IsRow(rec[r]) /\ rec[r].org \in u
    /\ rec' = [rec EXCEPT ![r].status = IF @ = "new" THEN "ignored" ELSE @]
    /\ UNCHANGED <<client, paid, pay, pairs>>

\* Variant: the status of the record is not tested.
MatchAnyRecord(u, r, p) ==
    /\ Runs
    /\ IsRow(rec[r]) /\ rec[r].org \in u /\ IsRow(pay[p])
    /\ rec' = [rec EXCEPT ![r].status = "matched", ![r].with = p]
    /\ pay' = IF pay[p].org \in u
              THEN [pay EXCEPT ![p].status = "confirmed", ![p].with = r] ELSE pay
    /\ UNCHANGED <<client, paid, pairs>>

\* The payment is confirmed whatever its status, amount and date; one that the
\* user does not see stays as it is, and the record is matched with it all the same.
MatchPayment(u, r, p) ==
    /\ Runs
    /\ rec[r].status = "new" /\ rec[r].org \in u /\ IsRow(pay[p])
    /\ rec' = [rec EXCEPT ![r].status = "matched", ![r].with = p]
    /\ pay' = IF pay[p].org \in u
              THEN [pay EXCEPT ![p].status = "confirmed", ![p].with = r] ELSE pay
    /\ UNCHANGED <<client, paid, pairs>>

\* The CTE "matches" of organization o.
Matches(o) ==
    {m \in Records \X Payments :
        LET r == rec[m[1]]  p == pay[m[2]]
        IN  /\ r.status = "new" /\ p.status = "pending"
            /\ r.org = o /\ p.org = o
            /\ p.with = None /\ p.amount = r.amount
            /\ r.date - p.date < 24 /\ p.date - r.date < 24}

\* By a user who sees organization o.
AutoScan(q, o) ==
    /\ Runs /\ pairs[q] = {} /\ Matches(o) # {}
    /\ pairs' = [pairs EXCEPT ![q] = Matches(o)]
    /\ UNCHANGED <<client, paid, pay, rec>>

Matched(q) == {m[1] : m \in pairs[q]}

\* Each record of the CTE gets one of its payments (LIMIT 1), without a look at
\* its status.  The foreign key requires that the payment is still there.
AutoCommit(q) ==
    \E choice \in [Matched(q) -> Payments] :
        /\ pairs[q] # {}
        /\ \A r \in Matched(q) : <<r, choice[r]>> \in pairs[q] /\ IsRow(pay[choice[r]])
        /\ rec' = [r \in Records |->
                     IF r \in Matched(q)
                     THEN [rec[r] EXCEPT !.status = "matched", !.with = choice[r]]
                     ELSE rec[r]]
        /\ pairs' = [pairs EXCEPT ![q] = {}]
        /\ UNCHANGED <<client, paid, pay, overlapped>>

\* A payment of the CTE is gone, or the connection drops.
AutoFail(q) ==
    /\ pairs[q] # {}
    /\ pairs' = [pairs EXCEPT ![q] = {}]
    /\ UNCHANGED <<client, paid, pay, rec, overlapped>>

-----------------------------------------------------------------------------
Next ==
    \/ \E u \in Users :
          \/ \E p \in Payments, a \in Amounts, d \in Dates :
                RecordPayment(u, p, a, d) \/ \E o \in Orgs : CreatePayment(u, p, o, a, d)
          \/ \E p \in Payments : Confirm(u, p) \/ Reject(u, p)
          \/ \E batch \in Batches : Import(u, batch)
          \/ \E r \in Records : Ignore(u, r) \/ \E p \in Payments : MatchPayment(u, r, p)
    \/ DeleteClient
    \/ \E q \in Reconcilers :
          AutoCommit(q) \/ AutoFail(q) \/ \E o \in Orgs : AutoScan(q, o)

Spec == Init /\ [][Next]_vars

-----------------------------------------------------------------------------
(* Properties.                                                             *)

\* Every row has the columns of its table, no payment has an amount that the
\* CHECK of the table forbids, and an auto_reconcile carries pairs of which
\* the record exists (no handler deletes records; a payment may go).
TypeOK ==
    /\ client \in BOOLEAN /\ paid \in Nat /\ overlapped \in BOOLEAN
    /\ pay \in [Payments -> PaymentRow \cup {NoRow}]
    /\ rec \in [Records -> RecordRow \cup {NoRow}]
    /\ pairs \in [Reconcilers -> SUBSET (Records \X Payments)]
    /\ \A q \in Reconcilers : \A m \in pairs[q] : IsRow(rec[m[1]])

\* The payments of the client's own organization that were not rejected, those of
\* them that no bank record settled, and the payments of other organizations.
OwnLive    == {p \in Payments : pay[p].status \in {"pending", "confirmed"}
                                 /\ pay[p].org = Home}
OwnLiveUnsettled == {p \in OwnLive : ~Reconciled(p)}
Foreign    == {p \in Payments : IsRow(pay[p]) /\ pay[p].org # Home}
ForeignDecided == {p \in Foreign : pay[p].status # "pending"}

\* The sum of some payments: the number of units of money in them.
Units(table, ps) == UNION {{p} \X (1 .. table[p].amount) : p \in ps}
SumOf(table, ps) == Cardinality(Units(table, ps))

\* The balance that create, record_payment, reject and the deletion keep in
\* another table counts every live payment of the client's organization at most
\* once, and only one that a bank record brought back from "rejected" may be
\* missing from it.  A payment of another organization is added and subtracted
\* only by users who see the client, so it may make the balance wrong, but by no
\* more than its amount: too high while it is there, too low once it is decided.
BalanceWithinLive ==
    client => /\ paid <= SumOf(pay, OwnLive \cup Foreign)
              /\ SumOf(pay, OwnLiveUnsettled) <= paid + SumOf(pay, ForeignDecided)

\* No interleaving of confirm, reject and match leaves a payment that a bank
\* record settled in any status but confirmed.
ReconciledIsConfirmed == \A p \in Payments : Reconciled(p) => pay[p].status = "confirmed"

\* A matched record names a payment that exists, also when the client is
\* deleted while an auto_reconcile is about to commit.
MatchedPaymentExists ==
    \A r \in Records : (rec[r].status = "matched") =>
                          rec[r].with # None /\ IsRow(pay[rec[r].with])

\* As long as nothing ran beside an auto_reconcile, a payment that says which
\* record it was reconciled with is the one that record names.  The converse does
\* not hold: a second match of the payment leaves the first record naming it, and
\* so does a match by a user who does not see the payment.
PairsAgree ==
    ~overlapped => \A p \in Payments : Reconciled(p) =>
                     /\ rec[pay[p].with].status = "matched"
                     /\ rec[pay[p].with].with = p

Settled == {r \in Records : rec[r].status \in {"matched", "ignored"}}

\* As long as nothing ran beside an auto_reconcile, no handler changes a record
\* that was matched or ignored.
SettledOnceAlone == [][~overlapped' => \A r \in Settled : rec'[r] = rec[r]]_vars

\* "Record already matched or not found" is what match_payment answers for a
\* record that is not new: such a record is not settled again.
SettledOnce == [][\A r \in Settled : rec'[r] = rec[r]]_vars
=============================================================================
