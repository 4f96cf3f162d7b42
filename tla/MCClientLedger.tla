--------------------------- MODULE MCClientLedger ---------------------------
(***************************************************************************)
(* Constants for model-checking ClientLedger.  Two payments and two        *)
(* records are what a record matched twice, or a payment matched by two    *)
(* records, needs.  0 is the amount that no payment may have.  Dates 0 and *)
(* 24 are exactly a day apart and do not match.                            *)
(***************************************************************************)
EXTENDS ClientLedger, TLC

CONSTANTS p1, p2, r1, r2, q1, q2, home, other

TwoPayments == {p1, p2}
TwoRecords  == {r1, r2}
OneReconciler  == {q1}
TwoReconcilers == {q1, q2}

TwoAmounts   == {0, 1}
ThreeAmounts == {0, 1, 2}
OneOrg  == {home}
TwoOrgs == {home, other}

OneDate  == {0}
TwoDates == {0, 24}

\* Rows and requests are interchangeable in every definition.
Symmetry == Permutations(TwoPayments) \cup Permutations(TwoRecords)
            \cup Permutations(TwoReconcilers)
=============================================================================
