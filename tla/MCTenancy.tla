------------------------------- MODULE MCTenancy -------------------------------
(***************************************************************************)
(* Constants for model-checking Tenancy.                                   *)
(***************************************************************************)
EXTENDS Tenancy

CONSTANTS r1, r2, k1, k2, o1, o2, n1, n2, e1

TwoRequests == {r1, r2}
TwoConns    == {k1, k2}
TwoOrgs     == {o1, o2}
TwoNumbers  == {n1, n2}
OneEmail    == {e1}
Operator    == [skip |-> FALSE, org |-> o1]
Admin       == [skip |-> TRUE, org |-> None]
Unattached  == [skip |-> FALSE, org |-> None]
ThreeUsers  == {Operator, Admin, Unattached}
Existing    == {<<"clients", o1>>, <<"clients", o2>>}
=============================================================================
