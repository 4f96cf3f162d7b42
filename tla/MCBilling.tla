------------------------------ MODULE MCBilling ------------------------------
(***************************************************************************)
(* Constants for model-checking Billing.  Two invoices let the job lock    *)
(* one row and wait for the other; two handlers are what a race needs.     *)
(* 10000 tiyin at 12% make a total of 11200; a discount of 11200 makes the *)
(* zero-total invoice that create_invoice accepts, one of 12000 makes the  *)
(* negative total that it refuses.                                         *)
(***************************************************************************)
EXTENDS Billing

CONSTANTS i1, i2, r1, r2

OneInvoice  == {i1}
TwoInvoices == {i1, i2}
TwoRequests == {r1, r2}

AmountValues   == {0, 10000}
OneAmount      == {10000}
TaxRateValues  == {1200}
DiscountValues == {0, 11200, 12000}
FewDiscounts   == {0, 11200}

=============================================================================
