SPECIFICATION Spec
CONSTANTS
    i1 = i1
    i2 = i2
    r1 = r1
    r2 = r2
    Job = Job
    NoOne = NoOne
    NoInvoice = NoInvoice
    Invoices <- OneInvoice
    Requests <- TwoRequests
    Amounts <- OneAmount
    TaxRates <- TaxRateValues
    Discounts <- FewDiscounts
    LateFeeBp = 1000
    LateFees = FALSE
    MaxTotal = 12000
    MaxJobFaults = 0
INVARIANT AtMostOnePayment
