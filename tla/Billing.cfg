SPECIFICATION MixedSpec
CONSTANTS
    i1 = i1
    i2 = i2
    r1 = r1
    r2 = r2
    Job = Job
    NoOne = NoOne
    NoInvoice = NoInvoice
    Invoices <- TwoInvoices
    Requests <- TwoRequests
    Amounts <- AmountValues
    TaxRates <- TaxRateValues
    Discounts <- DiscountValues
    LateFeeBp = 1000
    LateFees = TRUE
    MaxTotal = 13000
    MaxJobFaults = 1
INVARIANTS
    TypeOK
    PaymentIffPaid
    PaidInFull
PROPERTIES
    AloneImplementsLifecycle
    PaidIsFinal
    HandlersFinish
    OverdueIsNoticed
