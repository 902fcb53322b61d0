SPECIFICATION ServicesSpec
CONSTANT Offered <- AllAdapters
INVARIANT ServicesTypes
PROPERTY PaymentContractKept
PROPERTY InvoiceContractKept
PROPERTY OutcomeIsLearned
PROPERTY HoldsSettle
PROPERTY TreasuryIsRight
PROPERTY InvocationsAreRight
CHECK_DEADLOCK FALSE
