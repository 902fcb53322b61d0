SPECIFICATION FairSpec
CONSTANTS
    Invoices = {i1}
    Orders = {o1}
    Kinds <- RevolutCheckout
    Tasks = {t1}
    NoOrder = NoOrder
    Free = Free
    FiatFee = 3
    LightningFee = 1
    MaxCrashes = 0
PROPERTIES RecheckEnds
CHECK_DEADLOCK FALSE
