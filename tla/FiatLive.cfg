SPECIFICATION FairSpec
CONSTANTS
    Invoices = {i1}
    Orders = {o1}
    Kinds <- OnePerProvider
    Tasks = {t1, t2}
    NoOrder = NoOrder
    Free = Free
    FiatFee = 3
    LightningFee = 1
    MaxCrashes = 1
PROPERTIES PaidIsDecided CreditIsBooked
CHECK_DEADLOCK FALSE
