SPECIFICATION Spec
CONSTANTS
    Invoices = {i1, i2}
    Orders = {o1}
    Kinds <- OneOfEach
    Tasks = {t1, t2}
    NoOrder = NoOrder
    Free = Free
    FiatFee = 3
    LightningFee = 1
    MaxCrashes = 1
INVARIANTS TypeOK CreditIsPaid BookedOnce AnnouncedStays
CHECK_DEADLOCK FALSE
