SPECIFICATION Spec
CONSTANT Offered = {"Phoenixd"}
INVARIANT UnknownIsNeverPaid
CHECK_DEADLOCK FALSE
