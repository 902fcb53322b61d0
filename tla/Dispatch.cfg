SPECIFICATION DispatchSpec
INVARIANT DispatchTypes
PROPERTY ListenersAreTold
PROPERTY SettledIsBooked
PROPERTY TrackersReport
PROPERTY NodeIsBelieved
CHECK_DEADLOCK FALSE
