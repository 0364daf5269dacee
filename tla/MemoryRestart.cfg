\* Liveness of Start when the old goroutine may be raising an alert.
CONSTANTS
    Controllers = {c1, c2}
    Free = Free
    MaxCalls = 3
    MaxLevel = 1
    Threshold = 1
    MaxAlerts = 2
SPECIFICATION MonitorFairSpec
CHECK_DEADLOCK FALSE
PROPERTIES
    StartReturns
