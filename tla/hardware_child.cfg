\* A child of eight ticks and a grace period of three.
SPECIFICATION Spec
CONSTANTS
    Timeout = 8
    Grace = 3
INVARIANTS
    ResultTellsTheChild
PROPERTIES
    WatchdogReturns
    WatchdogAdvances
CHECK_DEADLOCK FALSE
