SPECIFICATION Spec
CONSTANTS
    MaxEvents = 1
    MaxFaults = 0
CHECK_DEADLOCK FALSE
INVARIANT
    NothingMissedOnceSettled
