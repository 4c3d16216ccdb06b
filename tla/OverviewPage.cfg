SPECIFICATION Spec
CONSTANTS
    Sessions = {s1, s2}
    MaxWrites = 2
    MaxKeys = 2
    MaxFaults = 1
SYMMETRY Interchangeable
CHECK_DEADLOCK FALSE
INVARIANTS
    TypeOK
    SettledOverviewIsCurrent
    KeyCountKeepsWhatWasSeen
    LiveRowsFirst
