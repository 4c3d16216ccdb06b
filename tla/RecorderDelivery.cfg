SPECIFICATION FairSpec
CONSTANTS
    FlushIntervalMs = 1
    MaxBatchSize = 2
    MaxBackoffMs = 3
    FailureCap = 2
    MaxBoots = 2
    MaxEvents <- ThreeThenOne
    MaxFaults = 2
INVARIANTS
    TypeOK
    PendingIsTheUnstoredTail
    NoLostWakeUp
PROPERTIES
    ImplementsEventDelivery
    RecordedEventsAreStored
