SPECIFICATION Spec
CONSTANTS
    s1 = s1
    c1 = c1
    w1 = w1
    w2 = w2
    SessionIds <- Sessions1
    Clients <- Clients1
    Workers <- Workers2
    Webhooks <- StartedAndEnded
    Batches <- Resent
    MaxCount = 2
    Idle = 1
    MaxTime = 0
    MaxFaults = 1
SYMMETRY WorkerSymmetry
INVARIANTS
    ActivityAnnouncedOnce
    AcceptedBatchIsStored
    EveryWritePublishes
