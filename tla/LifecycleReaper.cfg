SPECIFICATION FairSpec
CONSTANTS
    s1 = s1
    c1 = c1
    w1 = w1
    w2 = w2
    SessionIds <- Sessions1
    Clients <- Clients1
    Workers <- Workers1
    Webhooks <- StartedAndEnded
    Batches <- OneEvent
    MaxCount = 2
    Idle = 1
    MaxTime = 3
    MaxFaults = 1
PROPERTIES
    ReapsOnlyIdleAtSweepStart
    IdleSessionsAreReaped
