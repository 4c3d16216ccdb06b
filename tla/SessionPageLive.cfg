SPECIFICATION FairSpec
CONSTANTS
    MaxEvents = 2
    MaxFaults = 2
CHECK_DEADLOCK FALSE
INVARIANTS
    TypeOK
    LiveFeedOnce
    LiveFeedComplete
    ReplayOnlyAfterEnd
    PlaybackInStep
PROPERTY
    PageFollowsEnd
