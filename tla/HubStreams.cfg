SPECIFICATION FairSpec
CONSTANTS
    s1 = s1
    s2 = s2
    t1 = t1
    t2 = t2
    SessionIds <- TwoSessions
    Messages <- TwoMessages
    Filters <- OneAndOverview
    Streams <- TwoStreams
    Buffer = 2
    MaxMessages = 3
INVARIANTS
    TypeOK
    GaplessFeed
    ChannelClosedOnce
PROPERTIES
    DropsOnlyFullStreams
    ClosedHubEndsStreams
