SPECIFICATION FairSpec
CONSTANTS
    MaxBody = 1
    MaxSessionChars = 2
    MaxClientChars = 2
    MaxBatch = 2
    MaxSeq = 2
    MaxDataBytes = 2
    TsWindow = 1
    MaxLimit = 2
    DefaultLimit = 1
    Environments <- MCEnvironments
    Forms <- MCForms
    WordSize = 4
CHECK_DEADLOCK FALSE
INVARIANTS
    TypeOK
    DatabaseOutlivesRequests
    AnswersTellWhatWasDone
PROPERTIES
    StreamsDoNotHoldShutdown
    SignalEndsTheProcess
    ReaperKeepsSweeping
