SPECIFICATION Spec
CONSTANTS
    s1 = s1
    c1 = c1
    w1 = w1
    w2 = w2
    SessionIds <- Sessions1
    Clients <- Clients1
    Workers <- Workers2
    Webhooks <- Visit
    Batches <- NoBatches
    MaxCount = 2
    Idle = 0
    MaxTime = 1
    MaxFaults = 1
SYMMETRY WorkerSymmetry
INVARIANTS
    TypeOK
    EndAnnouncedOnce
    WebhookAppliedOrSuperseded
    CountOfLastWebhook
    PublishesOnlyChanges
PROPERTY
    ImplementsSessionTable
