SPECIFICATION Spec
CONSTANTS
    Urls = {u1, u2}
    DedupWindow = 4
    RateWindow = 2
    RecentSize = 2
    MaxLag = 2
    MaxTime = 6
    MaxEvents = 4
INVARIANTS
    TypeOK
    SensitiveUrlOncePerWindow
    RateRightUpToLag
