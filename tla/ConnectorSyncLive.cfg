SPECIFICATION Spec
CONSTANTS
    Connectors = {c1}
    Scheduled = {c1}
    Schedulers = {i1, i2}
    Requesters = {}
    Never = Never
    NoClaim = NoClaim
    NoConnector = NoConnector
    ClaimSecs = 3
    ScanMax = 2
    CatchUp = 1
    Interval = 2
    LoopSleep = 1
    MaxPerTick = 3
    LastItem = 1
    MaxTime = 11
    MaxDeaths = 1
PROPERTIES OrphanRecovers
CHECK_DEADLOCK FALSE
