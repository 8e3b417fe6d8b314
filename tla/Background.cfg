\* Each part on its own small instance.
CONSTANTS
    NCommits = 4
    CommitDate <- FourCommits
    Huge = {4}
    Tries = 2
    CommitBudget = 2
    ListMax = 3
    NPaths = 5
    Batch = 2
    FileBudget = 3
    MaxEdits = 2
    NStreams = 2
    MaxItems = 3
    ItemDate <- ThreeItems
    Answers <- TwoThreads
    MailPage = 2
    ItemBudget = 2
    MaxAge = 1
    NFindings = 3
    ExportPage = 2
    MaxHours = 3
    MaxSeen = 4
    Workers = {w1, w2}
    Findings = {f1, f2}
    Interval = 2
    MaxClock = 2
    Beats = {b1, b2}
    MaxSilences = 2
    StagesOf <- ThreeFindings
    Limit = 2
    MaxRows = 3
    MaxActs = 2
    MaxFaults = 1
SPECIFICATION Spec
INVARIANTS TypeOK OnlyReadIsPassed AlertsArrive ChainRecorded
PROPERTIES CatchesUp
CHECK_DEADLOCK FALSE
