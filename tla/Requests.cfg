\* Each part on its own small instance; see the README for the bounds.  r1 and r2 are two
\* requests of whatever kind the part has, so that one symmetry serves them all.
CONSTANTS
    People = {alice, bob}
    Removals = {r1, r2}
    Companies = {acme, globex}
    MaxTokens = 2
    Codes = {c1}
    NoCode = NoCode
    NPairs = 3
    Clients = {r1, r2}
    CodeTTL = 1
    AccessTTL = 1
    RefreshTTL = 2
    KeepRevoked = 1
    MaxTime = 3
    Guessers = {r1, r2, r3}
    MaxFails = 3
    MaxRows = 8
    SignIns = {s1}
    Endings = {r1, r2, r3}
    MaxSessions = 2
    Deliveries = {r1, r2}
    Pool = {r1, r2}
    InflightTTL = 1
    SeenTTL = 2
    MaxClock = 3
    MaxQueue = 2
    MaxDeaths = 1
    Items = {1, 2, 3}
    OrgOf <- ThreeEvents
    FlushAt = 2
    DailyCap = 1
    Slots = 1
    MaxDay = 1
    Talks = {r1, r2}
    Verdict <- FourTexts
    Conversations <- SomeConversations
    Unreadable = {"scan"}
    HistoryBudget = 2
    MaxContent = 2
    SeenMax = 3
    MaxTurns = 3
    MaxChanges = 1
    Flows = {r1, r2}
    MaxClaims = 2
    MaxFailures = 3
    MaxKills = 1
    Webhooks = {r1, r2}
    NSubs = 2
    MaxEvents = 3
    MaxDeliveries = 4
    MaxFaults = 1
    KeyUses = {r1, r2, r3}
    Life = 3
    RenewAhead = 1
    MaxSubs = 2
    MaxAge = 5
    MaxMisses = 1
    Hooks = {r1, r2}
    Transcripts <- ThreeTranscripts
    RecallTTL = 1
    DenialTTL = 2
    MaxPrompts = 3
    Calls = {r1, r2}
    Finding <- ThreeMessages
    Credentials = {"credential"}
    MaxReasons = 2
    MaxSends = 3
    MaxUnchecked = 1
    Connects = {r1, r2}
    NAddresses = 3
    MaxKeys = 3
    MaxRequests = 5
    Enrollers = {r1, r2}
    MaxUses = 2
    Quota = 2
    MaxMints = 4
    Factors = {r1, r2}
    NSecrets = 2
    NBatches = 2
    NCodes = 1
    MaxStep = 2
    Mailers = {r1, r2}
    Week = 1
    Retries = 2
    MaxReports = 2
    MaxDays = 1
    MaxOutages = 1
SPECIFICATION Spec
INVARIANTS TypeOK AccountsHold ClaimIsItsOwn AccessEnds NotificationsHold CountsAddUp
    ContentIsKept TurnsAreHeld PlanSettles KeysHold
CHECK_DEADLOCK FALSE
SYMMETRY RequestsAreAlike
