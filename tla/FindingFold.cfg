SPECIFICATION Spec
CONSTANTS
    Analyzers = {a1, a2}
    Reviewers = {r1}
    Nobody = Nobody
    NoRow = NoRow
    MaxActs = 3
    MaxReviews = 2
    MaxPurges = 1
    MaxDeaths = 1
INVARIANTS TypeOK OneFinding RepeatsCounted AlertsAreEarned
PROPERTIES AnalysesEnd
CHECK_DEADLOCK FALSE
