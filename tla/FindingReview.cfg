SPECIFICATION Spec
CONSTANTS
    Analyzers = {a1, a2}
    Reviewers = {r1}
    Nobody = Nobody
    NoRow = NoRow
    MaxActs = 3
    MaxReviews = 2
    MaxPurges = 0
    MaxDeaths = 0
INVARIANTS ReviewMatchesStatus
CHECK_DEADLOCK FALSE
