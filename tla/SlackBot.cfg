SPECIFICATION Spec
CONSTANTS
    c1 = c1
    c2 = c2
    Order <- TwoConversations
    Discovery = FALSE
    PageSize = 1
    Budget = 2
    NoMark = NoMark
    Nowhere = Nowhere
    Kinds = {"human"}
    MaxPosts = 5
    MaxFails = 1
    MaxGaps = 4
INVARIANTS TypeOK GapsInOrder FairTurns
PROPERTIES CoverageSpec EventuallyScanned
