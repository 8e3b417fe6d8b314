SPECIFICATION Spec
CONSTANTS
    c1 = c1
    c2 = c2
    Order <- TwoConversations
    Discovery = TRUE
    PageSize = 1
    Budget = 2
    NoMark = NoMark
    Nowhere = Nowhere
    Kinds = {"human", "other"}
    MaxPosts = 4
    MaxFails = 1
    MaxGaps = 3
CHECK_DEADLOCK FALSE
PROPERTIES CoverageSpec MarksAdvance
