SPECIFICATION Spec
CONSTANTS
    c1 = c1
    c2 = c2
    Order <- OneConversation
    Discovery = TRUE
    PageSize = 1
    Budget = 2
    NoMark = NoMark
    Nowhere = Nowhere
    Kinds = {"human", "other"}
    MaxPosts = 4
    MaxFails = 0
    MaxGaps = 3
PROPERTIES CursorMovesOn
CHECK_DEADLOCK FALSE
