SPECIFICATION Spec
CONSTANTS
    n1 = n1
    n2 = n2
    short = short
    full = full
    internal = internal
    Order <- MCOrder
    Urls <- MCUrls
    Internal = internal
    Final <- MCFinal
    Past <- MCPast
    Budget = 2
    FetchFloor = 1
    OutputRetries = 1
    Drafts <- MCDrafts
INVARIANTS
    ConfirmedWasRead
    ReceiptsHold
    OddsBoughtOnce
PROPERTY
    ReadStaysCitable
CHECK_DEADLOCK FALSE
