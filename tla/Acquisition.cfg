SPECIFICATION MCSpec
CONSTANTS
    a1 = a1
    a2 = a2
    c1 = c1
    c2 = c2
    c3 = c3
    Calls = {c1, c2, c3}
    Accounts = {a1, a2}
    Kind <- MCKind
    AccountOf <- MCAccountOf
    AcquisitionGlobal = 1
    AcquisitionPerDid = 1
    AcquisitionQueueDepth = 1
    BridgeGlobal = 2
    BridgePerDid = 1
    MaxPolls = 1
    NoActor = NoActor
    MaxQuoteDepth = 1
    MaxAuthorsPerItem = 2
    MaxItemExposures = 3
    MaxExposures = 4
    MaxExposureSubjects = 3
    MaxRetained = 5
    MaxMutePages = 2
    Subjects = {1, 2, 3}
    Inputs <- MCInputs
    Follows = {2}
    Mutes <- MCMutes
    Budget = 9
    Spent = {0, 7}
    PageSize = 1
    MaxPages = 2
    RelationBatch = 1
    RelationWidth = 2
    ProfileBatch = 2
    ProfileWidth = 1
    MutePageSize = 1
    Managed = {3}
    Attends = TRUE
    Reviews = TRUE
CHECK_DEADLOCK FALSE
INVARIANTS WindowIsQuiet EndedHoldsNothing StandingIsEarned BudgetSuffices CompleteIsEarned
PROPERTY AllEnd
