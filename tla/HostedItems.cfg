SPECIFICATION MCFairSpec
CONSTANTS
    Accounts = {a1, a2}
    Subjects = {1, 2}
    Followed = {}
    MaxPreviews = 2
    MaxJobs = 2
    Workers = {w1}
    ActionBatchMax = 2
    QueuedActionsGlobal = 3
    EffectsPerDidDay = 2
    EffectsGlobalDay = 2
    MaxMoves = 2
CHECK_DEADLOCK FALSE
INVARIANTS WriteIsJournaled LateWritesBounded WritesWithinBudget
PROPERTIES SettledIsFinal RunEnds
