SPECIFICATION MCSpec
CONSTANTS
    Accounts = {a1}
    Subjects = {1}
    Followed = {}
    MaxPreviews = 1
    MaxJobs = 1
    Workers = {w1}
    ActionBatchMax = 2
    QueuedActionsGlobal = 2
    EffectsPerDidDay = 2
    EffectsGlobalDay = 2
    MaxMoves = 2
CHECK_DEADLOCK FALSE
INVARIANTS NoUnaskedResume
