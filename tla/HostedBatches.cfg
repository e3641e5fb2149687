SPECIFICATION FairSpec
CONSTANTS
    Accounts = {a1}
    Subjects = {1}
    Followed = {}
    MaxPreviews = 2
    MaxJobs = 2
    Workers = {w1}
    ActionBatchMax = 2
    QueuedActionsGlobal = 2
    EffectsPerDidDay = 2
    EffectsGlobalDay = 2
    MaxMoves = 2
CHECK_DEADLOCK FALSE
INVARIANTS AtMostOneWrite AttemptOnce NoWriteOverUnresolved UnprovenSuspends AttributionIsEarned ReleaseOnlyOwnMutes ConfirmedIsJournaled
PROPERTIES EffectsAsApproved OldestIsTaken
