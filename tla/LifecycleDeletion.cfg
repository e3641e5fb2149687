SPECIFICATION Spec
CONSTANTS
    Accounts = {a1}
    Allowed = {a1}
    Mode = "allowlist"
    Invites = {}
    Attempts = {t1}
    Requests = {r1, r2}
    NoOne = NoOne
    NoInvite = NoInvite
    NoAttempt = NoAttempt
    MaxDeletions = 1
    TombstoneDays = 2
    BackupDays = 1
    RestoreDays = 1
SYMMETRY Symmetry
INVARIANTS DeletionHolds NoWriteAfterErasure ReleasesReviewed
PROPERTY NewConsentStays
