SPECIFICATION Spec
CONSTANTS
    Accounts = {a1, a2}
    Allowed = {}
    Mode = "invite"
    Invites = {i1}
    Attempts = {t1, t2}
    Requests = {r1}
    NoOne = NoOne
    NoInvite = NoInvite
    NoAttempt = NoAttempt
    MaxDeletions = 1
    TombstoneDays = 1
    BackupDays = 0
    RestoreDays = 1
SYMMETRY Symmetry
INVARIANTS InvitesMatchAdmissions
