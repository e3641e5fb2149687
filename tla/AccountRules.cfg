SPECIFICATION Spec
CONSTANTS
    Did = "did:a"
    WebRequests = {r1, r2}
    WorkerRequests = {w1}
    Entries = {e1, e2}
    Operations = {"context", "put", "draft"}
    Uploads <- MCUploads
    Inherited <- MCInherited
    ConcurrencyGlobal = 1
    ConcurrencyPerDid = 1
    QueueDepth = 2
    FreeLease = FreeLease
    MaxChanges = 2
SYMMETRY MCSymmetry
INVARIANT MirrorFaithful
PROPERTIES AckedIsSeen NoLostChange
