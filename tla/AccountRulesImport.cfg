SPECIFICATION Spec
CONSTANTS
    Did = "did:a"
    WebRequests = {r1}
    WorkerRequests = {}
    Entries = {e1, e2}
    Operations = {"put", "draft"}
    Uploads <- MCUploads
    Inherited <- MCInherited
    ConcurrencyGlobal = 1
    ConcurrencyPerDid = 1
    QueueDepth = 1
    FreeLease = FreeLease
    MaxChanges = 2
PROPERTY ImportAsShown
