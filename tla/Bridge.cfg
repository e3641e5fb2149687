SPECIFICATION FairSpec
CONSTANTS
    Processes = {"web", "worker"}
    Calls = {"a1", "a2", "a3", "b1", "h1", "w1"}
    Dids = {"did:a", "did:b"}
    SystemKeys = {"_health"}
    ProcOf <- MCProcOf
    KeyOf <- MCKeyOf
    ConcurrencyGlobal = 2
    ConcurrencyPerDid = 1
    QueueDepth = 2
    FreeLease = FreeLease
INVARIANTS CountsMatch NoIdleWait ChildLeased
PROPERTIES NoOvertaking Answered
