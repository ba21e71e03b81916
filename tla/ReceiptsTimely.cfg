SPECIFICATION Spec
CONSTANTS
    u1 = u1
    u2 = u2
    Updates = {u1}
    Handlers = {h1, h2}
    Tokens = {t1, t2, t3, t4}
    Recovery = recovery
    NoToken = noToken
    NoUpdate = noUpdate
    Route <- AllAgent
    Private = {}
    Lease = 4
    RenewEvery = 1
    MaxMisses = 2
    IngestTime = 1
    RecoveryTime = 4
    RecoveryBatch = 1
    Faults = {"db", "send", "voice", "agent"}
SYMMETRY TokenHandlerSymmetry
INVARIANTS SingleActiveOwner QuietWhenSettled DoneAnswered
PROPERTY ImplementsOwnership
