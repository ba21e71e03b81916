SPECIFICATION FairSpec
CONSTANTS
    u1 = u1
    u2 = u2
    Updates = {u1}
    Handlers = {h1, h2}
    Tokens = {t1, t2, t3}
    Recovery = recovery
    NoToken = noToken
    NoUpdate = noUpdate
    Route <- AllAgent
    Private = {}
    Lease = 2
    RenewEvery = 1
    MaxMisses = 0
    IngestTime = 1
    RecoveryTime = 2
    RecoveryBatch = 1
    Faults = {"send", "voice", "agent"}
PROPERTIES PendingIsRetried ClaimSettles
