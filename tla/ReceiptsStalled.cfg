SPECIFICATION Spec
CONSTANTS
    u1 = u1
    u2 = u2
    Updates = {u1, u2}
    Handlers = {h1}
    Tokens = {t1, t2, t3, t4}
    Recovery = recovery
    NoToken = noToken
    NoUpdate = noUpdate
    Route <- AgentAndCommand
    Private = {}
    Lease = 1
    RenewEvery = 1
    MaxMisses = 2
    IngestTime = 2
    RecoveryTime = 2
    RecoveryBatch = 1
    Faults = {"db", "send", "voice"}
SYMMETRY TokenSymmetry
PROPERTIES ClaimEndsWithItsOwner DoneIsFinal
