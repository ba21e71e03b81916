SPECIFICATION Spec
CONSTANTS
    u1 = u1
    u2 = u2
    Updates = {u1, u2}
    Handlers = {h1}
    Tokens = {t1, t2, t3}
    Recovery = recovery
    NoToken = noToken
    NoUpdate = noUpdate
    Route <- AgentAndPlain
    Private = {}
    Lease = 2
    RenewEvery = 1
    MaxMisses = 0
    IngestTime = 1
    RecoveryTime = 2
    RecoveryBatch = 1
    Faults = {"db"}
SYMMETRY TokenSymmetry
INVARIANT PlainMessageUnanswered
