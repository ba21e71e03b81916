SPECIFICATION FairSpec
CONSTANTS
    Syncers = {s1, s2}
    NoSyncer = NoSyncer
    MaxChanges = 4
    MaxCrashes = 1
    Size <- EvenSizes
    PartLimit = 2
    MessageLimit = 3
    DigestSize = 2
INVARIANTS
    QueuesInv
    NormallyOnce
PROPERTIES
    GoneOnlyIfShown
    AdministratorIsTold
CHECK_DEADLOCK FALSE
