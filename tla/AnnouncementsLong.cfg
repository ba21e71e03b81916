SPECIFICATION FairSpec
CONSTANTS
    Syncers = {s1}
    NoSyncer = NoSyncer
    MaxChanges = 3
    MaxCrashes = 1
    Size <- LongSecond
    PartLimit = 2
    MessageLimit = 2
    DigestSize = 2
PROPERTIES
    AdministratorIsTold
CHECK_DEADLOCK FALSE
