SPECIFICATION Spec
CONSTANTS
    Users = {"ann", "bob"}
    Leavers = {"bob"}
    Admins = {"ann"}
    Photos = {"photo"}
    OwnerOf <- MCOwnerOf
    PhotoLimit = 1
    Day = 1
    MaxMessages = 2
    MaxTime = 2
    MaxCrashes = 1
INVARIANT
    LeaverInactive
CHECK_DEADLOCK FALSE
