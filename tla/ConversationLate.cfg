SPECIFICATION Spec
CONSTANTS
    Live <- LivePosts
    Stale <- StalePosts
    Texts <- ThreadTexts
    Size <- ThreadSize
    MaxStored = 4
    Depth = 3
    Chars = 6
    RecentLimit = 3
PROPERTIES
    ParentKept
CHECK_DEADLOCK FALSE
