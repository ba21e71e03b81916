SPECIFICATION Spec
CONSTANTS
    Live <- LivePosts
    Stale <- StalePosts
    Texts <- ThreadTexts
    Size <- ThreadSize
    MaxStored = 6
    Depth = 3
    Chars = 6
    RecentLimit = 3
INVARIANTS
    EdgesAgree
    ContextIsOneThread
    ConversationInv
PROPERTIES
    ParentInContext
CHECK_DEADLOCK FALSE
