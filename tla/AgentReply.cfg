SPECIFICATION FairSpec
CONSTANTS
    Histories <- MCHistories
    Turns <- MCTurns
    ReadTools = {"query"}
    AdminTools = {"change"}
    NotJSON = {"bad"}
    MaxRounds = 1
    MaxCalls = 2
    Budget = 8
    InputSize <- MCInputSize
    ResultSizes = {1, 2}
    MaxAttempts = 2
    MaxCrashes = 1
    Results = {"done", "refused", "unreported", "late"}
    MaxFaults = 2
INVARIANTS
    ReplyInv
    ContextIsNewest
    AnswerOnce
    NothingLeftBehind
    AnswerIsStored
PROPERTIES
    NoEffectWithoutRight
    ExecutionEnds
CHECK_DEADLOCK FALSE
