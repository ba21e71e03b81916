SPECIFICATION Spec
CONSTANTS
    Turns <- MCTurns
    Objects <- MCObjects
    MaxNoise = 2
INVARIANTS
    TurnIsExact
    CallsAreSound
    TransientIsMasked
PROPERTIES
    ChatEnds
CHECK_DEADLOCK FALSE
