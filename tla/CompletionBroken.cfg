SPECIFICATION Spec
CONSTANTS
    Turns <- MCTurns
    Objects <- MCObjects
    MaxNoise = 0
PROPERTY ConfigurationMeansRefused
CHECK_DEADLOCK FALSE
