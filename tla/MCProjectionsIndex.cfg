SPECIFICATION HarnessSpec
CONSTANTS
    Vectors <- MCVectors
    RefLists <- MCRefLists
    NoDriver = NoDriver
    MaxMoves = 1
INVARIANTS
    GreenMeansPure
    GreenMeansComplete
    NoFalseAlarm
CHECK_DEADLOCK FALSE
