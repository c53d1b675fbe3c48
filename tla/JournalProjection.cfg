SPECIFICATION ProjectionSpec
CONSTANTS
    None = None
    MaxLines = 3
    MaxSegments = 3
    MaxEvents = 1
    MaxOverwrites = 1
INVARIANTS CurrentProjectionIsExact
CHECK_DEADLOCK FALSE
