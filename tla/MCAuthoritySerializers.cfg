SPECIFICATION Spec
CONSTANTS
    Requests <- MCRequests
    Distortions <- MCDistortions
    MaxTime = 3
INVARIANTS
    SerializersCannotDiverge
CHECK_DEADLOCK FALSE
