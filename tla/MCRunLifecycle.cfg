SPECIFICATION Spec
CONSTANTS
    Bodies <- MCBodies
    MaxBodies = 4
    MaxSegments = 2
    None = None
INVARIANTS CleanMeansOneRun RefusalBeforeLaunch
PROPERTIES CodesStay
CHECK_DEADLOCK FALSE
