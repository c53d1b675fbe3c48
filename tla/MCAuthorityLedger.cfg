SPECIFICATION Spec
CONSTANTS
    Requests <- MCRequests
    Distortions <- MCDistortions
    MaxTime = 3
INVARIANTS
    VerifiedMeansSigned
    ReadersAgree
    LapsedStaysLapsed
PROPERTIES
    ChainKeepsVerdict
    VendoringOnlyRevokes
CHECK_DEADLOCK FALSE
