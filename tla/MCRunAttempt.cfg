SPECIFICATION FairSpec
CONSTANTS
    Envelopes <- MCEnvelopes
    Materials <- MCMaterials
    Listings <- MCListings
    Contexts <- MCContexts
    MaxChanges = 2
    MaxAge = 2
INVARIANTS
    WorkerRunsWhatWasBound
    JournalIsAccepted
    OneRecordVouches
    SourcesAreTreeFiles
    CaptureIsATree
PROPERTIES
    ImplementsSealedLaunch
    ArmedRunEnds
CHECK_DEADLOCK FALSE
