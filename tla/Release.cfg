SPECIFICATION FairSpec
CONSTANTS
    None = None
    RunIds = {r1, r2}
    MaxCommits = 1
    MaxVersion = 2
INVARIANTS
    IInv
    LiveWasVerified
    OneCommitOneContent
    GreenRunIsLive
PROPERTIES PartialPublishHeals
CHECK_DEADLOCK FALSE
