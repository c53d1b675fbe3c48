SPECIFICATION FairSpec
CONSTANTS
    Holders = {a, b}
    LeaseIds = {id1, id2}
    Ttls = {1, 2}
    None = None
    Horizon = 4
INVARIANTS IInv HardExclusive HardGrantShown
PROPERTIES HardLeaseKept LeakedLeaseHeals ImplementsTenure
CHECK_DEADLOCK FALSE
