SPECIFICATION Spec
CONSTANTS
    Ids = {1, 2}
    Bytes = {b1, b2}
    Domains = {v2, other}
    V2 = v2
    Registry = Registry
    Provenance = Provenance
    Absent = Absent
    MaxEdits = 3
INVARIANTS
    GreenCheckMeansGreenGates
    WholeRunIsGreen
PROPERTIES
    WritesWhatCanonConfirms
CHECK_DEADLOCK FALSE
