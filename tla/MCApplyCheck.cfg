SPECIFICATION Spec
CONSTANTS
    A = A
    B = B
    X = X
    a = a
    b = b
    x = x
    u = u
    old = old
    new = new
    None = None
    Locators = {A, B, X}
    Scope = {A, B}
    Paths = {a, b, x, u}
    TargetMap <- OneToOne
    Digests = {old, new}
    MaxEntries = 2
    MaxEdits = 1
PROPERTIES
    ScopeHeld
    ImplementsOptimisticCommit
    AllOrNothing
CHECK_DEADLOCK FALSE
