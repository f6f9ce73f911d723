CONSTANTS
    Users = {u1, u2}
    Ids = {s1, s2}
    Requests = {r1, r2}
    None = None
    MaxTime = 2
    MaxRestarts = 2
    MaxFaults = 1
SPECIFICATION Spec
SYMMETRY Symmetry
INVARIANTS
    ListsAreRight
    NoCrossTalk
    StoredIsListed
    RestoreFaithful
    ShownRoles
CHECK_DEADLOCK FALSE
