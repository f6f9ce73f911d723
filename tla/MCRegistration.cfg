CONSTANTS
    Requests = {r1, r2, r3}
    Names = {ann, bob}
    Passwords = {p, q}
    UniqueNames = TRUE
    Nothing = Nothing
    MaxFaults = 1
SPECIFICATION RegisterSpec
SYMMETRY Symmetry
INVARIANTS
    RegisteredIsOwn
    ConflictIsReal
CHECK_DEADLOCK FALSE
