CONSTANTS
    Browsers = {b1, b2}
    Users = {alice, bob}
    Ids = {i1, i2, i3, i4}
    Handlers = {h1, h2}
    None = None
    MaxRequests = 4
SPECIFICATION Spec
SYMMETRY Symmetry
INVARIANTS
    ActsForItsUser
    LoggedOutForGood
    OnlineIsLoggedIn
CHECK_DEADLOCK FALSE
