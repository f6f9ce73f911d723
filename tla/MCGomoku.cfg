CONSTANTS
    BoardSize = 3
    Five = 3
    MaxPending = 2
    MaxResets = 1
SPECIFICATION MCSpec
INVARIANTS
    PageTypeOK
    RulesKept
    ViewInSync
PROPERTIES
    ThinkingEnds
CHECK_DEADLOCK FALSE
