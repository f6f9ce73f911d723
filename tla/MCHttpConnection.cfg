CONSTANTS
    Kinds <- AllKinds
    MaxRequests = 3
SPECIFICATION Spec
INVARIANTS
    Framing
    AnsweredInStep
PROPERTIES
    ServiceSpec
    Served
CHECK_DEADLOCK FALSE
