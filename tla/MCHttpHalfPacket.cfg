CONSTANTS
    Kinds <- AllKinds
    MaxRequests = 1
SPECIFICATION Spec
PROPERTIES
    HalfPacketWaits
CHECK_DEADLOCK FALSE
