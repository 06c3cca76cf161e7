SPECIFICATION Spec
CONSTANTS
    Cases <- MCCases
    MaxSize = 5
INVARIANTS
    EveryPacketDelivered
PROPERTY AllReturn
