SPECIFICATION Spec
CONSTANTS
    Size = 3
    CallSequences <- MCCallSequences
INVARIANTS
    WalkStaysInside
    RequestsSuffice
    MessagesFit
    SliceReturned
PROPERTIES
    AllCallsReturn
