SPECIFICATION Spec
CONSTANTS
    Size = 3
    Neighbours <- MCNeighbours
    Programs <- MCPrograms
INVARIANTS
    CallsNotMixed
    NothingLeftBehind
PROPERTIES
    AllCallsReturn
    DeliversAsPromised
