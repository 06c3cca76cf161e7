SPECIFICATION Spec
CONSTANTS
    Configurations <- All
    Steps = 3
    MaxRejections = 2
INVARIANTS
    SystemIsConsistent
    ConstraintsAreConsistent
    StopsConverged
    StoredAreSolutions
    InertiaContinues
