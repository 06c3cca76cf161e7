SPECIFICATION Spec
CONSTANTS
    Configurations <- All
    Steps = 3
    MaxRejections = 2
INVARIANT
    AdaptivePrecisionIsUsed
