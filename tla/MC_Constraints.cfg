CONSTANTS
    Size = 3
    Problems <- MCProblems
SPECIFICATION Spec
INVARIANTS NumberedOnce JumpsComplete DualVectorsAgree CountedOnce ScaledByOtherSide
