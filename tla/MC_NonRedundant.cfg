CONSTANTS
    Size = 3
    Problems <- MCNonRedundant
SPECIFICATION Spec
INVARIANT SameLambdasOnNeighbours
