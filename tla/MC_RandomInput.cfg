CONSTANTS
    Size = 4
    Problems <- MCProblems
SPECIFICATION Spec
INVARIANTS ElementsAtTheirNodes NodesComplete RanksAgree
