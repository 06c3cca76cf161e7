SPECIFICATION Spec
CONSTANTS
    MeshBuffers <- MCMeshBuffers
    SolutionBuffers <- MCSolutionBuffers
    Sizes = {1, 2}
    MaxUpdates = 4
INVARIANTS
    ExclusiveAccess
    UnlockOnlyLocked
    ExecReadsCurrentBuffers
    NoLeakedBuffer
PROPERTIES
    CallUndisturbed
    EveryCallDelivered
    StoreIsDestroyed
    ImplementsHandoff
