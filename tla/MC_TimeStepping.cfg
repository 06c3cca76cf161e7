SPECIFICATION Spec
CONSTANTS
    Simulations <- MCSimulations
    Frequencies = {"NEVER", "EVERY_TIMESTEP", "EVERY_NTH_TIMESTEP"}
    Nth = 2
    Precision = 40
    Rounding <- MCRounding
    MaxError = 1
INVARIANTS
    TimeInLoadStep
    WholeLoadApplied
    StartsFromLastSolution
PROPERTIES
    StoredInOrder
    SimulationEnds
