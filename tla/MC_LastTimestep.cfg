SPECIFICATION Spec
CONSTANTS
    Simulations <- LastSimulations
    Frequencies = {"LAST_TIMESTEP"}
    Nth = 2
    Precision = 40
    Rounding <- MCRounding
    MaxError = 1
INVARIANTS
    LastResultsStored
