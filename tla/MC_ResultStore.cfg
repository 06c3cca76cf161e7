SPECIFICATION Spec
CONSTANTS
    Configurations <- MCConfigurations
    LoadSteps = 2
    Substeps = 4
INVARIANTS
    WrittenAsConfigured
PROPERTIES
    NothingDropped
    StoresAreDestroyed
