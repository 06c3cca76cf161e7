--------------------------- MODULE MC_ResultStore ----------------------------
EXTENDS ResultStore
\* Every combination of the options; results and monitors differ in their nth.
MCConfigurations ==
    [mode : {"SYNC", "THREAD"},
     results_store_frequency : Frequencies, results_nth_stepping : {2},
     monitors_store_frequency : Frequencies \ {"DEBUG"},
     monitors_nth_stepping : {3},
     format : {"ENSIGHT", "STL_SURFACE", "VTK_LEGACY"},
     monitoring : BOOLEAN, catalyst : BOOLEAN, debug : BOOLEAN,
     ASYNC_MODE : {"SYNC", "THREAD"}]
=============================================================================
