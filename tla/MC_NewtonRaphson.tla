--------------------------- MODULE MC_NewtonRaphson ---------------------------
EXTENDS NewtonRaphson

Settings ==
    [method : {"NEWTON_RAPHSON", "MODIFIED_NEWTON_RAPHSON"},
     first : BOOLEAN, second : BOOLEAN, adaptive : BOOLEAN,
     lineSearch : BOOLEAN, transient : BOOLEAN, maxIterations : {1, 3}]

\* LinearTimeStep has no settings; NewtonRaphson::solve refuses to start
\* without a convergence parameter.
All == {c \in Settings : c.first \/ c.second}
       \cup [method : {"LINEAR"}, first : {FALSE}, second : {FALSE},
             adaptive : {FALSE}, lineSearch : {FALSE}, transient : BOOLEAN,
             maxIterations : {1}]
===============================================================================
