-------------------------- MODULE MC_TimeStepping ---------------------------
EXTENDS TimeStepping
\* Load steps of each kind; a time step is at least twice the precision.
Steady(d) == [kind |-> "STEADY_STATE", duration |-> d, timeStep |-> 0]
Pseudo(d, n) == [kind |-> "PSEUDO", duration |-> d, substeps |-> n,
                 timeStep |-> 0]
Transient(d, dt, method, a, auto) ==
    [kind |-> "TRANSIENT", duration |-> d, timeStep |-> dt,
     method |-> method, alpha |-> a, auto |-> auto,
     minTimeStep |-> 100, maxTimeStep |-> 400, factor |-> 2]

MCRounding == -1..1
MCSimulations == {
    <<Pseudo(300, 3), Steady(60)>>,
    <<Steady(60), Transient(360, 100, "CRANK_NICOLSON", <<1, 1>>, TRUE)>>,
    <<Transient(240, 100, "BACKWARD_DIFF", <<1, 1>>, FALSE), Pseudo(200, 2)>>,
    <<Transient(460, 200, "USER", <<3, 4>>, TRUE)>>,
    <<Transient(400, 200, "USER", <<3, 2>>, TRUE)>> }

\* Two load steps of which only the last result is to be stored.
LastSimulations == {<<Pseudo(300, 3), Transient(240, 100, "CRANK_NICOLSON",
                                               <<1, 1>>, FALSE)>>}
=============================================================================
