----------------------------- MODULE MC_Exchange -----------------------------
EXTENDS Exchange
\* A chain of processes: the middle one has a lower and an upper neighbour.
MCNeighbours == [r \in Rank |-> {n \in Rank : n = r - 1 \/ n = r + 1}]
\* Targets that are not symmetric: everybody sends to 0, and 0 to the last one.
MCTargets == [r \in Rank |-> IF r = 0 THEN {Size - 1} ELSE {0}]
MCCalls == {[kind |-> k, targets |-> MCTargets] : k \in Kinds}
MCPrograms == [1..3 -> MCCalls]
=============================================================================
