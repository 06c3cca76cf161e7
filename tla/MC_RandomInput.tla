--------------------------- MODULE MC_RandomInput ----------------------------
EXTENDS RandomInput

\* Eight nodes, two on each of four processes at first.  Their numbers may have
\* gaps; then a process has the numbers from behind the last one of the process
\* before it.
Nodes(gap) == {gap * n : n \in 0..7}
HomeBorders(gap) ==
    [i \in 0..Size |-> IF i = 0 THEN 0 ELSE gap * (2 * i - 1) + 1]

E(i, nodes) == [id |-> i, nodes |-> nodes, volume |-> TRUE]
F(i, nodes) == [id |-> i, nodes |-> nodes, volume |-> FALSE]
On(e0, e1, e2, e3) == <<e0, e1, e2, e3>>

\* Elements that share nodes with two others, with all of them, or across the
\* mesh; some nodes are only on its boundary.
Meshes == {
    On(<<E(0, <<0, 2>>)>>, <<E(1, <<2, 4>>)>>, <<E(2, <<4, 6>>)>>,
       <<E(3, <<6, 0>>), F(4, <<6, 7>>)>>),
    On(<<E(0, <<7, 0>>), E(1, <<5, 2>>)>>, <<>>,
       <<E(2, <<3, 4, 1>>), F(3, <<1, 7>>)>>, <<E(4, <<6, 0, 5>>)>>),
    On(<<E(0, <<0, 4, 6>>)>>, <<E(1, <<2, 3, 0>>), F(2, <<3, 5>>)>>,
       <<E(3, <<5, 0, 4>>)>>, <<E(4, <<7, 4, 1>>)>>),
    On(<<E(0, <<6, 4, 2>>), E(1, <<1, 3>>)>>, <<F(2, <<2, 3>>)>>,
       <<E(3, <<4, 0, 7>>)>>, <<E(4, <<7, 6, 1>>), E(5, <<5, 3>>)>>),
    On(<<E(0, <<1, 7>>), E(1, <<0, 6>>)>>, <<E(2, <<2, 5>>), E(3, <<3, 4>>)>>,
       <<E(4, <<4, 1>>)>>, <<E(5, <<6, 2>>)>>) }

Renumbered(mesh, gap) ==
    [r \in Rank |-> [k \in DOMAIN mesh[r + 1] |->
        [mesh[r + 1][k] EXCEPT !.nodes = [i \in DOMAIN @ |-> gap * @[i]]]]]

\* Where the curve puts the nodes: as they are, on the next process, across, and
\* the two ends of the mesh on one process.
Owners == {
    [n \in 0..7 |-> n \div 2],
    [n \in 0..7 |-> ((n \div 2) + 1) % 4],
    [n \in 0..7 |-> n % 4],
    [n \in 0..7 |-> 3 - (n \div 2)],
    [n \in 0..7 |-> <<0, 1, 1, 2, 3, 3, 2, 0>>[n + 1]] }

\* A line, two pairs, a star, a ring, and everybody.
Curves == {
    <<{1}, {0, 2}, {1, 3}, {2}>>, <<{3}, {2}, {1}, {0}>>,
    <<{1, 2, 3}, {0}, {0}, {0}>>, <<{1, 3}, {0, 2}, {1, 3}, {0, 2}>>,
    <<{1, 2, 3}, {0, 2, 3}, {0, 1, 3}, {0, 1, 2}>> }

MCProblems == {
    [nDistribution |-> HomeBorders(gap), nodes |-> Nodes(gap),
     borders |-> [i \in 0..Size |-> 2 * i],
     bucket |-> [n \in Nodes(gap) |-> 2 * o[n \div gap] + (n % 2)],
     regions |-> [n \in Nodes(gap) |-> IF n % 4 = 0 THEN {"R"} ELSE {}],
     elements |-> Renumbered(mesh, gap),
     sfcNeighbors |-> [r \in Rank |-> c[r + 1]]] :
    o \in Owners, mesh \in Meshes, c \in Curves, gap \in {1, 3}}
=============================================================================
