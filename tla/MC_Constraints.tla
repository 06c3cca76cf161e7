--------------------------- MODULE MC_Constraints ----------------------------
EXTENDS Constraints

\* Meshes of four domains on three processes.
Distributed == {[p \in 0..Size |-> <<0, 1, 2, 4>>[p + 1]],
                [p \in 0..Size |-> <<0, 2, 3, 4>>[p + 1]],
                [p \in 0..Size |-> <<0, 1, 3, 4>>[p + 1]]}

Chain == {{0, 1}, {1, 2}, {2, 3}}
Interfaces == {Chain,
               {{1, 2, 3}, {0, 2}, {1, 3}},
               {{0, 1, 3}, {0, 1, 2}, {0, 3}, {0, 2, 3}},
               {{0, 1, 2, 3}, {0, 1}, {1, 2, 3}, {2, 3}}}

\* Nodes with the domains D are on the surface of the mesh, with free faces of
\* the processes seen, or not.
Rim(seen) == [free |-> seen, cut |-> {}]
Inside(m, D) == [free |-> {}, cut |-> IF Cardinality(D) = 1 THEN {}
                                      ELSE nodeRanks(m, D)]

\* The nodes of each interface and of the interior of each domain: a single one,
\* or two or three if the last domain is odd.  Which of them are on the surface
\* says "rim": none; one that is seen from the first of its processes, or from
\* all; or two that are seen from different ones, and an inner one in between.
NodesOf(m, inter, rim) ==
    LET first(D) == Rim({d2p(m, Min(D))})
        last(D) == Rim({d2p(m, Max(D))})
        all(D) == Rim(nodeRanks(m, D))
        Even(D) == CASE rim = "none" -> <<Inside(m, D)>>
                     [] rim = "all" -> <<all(D)>>
                     [] OTHER -> <<last(D)>>
        Odd(D) == CASE rim = "none" -> <<Inside(m, D), Inside(m, D)>>
                    [] rim = "all" -> <<all(D), Inside(m, D)>>
                    [] rim = "first" -> <<Inside(m, D), first(D)>>
                    [] rim = "mixed" -> <<last(D), Inside(m, D), first(D)>>
    IN [D \in inter \cup {{d} : d \in 0..3} |->
            IF Max(D) % 2 = 1 THEN Odd(D) ELSE Even(D)]

\* The nodes numbered v of domain d are fixed in a DOF; "all" nodes in the last
\* one, and "none".
Settings(DOFs) ==
    IF DOFs = 2
    THEN {<<"all", "first">>, << <<0, 2>>, "first">>, << <<2, 1>>, "all">>}
    ELSE {<<"none", "mixed">>, <<"all", "first">>, << <<0, 1>>, "mixed">>,
          << <<0, 2>>, "none">>, << <<2, 1>>, "all">>, << <<2, 2>>, "mixed">>}

Dirichlet(n, DOFs, sel) ==
    [D \in DOMAIN n |-> [f \in 0..(DOFs - 1) |->
        IF sel = "none" THEN {}
        ELSE IF sel = "all" THEN IF f = DOFs - 1 THEN DOMAIN n[D] ELSE {}
        ELSE IF sel[1] \in D /\ sel[2] \in DOMAIN n[D] THEN {sel[2]} ELSE {}]]

Problem(dd, inter, rim, DOFs, redundant, sels) ==
    LET n == NodesOf([domains |-> dd], inter, rim) IN
    [domains |-> dd, nodes |-> n, DOFs |-> DOFs,
     steps |-> [k \in DOMAIN sels |->
                    [redundant |-> redundant[k], scaling |-> TRUE,
                     dirichlet |-> Dirichlet(n, DOFs, sels[k])]]]

\* Redundant multipliers on every mesh; a second load step with other Dirichlet
\* nodes; and multipliers without redundancy where no interval has more than two
\* domains.
MCProblems ==
    UNION {{Problem(dd, inter, s[2], k, <<TRUE>>, <<s[1]>>) :
        dd \in Distributed, inter \in Interfaces, s \in Settings(k)} : k \in {1, 2}}
    \cup {Problem(dd, inter, "first", 1, <<TRUE, TRUE>>, <<s, <<0, 1>> >>) :
        dd \in Distributed, inter \in Interfaces, s \in {"none", "all"}}
    \cup {Problem(dd, Chain, s[2], 1, <<FALSE, TRUE>>, <<s[1], <<0, 1>> >>) :
        dd \in Distributed, s \in Settings(1)}

\* One interface of three domains and two nodes.
MCNonRedundant ==
    {Problem(dd, {{1, 2, 3}}, "none", 1, <<FALSE>>, <<"none">>) :
        dd \in Distributed}
=============================================================================
