----------------------------- MODULE Constraints ------------------------------
(***************************************************************************)
(* The Lagrange multipliers that hold the domains of FETI together: how    *)
(* espreso::Constraints numbers them over all processes, which rows of B1  *)
(* each domain gets, how the rows are scaled by the diagonals of the       *)
(* neighbours' matrices, and how the solver sums a dual vector over the    *)
(* processes that share its multipliers.  No process ever sees the rows of *)
(* another one: that both sides of an interface use the same number for    *)
(* the same jump depends on equal arithmetic and on equal orders.          *)
(*                                                                         *)
(* Abstraction: multipliers count from 0 (a row of B1 minus one); a value  *)
(* of a vector is the set of the things summed up in it; the calls of      *)
(* Communication are what the module Collective promises of them.          *)
(***************************************************************************)
EXTENDS NodeIntervals

CONSTANT Problems   \* the meshes, with DOFs per node and load steps

\* A load step has the settings of FETI ("redundant", "scaling") and its
\* Dirichlet nodes by their domains and DOF, on which all processes agree.
IsProblem(pr) ==
    /\ IsMesh(pr) /\ pr.DOFs \in Nat \ {0}
    /\ Len(pr.steps) \in Nat \ {0} /\ DOMAIN pr.steps = 1..Len(pr.steps)
    /\ \A k \in DOMAIN pr.steps : \A D \in DOMAIN pr.nodes :
        \A f \in 0..(pr.DOFs - 1) :
            pr.steps[k].dirichlet[D][f] \subseteq DOMAIN pr.nodes[D]

ASSUME ProblemsAssumption == \A pr \in Problems : IsProblem(pr)

VARIABLES
    problem,    \* the mesh and its load steps
    mesh,       \* what the processes have made of the mesh
    step, loc,  \* the load step of a process, and where it is in it
    round,      \* the call of computeIntervalsOffsets: "dirichlet" or "gluing"
    offset,     \* its local "offset"
    entered,    \* what a process passed to exscan, call by call
    total,      \* what the last process has broadcast, call by call
    channel,    \* channel[<<s, r>>]: messages on their way, in order
    intervalOffset,         \* _intervalDirichletOffset, _intervalGluingOffset
    size,                   \* _dirichletSize, _gluingSize
    domainDirichletSize,    \* _domainDirichletSize, by domain
    B1, B1duplicity,        \* the rows of each domain and their scaling
    B1clustersMap,          \* the multipliers of each process
    dual                    \* a dual vector after All_Reduce_lambdas_compB

numbering == <<round, offset, entered, total, intervalOffset, size>>
rows == <<domainDirichletSize, B1, B1duplicity, B1clustersMap>>
vars == <<problem, mesh, step, loc, numbering, channel, rows, dual>>

Domains == 0..(problem.domains[Size] - 1)
DOF == Upto(problem.DOFs)
Own(r) == Sorted(OwnDomains(problem, r), <)
config(r) == problem.steps[step[r]]
nodes(r, i) == Len(mesh.nodes[r][i])
nodeAt(r, i, v) == <<i.domains, mesh.nodes[r][i][v + 1]>>

\* The fixed nodes of an interval by their places (_intervalDirichletNodes).
Fixed(r, i, f) == {v \in 0..(nodes(r, i) - 1) :
    mesh.nodes[r][i][v + 1] \in config(r).dirichlet[i.domains][f]}
Free(r, i, f) == 0..(nodes(r, i) - 1) \ Fixed(r, i, f)
dirichlet(r, i, f) == Sorted(Fixed(r, i, f), <)

Init ==
    /\ problem \in Problems
    /\ mesh = Arranged(problem)
    /\ step = [r \in Rank |-> 1]
    /\ loc = [r \in Rank |-> "count"]
    /\ round = [r \in Rank |-> "dirichlet"]
    /\ offset = [r \in Rank |-> 0]
    /\ entered = [r \in Rank |-> <<>>]
    /\ total = <<>>
    /\ channel = [k \in Rank \X Rank |-> <<>>]
    /\ intervalOffset = [r \in Rank |-> [dirichlet |-> <<>>, gluing |-> <<>>]]
    /\ size = [r \in Rank |-> [dirichlet |-> 0, gluing |-> 0]]
    /\ domainDirichletSize = [d \in Domains |-> 0]
    /\ B1 = [d \in Domains |-> <<>>]
    /\ B1duplicity = [d \in Domains |-> <<>>]
    /\ B1clustersMap = [r \in Rank |-> <<>>]
    /\ dual = [r \in Rank |-> <<>>]

-----------------------------------------------------------------------------
(* Constraints::computeIntervalsOffsets, for both of its calls.            *)

dsize(r, i) == SumUpto(LAMBDA f : Cardinality(Fixed(r, i, f)), problem.DOFs)

\* How many multipliers an interval needs.
getDirichletSize(r, i) ==
    IF config(r).redundant THEN Cardinality(i.domains) * dsize(r, i) ELSE dsize(r, i)

getGluingSize(r, i) ==
    LET n == Cardinality(i.domains)
        all == problem.DOFs * nodes(r, i)
    IN IF n = 1 THEN 0
       ELSE IF config(r).redundant
       THEN (all - dsize(r, i)) * ((n * (n - 1)) \div 2)
       ELSE all * (n - 1)

getsize(r, i) == IF round[r] = "dirichlet" THEN getDirichletSize(r, i)
                 ELSE getGluingSize(r, i)

Intervals(r) == mesh.pintervals[r]
OwnedBy(r, q) == {i \in ToSet(Intervals(r)) : Owner(problem, i) = q}
Of(r, q) == Among(Intervals(r), OwnedBy(r, q))

\* The offset grows by the size of each of the own intervals.
Offsets(r) == Sums([k \in DOMAIN Of(r, r) |-> getsize(r, Of(r, r)[k])])
LocalOffset(r, i) == Offsets(r)[Cardinality(InFrontOf(Of(r, r), i))]
LocalSize(r) == Offsets(r)[Len(Of(r, r))]

Lower(r) == {q \in mesh.neighbours[r] : q < r}
Upper(r) == {q \in mesh.neighbours[r] : q > r}

\* The sizes of the own intervals are summed up and exscan is called.
Count(r) ==
    /\ loc[r] = "count"
    /\ entered' = [entered EXCEPT ![r] = Append(@, LocalSize(r))]
    /\ loc' = [loc EXCEPT ![r] = "scan"]
    /\ UNCHANGED <<problem, mesh, step, round, offset, total, channel,
                   intervalOffset, size, rows, dual>>

\* The offsets, in the order of the sender's intervals, for an upper neighbour.
SharedOffsets(r, q, first) ==
    LET shared == Among(Of(r, r), {i \in OwnedBy(r, r) : q \in ranks(problem, i)})
    IN [k \in DOMAIN shared |-> first + LocalOffset(r, shared[k])]

\* exscan ends with a barrier; receiveLowerKnownSize sends to the upper ones.
Scan(r) ==
    LET n == Len(entered[r])
        first == SumUpto(LAMBDA q : entered[q][n], r)
    IN /\ loc[r] = "scan"
       /\ \A q \in Rank : n \in DOMAIN entered[q]
       /\ offset' = [offset EXCEPT ![r] = first]
       /\ channel' = [k \in Rank \X Rank |->
            IF k[1] = r /\ k[2] \in Upper(r)
            THEN Append(channel[k], SharedOffsets(r, k[2], first))
            ELSE channel[k]]
       /\ loc' = [loc EXCEPT ![r] = "offsets"]
       /\ UNCHANGED <<problem, mesh, step, round, entered, total,
                      intervalOffset, size, rows, dual>>

Received(r, from) ==
    channel' = [k \in Rank \X Rank |->
        IF k[2] = r /\ k[1] \in from THEN Tail(channel[k]) ELSE channel[k]]

\* Offsets of foreign intervals are taken in the order of the own intervals,
\* from a buffer of zeros.
SetOffsets(r) ==
    LET own(i) == offset[r] + LocalOffset(r, i)
        foreign(i) ==
            LET received == Head(channel[<<Owner(problem, i), r>>])
                n == 1 + Cardinality(InFrontOf(Of(r, Owner(problem, i)), i))
            IN IF n \in DOMAIN received THEN received[n] ELSE 0
        base == IF round[r] = "gluing" THEN size[r].dirichlet ELSE 0
        end == offset[r] + LocalSize(r)
    IN /\ loc[r] = "offsets"
       /\ \A q \in Lower(r) : channel[<<q, r>>] # <<>>
       /\ Received(r, Lower(r))
       /\ intervalOffset' = [intervalOffset EXCEPT ![r][round[r]] =
            [i \in ToSet(Intervals(r)) |->
                base + (IF Owner(problem, i) = r THEN own(i) ELSE foreign(i))]]
       /\ offset' = [offset EXCEPT ![r] = end]
       /\ total' = IF r = Size - 1 THEN Append(total, end) ELSE total
       /\ loc' = [loc EXCEPT ![r] = "total"]
       /\ UNCHANGED <<problem, mesh, step, round, entered, size, rows, dual>>

\* MPI_Bcast from the last process; then update calls it again, for the gluing.
GetTotal(r) ==
    /\ loc[r] = "total" /\ Len(entered[r]) \in DOMAIN total
    /\ size' = [size EXCEPT ![r][round[r]] = total[Len(entered[r])]]
    /\ round' = [round EXCEPT ![r] = "gluing"]
    /\ loc' = [loc EXCEPT ![r] =
            IF round[r] = "dirichlet" THEN "count" ELSE "insert"]
    /\ UNCHANGED <<problem, mesh, step, offset, entered, total, channel,
                   intervalOffset, rows, dual>>

-----------------------------------------------------------------------------
(* Constraints::B1DirichletInsert, after B1 was cleared.                   *)

DirichletRows(r, d) ==
    LET Row(i, f) ==
            IF ~config(r).redundant /\ dindex(i, d) # 0 THEN <<>>
            ELSE LET count(e) == Len(dirichlet(r, i, e)) IN
                [k \in 1..count(f) |->
                    [lambda |-> intervalOffset[r].dirichlet[i]
                            + dindex(i, d) * count(f)
                            + Cardinality(i.domains) * SumUpto(count, f) + k - 1,
                     node |-> nodeAt(r, i, dirichlet(r, i, f)[k]), dof |-> f,
                     value |-> 1]]
    IN ForEach(mesh.gintervals[d],
               LAMBDA i : ForEach(DOF, LAMBDA f : Row(i, f)))

\* The ranks of an interval for which the Dirichlet rows are repeated.
Repeated(r, i) == IF config(r).redundant THEN iranks(problem, i)
                  ELSE <<Owner(problem, i)>>

DirichletMap(r) ==
    LET Entries(i, f, k) ==
            LET count(e) == Len(dirichlet(r, i, e))
                first == intervalOffset[r].dirichlet[i] + (k - 1) * count(f)
                            + Len(Repeated(r, i)) * SumUpto(count, f)
            IN IF Repeated(r, i)[k] # r THEN <<>>
               ELSE [n \in 1..count(f) |-> <<first + n - 1, r>>]
    IN ForEach(Intervals(r), LAMBDA i : ForEach(DOF, LAMBDA f :
            FlattenSeq([k \in DOMAIN Repeated(r, i) |-> Entries(i, f, k)])))

\* The values of the domains in Own(r) are replaced.
Replaced(old, r, New(_)) ==
    [d \in Domains |-> IF d \in OwnDomains(problem, r) THEN New(d) ELSE old[d]]

Insert(r) ==
    LET empty == size[r].dirichlet = 0
        New(d) == IF empty THEN <<>> ELSE DirichletRows(r, d)
        written(d) == ~empty /\ \E i \in ToSet(mesh.gintervals[d]) :
                        config(r).redundant \/ dindex(i, d) = 0
    IN /\ loc[r] = "insert"
       /\ B1' = Replaced(B1, r, New)
       /\ B1duplicity' = Replaced(B1duplicity, r,
                LAMBDA d : [k \in DOMAIN New(d) |-> [of |-> {}, among |-> {}]])
       /\ domainDirichletSize' = Replaced(domainDirichletSize, r,
                LAMBDA d : IF written(d) THEN Len(New(d))
                           ELSE domainDirichletSize[d])
       /\ B1clustersMap' = [B1clustersMap EXCEPT ![r] =
                IF empty THEN <<>> ELSE DirichletMap(r)]
       /\ loc' = [loc EXCEPT ![r] = "glue"]
       /\ UNCHANGED <<problem, mesh, step, numbering, channel, dual>>

-----------------------------------------------------------------------------
(* Constraints::B1GlueElements: the rows of one node of an interval.  Both *)
(* domains of a jump walk through the pairs of domains on their own.       *)

\* What "LMindex" has skipped after "lm" iterations of the first loop.
Skip(n, lm) == MapThenSumSet(LAMBDA l : n - l, 1..lm)

\* The pairs of n domains, each with a multiplier of its own.
Pairs(n) == (n * (n - 1)) \div 2

\* How far "LMindex" moves while domain number di of n writes one node.
Advance(n, di) == Skip(n, di) + (n - di - 1) + Pairs(n - di - 1)

\* Mutant of redundantglue: the dropped multipliers of Dirichlet nodes count.
redundantglueCounted(r, d, i, f, v) ==
    LET n == Cardinality(i.domains)
        di == dindex(i, d)
        begin == Max({0} \cup {w + 1 : w \in {u \in Fixed(r, i, f) : u < v}})
        LMcounter == f * nodes(r, i) + begin
        LMindex == intervalOffset[r].gluing[i] + LMcounter * Pairs(n)
                    + (v - begin) * Advance(n, di)
    IN [lm \in 1..(n - 1) |->
            IF lm <= di
            THEN [lambda |-> LMindex + Skip(n, lm - 1) + di - lm,
                  node |-> nodeAt(r, i, v), dof |-> f, value |-> -1]
            ELSE [lambda |-> LMindex + Skip(n, di) + lm - di - 1,
                  node |-> nodeAt(r, i, v), dof |-> f, value |-> 1]]

\* One jump for each pair of domains.  "LMcounter" counts the nodes written
\* before; the pieces between Dirichlet nodes start anew from it.
redundantglue(r, d, i, f, v) ==
    LET n == Cardinality(i.domains)
        di == dindex(i, d)
        begin == Max({0} \cup {w + 1 : w \in {u \in Fixed(r, i, f) : u < v}})
        LMcounter == SumUpto(LAMBDA e : Cardinality(Free(r, i, e)), f)
                    + Cardinality({w \in Free(r, i, f) : w < begin})
        LMindex == intervalOffset[r].gluing[i] + LMcounter * Pairs(n)
                    + (v - begin) * Advance(n, di)
    IN [lm \in 1..(n - 1) |->
            IF lm <= di
            THEN [lambda |-> LMindex + Skip(n, lm - 1) + di - lm,
                  node |-> nodeAt(r, i, v), dof |-> f, value |-> -1]
            ELSE [lambda |-> LMindex + Skip(n, di) + lm - di - 1,
                  node |-> nodeAt(r, i, v), dof |-> f, value |-> 1]]

\* One jump for each domain and its successor.
nonredundantglue(r, d, i, f, v) ==
    LET n == Cardinality(i.domains)
        di == dindex(i, d)
        LMindex == intervalOffset[r].gluing[i] + f * nodes(r, i) * (n - 1)
        row(l, x) == [lambda |-> l, node |-> nodeAt(r, i, v), dof |-> f, value |-> x]
    IN (IF di > 0 THEN <<row(LMindex + di + v - 1, -1)>> ELSE <<>>)
        \o (IF di + 1 < n THEN <<row(LMindex + di + v, 1)>> ELSE <<>>)

GluingRows(r, d) ==
    LET OfNodes(i, f) ==
            IF config(r).redundant
            THEN ForEach(Sorted(Free(r, i, f), <),
                         LAMBDA v : redundantglue(r, d, i, f, v))
            ELSE ForEach(Upto(nodes(r, i)),
                         LAMBDA v : nonredundantglue(r, d, i, f, v))
    IN ForEach(mesh.gintervals[d],
               LAMBDA i : ForEach(DOF, LAMBDA f : OfNodes(i, f)))

\* The pairs of ranks of an interval, in the order of their multipliers.
RankPairs(r, i) ==
    LET p == iranks(problem, i) IN
    IF config(r).redundant
    THEN ForEach(Upto(Len(p)), LAMBDA k :
            [l \in 1..(Len(p) - k - 1) |-> <<p[k + 1], p[k + 1 + l]>>])
    ELSE [k \in 1..(Len(p) - 1) |-> <<p[k], p[k + 1]>>]

\* Mutant of nmap: a jump within the process is a shared one.
nmapWithItself(r, i, first) ==
    LET p == RankPairs(r, i)
        Entry(k) == IF r \notin {p[k][1], p[k][2]} THEN <<>>
                    ELSE << <<first + k - 1, r,
                              IF p[k][1] = r THEN p[k][2] ELSE p[k][1]>> >>
    IN FlattenSeq([k \in DOMAIN p |-> Entry(k)])

\* nmap: the multipliers of a node that this process shares, and with whom.
nmap(r, i, first) ==
    LET p == RankPairs(r, i)
        Entry(k) == IF r \notin {p[k][1], p[k][2]} THEN <<>>
                    ELSE IF p[k] = <<r, r>> THEN << <<first + k - 1, r>> >>
                    ELSE << <<first + k - 1, r,
                              IF p[k][1] = r THEN p[k][2] ELSE p[k][1]>> >>
    IN FlattenSeq([k \in DOMAIN p |-> Entry(k)])

\* Mutant of GluingMap: the Dirichlet nodes are not left out.
GluingMapOfAll(r) ==
    LET Written(i) == problem.DOFs * nodes(r, i)
    IN ForEach(Intervals(r), LAMBDA i : ForEach(Upto(Written(i)), LAMBDA v :
            nmap(r, i, intervalOffset[r].gluing[i] + v * Len(RankPairs(r, i)))))

GluingMap(r) ==
    LET isize(i, f) == IF config(r).redundant THEN Cardinality(Free(r, i, f))
                       ELSE nodes(r, i)
        Written(i) == SumUpto(LAMBDA f : isize(i, f), problem.DOFs)
    IN ForEach(Intervals(r), LAMBDA i : ForEach(Upto(Written(i)), LAMBDA v :
            nmap(r, i, intervalOffset[r].gluing[i] + v * Len(RankPairs(r, i)))))

Scaled(r) == config(r).redundant /\ config(r).scaling

-----------------------------------------------------------------------------
(* Constraints::B1DuplicityUpdate: jumps are weighted by the diagonals of  *)
(* the matrices, which the neighbours send by position only.               *)

\* D[d]: the diagonal of the matrix of domain d.
Diagonal(r, d) ==
    ForEach(mesh.gintervals[d], LAMBDA i : ForEach(Upto(nodes(r, i)), LAMBDA v :
        [f \in 1..problem.DOFs |->
            [domain |-> d, node |-> nodeAt(r, i, v), dof |-> f - 1]]))

\* The part of it that belongs to the n-th interval of the domain (from 0).
Slice(r, d, n) ==
    LET g == mesh.gintervals[d]
        DOFOffset == SumUpto(LAMBDA k : nodes(r, g[k + 1]), n)
    IN SubSeq(Diagonal(r, d), problem.DOFs * DOFOffset + 1, Len(Diagonal(r, d)))

SentDiagonals(r, q) ==
    ForEach(Intervals(r), LAMBDA i :
        IF q \notin ranks(problem, i) THEN <<>>
        ELSE ForEach(SelectSeq(Own(r), LAMBDA d : d \in i.domains), LAMBDA d :
            SubSeq(Slice(r, d, Cardinality(InFrontOf(mesh.gintervals[d], i))),
                   1, problem.DOFs * nodes(r, i))))

\* Intervals of one domain are left out by the receiver, in all its counters.
SharedBefore(r, i) ==
    {j \in InFrontOf(Intervals(r), i) : Cardinality(j.domains) > 1}

\* diagonals[i]: the entry of domain e for a node and a DOF.
DiagonalOf(r, i, e, v, f) ==
    LET q == d2p(problem, e)
        OfRank(j) == {d \in j.domains : d2p(problem, d) = q}
        rindex == MapThenSumSet(LAMBDA j : Cardinality(OfRank(j)) * nodes(r, j),
                                SharedBefore(r, i))
                    + Cardinality({d \in OfRank(i) : d < e}) * nodes(r, i)
        own == Cardinality({j \in SharedBefore(r, i) : e \in j.domains})
    IN IF q = r THEN Slice(r, e, own)[problem.DOFs * v + f + 1]
       ELSE Head(channel[<<q, r>>])[problem.DOFs * (rindex + v) + f + 1]

Duplicities(r, d) ==
    LET OfNode(i, f, v) ==
            LET other == Sorted(i.domains \ {d}, <) IN
            [k \in DOMAIN other |->
                [of |-> {DiagonalOf(r, i, other[k], v, f)},
                 among |-> {DiagonalOf(r, i, e, v, f) : e \in i.domains}]]
    IN ForEach(mesh.gintervals[d], LAMBDA i : ForEach(DOF, LAMBDA f :
            ForEach(Sorted(Free(r, i, f), <), LAMBDA v : OfNode(i, f, v))))

\* The rows and the map are extended; with scaling, the diagonals are sent.
Glue(r) ==
    LET New(d) == B1[d] \o GluingRows(r, d) IN
    /\ loc[r] = "glue"
    /\ B1' = Replaced(B1, r, New)
    /\ B1duplicity' = Replaced(B1duplicity, r, LAMBDA d : B1duplicity[d] \o
            ForEach(GluingRows(r, d),
                    LAMBDA row : << [of |-> {}, among |-> row.node[1]] >>))
    /\ B1clustersMap' = [B1clustersMap EXCEPT ![r] = @ \o GluingMap(r)]
    /\ channel' = IF ~Scaled(r) THEN channel
                  ELSE [k \in Rank \X Rank |->
                        IF k[1] = r /\ k[2] \in mesh.neighbours[r]
                        THEN Append(channel[k], SentDiagonals(r, k[2]))
                        ELSE channel[k]]
    /\ loc' = [loc EXCEPT ![r] = IF Scaled(r) THEN "scale" ELSE "solve"]
    /\ UNCHANGED <<problem, mesh, step, numbering, domainDirichletSize, dual>>

\* Behind the Dirichlet rows, the duplicities are overwritten one by one.
Scale(r) ==
    LET New(d) == LET fresh == Duplicities(r, d) IN
            [k \in DOMAIN B1duplicity[d] |->
                IF k <= domainDirichletSize[d] THEN B1duplicity[d][k]
                ELSE fresh[k - domainDirichletSize[d]]]
    IN /\ loc[r] = "scale"
       /\ \A q \in mesh.neighbours[r] : channel[<<q, r>>] # <<>>
       /\ Received(r, mesh.neighbours[r])
       /\ B1duplicity' = Replaced(B1duplicity, r, New)
       /\ loc' = [loc EXCEPT ![r] = "solve"]
       /\ UNCHANGED <<problem, mesh, step, numbering, domainDirichletSize, B1,
                      B1clustersMap, dual>>

-----------------------------------------------------------------------------
(* The solver: SuperCluster::SetupCommunicationLayer, and the sum of what  *)
(* the domains contribute to a dual vector.                                *)

\* The places of the multipliers shared with a process, in the map's order.
my_comm_lambdas(r, q) ==
    LET big == B1clustersMap[r] IN
    SelectSeq([p \in DOMAIN big |-> p],
              LAMBDA p : Len(big[p]) > 2 /\ big[p][3] = q)

\* The multipliers this process counts in a scalar product.
my_lamdas_ddot_filter(r) ==
    LET big == B1clustersMap[r] IN
    {p \in DOMAIN big : Len(big[p]) > 2 => big[p][2] < big[p][3]}

\* lambda_map_sub_local: where the multipliers of a domain are in the map of
\* its process, by one walk through both.
lambda_map_sub_local(r, d) ==
    LET big == B1clustersMap[r]
        walk[i \in 1..(Len(big) + 1), j \in 1..(Len(B1[d]) + 1)] ==
            IF i > Len(big) \/ j > Len(B1[d]) THEN <<>>
            ELSE IF big[i][1] > B1[d][j].lambda THEN walk[i, j + 1]
            ELSE IF big[i][1] < B1[d][j].lambda THEN walk[i + 1, j]
            ELSE <<i>> \o walk[i + 1, j + 1]
    IN walk[1, 1]

\* What domain d adds to its k-th multiplier: all of its rows of that number,
\* unless the number occurred before.
Contribution(d, k) ==
    IF \E j \in 1..(k - 1) : B1[d][j].lambda = B1[d][k].lambda THEN {}
    ELSE {<<d, B1[d][j]>> : j \in {l \in DOMAIN B1[d] :
                                    B1[d][l].lambda = B1[d][k].lambda}}

\* The contributions of all domains, with the place they are added at.
Contributions(r) ==
    UNION {LET local == lambda_map_sub_local(r, d) IN
           UNION {{local[k]} \X Contribution(d, k) : k \in DOMAIN local} :
           d \in OwnDomains(problem, r)}

compressed_tmp(r) ==
    LET added == Contributions(r) IN
    [p \in DOMAIN B1clustersMap[r] |-> {x[2] : x \in {y \in added : y[1] = p}}]

\* All_Reduce_lambdas_compB: the shared parts go to each neighbour ...
SendLambdas(r) ==
    /\ loc[r] = "solve"
    /\ dual' = [dual EXCEPT ![r] = compressed_tmp(r)]
    /\ channel' = [k \in Rank \X Rank |->
            IF k[1] = r /\ k[2] \in mesh.neighbours[r]
            THEN LET shared == my_comm_lambdas(r, k[2]) IN
                 Append(channel[k],
                        [n \in DOMAIN shared |-> dual'[r][shared[n]]])
            ELSE channel[k]]
    /\ loc' = [loc EXCEPT ![r] = "reduce"]
    /\ UNCHANGED <<problem, mesh, step, numbering, rows>>

\* ... and theirs are added, by position.
ReduceLambdas(r) ==
    LET from(q, p) ==
            LET shared == my_comm_lambdas(r, q)
                message == Head(channel[<<q, r>>])
                both == DOMAIN message \cap DOMAIN shared
            IN UNION {message[n] : n \in {l \in both : shared[l] = p}}
    IN /\ loc[r] = "reduce"
       /\ \A q \in mesh.neighbours[r] : channel[<<q, r>>] # <<>>
       /\ Received(r, mesh.neighbours[r])
       /\ dual' = [dual EXCEPT ![r] = [p \in DOMAIN @ |->
                @[p] \cup UNION {from(q, p) : q \in mesh.neighbours[r]}]]
       /\ loc' = [loc EXCEPT ![r] = "solved"]
       /\ UNCHANGED <<problem, mesh, step, numbering, rows>>

\* The next load step: setDirichlet calls Constraints::update.
NextLoadStep(r) ==
    /\ loc[r] = "solved" /\ step[r] < Len(problem.steps)
    /\ step' = [step EXCEPT ![r] = @ + 1]
    /\ round' = [round EXCEPT ![r] = "dirichlet"]
    /\ loc' = [loc EXCEPT ![r] = "count"]
    /\ UNCHANGED <<problem, mesh, offset, entered, total, intervalOffset, size,
                   channel, rows, dual>>

Step(r) ==
    \/ Count(r) \/ Scan(r) \/ SetOffsets(r) \/ GetTotal(r)
    \/ Insert(r) \/ Glue(r) \/ Scale(r)
    \/ SendLambdas(r) \/ ReduceLambdas(r) \/ NextLoadStep(r)

Finished == \A r \in Rank : loc[r] = "solved" /\ step[r] = Len(problem.steps)
Done == Finished /\ UNCHANGED vars

Next == (\E r \in Rank : Step(r)) \/ Done

Spec == Init /\ [][Next]_vars

-----------------------------------------------------------------------------
(* Properties *)

\* The processes that know the numbers of their current load step; none of
\* them can be a load step ahead of another one of them.
Numbered == {r \in Rank : loc[r] \in {"insert", "glue", "scale", "solve",
                                        "reduce", "solved"}}

\* The m numbers from a on and the n numbers from b on have none in common.
Apart(a, m, b, n) == a + m <= b \/ b + n <= a

\* Processes that share an interval give it the same numbers, all agree on the
\* sizes, and no two intervals share a number or leave the range.
NumberedOnce ==
    \A r, q \in Numbered :
        /\ size[r] = size[q]
        /\ \A i \in ToSet(Intervals(r)) : \A j \in ToSet(Intervals(q)) :
            LET D(p, k) == intervalOffset[p].dirichlet[k]
                G(p, k) == intervalOffset[p].gluing[k]
            IN IF i = j THEN D(r, i) = D(q, i) /\ G(r, i) = G(q, i)
               ELSE /\ Apart(D(r, i), getDirichletSize(r, i),
                             D(q, j), getDirichletSize(q, j))
                    /\ Apart(G(r, i), getGluingSize(r, i),
                             G(q, j), getGluingSize(q, j))
        /\ \A i \in ToSet(Intervals(r)) :
            /\ intervalOffset[r].dirichlet[i] + getDirichletSize(r, i)
                    <= size[r].dirichlet
            /\ intervalOffset[r].gluing[i] >= size[r].dirichlet
            /\ intervalOffset[r].gluing[i] + getGluingSize(r, i)
                    <= size[r].dirichlet + size[r].gluing

\* All processes have the rows of the same load step: no process passes the
\* barrier of the next one before.
Glued == \A r \in Rank : loc[r] \in {"scale", "solve", "reduce", "solved"}

AllRows == UNION {{<<d, B1[d][k], k>> : k \in DOMAIN B1[d]} : d \in Domains}
RowsOf(all, l) == {x \in all : x[2].lambda = l}

\* What a multiplier holds, as the domains, nodes and signs of its rows.
Term(d, x, sign) ==
    [domain |-> d, node |-> <<x[1], x[2]>>, dof |-> x[3], value |-> sign]
Holds(S) == {[domain |-> x[1], node |-> x[2].node, dof |-> x[2].dof,
              value |-> x[2].value] : x \in S}

NodesAndDOFs ==
    UNION {{D} \X (DOMAIN problem.nodes[D]) \X (0..(problem.DOFs - 1)) :
        D \in DOMAIN problem.nodes}

\* What the multipliers of process r's load step have to hold: with redundant
\* ones every domain of a Dirichlet node is fixed and every pair of domains of
\* any other node is joined, else the first one and each one with its successor.
ToHold(r) ==
    LET R == config(r).redundant
        fixed(x) == x[2] \in config(r).dirichlet[x[1]][x[3]]
        pairs(x) == {y \in x[1] \X x[1] : y[1] < y[2]}
        next(x, y) == \A e \in x[1] : ~(y[1] < e /\ e < y[2])
    IN UNION {
        (IF ~fixed(x) THEN {}
         ELSE {{Term(d, x, 1)} : d \in IF R THEN x[1] ELSE {Min(x[1])}})
        \cup {{Term(y[1], x, 1), Term(y[2], x, -1)} :
                y \in {z \in pairs(x) : IF R THEN ~fixed(x) ELSE next(x, z)}} :
        x \in NodesAndDOFs}

\* Each of the multipliers is one Dirichlet condition or one jump, each of
\* these has one multiplier, and the Dirichlet conditions come first.
JumpsComplete ==
    Glued =>
    LET count == size[0].dirichlet + size[0].gluing
        all == AllRows
        toHold == ToHold(0)
    IN /\ \A x \in all : x[2].lambda \in 0..(count - 1)
       /\ \A l \in 0..(count - 1) :
            LET rowsOf == RowsOf(all, l)
                holds == Holds(rowsOf)
            IN /\ holds \in toHold
               /\ Cardinality(rowsOf) = Cardinality(holds)
               /\ Cardinality(holds) = 1 <=> l < size[0].dirichlet
       /\ {Holds(RowsOf(all, l)) : l \in 0..(count - 1)} = toHold
       /\ Cardinality(toHold) = count

\* After the sum over the neighbours, every process has all contributions to
\* each of its multipliers, each of them once; and it has all the multipliers
\* of its domains.
DualVectorsAgree ==
    Glued =>
    LET all == AllRows IN
    \A r \in Rank : loc[r] = "solved" =>
        /\ \A p \in DOMAIN B1clustersMap[r] :
            LET l == B1clustersMap[r][p][1] IN
            dual[r][p] = {<<x[1], x[2]>> : x \in RowsOf(all, l)}
        /\ \A d \in OwnDomains(problem, r) : \A k \in DOMAIN B1[d] :
            \E p \in DOMAIN B1clustersMap[r] :
                B1clustersMap[r][p][1] = B1[d][k].lambda

\* A scalar product over all processes counts every multiplier once.
CountedOnce ==
    Glued =>
    LET counted == UNION {{r} \X my_lamdas_ddot_filter(r) : r \in Rank} IN
    \A l \in 0..(size[0].dirichlet + size[0].gluing - 1) :
        Cardinality({x \in counted : B1clustersMap[x[1]][x[2]][1] = l}) = 1

\* The weight of a jump is the diagonal entry of the domain on its other side
\* by the sum of those of all domains of the node.
ScaledByOtherSide ==
    Glued =>
    LET all == AllRows IN
    \A r \in Rank : loc[r] \in {"solve", "reduce", "solved"} /\ Scaled(r) =>
        \A d \in OwnDomains(problem, r) : \A k \in DOMAIN B1[d] :
            LET row == B1[d][k]
                entry(e) == [domain |-> e, node |-> row.node, dof |-> row.dof]
            IN row.lambda >= size[r].dirichlet =>
                /\ B1duplicity[d][k].of = {entry(x[1]) : x \in
                        {y \in RowsOf(all, row.lambda) : y[1] # d}}
                /\ B1duplicity[d][k].among = {entry(e) : e \in row.node[1]}

\* VTKLegacyDebugInfo::gluing: the place in the map that std::lower_bound finds
\* for a multiplier, and the multipliers a process sends to another one.
cmapit(r, l) ==
    LET big == B1clustersMap[r] IN
    {p \in DOMAIN big : big[p][1] >= l /\ \A q \in 1..(p - 1) : big[q][1] < l}

GluingLambdas(r) ==
    LET own == UNION {ToSet(B1[d]) : d \in OwnDomains(problem, r)} IN
    {row.lambda : row \in {x \in own : x.lambda >= size[r].dirichlet}}

sLambdas(r, q) ==
    LET big == B1clustersMap[r] IN
    {big[p][1] : p \in {s \in UNION {cmapit(r, l) : l \in GluingLambdas(r)} :
                        Len(big[s]) = 3 /\ big[s][3] = q}}

\* What the debug output of the gluing requires: a multiplier that is shared
\* with a neighbour is among the ones the neighbour has sent.
SameLambdasOnNeighbours ==
    Glued =>
    \A r \in Rank : \A l \in GluingLambdas(r) : \A p \in cmapit(r, l) :
        Len(B1clustersMap[r][p]) = 3 =>
            B1clustersMap[r][p][1] \in sLambdas(B1clustersMap[r][p][3], r)
=============================================================================
