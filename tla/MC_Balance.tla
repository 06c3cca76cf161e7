----------------------------- MODULE MC_Balance -----------------------------
EXTENDS Balance

DistributionsOf(n) ==
    {d \in [0..Size -> 0..n] : IsDistribution(d) /\ d[Size] = n}

CallsOf(n) == [current : DistributionsOf(n), target : DistributionsOf(n)]

\* What Input::balanceElements does with four elements of two nodes each, all
\* of process 1: it balances the elements and then the nodes.  The last process
\* gets nothing.
Elements ==
    [current |-> getDistribution([r \in Rank |-> IF r = 1 THEN 4 ELSE 0]),
     target |-> distribute(4)]
Nodes ==
    [current |-> getDistribution([r \in Rank |-> IF r = 1 THEN 8 ELSE 0]),
     target |-> getDistribution([r \in Rank |-> IF r = 2 THEN 0 ELSE 4])]

\* Any call of three elements, any call of two made twice (as balanceNodes does
\* for the numbers and the coordinates), any two calls of one element.
MCCallSequences ==
    {<<c>> : c \in CallsOf(3)} \cup {<<c, c>> : c \in CallsOf(2)}
        \cup CallsOf(1) \X CallsOf(1) \cup {<<Elements, Nodes>>}
=============================================================================
