------------------------ MODULE MC_RecursiveExchange -------------------------
EXTENDS RecursiveExchange
\* Process s sends one packet to every process of the given set, in order.
PacketsTo(s, targets) ==
    LET order == SetToSortSeq(targets, LAMBDA a, b : a < b)
    IN [i \in DOMAIN order |-> [from |-> s, to |-> order[i]]]
\* Everybody sends to everybody, for up to MaxSize processes, ...
Everybody == {[s \in 1..n |-> PacketsTo(s - 1, 0..(n - 1))] : n \in 1..MaxSize}
\* ... and every choice of targets for two and three processes.
Chosen(n) == {[s \in 1..n |-> PacketsTo(s - 1, t[s])] :
                    t \in [1..n -> SUBSET (0..(n - 1))]}
MCCases == Everybody \cup Chosen(2) \cup Chosen(3)
=============================================================================
