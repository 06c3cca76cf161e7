------------------------------ MODULE Collective ------------------------------
(***************************************************************************)
(* What the calls of espreso::Communication promise: call number i returns *)
(* at a process exactly the message that every source of that call sent in *)
(* call number i, and it may return as soon as the sources have made it.   *)
(***************************************************************************)
EXTENDS Calls, Sequences

CONSTANT Programs       \* the sequences of calls a run can make

VARIABLES program,      \* the calls every process makes
          returned      \* what the finished calls of a process returned

vars == <<program, returned>>

Init == /\ program \in Programs
        /\ returned = [r \in Rank |-> <<>>]

\* The next call of process r returns.
Return(r) ==
    LET i == Len(returned[r]) + 1
    IN /\ i \in DOMAIN program
       /\ \A s \in Sources(program[i], r) : Len(returned[s]) >= i - 1
       /\ returned' = [returned EXCEPT ![r] =
            Append(@, [s \in Sources(program[i], r) |-> i])]
       /\ UNCHANGED program

Next == \E r \in Rank : Return(r)

Spec == Init /\ [][Next]_vars /\ \A r \in Rank : WF_vars(Return(r))
=============================================================================
