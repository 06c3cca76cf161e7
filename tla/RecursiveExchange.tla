-------------------------- MODULE RecursiveExchange ---------------------------
(***************************************************************************)
(* Communication::allToAllWithDataSizeAndTarget: all-to-all of packets by  *)
(* recursive halving.  At every level the processes left..right-1 are cut  *)
(* at mid; pairs across the cut exchange what belongs to the other half.   *)
(* An odd number of processes leaves the last lower one without a partner: *)
(* it only sends, to process mid.                                          *)
(*                                                                         *)
(* Abstraction: a packet is its source and target; positions in a buffer   *)
(* count packets from 1.  Messages stay below the limit of 2^30 elements.  *)
(***************************************************************************)
EXTENDS Integers, FiniteSetsExt, SequencesExt

CONSTANTS Cases,    \* sBuffer of every process: the inputs of a call
          MaxSize   \* bound: the largest number of processes in Cases

\* The buffer of process s of n: at most one packet for each target, in order.
IsBuffer(b, s, n) ==
    /\ b \in Seq([from : {s}, to : 0..(n - 1)])
    /\ \A i, j \in DOMAIN b : i < j => b[i].to < b[j].to

ASSUME CasesAssumption ==
    \A c \in Cases :
        /\ c \in Seq(Seq([from : Nat, to : Nat])) /\ Len(c) \in 1..MaxSize
        /\ \A s \in DOMAIN c : IsBuffer(c[s], s - 1, Len(c))

VARIABLES sBuffer, loc, range, level, send, recv, rBuffer, channel

vars == <<sBuffer, loc, range, level, send, recv, rBuffer, channel>>

size == Len(sBuffer)
Rank == 0..(size - 1)
Packet == [from : Rank, to : Rank]

\* ceil(log2(group.size))
power[l \in 0..size] == IF l = 0 THEN 1 ELSE 2 * power[l - 1]
levels == CHOOSE l \in 0..size :
            power[l] >= size /\ \A k \in 0..(l - 1) : power[k] < size

\* movebefore: the first position from "begin" on whose target is not below
\* "rank", or "end".
movebefore(data, rank, begin, end) ==
    Min({p \in begin..end : p = end \/ data[p].to >= rank})

After(data) == Len(data) + 1
Part(data, begin, end) == SubSeq(data, begin, end - 1)

\* The parts of data[begin..end-1] for the processes first..last, cut one
\* after the other.
Parts(data, first, last, begin, end) ==
    LET cut[r \in (first - 1)..last] ==
            IF r = first - 1 THEN begin
            ELSE movebefore(data, r + 1, cut[r - 1], end)
    IN [r \in first..last |-> Part(data, cut[r - 1], cut[r])]

Init ==
    /\ sBuffer \in Cases
    /\ loc = [r \in Rank |-> "split"]
    /\ range = [r \in Rank |-> [left |-> 0, right |-> size]]
    /\ level = [r \in Rank |-> 0]
    /\ send = [r \in Rank |-> sBuffer[r + 1]]
    /\ recv = [r \in Rank |-> <<>>]
    /\ rBuffer = [r \in Rank |->
        LET mybegin == movebefore(send[r], r, 1, After(send[r]))
            myend == movebefore(send[r], r + 1, mybegin, After(send[r]))
        IN Part(send[r], mybegin, myend)]
    /\ channel = [k \in Rank \X Rank |-> <<>>]

left(r) == range[r].left
right(r) == range[r].right
mid(r) == LET n == right(r) - left(r) IN (left(r) + (n \div 2)) + (n % 2)

Splits(r) == loc[r] = "split" /\ level[r] < levels /\ left(r) + 1 < right(r)
IsLower(r) == r < mid(r)
HasPartner(r) == r + (mid(r) - left(r)) < right(r)
Partner(r) == IF IsLower(r) THEN r + (mid(r) - left(r))
              ELSE r - (mid(r) - left(r))
Upper(r) == movebefore(send[r], mid(r), 1, After(send[r]))

Post(r, d, data) == channel' = [channel EXCEPT ![<<r, d>>] = Append(@, data)]
Take(s, r) == /\ channel[<<s, r>>] # <<>>
              /\ channel' = [channel EXCEPT ![<<s, r>>] = Tail(@)]

\* The process goes on with its half.
NextLevel(r) ==
    /\ level' = [level EXCEPT ![r] = @ + 1]
    /\ range' = [range EXCEPT ![r] =
            IF IsLower(r) THEN [@ EXCEPT !.right = mid(r)]
            ELSE [@ EXCEPT !.left = mid(r)]]

-----------------------------------------------------------------------------

\* The last lower process of an odd number sends to process mid.
SendExtra(r) ==
    /\ Splits(r) /\ IsLower(r) /\ ~HasPartner(r)
    /\ LET my == movebefore(send[r], r, 1, After(send[r]))
           upper == movebefore(send[r], mid(r), my, After(send[r]))
       IN /\ Post(r, mid(r), Part(send[r], upper, After(send[r])))
          /\ send' = [send EXCEPT ![r] = Part(@, 1, my)]
    /\ NextLevel(r)
    /\ loc' = [loc EXCEPT ![r] = "sendExtra"]
    /\ UNCHANGED <<sBuffer, recv, rBuffer>>

\* A lower process sends the packets for the upper half to its partner ...
SendUp(r) ==
    /\ Splits(r) /\ IsLower(r) /\ HasPartner(r)
    /\ Post(r, Partner(r), Part(send[r], Upper(r), After(send[r])))
    /\ loc' = [loc EXCEPT ![r] = "sendUp"]
    /\ UNCHANGED <<sBuffer, range, level, send, recv, rBuffer>>

\* Merge what arrived ("got", one sequence per message, cut into parts) with
\* what was there: the own part is delivered, the others are sent on.
Merge(r, first, last, got, kept) ==
    LET Arrived(q) == FlattenSeq([m \in DOMAIN got |-> got[m][q]])
        Onward(q) == IF q = r THEN <<>> ELSE Arrived(q) \o kept[q]
    IN /\ rBuffer' = [rBuffer EXCEPT ![r] = @ \o Arrived(r)]
       /\ send' = [send EXCEPT ![r] =
            FlattenSeq([i \in 1..(last - first + 1) |-> Onward(first + i - 1)])]

\* ... and receives what the partner has for the lower half.
ReceiveDown(r) ==
    /\ loc[r] = "receiveDown" /\ Take(Partner(r), r)
    /\ LET data == Head(channel[<<Partner(r), r>>])
           last == mid(r) - 1
       IN Merge(r, left(r), last,
                <<Parts(data, left(r), last, 1, After(data))>>,
                Parts(send[r], left(r), last, 1, After(send[r])))
    /\ NextLevel(r)
    /\ loc' = [loc EXCEPT ![r] = "split"]
    /\ UNCHANGED <<sBuffer, recv>>

\* Mutant of ReceiveUp: an upper process sends before it receives.
ReceiveUpLast(r) ==
    \/ /\ Splits(r) /\ ~IsLower(r)
       /\ Post(r, Partner(r), Part(send[r], 1, Upper(r)))
       /\ loc' = [loc EXCEPT ![r] = "early"]
       /\ UNCHANGED <<sBuffer, range, level, send, recv, rBuffer>>
    \/ /\ loc[r] = "early" /\ channel[<<r, Partner(r)>>] = <<>>
       /\ Take(Partner(r), r)
       /\ recv' = [recv EXCEPT ![r] = Head(channel[<<Partner(r), r>>])]
       /\ loc' = [loc EXCEPT ![r] = "sendDown"]
       /\ UNCHANGED <<sBuffer, range, level, send, rBuffer>>

\* An upper process receives from its partner first ...
ReceiveUp(r) ==
    /\ Splits(r) /\ ~IsLower(r) /\ Take(Partner(r), r)
    /\ recv' = [recv EXCEPT ![r] = Head(channel[<<Partner(r), r>>])]
    /\ loc' = [loc EXCEPT ![r] = "answer"]
    /\ UNCHANGED <<sBuffer, range, level, send, rBuffer>>

\* ... answers with the packets for the lower half ...
SendDown(r) ==
    /\ loc[r] = "answer"
    /\ Post(r, Partner(r), Part(send[r], 1, Upper(r)))
    /\ loc' = [loc EXCEPT ![r] = "sendDown"]
    /\ UNCHANGED <<sBuffer, range, level, send, recv, rBuffer>>

Odd(r) == mid(r) - left(r) > right(r) - mid(r)

MergeUpper(r, messages) ==
    /\ Merge(r, mid(r), right(r) - 1,
             [m \in DOMAIN messages |->
                Parts(messages[m], mid(r), right(r) - 1, 1, After(messages[m]))],
             Parts(send[r], mid(r), right(r) - 1, Upper(r), After(send[r])))
    /\ NextLevel(r)
    /\ loc' = [loc EXCEPT ![r] = "split"]
    /\ recv' = [recv EXCEPT ![r] = <<>>]
    /\ UNCHANGED sBuffer

\* Mutant of ReceiveExtra: the first message is overwritten.
ReceiveExtraOver(r) ==
    /\ loc[r] = "receiveExtra" /\ Take(mid(r) - 1, r)
    /\ MergeUpper(r, <<Head(channel[<<mid(r) - 1, r>>])>>)

\* ... and process mid also receives from the process without a partner.
ReceiveExtra(r) ==
    /\ loc[r] = "receiveExtra" /\ Take(mid(r) - 1, r)
    /\ MergeUpper(r, <<recv[r], Head(channel[<<mid(r) - 1, r>>])>>)

\* MPI_Send returns when MPI has buffered the message or it was received.
SendReturns(r) ==
    \/ /\ loc[r] = "sendExtra"
       /\ loc' = [loc EXCEPT ![r] = "split"]
       /\ UNCHANGED <<sBuffer, range, level, send, recv, rBuffer, channel>>
    \/ /\ loc[r] = "sendUp"
       /\ loc' = [loc EXCEPT ![r] = "receiveDown"]
       /\ UNCHANGED <<sBuffer, range, level, send, recv, rBuffer, channel>>
    \/ /\ loc[r] = "sendDown" /\ Odd(r) /\ r = mid(r)
       /\ loc' = [loc EXCEPT ![r] = "receiveExtra"]
       /\ UNCHANGED <<sBuffer, range, level, send, recv, rBuffer, channel>>
    \/ /\ loc[r] = "sendDown" /\ ~(Odd(r) /\ r = mid(r))
       /\ MergeUpper(r, <<recv[r]>>)
       /\ UNCHANGED channel

Return(r) ==
    /\ loc[r] = "split" /\ ~Splits(r)
    /\ loc' = [loc EXCEPT ![r] = "returned"]
    /\ UNCHANGED <<sBuffer, range, level, send, recv, rBuffer, channel>>

Work(r) ==
    \/ SendExtra(r) \/ SendUp(r) \/ ReceiveDown(r)
    \/ ReceiveUp(r) \/ SendDown(r) \/ ReceiveExtra(r) \/ Return(r)

Returned == \A r \in Rank : loc[r] = "returned"
Done == Returned /\ UNCHANGED vars

Next == (\E r \in Rank : Work(r) \/ SendReturns(r)) \/ Done

\* Nothing process r has sent is still on its way.
SendsMatched(r) == \A d \in Rank : channel[<<r, d>>] = <<>>

(* Processes run; MPI may buffer no message, so only a matched send is     *)
(* certain to return.                                                      *)
Fairness == \A r \in 0..(MaxSize - 1) :
    /\ WF_vars(r \in Rank /\ Work(r))
    /\ WF_vars(r \in Rank /\ SendReturns(r) /\ SendsMatched(r))

Spec == Init /\ [][Next]_vars /\ Fairness

-----------------------------------------------------------------------------
(* Properties *)

\* At the end every process has exactly the packets addressed to it, each one
\* once, whatever the number of processes.
PacketsFor(r) == {p \in Packet : p.to = r /\ \E i \in DOMAIN sBuffer[p.from + 1] :
                                    sBuffer[p.from + 1][i] = p}
EveryPacketDelivered ==
    \A r \in Rank : loc[r] = "returned" =>
        /\ ToSet(rBuffer[r]) = PacketsFor(r)
        /\ IsInjective(rBuffer[r])

\* Blocking sends and receives never wait for each other in a circle, even if
\* MPI buffers nothing.
AllReturn == <>Returned
=============================================================================
