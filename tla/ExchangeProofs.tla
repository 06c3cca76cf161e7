---------------------------- MODULE ExchangeProofs ----------------------------
(***************************************************************************)
(* The calls of espreso::Communication are not mixed up, for any number of *)
(* processes, any symmetric neighbours and any sequence of calls, and they *)
(* deliver what Collective promises.  The invariant says exactly which     *)
(* messages are on their way: those of the calls the sender has got to and *)
(* the receiver has not taken them in, in order.                           *)
(***************************************************************************)
EXTENDS Exchange, FiniteSetTheorems, TLAPS

\* Process s has sent the messages of call n.
Sent(s, n) == \/ n < Current(s)
              \/ n = Current(s) /\ loc[s] \in {"receive", "barrier"}

\* Process r has taken in what s sent to it in call n.
Received(r, s, n) ==
    \/ n < Current(r)
    \/ /\ n = Current(r) /\ loc[r] \in {"receive", "barrier"}
       /\ s \in DOMAIN rBuffer[r]

\* The calls whose message from s to r with tag t is on its way.
Pending(s, r, t) ==
    {n \in DOMAIN program : /\ Tag(program[n]) = t
                            /\ r \in Targets(program[n], s)
                            /\ Sent(s, n) /\ ~Received(r, s, n)}

\* A sequence has the numbers of a set in ascending order.
Lists(seq, S) ==
    /\ \A i \in 1..Len(seq) : seq[i] \in S
    /\ \A i, j \in 1..Len(seq) : i < j => seq[i] < seq[j]
    /\ \A n \in S : \E i \in 1..Len(seq) : seq[i] = n

ChannelInv ==
    \A s, r \in Rank, t \in Tags : Lists(channel[<<s, r, t>>], Pending(s, r, t))

\* A process is in one of the calls, and in a barrier with all it waited for.
LocInv ==
    \A r \in Rank :
        /\ loc[r] # "caller" => Current(r) \in DOMAIN program
        /\ loc[r] = "reduce" => TheCall(r).kind = "sendVariousTargets"
        /\ loc[r] = "barrier" => /\ TheCall(r).kind \in AnySource
                                 /\ DOMAIN rBuffer[r] = Sources(TheCall(r), r)

\* What was received had been sent.
ReceivedInv ==
    \A r, s \in Rank : \A n \in DOMAIN program :
        r \in Targets(program[n], s) /\ Received(r, s, n) => Sent(s, n)

\* Nobody has left the barrier of a call before everybody has reached it.
BarrierInv ==
    \A r, s \in Rank : \A n \in DOMAIN program :
        n < Current(s) /\ program[n].kind \in AnySource =>
            n < Current(r) \/ (n = Current(r) /\ loc[r] = "barrier")

IInv ==
    /\ TypeOK
    /\ LocInv
    /\ ChannelInv
    /\ ReceivedInv
    /\ BarrierInv
    /\ CallsNotMixed

-----------------------------------------------------------------------------
(* Sequences that list a set                                               *)

LEMMA ListsAppend ==
    ASSUME NEW seq \in Seq(Nat), NEW S \in SUBSET Nat, NEW n \in Nat,
           Lists(seq, S), \A m \in S : m < n
    PROVE  Lists(Append(seq, n), S \cup {n})
<1> DEFINE new == Append(seq, n)
<1>1. Len(new) = Len(seq) + 1 /\ new[Len(seq) + 1] = n
  OBVIOUS
<1>2. \A i \in 1..Len(seq) : new[i] = seq[i]
  OBVIOUS
<1>3. \A i \in 1..Len(new) : i = Len(seq) + 1 \/ i \in 1..Len(seq)
  BY <1>1
<1>4. \A i \in 1..Len(new) : new[i] \in S \cup {n}
  BY <1>1, <1>2, <1>3 DEF Lists
<1>5. \A i, j \in 1..Len(new) : i < j => new[i] < new[j]
  <2> SUFFICES ASSUME NEW i \in 1..Len(new), NEW j \in 1..Len(new), i < j
               PROVE  new[i] < new[j]
    OBVIOUS
  <2>1. i \in 1..Len(seq) /\ new[i] = seq[i] /\ seq[i] \in S
    BY <1>1, <1>2, <1>3 DEF Lists
  <2>2. CASE j = Len(seq) + 1
    BY <1>1, <2>1, <2>2
  <2>3. CASE j \in 1..Len(seq)
    BY <1>2, <2>1, <2>3 DEF Lists
  <2> QED BY <1>3, <2>2, <2>3
<1>6. \A m \in S \cup {n} : \E i \in 1..Len(new) : new[i] = m
  <2> SUFFICES ASSUME NEW m \in S \cup {n}
               PROVE  \E i \in 1..Len(new) : new[i] = m
    OBVIOUS
  <2>1. CASE m = n
    BY <1>1, <2>1
  <2>2. CASE m \in S
    BY <1>1, <1>2, <2>2 DEF Lists
  <2> QED BY <2>1, <2>2
<1> QED BY <1>4, <1>5, <1>6 DEF Lists

LEMMA ListsTail ==
    ASSUME NEW seq \in Seq(Nat), NEW S \in SUBSET Nat, Lists(seq, S), seq # <<>>
    PROVE  /\ Head(seq) \in S
           /\ \A m \in S : Head(seq) <= m
           /\ Lists(Tail(seq), S \ {Head(seq)})
<1>1. Len(seq) \in Nat /\ Len(seq) > 0 /\ Head(seq) = seq[1]
  OBVIOUS
<1>2. Len(Tail(seq)) = Len(seq) - 1
      /\ \A i \in 1..Len(Tail(seq)) : Tail(seq)[i] = seq[i + 1]
  OBVIOUS
<1>3. \A i \in 1..Len(seq) : i = 1 \/ seq[1] < seq[i]
  BY <1>1 DEF Lists
<1>4. Head(seq) \in S
  BY <1>1 DEF Lists
<1>5. \A m \in S : Head(seq) <= m
  <2> SUFFICES ASSUME NEW m \in S PROVE Head(seq) <= m
    OBVIOUS
  <2>1. PICK i \in 1..Len(seq) : seq[i] = m
    BY DEF Lists
  <2> QED BY <1>1, <1>3, <2>1
<1>6. \A i \in 1..Len(Tail(seq)) : Tail(seq)[i] \in S \ {Head(seq)}
  <2> SUFFICES ASSUME NEW i \in 1..Len(Tail(seq))
               PROVE  Tail(seq)[i] \in S \ {Head(seq)}
    OBVIOUS
  <2>1. i + 1 \in 1..Len(seq) /\ i + 1 # 1 /\ Tail(seq)[i] = seq[i + 1]
    BY <1>1, <1>2
  <2>2. seq[i + 1] \in S /\ seq[1] < seq[i + 1] /\ seq[i + 1] \in Nat /\ seq[1] \in Nat
    BY <1>1, <1>3, <1>4, <2>1 DEF Lists
  <2> QED BY <1>1, <2>1, <2>2
<1>7. \A i, j \in 1..Len(Tail(seq)) : i < j => Tail(seq)[i] < Tail(seq)[j]
  <2> SUFFICES ASSUME NEW i \in 1..Len(Tail(seq)), NEW j \in 1..Len(Tail(seq)),
                      i < j
               PROVE  Tail(seq)[i] < Tail(seq)[j]
    OBVIOUS
  <2>1. i + 1 \in 1..Len(seq) /\ j + 1 \in 1..Len(seq) /\ i + 1 < j + 1
    BY <1>1, <1>2
  <2> QED BY <1>2, <2>1 DEF Lists
<1>8. \A m \in S \ {Head(seq)} : \E i \in 1..Len(Tail(seq)) : Tail(seq)[i] = m
  <2> SUFFICES ASSUME NEW m \in S, m # Head(seq)
               PROVE  \E i \in 1..Len(Tail(seq)) : Tail(seq)[i] = m
    OBVIOUS
  <2>1. PICK i \in 1..Len(seq) : seq[i] = m
    BY DEF Lists
  <2>2. i - 1 \in 1..Len(Tail(seq)) /\ (i - 1) + 1 = i
    BY <1>1, <1>2, <2>1
  <2> QED BY <1>2, <2>1, <2>2
<1> QED BY <1>4, <1>5, <1>6, <1>7, <1>8 DEF Lists

-----------------------------------------------------------------------------
(* Calls, targets and sources                                              *)

LEMMA EmptyBuffer == <<>> \in [{} -> DOMAIN program] /\ DOMAIN <<>> = {}
OBVIOUS

LEMMA RankFinite == IsFiniteSet(Rank) /\ Rank \subseteq Int
BY FS_Interval, SizeAssumption DEF Rank

LEMMA ProgramFacts ==
    ASSUME program \in Programs
    PROVE  /\ DOMAIN program = 1..Len(program) /\ Len(program) \in Nat
           /\ \A n \in DOMAIN program : program[n] \in Call
BY ProgramsAssumption

LEMMA CallFacts ==
    ASSUME NEW c \in Call, NEW r \in Rank
    PROVE  /\ Targets(c, r) \subseteq Rank
           /\ Sources(c, r) \subseteq Rank
           /\ \A s \in Rank : s \in Sources(c, r) <=> r \in Targets(c, s)
           /\ Tag(c) \in Tags
           /\ c.kind \in KnownSize \/ c.kind \in AnySource
           /\ ~(c.kind \in KnownSize /\ c.kind \in AnySource)
           /\ c.kind \in AnySource => Tag(c) = 0
<1>1. c.kind \in Kinds /\ c.targets \in [Rank -> SUBSET Rank]
  BY DEF Call
<1>2. Neighbours[r] \subseteq Rank /\ c.targets[r] \subseteq Rank
  BY <1>1, NeighboursAssumption
<1>3. Targets(c, r) \subseteq Rank
  BY <1>1, <1>2 DEF Targets, Kinds, KnownSize, AnySource
<1>4. /\ Sources(c, r) \subseteq Rank
      /\ \A s \in Rank : s \in Sources(c, r) <=> r \in Targets(c, s)
  BY DEF Sources
<1>5. /\ c.kind \in KnownSize \/ c.kind \in AnySource
      /\ ~(c.kind \in KnownSize /\ c.kind \in AnySource)
  BY <1>1 DEF Kinds, KnownSize, AnySource
<1>6. Tag(c) \in Tags /\ (c.kind \in AnySource => Tag(c) = 0)
  BY <1>1 DEF Tag, Tags, AnySource
<1> QED BY <1>3, <1>4, <1>5, <1>6

\* The loop around MPI_Iprobe waits for as many messages as there are sources.
LEMMA ExpectedIsSources ==
    ASSUME NEW c \in Call, NEW r \in Rank, c.kind \in AnySource
    PROVE  ExpectedMessages(c, r) = Cardinality(Sources(c, r))
<1>1. CASE c.kind = "exchangeUnknownSize"
  <2>1. \A s \in Rank : Targets(c, s) = Neighbours[s]
    BY <1>1 DEF Targets
  <2>2. Sources(c, r) = Neighbours[r]
    BY <2>1, NeighboursAssumption DEF Sources
  <2> QED BY <1>1, <2>2 DEF ExpectedMessages
<1>2. CASE c.kind = "receiveUpperUnknownSize"
  <2>1. \A s \in Rank : Targets(c, s) = {n \in Neighbours[s] : n < s}
    BY <1>2 DEF Targets
  <2>2. \A s \in Rank : s \in Sources(c, r) <=> r \in Neighbours[s] /\ r < s
    BY <2>1 DEF Sources
  <2>3. \A s \in Rank : s \in Neighbours[r] <=> r \in Neighbours[s]
    BY NeighboursAssumption
  <2>4. Neighbours[r] \subseteq Rank /\ Sources(c, r) \subseteq Rank
    BY NeighboursAssumption DEF Sources
  <2>5. Sources(c, r) = {n \in Neighbours[r] : n > r}
    <3>1. \A s \in Rank : r < s <=> s > r
      BY RankFinite
    <3> QED BY <2>2, <2>3, <2>4, <3>1
  <2> QED BY <1>2, <2>5 DEF ExpectedMessages
<1>3. CASE c.kind = "sendVariousTargets"
  BY <1>3 DEF ExpectedMessages
<1> QED BY <1>1, <1>2, <1>3 DEF AnySource

\* Facts of a state that the steps below need again and again.
LEMMA StateFacts ==
    ASSUME TypeOK, NEW r \in Rank
    PROVE  /\ Current(r) \in Nat \ {0}
           /\ Current(r) = Len(returned[r]) + 1
           /\ returned[r] \in Seq(Buffers)
           /\ DOMAIN rBuffer[r] \subseteq Rank
           /\ rBuffer[r] \in [DOMAIN rBuffer[r] -> DOMAIN program]
           /\ counter[r] \in Nat
<1>1. PICK S \in SUBSET Rank : rBuffer[r] \in [S -> DOMAIN program]
  BY DEF TypeOK, Buffers
<1>2. returned[r] \in Seq(Buffers) /\ counter[r] \in Nat
  BY DEF TypeOK
<1> QED BY <1>1, <1>2 DEF Current

-----------------------------------------------------------------------------
(* The channels, and what was sent and received                            *)

LEMMA PendingFacts ==
    ASSUME TypeOK, NEW s \in Rank, NEW r \in Rank, NEW t \in Tags
    PROVE  /\ Pending(s, r, t) \subseteq Nat
           /\ channel[<<s, r, t>>] \in Seq(Nat)
<1>1. program \in Programs
  BY DEF TypeOK
<1>2. DOMAIN program \subseteq Nat
  BY <1>1, ProgramFacts
<1>3. channel[<<s, r, t>>] \in Seq(DOMAIN program)
  BY DEF TypeOK
<1>4. channel[<<s, r, t>>] \in Seq(Nat)
  BY <1>2, <1>3
<1> QED BY <1>2, <1>4 DEF Pending

\* A step that sends nothing and takes nothing in leaves the channels as they
\* are, and what is said of them.
LEMMA QuietChannels ==
    ASSUME ChannelInv, ReceivedInv, program' = program, channel' = channel,
           \A s \in Rank : \A n \in DOMAIN program : Sent(s, n)' <=> Sent(s, n),
           \A q, s \in Rank : \A n \in DOMAIN program :
                q \in Targets(program[n], s) =>
                    (Received(q, s, n)' <=> Received(q, s, n))
    PROVE  ChannelInv' /\ ReceivedInv'
<1>1. \A s, q \in Rank, t \in Tags : Pending(s, q, t)' = Pending(s, q, t)
  BY DEF Pending
<1>2. ChannelInv'
  BY <1>1 DEF ChannelInv
<1>3. ReceivedInv'
  BY DEF ReceivedInv
<1> QED BY <1>2, <1>3

\* The call a process is in.
LEMMA TheCallFacts ==
    ASSUME TypeOK, NEW r \in Rank, Current(r) \in DOMAIN program
    PROVE  TheCall(r) \in Call /\ TheCall(r) = program[Current(r)]
BY ProgramFacts DEF TypeOK, TheCall

LEMMA SendStep ==
    ASSUME IInv, NEW r \in Rank, SendAll(r), Current(r) \in DOMAIN program,
           loc[r] \in {"caller", "reduce"}
    PROVE  IInv'
<1> USE DEF IInv
<1> DEFINE c == Current(r)
<1>0. /\ c \in Nat /\ c \in DOMAIN program /\ TheCall(r) \in Call
      /\ TheCall(r) = program[c] /\ Tag(TheCall(r)) \in Tags
  BY StateFacts, TheCallFacts, CallFacts
<1>1. /\ program' = program /\ returned' = returned
      /\ loc' = [loc EXCEPT ![r] = "receive"]
      /\ counter' = [counter EXCEPT ![r] = 0]
      /\ rBuffer' = [rBuffer EXCEPT ![r] = <<>>]
      /\ channel' = [k \in DOMAIN channel |->
            IF k[1] = r /\ k[2] \in Targets(program[c], r)
                        /\ k[3] = Tag(program[c])
            THEN Append(channel[k], c) ELSE channel[k]]
  BY <1>0 DEF SendAll
<1>2. /\ loc'[r] = "receive" /\ rBuffer'[r] = <<>> /\ counter'[r] = 0
      /\ \A q \in Rank : q # r =>
            loc'[q] = loc[q] /\ rBuffer'[q] = rBuffer[q] /\ counter'[q] = counter[q]
  BY <1>1 DEF TypeOK
<1>3. \A q \in Rank : Current(q)' = Current(q) /\ TheCall(q)' = TheCall(q)
  BY <1>1 DEF Current, TheCall
<1>4. \A s, q \in Rank, t \in Tags : channel'[<<s, q, t>>] =
            IF s = r /\ q \in Targets(program[c], r) /\ t = Tag(program[c])
            THEN Append(channel[<<s, q, t>>], c) ELSE channel[<<s, q, t>>]
  <2>1. \A s, q \in Rank, t \in Tags : <<s, q, t>> \in DOMAIN channel
    BY DEF TypeOK
  <2> QED BY <1>1, <2>1
<1>5. DOMAIN rBuffer'[r] = {} /\ rBuffer'[r] \in Buffers
  BY <1>2, EmptyBuffer DEF Buffers
<1>6. TypeOK'
  <2>1. Buffers' = Buffers
    BY <1>1 DEF Buffers
  <2>2. \A s, q \in Rank, t \in Tags :
            channel'[<<s, q, t>>] \in Seq(DOMAIN program)
    <3> SUFFICES ASSUME NEW s \in Rank, NEW q \in Rank, NEW t \in Tags
                 PROVE  channel'[<<s, q, t>>] \in Seq(DOMAIN program)
      OBVIOUS
    <3>1. channel[<<s, q, t>>] \in Seq(DOMAIN program)
      BY DEF TypeOK
    <3>2. \A D, q0 : q0 \in Seq(D) => \A x \in D : Append(q0, x) \in Seq(D)
      OBVIOUS
    <3>3. c \in DOMAIN program
      BY <1>0
    <3>4. Append(channel[<<s, q, t>>], c) \in Seq(DOMAIN program)
      BY <3>1, <3>2, <3>3
    <3>5. CASE s = r /\ q \in Targets(program[c], r) /\ t = Tag(program[c])
      BY <1>4, <3>4, <3>5
    <3>6. CASE ~(s = r /\ q \in Targets(program[c], r) /\ t = Tag(program[c]))
      BY <1>4, <3>1, <3>6
    <3> QED BY <3>5, <3>6
  <2>3. channel' \in [Rank \X Rank \X Tags -> Seq(DOMAIN program)]
    <3>1. DOMAIN channel' = Rank \X Rank \X Tags
      BY <1>1 DEF TypeOK
    <3>2. \A k \in Rank \X Rank \X Tags : k = <<k[1], k[2], k[3]>>
            /\ k[1] \in Rank /\ k[2] \in Rank /\ k[3] \in Tags
      OBVIOUS
    <3>3. \A k \in Rank \X Rank \X Tags : channel'[k] \in Seq(DOMAIN program)
      BY <2>2, <3>2
    <3>4. channel' = [k \in DOMAIN channel |-> channel'[k]]
      BY <1>1
    <3> QED BY <3>1, <3>3, <3>4
  <2>4. rBuffer' \in [Rank -> Buffers]
    BY <1>1, <1>2, <1>5 DEF TypeOK
  <2> QED BY <1>1, <2>1, <2>3, <2>4 DEF TypeOK
<1>7. LocInv'
  BY <1>0, <1>1, <1>2, <1>3 DEF LocInv
<1>8. \A s \in Rank : \A n \in DOMAIN program :
            Sent(s, n)' <=> Sent(s, n) \/ (s = r /\ n = c)
  BY <1>2, <1>3 DEF Sent
<1>9. \A q, s \in Rank : \A n \in DOMAIN program :
            Received(q, s, n)' <=> Received(q, s, n)
  BY <1>2, <1>3, <1>5 DEF Received
<1>10. ~Sent(r, c)
  BY <1>0 DEF Sent
<1>11. \A n \in DOMAIN program : Sent(r, n) => n < c
  BY <1>10 DEF Sent
<1>12. ReceivedInv'
  BY <1>1, <1>8, <1>9 DEF ReceivedInv
<1>13. ChannelInv'
  <2> SUFFICES ASSUME NEW s \in Rank, NEW q \in Rank, NEW t \in Tags
               PROVE  Lists(channel'[<<s, q, t>>], Pending(s, q, t)')
    BY DEF ChannelInv
  <2>1. CASE s = r /\ q \in Targets(program[c], r) /\ t = Tag(program[c])
    <3>1. ~Received(q, s, c)
      BY <1>0, <1>10, <2>1 DEF ReceivedInv
    <3>2. Pending(s, q, t)' = Pending(s, q, t) \cup {c}
      <4> HIDE DEF c
      <4> QED BY <1>0, <1>1, <1>8, <1>9, <2>1, <3>1 DEF Pending
    <3>3. \A m \in Pending(s, q, t) : m < c
      BY <1>11, <2>1 DEF Pending
    <3>4. Lists(Append(channel[<<s, q, t>>], c), Pending(s, q, t) \cup {c})
      <4>1. Lists(channel[<<s, q, t>>], Pending(s, q, t))
        BY DEF ChannelInv
      <4>2. channel[<<s, q, t>>] \in Seq(Nat) /\ Pending(s, q, t) \subseteq Nat
        BY PendingFacts
      <4> HIDE DEF c
      <4> QED BY <1>0, <3>3, <4>1, ListsAppend, <4>2
    <3> QED BY <1>4, <2>1, <3>2, <3>4
  <2>2. CASE ~(s = r /\ q \in Targets(program[c], r) /\ t = Tag(program[c]))
    <3>1. Pending(s, q, t)' = Pending(s, q, t)
      BY <1>1, <1>8, <1>9, <2>2 DEF Pending
    <3> QED BY <1>4, <2>2, <3>1 DEF ChannelInv
  <2> QED BY <2>1, <2>2
<1>14. BarrierInv'
  BY <1>1, <1>2, <1>3 DEF BarrierInv
<1>15. CallsNotMixed'
  BY <1>2, <1>3, <1>5, FS_EmptySet DEF CallsNotMixed
<1> QED BY <1>6, <1>7, <1>12, <1>13, <1>14, <1>15

\* The oldest message on its way is of the call the receiver is in; in the calls
\* that probe any source only the barrier makes this true, in the others it is
\* the order of the messages.
LEMMA HeadIsCurrent ==
    ASSUME IInv, NEW r \in Rank, NEW s \in Rank, loc[r] = "receive",
           NEW t \in Tags, t = Tag(TheCall(r)), channel[<<s, r, t>>] # <<>>,
           \/ TheCall(r).kind \in AnySource
           \/ s \in Sources(TheCall(r), r) \ DOMAIN rBuffer[r]
    PROVE  /\ Head(channel[<<s, r, t>>]) = Current(r)
           /\ s \in Sources(TheCall(r), r) \ DOMAIN rBuffer[r]
<1> USE DEF IInv
<1> DEFINE n == Head(channel[<<s, r, t>>])
<1>0. /\ Current(r) \in DOMAIN program /\ Current(r) \in Nat
      /\ Current(s) \in Nat
      /\ TheCall(r) \in Call /\ TheCall(r) = program[Current(r)]
  BY StateFacts, TheCallFacts DEF LocInv
<1>1. /\ n \in Pending(s, r, t) /\ \A m \in Pending(s, r, t) : n <= m
  <2>1. Lists(channel[<<s, r, t>>], Pending(s, r, t))
    BY DEF ChannelInv
  <2>2. channel[<<s, r, t>>] \in Seq(Nat) /\ Pending(s, r, t) \subseteq Nat
    BY PendingFacts
  <2> QED BY <2>1, <2>2, ListsTail
<1> HIDE DEF n
<1>2. /\ n \in DOMAIN program /\ n \in Nat /\ r \in Targets(program[n], s)
      /\ Sent(s, n) /\ ~Received(r, s, n)
  BY <1>1, PendingFacts DEF Pending
<1>3. n >= Current(r)
  BY <1>0, <1>2 DEF Received
<1>4. n = Current(r)
  <2> SUFFICES ASSUME n > Current(r) PROVE FALSE
    BY <1>0, <1>2, <1>3
  <2>1. Current(r) < Current(s)
    BY <1>0, <1>2 DEF Sent
  <2>2. CASE TheCall(r).kind \in AnySource
    <3>1. Current(r) < Current(r) \/ loc[r] = "barrier"
      BY <1>0, <2>1, <2>2 DEF BarrierInv
    <3> QED BY <1>0, <3>1
  <2>3. CASE s \in Sources(TheCall(r), r) \ DOMAIN rBuffer[r]
    <3>1. r \in Targets(program[Current(r)], s)
      BY <1>0, <2>3, CallFacts
    <3>2. Sent(s, Current(r)) /\ ~Received(r, s, Current(r))
      BY <1>0, <2>1, <2>3 DEF Sent, Received
    <3>3. Current(r) \in Pending(s, r, t)
      BY <1>0, <3>1, <3>2 DEF Pending
    <3> QED BY <1>0, <1>1, <1>2, <3>3
  <2> QED BY <2>2, <2>3
<1>5. s \in Sources(TheCall(r), r)
  BY <1>0, <1>2, <1>4, CallFacts
<1>6. s \notin DOMAIN rBuffer[r]
  BY <1>2, <1>4 DEF Received
<1> QED BY <1>4, <1>5, <1>6 DEF n

LEMMA StoreStep ==
    ASSUME IInv, NEW r \in Rank, NEW s \in Rank, NEW t \in Tags,
           loc[r] = "receive", t = Tag(TheCall(r)), Store(r, s, t),
           Head(channel[<<s, r, t>>]) = Current(r),
           s \in Sources(TheCall(r), r) \ DOMAIN rBuffer[r]
    PROVE  IInv'
<1> USE DEF IInv
<1> DEFINE c == Current(r)
           new == [q \in DOMAIN rBuffer[r] \cup {s} |->
                        IF q = s THEN c ELSE rBuffer[r][q]]
<1>0. /\ c \in DOMAIN program /\ c \in Nat
      /\ TheCall(r) \in Call /\ TheCall(r) = program[c]
  BY StateFacts, TheCallFacts DEF LocInv
<1>1. /\ program' = program /\ returned' = returned /\ loc' = loc
      /\ rBuffer' = [rBuffer EXCEPT ![r] = new]
      /\ channel' = [channel EXCEPT ![<<s, r, t>>] = Tail(@)]
      /\ counter' = [counter EXCEPT ![r] = @ + 1]
      /\ channel[<<s, r, t>>] # <<>>
  BY DEF Store
<1>2. /\ rBuffer'[r] = new /\ counter'[r] = counter[r] + 1
      /\ \A q \in Rank : q # r =>
            rBuffer'[q] = rBuffer[q] /\ counter'[q] = counter[q]
  BY <1>1 DEF TypeOK
<1>3. DOMAIN new = DOMAIN rBuffer[r] \cup {s}
  OBVIOUS
<1>4. \A q \in DOMAIN new : new[q] = IF q = s THEN c ELSE rBuffer[r][q]
  OBVIOUS
<1>5. new \in Buffers
  <2>1. DOMAIN new \in SUBSET Rank
    BY <1>3, StateFacts
  <2>2. \A q \in DOMAIN new : new[q] \in DOMAIN program
    BY <1>0, <1>4, StateFacts
  <2>3. new \in [DOMAIN new -> DOMAIN program]
    BY <2>2
  <2> QED BY <2>1, <2>3 DEF Buffers
<1> HIDE DEF new
<1>6. \A q \in Rank : Current(q)' = Current(q) /\ TheCall(q)' = TheCall(q)
  BY <1>1 DEF Current, TheCall
<1>7. /\ channel'[<<s, r, t>>] = Tail(channel[<<s, r, t>>])
      /\ \A p, q \in Rank, u \in Tags : ~(p = s /\ q = r /\ u = t) =>
            channel'[<<p, q, u>>] = channel[<<p, q, u>>]
  BY <1>1 DEF TypeOK
<1>8. TypeOK'
  <2>1. Buffers' = Buffers
    BY <1>1 DEF Buffers
  <2>2. channel[<<s, r, t>>] \in Seq(DOMAIN program)
    BY DEF TypeOK
  <2>3. \A D, q0 : q0 \in Seq(D) /\ q0 # <<>> => Tail(q0) \in Seq(D)
    OBVIOUS
  <2>4. Tail(channel[<<s, r, t>>]) \in Seq(DOMAIN program)
    BY <1>1, <2>2, <2>3
  <2>5. channel' \in [Rank \X Rank \X Tags -> Seq(DOMAIN program)]
    BY <1>1, <2>4 DEF TypeOK
  <2>6. rBuffer' \in [Rank -> Buffers]
    BY <1>1, <1>5 DEF TypeOK
  <2>7. counter' \in [Rank -> Nat]
    BY <1>1 DEF TypeOK
  <2> QED BY <1>1, <2>1, <2>5, <2>6, <2>7 DEF TypeOK
<1>9. LocInv'
  BY <1>1, <1>2, <1>6 DEF LocInv
<1>10. \A p \in Rank : \A n \in DOMAIN program : Sent(p, n)' <=> Sent(p, n)
  BY <1>1, <1>6 DEF Sent
<1>11. \A q, p \in Rank : \A n \in DOMAIN program :
            Received(q, p, n)' <=> Received(q, p, n) \/ (q = r /\ p = s /\ n = c)
  <2> SUFFICES ASSUME NEW q \in Rank, NEW p \in Rank, NEW n \in DOMAIN program
               PROVE  Received(q, p, n)' <=>
                        Received(q, p, n) \/ (q = r /\ p = s /\ n = c)
    OBVIOUS
  <2>1. CASE q = r
    BY <1>1, <1>2, <1>3, <1>6, <2>1 DEF Received
  <2>2. CASE q # r
    BY <1>1, <1>2, <1>6, <2>2 DEF Received
  <2> QED BY <2>1, <2>2
<1>12. Lists(channel[<<s, r, t>>], Pending(s, r, t))
  BY DEF ChannelInv
<1>13. channel[<<s, r, t>>] \in Seq(Nat) /\ Pending(s, r, t) \subseteq Nat
  BY PendingFacts
<1>14. /\ c \in Pending(s, r, t)
       /\ Lists(Tail(channel[<<s, r, t>>]), Pending(s, r, t) \ {c})
  <2> DEFINE old == channel[<<s, r, t>>]
             P == Pending(s, r, t)
  <2>1. old \in Seq(Nat) /\ P \in SUBSET Nat /\ Lists(old, P)
    BY <1>12, <1>13
  <2>2. old # <<>> /\ Head(old) = c
    BY <1>1
  <2> HIDE DEF old, P, c
  <2>3. Head(old) \in P /\ Lists(Tail(old), P \ {Head(old)})
    BY ONLY <2>1, <2>2, ListsTail
  <2> QED BY <2>2, <2>3 DEF old, P
<1>15. ChannelInv'
  <2> SUFFICES ASSUME NEW p \in Rank, NEW q \in Rank, NEW u \in Tags
               PROVE  Lists(channel'[<<p, q, u>>], Pending(p, q, u)')
    BY DEF ChannelInv
  <2> HIDE DEF c
  <2>1. CASE p = s /\ q = r /\ u = t
    <3>1. Pending(s, r, t)' = Pending(s, r, t) \ {c}
      BY <1>1, <1>10, <1>11 DEF Pending
    <3> QED BY <1>7, <1>14, <2>1, <3>1
  <2>2. CASE ~(p = s /\ q = r /\ u = t)
    <3>1. \A n \in DOMAIN program : Tag(program[n]) = u =>
            ~(q = r /\ p = s /\ n = c)
      BY <1>0, <2>2
    <3>2. Pending(p, q, u)' = Pending(p, q, u)
      BY <1>1, <1>10, <1>11, <3>1 DEF Pending
    <3> QED BY <1>7, <2>2, <3>2 DEF ChannelInv
  <2> QED BY <2>1, <2>2
<1>16. ReceivedInv'
  <2>1. Sent(s, c)
    BY <1>14 DEF Pending
  <2> QED BY <1>1, <1>10, <1>11, <2>1 DEF ReceivedInv
<1>17. BarrierInv'
  BY <1>1, <1>6 DEF BarrierInv
<1>18. CallsNotMixed'
  <2> SUFFICES ASSUME NEW q \in Rank, loc[q] \in {"receive", "barrier"}
               PROVE  /\ DOMAIN rBuffer'[q] \subseteq Sources(TheCall(q), q)
                      /\ \A p \in DOMAIN rBuffer'[q] : rBuffer'[q][p] = Current(q)
                      /\ counter'[q] = Cardinality(DOMAIN rBuffer'[q])
    BY <1>1, <1>6 DEF CallsNotMixed
  <2>1. CASE q # r
    BY <1>2, <2>1 DEF CallsNotMixed
  <2>2. CASE q = r
    <3>1. DOMAIN rBuffer'[r] \subseteq Sources(TheCall(r), r)
      BY <1>2, <1>3 DEF CallsNotMixed
    <3>2. \A p \in DOMAIN rBuffer'[r] : rBuffer'[r][p] = c
      BY <1>2, <1>3, <1>4 DEF CallsNotMixed
    <3>3. IsFiniteSet(DOMAIN rBuffer[r])
      BY RankFinite, FS_Subset, StateFacts
    <3>4. Cardinality(DOMAIN rBuffer[r] \cup {s}) = Cardinality(DOMAIN rBuffer[r]) + 1
      BY <3>3, FS_AddElement
    <3>5. counter'[r] = Cardinality(DOMAIN rBuffer'[r])
      BY <1>2, <1>3, <3>4 DEF CallsNotMixed
    <3> QED BY <2>2, <3>1, <3>2, <3>5
  <2> QED BY <2>1, <2>2
<1> QED BY <1>8, <1>9, <1>15, <1>16, <1>17, <1>18

-----------------------------------------------------------------------------
(* The other steps                                                         *)

\* When a process stops to receive, it has the messages of all sources.
LEMMA AllSources ==
    ASSUME IInv, NEW r \in Rank, loc[r] = "receive", AllReceived(r)
    PROVE  DOMAIN rBuffer[r] = Sources(TheCall(r), r)
<1> USE DEF IInv
<1>0. Current(r) \in DOMAIN program /\ TheCall(r) \in Call
  BY TheCallFacts DEF LocInv
<1>1. CASE TheCall(r).kind \in KnownSize
  BY <1>1 DEF AllReceived
<1>2. CASE TheCall(r).kind \in AnySource
  <2>1. TheCall(r).kind \notin KnownSize
    BY <1>0, <1>2, CallFacts
  <2>2. counter[r] = Cardinality(Sources(TheCall(r), r))
    BY <1>0, <1>2, <2>1, ExpectedIsSources DEF AllReceived
  <2>3. /\ DOMAIN rBuffer[r] \subseteq Sources(TheCall(r), r)
        /\ counter[r] = Cardinality(DOMAIN rBuffer[r])
    BY DEF CallsNotMixed
  <2>4. IsFiniteSet(Sources(TheCall(r), r))
    BY <1>0, RankFinite, CallFacts, FS_Subset
  <2> QED BY <2>2, <2>3, <2>4, FS_Subset
<1> QED BY <1>0, <1>1, <1>2, CallFacts

LEMMA EnterReduceStep ==
    ASSUME IInv, NEW r \in Rank, EnterReduce(r)
    PROVE  IInv'
<1> USE DEF IInv
<1>1. /\ program' = program /\ channel' = channel /\ counter' = counter
      /\ rBuffer' = rBuffer /\ returned' = returned
      /\ loc' = [loc EXCEPT ![r] = "reduce"] /\ loc[r] = "caller"
      /\ Current(r) \in DOMAIN program /\ TheCall(r).kind = "sendVariousTargets"
  BY DEF EnterReduce
<1>2. loc'[r] = "reduce" /\ \A q \in Rank : q # r => loc'[q] = loc[q]
  BY <1>1 DEF TypeOK
<1>3. \A q \in Rank : Current(q)' = Current(q) /\ TheCall(q)' = TheCall(q)
  BY <1>1 DEF Current, TheCall
<1>4. \A s \in Rank : \A n \in DOMAIN program : Sent(s, n)' <=> Sent(s, n)
  BY <1>1, <1>2, <1>3 DEF Sent
<1>5. \A q, s \in Rank : \A n \in DOMAIN program :
            Received(q, s, n)' <=> Received(q, s, n)
  BY <1>1, <1>2, <1>3 DEF Received
<1>6. ChannelInv' /\ ReceivedInv'
  BY <1>1, <1>4, <1>5, QuietChannels
<1>7. TypeOK'
  <2>1. Buffers' = Buffers
    BY <1>1 DEF Buffers
  <2>2. loc' \in [Rank -> {"caller", "reduce", "receive", "barrier"}]
    BY <1>1 DEF TypeOK
  <2> QED BY <1>1, <2>1, <2>2 DEF TypeOK
<1>8. LocInv'
  BY <1>1, <1>2, <1>3 DEF LocInv
<1>9. BarrierInv'
  BY <1>1, <1>2, <1>3 DEF BarrierInv
<1>10. CallsNotMixed'
  BY <1>1, <1>2, <1>3 DEF CallsNotMixed
<1> QED BY <1>6, <1>7, <1>8, <1>9, <1>10

LEMMA ReturnStep ==
    ASSUME IInv, NEW r \in Rank, ReturnFromCall(r),
           loc[r] \in {"receive", "barrier"},
           DOMAIN rBuffer[r] = Sources(TheCall(r), r),
           TheCall(r).kind \in AnySource =>
                \A q \in Rank : \/ Current(q) > Current(r)
                                \/ Current(q) = Current(r) /\ loc[q] = "barrier"
    PROVE  IInv'
<1> USE DEF IInv
<1>0. /\ Current(r) \in DOMAIN program /\ Current(r) \in Nat
      /\ \A q \in Rank : Current(q) \in Nat
      /\ TheCall(r) \in Call /\ TheCall(r) = program[Current(r)]
  BY StateFacts, TheCallFacts DEF LocInv
<1>1. /\ program' = program /\ channel' = channel /\ counter' = counter
      /\ rBuffer' = rBuffer
      /\ returned' = [returned EXCEPT ![r] = Append(@, rBuffer[r])]
      /\ loc' = [loc EXCEPT ![r] = "caller"]
  BY DEF ReturnFromCall
<1>2. loc'[r] = "caller" /\ \A q \in Rank : q # r => loc'[q] = loc[q]
  BY <1>1 DEF TypeOK
<1>3. /\ returned'[r] = Append(returned[r], rBuffer[r])
      /\ \A q \in Rank : q # r => returned'[q] = returned[q]
      /\ rBuffer[r] \in Buffers
  BY <1>1 DEF TypeOK
<1>4. returned'[r] \in Seq(Buffers) /\ Len(returned'[r]) = Len(returned[r]) + 1
  <2>1. \A q0 : q0 \in Seq(Buffers) => \A x \in Buffers :
            Append(q0, x) \in Seq(Buffers) /\ Len(Append(q0, x)) = Len(q0) + 1
    OBVIOUS
  <2> QED BY <1>3, <2>1, StateFacts
<1>5. /\ Current(r)' = Current(r) + 1
      /\ \A q \in Rank : q # r =>
            Current(q)' = Current(q) /\ TheCall(q)' = TheCall(q)
  BY <1>1, <1>3, <1>4, StateFacts DEF Current, TheCall
<1>6. \A s \in Rank : \A n \in DOMAIN program : Sent(s, n)' <=> Sent(s, n)
  <2> SUFFICES ASSUME NEW s \in Rank, NEW n \in DOMAIN program
               PROVE  Sent(s, n)' <=> Sent(s, n)
    OBVIOUS
  <2>1. n \in Nat
    BY ProgramFacts DEF TypeOK
  <2>2. CASE s = r
    BY <1>0, <1>2, <1>5, <2>1, <2>2 DEF Sent
  <2>3. CASE s # r
    BY <1>2, <1>5, <2>3 DEF Sent
  <2> QED BY <2>2, <2>3
<1>7. \A q, s \in Rank : \A n \in DOMAIN program :
            q \in Targets(program[n], s) =>
                (Received(q, s, n)' <=> Received(q, s, n))
  <2> SUFFICES ASSUME NEW q \in Rank, NEW s \in Rank, NEW n \in DOMAIN program,
                      q \in Targets(program[n], s)
               PROVE  Received(q, s, n)' <=> Received(q, s, n)
    OBVIOUS
  <2>1. n \in Nat
    BY ProgramFacts DEF TypeOK
  <2>2. CASE q = r
    <3>1. n = Current(r) => s \in DOMAIN rBuffer[r]
      BY <1>0, <2>2, CallFacts
    <3> QED BY <1>0, <1>2, <1>5, <2>1, <2>2, <3>1 DEF Received
  <2>3. CASE q # r
    BY <1>1, <1>2, <1>5, <2>3 DEF Received
  <2> QED BY <2>2, <2>3
<1>8. ChannelInv' /\ ReceivedInv'
  BY <1>1, <1>6, <1>7, QuietChannels
<1>9. TypeOK'
  <2>1. Buffers' = Buffers
    BY <1>1 DEF Buffers
  <2>2. returned' \in [Rank -> Seq(Buffers)]
    BY <1>1, <1>3, <1>4 DEF TypeOK
  <2>3. Len(returned'[r]) <= Len(program)
    BY <1>0, <1>4, StateFacts, ProgramFacts DEF TypeOK
  <2>4. \A q \in Rank : Len(returned'[q]) <= Len(program)
    BY <1>3, <2>3 DEF TypeOK
  <2> QED BY <1>1, <2>1, <2>2, <2>4 DEF TypeOK
<1>10. LocInv'
  BY <1>1, <1>2, <1>5 DEF LocInv
<1>11. BarrierInv'
  <2> SUFFICES ASSUME NEW q \in Rank, NEW s \in Rank, NEW n \in DOMAIN program,
                      n < Current(s)', program[n].kind \in AnySource
               PROVE  n < Current(q)' \/ (n = Current(q)' /\ loc'[q] = "barrier")
    BY <1>1 DEF BarrierInv
  <2>1. n \in Nat
    BY ProgramFacts DEF TypeOK
  <2>2. n < Current(q) \/ (n = Current(q) /\ loc[q] = "barrier")
    <3>1. CASE n < Current(s)
      BY <3>1 DEF BarrierInv
    <3>2. CASE ~(n < Current(s))
      <4>1. s = r /\ n = Current(r)
        BY <1>0, <1>5, <2>1, <3>2
      <4> QED BY <1>0, <4>1
    <3> QED BY <3>1, <3>2
  <2>3. CASE q = r
    BY <1>0, <1>5, <2>1, <2>2, <2>3
  <2>4. CASE q # r
    BY <1>2, <1>5, <2>2, <2>4
  <2> QED BY <2>3, <2>4
<1>12. CallsNotMixed'
  BY <1>1, <1>2, <1>5 DEF CallsNotMixed
<1> QED BY <1>8, <1>9, <1>10, <1>11, <1>12

LEMMA BarrierStep ==
    ASSUME IInv, NEW r \in Rank, loc[r] = "receive", AllReceived(r),
           TheCall(r).kind \in AnySource, loc' = [loc EXCEPT ![r] = "barrier"],
           UNCHANGED <<program, channel, counter, rBuffer, returned>>
    PROVE  IInv'
<1> USE DEF IInv
<1>1. DOMAIN rBuffer[r] = Sources(TheCall(r), r)
  BY AllSources
<1>2. loc'[r] = "barrier" /\ \A q \in Rank : q # r => loc'[q] = loc[q]
  BY DEF TypeOK
<1>3. \A q \in Rank : Current(q)' = Current(q) /\ TheCall(q)' = TheCall(q)
  BY DEF Current, TheCall
<1>4. \A s \in Rank : \A n \in DOMAIN program : Sent(s, n)' <=> Sent(s, n)
  BY <1>2, <1>3 DEF Sent
<1>5. \A q, s \in Rank : \A n \in DOMAIN program :
            Received(q, s, n)' <=> Received(q, s, n)
  BY <1>2, <1>3 DEF Received
<1>6. ChannelInv' /\ ReceivedInv'
  BY <1>4, <1>5, QuietChannels
<1>7. TypeOK'
  <2>1. TypeOK /\ Buffers' = Buffers
    BY DEF Buffers
  <2> QED BY <2>1 DEF TypeOK
<1>8. LocInv'
  BY <1>1, <1>2, <1>3 DEF LocInv
<1>9. BarrierInv'
  BY <1>2, <1>3 DEF BarrierInv
<1>10. CallsNotMixed'
  BY <1>2, <1>3 DEF CallsNotMixed
<1> QED BY <1>6, <1>7, <1>8, <1>9, <1>10

-----------------------------------------------------------------------------
(* The invariant, and what it says of the calls                            *)

LEMMA InitInv == Init => IInv
<1> SUFFICES ASSUME Init PROVE IInv
  OBVIOUS
<1>1. <<>> \in Buffers /\ <<>> \in Seq(Buffers) /\ Len(<<>>) = 0
  BY EmptyBuffer DEF Buffers
<1>2. \A r \in Rank : Current(r) = 1 /\ loc[r] = "caller"
  BY <1>1 DEF Init, Current
<1>3. TypeOK
  <2>1. channel \in [Rank \X Rank \X Tags -> Seq(DOMAIN program)]
    BY DEF Init
  <2>2. \A r \in Rank : Len(returned[r]) <= Len(program)
    BY <1>1, ProgramFacts DEF Init
  <2> QED BY <1>1, <2>1, <2>2 DEF Init, TypeOK
<1>4. LocInv
  BY <1>2 DEF LocInv
<1>5. \A r, s \in Rank : \A n \in DOMAIN program :
            ~Sent(s, n) /\ ~Received(r, s, n)
  BY <1>2, <1>3, ProgramFacts DEF Sent, Received, TypeOK
<1>6. \A s, r \in Rank, t \in Tags :
            Pending(s, r, t) = {} /\ channel[<<s, r, t>>] = <<>>
  BY <1>5 DEF Pending, Init
<1>7. ChannelInv
  <2>1. Lists(<<>>, {})
    BY <1>1 DEF Lists
  <2> QED BY <1>6, <2>1 DEF ChannelInv
<1>8. ReceivedInv
  BY <1>5 DEF ReceivedInv
<1>9. BarrierInv
  BY <1>2, <1>3, ProgramFacts DEF BarrierInv, TypeOK
<1>10. CallsNotMixed
  BY <1>2 DEF CallsNotMixed
<1> QED BY <1>3, <1>4, <1>7, <1>8, <1>9, <1>10 DEF IInv

\* One of the two receives of a process.
LEMMA ReceiveStep ==
    ASSUME IInv, NEW r \in Rank, NEW s \in Rank,
           ReceiveFrom(r, s) \/ ReceiveAny(r, s)
    PROVE  IInv'
<1>0. TheCall(r) \in Call /\ Tag(TheCall(r)) \in Tags /\ loc[r] = "receive"
  BY TheCallFacts, CallFacts DEF IInv, LocInv, ReceiveFrom, ReceiveAny
<1>1. /\ Store(r, s, Tag(TheCall(r)))
      /\ \/ TheCall(r).kind \in AnySource
         \/ s \in Sources(TheCall(r), r) \ DOMAIN rBuffer[r]
  BY <1>0, CallFacts DEF ReceiveFrom, ReceiveAny
<1>2. channel[<<s, r, Tag(TheCall(r))>>] # <<>>
  BY <1>1 DEF Store
<1>3. /\ Head(channel[<<s, r, Tag(TheCall(r))>>]) = Current(r)
      /\ s \in Sources(TheCall(r), r) \ DOMAIN rBuffer[r]
  BY <1>0, <1>1, <1>2, HeadIsCurrent
<1> QED BY <1>0, <1>1, <1>3, StoreStep

LEMMA WaitAllStep ==
    ASSUME IInv, NEW r \in Rank, WaitAll(r)
    PROVE  IInv'
<1>0. loc[r] = "receive" /\ AllReceived(r) /\ TheCall(r) \in Call
  BY TheCallFacts DEF IInv, LocInv, WaitAll
<1>1. DOMAIN rBuffer[r] = Sources(TheCall(r), r)
  BY <1>0, AllSources
<1>2. CASE TheCall(r).kind \in KnownSize
  <2>1. ReturnFromCall(r) /\ TheCall(r).kind \notin AnySource
    BY <1>0, <1>2, CallFacts DEF WaitAll
  <2> QED BY <1>0, <1>1, <2>1, ReturnStep
<1>3. CASE TheCall(r).kind \notin KnownSize
  <2>1. TheCall(r).kind \in AnySource
    BY <1>0, <1>3, CallFacts
  <2>2. /\ loc' = [loc EXCEPT ![r] = "barrier"]
        /\ UNCHANGED <<program, channel, counter, rBuffer, returned>>
    BY <1>3 DEF WaitAll
  <2> QED BY <1>0, <2>1, <2>2, BarrierStep
<1> QED BY <1>2, <1>3

LEMMA NextInv == IInv /\ [Next]_vars => IInv'
<1> SUFFICES ASSUME IInv, [Next]_vars PROVE IInv'
  OBVIOUS
<1>1. ASSUME NEW r \in Rank, Begin(r) PROVE IInv'
  BY <1>1, SendStep DEF Begin
<1>2. ASSUME NEW r \in Rank, EnterReduce(r) PROVE IInv'
  BY <1>2, EnterReduceStep
<1>3. ASSUME NEW r \in Rank, LeaveReduce(r) PROVE IInv'
  <2>1. Current(r) \in DOMAIN program /\ loc[r] = "reduce" /\ SendAll(r)
    BY <1>3 DEF LeaveReduce, IInv, LocInv
  <2> QED BY <2>1, SendStep
<1>4. ASSUME NEW r \in Rank, NEW s \in Rank, ReceiveFrom(r, s) \/ ReceiveAny(r, s)
      PROVE  IInv'
  BY <1>4, ReceiveStep
<1>5. ASSUME NEW r \in Rank, WaitAll(r) PROVE IInv'
  BY <1>5, WaitAllStep
<1>6. ASSUME NEW r \in Rank, LeaveBarrier(r) PROVE IInv'
  <2>1. /\ ReturnFromCall(r) /\ loc[r] = "barrier"
        /\ DOMAIN rBuffer[r] = Sources(TheCall(r), r)
        /\ \A q \in Rank : \/ Current(q) > Current(r)
                           \/ Current(q) = Current(r) /\ loc[q] = "barrier"
    BY <1>6 DEF LeaveBarrier, IInv, LocInv
  <2> QED BY <2>1, ReturnStep
<1>7. CASE UNCHANGED vars
  <2>1. /\ program' = program /\ loc' = loc /\ channel' = channel
        /\ counter' = counter /\ rBuffer' = rBuffer /\ returned' = returned
    BY <1>7 DEF vars
  <2>2. \A q \in Rank : Current(q)' = Current(q) /\ TheCall(q)' = TheCall(q)
    BY <2>1 DEF Current, TheCall
  <2>3. TypeOK'
    <3>1. TypeOK /\ Buffers' = Buffers
      BY <2>1 DEF IInv, Buffers
    <3> QED BY ONLY <2>1, <3>1 DEF TypeOK
  <2>4. LocInv'
    BY <2>1, <2>2 DEF IInv, LocInv
  <2>5. BarrierInv'
    BY <2>1, <2>2 DEF IInv, BarrierInv
  <2>6. CallsNotMixed'
    BY <2>1, <2>2 DEF IInv, CallsNotMixed
  <2>7. \A s, q \in Rank : \A n \in DOMAIN program :
            /\ Sent(s, n)' <=> Sent(s, n)
            /\ Received(q, s, n)' <=> Received(q, s, n)
    BY <2>1, <2>2 DEF Sent, Received
  <2>8. ChannelInv' /\ ReceivedInv'
    BY <2>1, <2>7, QuietChannels DEF IInv
  <2> QED BY <2>3, <2>4, <2>5, <2>6, <2>8 DEF IInv
<1>8. CASE \E r \in Rank : Step(r)
  BY <1>8, <1>1, <1>2, <1>3, <1>4, <1>5, <1>6 DEF Step
<1> QED BY <1>7, <1>8 DEF Next, Done

\* The invariant of the calls: exactly the messages that were sent and not
\* taken in are on their way, in order.
THEOREM Invariance == Spec => []IInv
<1>1. Init => IInv
  BY InitInv
<1>2. IInv /\ [Next]_vars => IInv'
  BY NextInv
<1> QED BY <1>1, <1>2, PTL DEF Spec

\* What a process receives in a call was sent in that call, by its sources
\* (Communication::exchangeUnknownSize and the others).
THEOREM CallsNotMixedHolds == Spec => []CallsNotMixed
<1>1. IInv => CallsNotMixed
  BY DEF IInv
<1> QED BY <1>1, Invariance, PTL

\* After a call no message of it, or of an earlier call, is on its way to the
\* process (the counters of Communication wait for all of them).
THEOREM NothingLeftBehindHolds == Spec => []NothingLeftBehind
<1>1. IInv => NothingLeftBehind
  <2> SUFFICES ASSUME IInv, NEW r \in Rank, NEW s \in Rank, NEW t \in Tags,
                      NEW n \in DOMAIN channel[<<s, r, t>>]
               PROVE  channel[<<s, r, t>>][n] >= Current(r)
    BY DEF NothingLeftBehind
  <2> DEFINE m == channel[<<s, r, t>>][n]
  <2>1. channel[<<s, r, t>>] \in Seq(Nat) /\ Current(r) \in Nat
    BY PendingFacts, StateFacts DEF IInv
  <2>2. m \in Pending(s, r, t)
    BY <2>1 DEF IInv, ChannelInv, Lists
  <2>3. m \in Nat /\ ~Received(r, s, m)
    BY <2>2, PendingFacts DEF Pending, IInv
  <2> QED BY <2>1, <2>3 DEF Received
<1> QED BY <1>1, Invariance, PTL

-----------------------------------------------------------------------------
(* The calls deliver what Collective promises                              *)

\* Both modules speak of the same processes and calls.
LEMMA SameCalls ==
    /\ Promise!Rank = Rank
    /\ \A c, r : Promise!Sources(c, r) = Sources(c, r)
<1>1. Promise!Rank = Rank
  BY DEF Promise!Rank, Rank
<1>2. \A c, s : Promise!Targets(c, s) = Targets(c, s)
  BY DEF Promise!Targets, Targets
<1> QED BY <1>1, <1>2 DEF Promise!Sources, Sources

\* A call that returns is a step of the promise.
LEMMA ReturnIsPromised ==
    ASSUME IInv, NEW r \in Rank, ReturnFromCall(r),
           loc[r] \in {"receive", "barrier"},
           DOMAIN rBuffer[r] = Sources(TheCall(r), r)
    PROVE  Promise!Return(r)
<1> USE DEF IInv
<1> DEFINE i == Current(r)
<1>1. /\ i \in DOMAIN program /\ i \in Nat /\ TheCall(r) = program[i]
      /\ TheCall(r) \in Call /\ i = Len(returned[r]) + 1
  BY StateFacts, TheCallFacts DEF LocInv
<1>2. rBuffer[r] = [s \in Sources(program[i], r) |-> i]
  <2>1. \A s \in Sources(program[i], r) : rBuffer[r][s] = i
    BY <1>1 DEF CallsNotMixed
  <2>2. rBuffer[r] \in [DOMAIN rBuffer[r] -> DOMAIN program]
    BY StateFacts
  <2> QED BY <1>1, <2>1, <2>2
<1>3. ASSUME NEW s \in Sources(program[i], r) PROVE Len(returned[s]) >= i - 1
  <2>1. s \in Rank /\ r \in Targets(program[i], s)
    BY <1>1 DEF Sources
  <2>2. Received(r, s, i)
    BY <1>1 DEF Received
  <2>3. Sent(s, i)
    BY <1>1, <2>1, <2>2 DEF ReceivedInv
  <2>4. Current(s) = Len(returned[s]) + 1 /\ Current(s) \in Nat
        /\ Len(returned[s]) \in Nat
    BY <2>1, StateFacts
  <2>5. i <= Current(s)
    BY <1>1, <2>3, <2>4 DEF Sent
  <2> QED BY <1>1, <2>4, <2>5
<1>4. /\ returned' = [returned EXCEPT ![r] = Append(@, rBuffer[r])]
      /\ program' = program
  BY DEF ReturnFromCall
<1> QED BY <1>1, <1>2, <1>3, <1>4, SameCalls DEF Promise!Return

LEMMA StepIsPromised == IInv /\ [Next]_vars => [Promise!Next]_(Promise!vars)
<1> SUFFICES ASSUME IInv, [Next]_vars PROVE [Promise!Next]_(Promise!vars)
  OBVIOUS
<1>1. ASSUME NEW r \in Rank, Begin(r) \/ EnterReduce(r) \/ LeaveReduce(r)
      PROVE  UNCHANGED Promise!vars
  BY <1>1 DEF Begin, EnterReduce, LeaveReduce, SendAll, Promise!vars
<1>2. ASSUME NEW r \in Rank, NEW s \in Rank, ReceiveFrom(r, s) \/ ReceiveAny(r, s)
      PROVE  UNCHANGED Promise!vars
  BY <1>2 DEF ReceiveFrom, ReceiveAny, Store, Promise!vars
<1>3. ASSUME NEW r \in Rank, WaitAll(r)
      PROVE  Promise!Return(r) \/ UNCHANGED Promise!vars
  <2>1. CASE TheCall(r).kind \in KnownSize
    <3>1. /\ ReturnFromCall(r) /\ loc[r] = "receive" 
          /\ DOMAIN rBuffer[r] = Sources(TheCall(r), r)
      BY <1>3, <2>1 DEF WaitAll, AllReceived
    <3> QED BY <3>1, ReturnIsPromised
  <2>2. CASE TheCall(r).kind \notin KnownSize
    BY <1>3, <2>2 DEF WaitAll, Promise!vars
  <2> QED BY <2>1, <2>2
<1>4. ASSUME NEW r \in Rank, LeaveBarrier(r) PROVE Promise!Return(r)
  <2>1. /\ ReturnFromCall(r) /\ loc[r] = "barrier"
        /\ DOMAIN rBuffer[r] = Sources(TheCall(r), r)
    BY <1>4 DEF LeaveBarrier, IInv, LocInv
  <2> QED BY <2>1, ReturnIsPromised
<1>5. CASE UNCHANGED vars
  BY <1>5 DEF vars, Promise!vars
<1>6. CASE \E r \in Rank : Step(r)
  BY <1>6, <1>1, <1>2, <1>3, <1>4, SameCalls DEF Step, Promise!Next
<1> QED BY <1>5, <1>6 DEF Next, Done

\* What the calls of espreso::Communication return is what the caller was
\* promised, whatever order processes and messages take: the call number i
\* returns the messages its sources sent in their call number i, all of them,
\* and no other.
THEOREM ImplementsCollective ==
    Spec => Promise!Init /\ [][Promise!Next]_(Promise!vars)
<1>1. Init => Promise!Init
  BY SameCalls DEF Init, Promise!Init
<1>2. IInv /\ [Next]_vars => [Promise!Next]_(Promise!vars)
  BY StepIsPromised
<1> QED BY <1>1, <1>2, Invariance, PTL DEF Spec
=============================================================================
