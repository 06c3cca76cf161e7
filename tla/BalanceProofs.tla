---------------------------- MODULE BalanceProofs -----------------------------
(***************************************************************************)
(* Balance keeps its promise for any number of processes, any distributions *)
(* and any sequence of calls.                                               *)
(***************************************************************************)
EXTENDS Balance, FiniteSetTheorems, SequenceTheorems, WellFoundedInduction,
        TLAPS

Larger(a, b) == IF a < b THEN b ELSE a

\* The size and the displacement of process q are what they should be.
Filled(r, f, t, size, disp, q) ==
    /\ size[q] = Overlap(f, t, r, q)
    /\ size[q] > 0 => disp[q] = Larger(f[r], t[q]) - f[r]

AllFilled(r, f, t, size, disp) == \A q \in Rank : Filled(r, f, t, size, disp, q)

\* The loop invariant of "fill": the processes before ti are done, the rest is
\* still empty, and the walk stands at place f[r] + off in the part of ti.
WalkInv(r, f, t, off, rest, ti, to_, size, disp) ==
    /\ rest > 0 => /\ off + rest = f[r + 1] - f[r]
                   /\ ti \in Rank
                   /\ t[ti] + to_ = f[r] + off
                   /\ to_ <= t[ti + 1] - t[ti]
                   /\ to_ = 0 \/ off = 0
                   /\ \A q \in Rank : q < ti => Filled(r, f, t, size, disp, q)
                   /\ \A q \in Rank : q >= ti => size[q] = 0
    /\ rest = 0 => AllFilled(r, f, t, size, disp)

\* A distribution is increasing; the places of neighbours are in it.
LEMMA DistributionFacts ==
    ASSUME NEW d, IsDistribution(d), NEW r \in Rank
    PROVE  /\ r \in 0..Size /\ r + 1 \in 0..Size /\ r \in Nat
           /\ d[r] \in Nat /\ d[r + 1] \in Nat /\ d[Size] \in Nat
           /\ d[r] <= d[r + 1] /\ d[r + 1] <= d[Size]
           /\ d[0] = 0 /\ Size \in Nat /\ 0 \in 0..Size /\ Size \in 0..Size
BY SizeAssumption DEF IsDistribution, Rank

\* What p has of q is the same from both sides.
LEMMA OverlapSymmetric ==
    ASSUME NEW f, IsDistribution(f), NEW t, IsDistribution(t),
           NEW p \in Rank, NEW q \in Rank
    PROVE  /\ Overlap(f, t, p, q) = Overlap(t, f, q, p)
           /\ Overlap(f, t, p, q) \in Nat
           /\ Larger(f[p], t[q]) = Larger(t[q], f[p])
<1>1. f[p] \in Nat /\ f[p + 1] \in Nat /\ t[q] \in Nat /\ t[q + 1] \in Nat
  BY DistributionFacts
<1> QED BY <1>1 DEF Overlap, Larger

\* The first lines of "fill" establish the loop invariant.
LEMMA WalkStart ==
    ASSUME NEW f, IsDistribution(f), NEW t, IsDistribution(t), f[Size] = t[Size],
           NEW r \in Rank, NEW i \in 0..(Size + 1), IsLowerBound(t, f[r] + 1, i)
    PROVE  /\ i - 1 \in 0..Size
           /\ f[r] - t[i - 1] \in Nat
           /\ f[r + 1] - f[r] \in Nat
           /\ WalkInv(r, f, t, 0, f[r + 1] - f[r], i - 1, f[r] - t[i - 1],
                      Zeros, Zeros)
<1>1. /\ r \in 0..Size /\ r + 1 \in 0..Size /\ Size \in Nat
      /\ f[r] \in Nat /\ f[r + 1] \in Nat /\ f[Size] \in Nat
      /\ f[r] <= f[r + 1] /\ f[r + 1] <= f[Size] /\ t[0] = 0
  BY DistributionFacts
<1>2. \A j \in 0..Size : t[j] \in Nat /\ (j < i <=> t[j] < f[r] + 1)
  BY DEF IsLowerBound, IsDistribution
<1>3. i >= 1 /\ i - 1 \in 0..Size
  BY <1>1, <1>2
<1>4. f[r] - t[i - 1] \in Nat /\ f[r + 1] - f[r] \in Nat
  BY <1>1, <1>2, <1>3
<1>5. ASSUME f[r + 1] - f[r] > 0
      PROVE  /\ i - 1 \in Rank
             /\ f[r] - t[i - 1] <= t[(i - 1) + 1] - t[i - 1]
  <2>1. i <= Size
    BY <1>1, <1>2, <1>5
  <2>2. i - 1 \in Rank /\ (i - 1) + 1 = i
    BY <2>1, <1>3, <1>1 DEF Rank
  <2>3. t[i] >= f[r] + 1
    BY <2>1, <1>1, <1>2, <1>3
  <2> QED BY <2>2, <2>3, <2>1, <1>1, <1>2, <1>3
<1>6. ASSUME NEW q \in Rank, q < i - 1
      PROVE  Filled(r, f, t, Zeros, Zeros, q)
  <2>1. q + 1 \in 0..Size /\ q \in 0..Size /\ q + 1 < i
    BY <1>6, <1>1, <1>3 DEF Rank
  <2>2. t[q + 1] <= f[r] /\ t[q] \in Nat /\ t[q + 1] \in Nat
    BY <2>1, <1>2, <1>1
  <2>3. Overlap(f, t, r, q) = 0
    BY <2>2, <1>1 DEF Overlap
  <2> QED BY <2>3 DEF Filled, Zeros
<1>7. ASSUME f[r + 1] - f[r] = 0
      PROVE  AllFilled(r, f, t, Zeros, Zeros)
  <2>1. ASSUME NEW q \in Rank PROVE Filled(r, f, t, Zeros, Zeros, q)
    <3>1. t[q] \in Nat /\ t[q + 1] \in Nat
      BY DistributionFacts
    <3>2. Overlap(f, t, r, q) = 0
      BY <3>1, <1>1, <1>7 DEF Overlap
    <3> QED BY <3>2 DEF Filled, Zeros
  <2> QED BY <2>1 DEF AllFilled
<1>8. t[i - 1] + (f[r] - t[i - 1]) = f[r] + 0
  BY <1>1, <1>2, <1>3
<1>9. \A q \in Rank : q >= i - 1 => Zeros[q] = 0
  BY DEF Zeros
<1>10. 0 + (f[r + 1] - f[r]) = f[r + 1] - f[r]
  BY <1>1
<1> QED BY <1>3, <1>4, <1>5, <1>6, <1>7, <1>8, <1>9, <1>10 DEF WalkInv

\* Both iterations of the loop, with the size they assign.
LEMMA WalkRest ==
    ASSUME NEW f, IsDistribution(f), NEW t, IsDistribution(t),
           NEW r \in Rank, NEW off \in Nat, NEW rest \in Nat, rest > 0,
           NEW ti \in 0..Size, NEW to_ \in Nat,
           NEW size \in [Rank -> Nat], NEW disp \in [Rank -> Nat],
           WalkInv(r, f, t, off, rest, ti, to_, size, disp),
           rest < t[ti + 1] - t[ti] - to_
    PROVE  /\ ti \in Rank
           /\ AllFilled(r, f, t, [size EXCEPT ![ti] = rest],
                                 [disp EXCEPT ![ti] = off])
<1> DEFINE size1 == [size EXCEPT ![ti] = rest]
           disp1 == [disp EXCEPT ![ti] = off]
<1>1. /\ off + rest = f[r + 1] - f[r]
      /\ ti \in Rank /\ t[ti] + to_ = f[r] + off
      /\ to_ = 0 \/ off = 0
      /\ \A q \in Rank : q < ti => Filled(r, f, t, size, disp, q)
      /\ \A q \in Rank : q >= ti => size[q] = 0
  BY DEF WalkInv
<1>2. /\ f[r] \in Nat /\ f[r + 1] \in Nat /\ t[ti] \in Nat /\ t[ti + 1] \in Nat
  BY <1>1, DistributionFacts
<1>3. ASSUME NEW q \in Rank PROVE Filled(r, f, t, size1, disp1, q)
  <2>0. /\ q \in 0..Size /\ q + 1 \in 0..Size /\ t[q] \in Nat /\ t[q + 1] \in Nat
        /\ ti \in 0..Size /\ ti + 1 \in 0..Size /\ q \in Nat /\ ti \in Nat
    BY DistributionFacts, <1>1
  <2>1. CASE q < ti
    BY <2>1, <2>0, <1>1 DEF Filled
  <2>2. CASE q = ti
    <3>1. size1[q] = rest /\ disp1[q] = off
      BY <2>2
    <3>2. Larger(f[r], t[ti]) = f[r] + off
      BY <1>1, <1>2 DEF Larger
    <3>3. f[r + 1] = f[r] + off + rest /\ f[r + 1] < t[ti + 1]
      BY <1>1, <1>2
    <3>4. Overlap(f, t, r, ti) = rest
      BY <3>2, <3>3, <1>2 DEF Overlap, Larger
    <3> QED BY <3>1, <3>2, <3>4, <2>2, <1>2 DEF Filled
  <2>3. CASE q > ti
    <3>1. t[ti + 1] <= t[q]
      BY <2>3, <2>0 DEF IsDistribution
    <3>2. f[r + 1] < t[q]
      BY <3>1, <1>1, <1>2, <2>0
    <3>3. Overlap(f, t, r, q) = 0
      BY <3>2, <1>2, <2>0 DEF Overlap
    <3>4. size1[q] = 0
      BY <2>3, <2>0, <1>1
    <3> QED BY <3>3, <3>4 DEF Filled
  <2> QED BY <2>0, <2>1, <2>2, <2>3
<1> QED BY <1>1, <1>3 DEF AllFilled

LEMMA WalkPart ==
    ASSUME NEW f, IsDistribution(f), NEW t, IsDistribution(t), f[Size] = t[Size],
           NEW r \in Rank, NEW off \in Nat, NEW rest \in Nat, rest > 0,
           NEW ti \in 0..Size, NEW to_ \in Nat, NEW part \in Int,
           NEW size \in [Rank -> Nat], NEW disp \in [Rank -> Nat],
           WalkInv(r, f, t, off, rest, ti, to_, size, disp),
           part = t[ti + 1] - t[ti] - to_, rest >= part
    PROVE  /\ ti \in Rank /\ part \in Nat /\ rest - part \in Nat
           /\ WalkInv(r, f, t, off + part, rest - part, ti + 1, 0,
                      [size EXCEPT ![ti] = part], [disp EXCEPT ![ti] = off])
<1> DEFINE size1 == [size EXCEPT ![ti] = part]
           disp1 == [disp EXCEPT ![ti] = off]
<1>1. /\ off + rest = f[r + 1] - f[r]
      /\ ti \in Rank /\ t[ti] + to_ = f[r] + off
      /\ to_ <= t[ti + 1] - t[ti]
      /\ to_ = 0 \/ off = 0
      /\ \A q \in Rank : q < ti => Filled(r, f, t, size, disp, q)
      /\ \A q \in Rank : q >= ti => size[q] = 0
  BY DEF WalkInv
<1>2. /\ f[r] \in Nat /\ f[r + 1] \in Nat /\ t[ti] \in Nat /\ t[ti + 1] \in Nat
      /\ f[r + 1] <= f[Size] /\ ti \in 0..Size /\ ti + 1 \in 0..Size
      /\ ti \in Nat /\ Size \in Nat /\ t[Size] \in Nat
  BY <1>1, DistributionFacts
<1>3. /\ part \in Nat /\ rest - part \in Nat
      /\ t[ti + 1] = f[r] + off + part
      /\ f[r + 1] = f[r] + off + rest
  BY <1>1, <1>2
<1>4. ASSUME NEW q \in Rank, q <= ti PROVE Filled(r, f, t, size1, disp1, q)
  <2>0. q \in Nat
    BY DistributionFacts
  <2>1. CASE q < ti
    BY <2>0, <2>1, <1>1, <1>2 DEF Filled
  <2>2. CASE q = ti
    <3>1. size1[q] = part /\ disp1[q] = off
      BY <2>2
    <3>2. Larger(f[r], t[ti]) = f[r] + off
      BY <1>1, <1>2 DEF Larger
    <3>3. Overlap(f, t, r, ti) = part
      BY <3>2, <1>3, <1>2 DEF Overlap, Larger
    <3> QED BY <3>1, <3>2, <3>3, <2>2, <1>2 DEF Filled
  <2> QED BY <2>0, <2>1, <2>2, <1>4, <1>2
<1>0. \A q \in Rank : q \in Nat
  BY SizeAssumption DEF Rank
<1>5. ASSUME NEW q \in Rank, q >= ti + 1 PROVE size1[q] = 0
  <2>1. q \in Nat /\ q # ti /\ q >= ti
    BY <1>0, <1>2, <1>5
  <2>2. size[q] = 0
    BY <2>1, <1>1
  <2> QED BY <2>1, <2>2
<1>6. ASSUME rest - part > 0
      PROVE  /\ ti + 1 \in Rank
             /\ t[ti + 1] + 0 = f[r] + (off + part)
             /\ 0 <= t[(ti + 1) + 1] - t[ti + 1]
  <2>1. t[ti + 1] < t[Size]
    BY <1>6, <1>2, <1>3
  <2>2. ti + 1 \in Rank
    BY <2>1, <1>2 DEF Rank
  <2>3. /\ t[ti + 1] \in Nat /\ t[(ti + 1) + 1] \in Nat
        /\ t[ti + 1] <= t[(ti + 1) + 1]
    BY <2>2, DistributionFacts
  <2> QED BY <2>2, <2>3, <1>2, <1>3
<1>7. ASSUME rest - part = 0 PROVE AllFilled(r, f, t, size1, disp1)
  <2>1. ASSUME NEW q \in Rank, q > ti PROVE Filled(r, f, t, size1, disp1, q)
    <3>1. q \in 0..Size /\ q \in Nat /\ t[q] \in Nat /\ t[q + 1] \in Nat
      BY DistributionFacts
    <3>2. t[ti + 1] <= t[q]
      BY <3>1, <2>1, <1>2 DEF IsDistribution
    <3>3. f[r + 1] <= t[q]
      BY <3>2, <3>1, <1>7, <1>3, <1>2
    <3>4. Overlap(f, t, r, q) = 0
      BY <3>3, <3>1, <1>2 DEF Overlap
    <3>5. size1[q] = 0
      BY <2>1, <3>1, <1>5, <1>2
    <3> QED BY <3>4, <3>5 DEF Filled
  <2>2. ASSUME NEW q \in Rank PROVE Filled(r, f, t, size1, disp1, q)
    <3>1. q > ti \/ q <= ti
      BY <1>2, <1>0
    <3> QED BY <3>1, <2>1, <1>4
  <2> QED BY <2>2 DEF AllFilled
<1>8. ASSUME NEW q \in Rank, q < ti + 1 PROVE Filled(r, f, t, size1, disp1, q)
  <2>1. q <= ti
    BY <1>8, <1>2, <1>0
  <2> QED BY <2>1, <1>4
<1>9. (off + part) + (rest - part) = f[r + 1] - f[r]
  BY <1>3, <1>2
<1> QED BY <1>1, <1>3, <1>5, <1>6, <1>7, <1>8, <1>9 DEF WalkInv

(***************************************************************************)
(* The invariant of Balance.                                               *)
(***************************************************************************)

\* The message of call n from process s to process d.
MessageOf(n, s, d) ==
    [call |-> n,
     size |-> Overlap(calls[n].current, calls[n].target, s, d),
     first |-> Larger(calls[n].current[s], calls[n].target[d])]

Sends(n, s, d) == Overlap(calls[n].current, calls[n].target, s, d) > 0

\* Process s has sent the messages of call n.
Sent(n, s) == n < call[s] \/ (n = call[s] /\ loc[s] \in {"wait", "caller"})

\* Process d has the message of process s in call n.
Has(n, s, d) == n < call[d] \/ (n = call[d] /\ s \in DOMAIN result[d])

\* What a process has computed so far.
Computed(r) ==
    /\ loc[r] = "sends" =>
        /\ WalkInv(r, current(r), target(r), offset[r], restSize[r], tIndex[r],
                   tOffset[r], ssize[r], sdisp[r])
        /\ rsize[r] = Zeros /\ rdisp[r] = Zeros
    /\ loc[r] = "receives" =>
        /\ AllFilled(r, current(r), target(r), ssize[r], sdisp[r])
        /\ WalkInv(r, target(r), current(r), offset[r], restSize[r], tIndex[r],
                   tOffset[r], rsize[r], rdisp[r])
    /\ loc[r] = "wait" \/ (loc[r] = "caller" /\ call[r] > 0) =>
        AllFilled(r, target(r), current(r), rsize[r], rdisp[r])

\* What a process has received so far.
Received(r) ==
    /\ loc[r] \in {"sends", "receives"} => DOMAIN result[r] = {}
    /\ call[r] = 0 => DOMAIN result[r] = {}
    /\ \A s \in DOMAIN result[r] : /\ result[r][s] = MessageOf(call[r], s, r)
                                    /\ Sends(call[r], s, r)
    /\ loc[r] = "caller" /\ call[r] > 0 =>
        \A s \in Rank : Sends(call[r], s, r) => s \in DOMAIN result[r]

\* The message of call n is sent and not received.
UnderWay(n, s, d) ==
    n \in DOMAIN calls /\ Sends(n, s, d) /\ Sent(n, s) /\ ~Has(n, s, d)

\* The channel holds the messages that are under way, in order.
ChannelOK(s, d) ==
    /\ \A k \in DOMAIN channel[<<s, d>>] :
        /\ UnderWay(channel[<<s, d>>][k].call, s, d)
        /\ channel[<<s, d>>][k] = MessageOf(channel[<<s, d>>][k].call, s, d)
    /\ \A j, k \in DOMAIN channel[<<s, d>>] :
        j < k => channel[<<s, d>>][j].call < channel[<<s, d>>][k].call
    /\ \A n \in DOMAIN calls : UnderWay(n, s, d) =>
            \E k \in DOMAIN channel[<<s, d>>] : channel[<<s, d>>][k].call = n
    /\ \A n \in DOMAIN calls : Sends(n, s, d) /\ Has(n, s, d) => Sent(n, s)

IInv ==
    /\ TypeOK
    /\ \A r \in Rank : Computed(r) /\ Received(r)
    /\ \A s, d \in Rank : ChannelOK(s, d)

\* The calls are well formed, and numbered from 1.
LEMMA CallFacts ==
    ASSUME TypeOK, NEW n \in DOMAIN calls
    PROVE  /\ n \in Nat /\ n > 0
           /\ IsDistribution(calls[n].current) /\ IsDistribution(calls[n].target)
           /\ calls[n].current[Size] = calls[n].target[Size]
           /\ \A m \in 1..n : m \in DOMAIN calls
<1>1. calls \in Seq(Call) /\ \A m \in DOMAIN calls : WellFormed(calls[m])
  BY CallsAssumption DEF TypeOK
<1>2. DOMAIN calls = 1..Len(calls) /\ Len(calls) \in Nat
  BY <1>1
<1> QED BY <1>1, <1>2 DEF WellFormed

\* A process that is in a call is in an existing one.
LEMMA InCall ==
    ASSUME TypeOK, NEW r \in Rank, loc[r] # "caller" \/ call[r] > 0
    PROVE  /\ call[r] \in DOMAIN calls
           /\ IsDistribution(current(r)) /\ IsDistribution(target(r))
           /\ current(r)[Size] = target(r)[Size]
<1>1. call[r] \in DOMAIN calls
  BY DEF TypeOK
<1> QED BY <1>1, CallFacts DEF current, target

\* Everything a process has of its own.
Keeps(q) ==
    /\ call'[q] = call[q] /\ loc'[q] = loc[q]
    /\ offset'[q] = offset[q] /\ restSize'[q] = restSize[q]
    /\ tIndex'[q] = tIndex[q] /\ tOffset'[q] = tOffset[q]
    /\ ssize'[q] = ssize[q] /\ sdisp'[q] = sdisp[q]
    /\ rsize'[q] = rsize[q] /\ rdisp'[q] = rdisp[q]
    /\ result'[q] = result[q]

LEMMA Frame ==
    ASSUME NEW q \in Rank, calls' = calls, Keeps(q), Computed(q), Received(q)
    PROVE  Computed(q)' /\ Received(q)'
<1>1. Computed(q)'
  BY DEF Keeps, Computed, current, target
<1>2. Received(q)'
  BY DEF Keeps, Received, MessageOf, Sends
<1> QED BY <1>1, <1>2

LEMMA ChannelFrame ==
    ASSUME NEW s \in Rank, NEW d \in Rank, calls' = calls,
           channel'[<<s, d>>] = channel[<<s, d>>], ChannelOK(s, d),
           \A n \in DOMAIN calls : Sends(n, s, d) =>
                /\ Sent(n, s)' <=> Sent(n, s)
                /\ Has(n, s, d)' <=> Has(n, s, d)
    PROVE  ChannelOK(s, d)'
<1>1. \A n : Sends(n, s, d)' <=> Sends(n, s, d)
  BY DEF Sends
<1>2. \A n : UnderWay(n, s, d)' <=> UnderWay(n, s, d)
  BY <1>1 DEF UnderWay
<1> QED BY <1>1, <1>2 DEF ChannelOK, MessageOf

\* A step of r leaves the calls and the other processes alone.
LEMMA Others ==
    ASSUME TypeOK, NEW r \in Rank, Step(r), NEW q \in Rank, q # r
    PROVE  Keeps(q) /\ calls' = calls
<1> USE DEF TypeOK, vars, fillVars, sizeVars, Keeps
<1>1. CASE Begin(r)
  BY <1>1 DEF Begin, StartFill
<1>2. CASE FillRest(r)
  BY <1>2 DEF FillRest, SetSize
<1>3. CASE FillPart(r)
  BY <1>3 DEF FillPart, SetSize
<1>4. CASE FillReceives(r)
  BY <1>4 DEF FillReceives, StartFill
<1>5. CASE Post(r)
  BY <1>5 DEF Post
<1>6. CASE \E s \in Rank : Receive(r, s)
  BY <1>6 DEF Receive
<1>7. CASE WaitAll(r)
  BY <1>7 DEF WaitAll
<1> QED BY <1>1, <1>2, <1>3, <1>4, <1>5, <1>6, <1>7 DEF Step, Fill

\* What remains to be shown of a step of r.
LEMMA StepOf ==
    ASSUME IInv, NEW r \in Rank, Step(r), TypeOK',
           Computed(r)', Received(r)', \A s, d \in Rank : ChannelOK(s, d)'
    PROVE  IInv'
<1>1. ASSUME NEW q \in Rank, q # r PROVE Computed(q)' /\ Received(q)'
  BY <1>1, Others, Frame DEF IInv
<1> QED BY <1>1 DEF IInv

LEMMA BeginStep ==
    ASSUME IInv, NEW r \in Rank, Begin(r)
    PROVE  IInv'
<1> DEFINE n == call[r] + 1
           f == calls[n].current
           t == calls[n].target
<1>1. /\ TypeOK /\ Received(r) /\ loc[r] = "caller" /\ call[r] \in Nat
      /\ n \in DOMAIN calls /\ calls' = calls /\ channel' = channel
      /\ call'[r] = n /\ loc'[r] = "sends" /\ DOMAIN result'[r] = {}
      /\ ssize'[r] = Zeros /\ sdisp'[r] = Zeros
      /\ rsize'[r] = Zeros /\ rdisp'[r] = Zeros
  BY DEF IInv, TypeOK, Begin
<1>2. IsDistribution(f) /\ IsDistribution(t) /\ f[Size] = t[Size]
  BY <1>1, CallFacts
<1>3. PICK i \in 0..(Size + 1) :
        /\ IsLowerBound(t, f[r] + 1, i)
        /\ tIndex' = [tIndex EXCEPT ![r] = i - 1]
        /\ offset' = [offset EXCEPT ![r] = 0]
        /\ restSize' = [restSize EXCEPT ![r] = f[r + 1] - f[r]]
        /\ tOffset' = [tOffset EXCEPT ![r] = f[r] - t[i - 1]]
  BY DEF Begin, StartFill
<1>4. /\ i - 1 \in 0..Size
      /\ f[r] - t[i - 1] \in Nat
      /\ f[r + 1] - f[r] \in Nat
      /\ WalkInv(r, f, t, 0, f[r + 1] - f[r], i - 1, f[r] - t[i - 1],
                 Zeros, Zeros)
  BY <1>2, <1>3, WalkStart
<1>5. Zeros \in [Rank -> Nat]
  BY DEF Zeros
<1>6. TypeOK'
  <2>1. /\ offset' \in [Rank -> Nat] /\ restSize' \in [Rank -> Nat]
        /\ tIndex' \in [Rank -> 0..Size] /\ tOffset' \in [Rank -> Nat]
    BY <1>1, <1>3, <1>4 DEF TypeOK
  <2>2. /\ ssize' \in [Rank -> [Rank -> Nat]] /\ sdisp' \in [Rank -> [Rank -> Nat]]
        /\ rsize' \in [Rank -> [Rank -> Nat]] /\ rdisp' \in [Rank -> [Rank -> Nat]]
    BY <1>1, <1>5 DEF TypeOK, Begin
  <2>3. /\ call' \in [Rank -> Nat]
        /\ loc' \in [Rank -> {"caller", "sends", "receives", "wait"}]
        /\ DOMAIN result' = Rank
    BY <1>1 DEF TypeOK, Begin
  <2>4. \A q \in Rank : /\ DOMAIN result'[q] \subseteq Rank
                        /\ call'[q] \in DOMAIN calls
                            \/ (loc'[q] = "caller" /\ call'[q] = 0)
    BY <1>1 DEF TypeOK, Begin
  <2> QED BY <1>1, <2>1, <2>2, <2>3, <2>4 DEF TypeOK
<1>7. Computed(r)'
  <2>1. /\ offset'[r] = 0 /\ restSize'[r] = f[r + 1] - f[r]
        /\ tIndex'[r] = i - 1 /\ tOffset'[r] = f[r] - t[i - 1]
    BY <1>1, <1>3 DEF TypeOK
  <2> QED BY <1>1, <1>4, <2>1 DEF Computed, current, target
<1>8. Received(r)'
  BY <1>1 DEF Received
<1>9. ASSUME NEW s \in Rank, NEW d \in Rank PROVE ChannelOK(s, d)'
  <2>1. ASSUME NEW k \in DOMAIN calls, Sends(k, s, d)
        PROVE  /\ Sent(k, s)' <=> Sent(k, s)
               /\ Has(k, s, d)' <=> Has(k, s, d)
    <3>1. k \in Nat /\ k > 0
      BY <1>1, CallFacts
    <3>2. Sent(k, s)' <=> Sent(k, s)
      <4>1. CASE s = r
        BY <4>1, <3>1, <1>1 DEF Sent
      <4>2. CASE s # r
        BY <4>2, <1>1 DEF Sent, Begin, TypeOK
      <4> QED BY <4>1, <4>2
    <3>3. Has(k, s, d)' <=> Has(k, s, d)
      <4>1. CASE d = r
        BY <4>1, <3>1, <2>1, <1>1 DEF Has, Received
      <4>2. CASE d # r
        BY <4>2, <1>1 DEF Has, Begin, TypeOK
      <4> QED BY <4>1, <4>2
    <3> QED BY <3>2, <3>3
  <2> QED BY <2>1, <1>1, ChannelFrame DEF IInv
<1> QED BY <1>6, <1>7, <1>8, <1>9, StepOf DEF Step

\* The loop of "fill" and its second call change neither what was sent nor what
\* was received.
LEMMA QuietChannels ==
    ASSUME IInv, NEW r \in Rank, calls' = calls, channel' = channel,
           call' = call, result' = result,
           \A q \in Rank : /\ q # r => loc'[q] = loc[q]
                           /\ loc'[r] \in {"wait", "caller"} <=>
                              loc[r] \in {"wait", "caller"}
    PROVE  \A s, d \in Rank : ChannelOK(s, d)'
<1> SUFFICES ASSUME NEW s \in Rank, NEW d \in Rank PROVE ChannelOK(s, d)'
  OBVIOUS
<1>1. \A k : Sent(k, s)' <=> Sent(k, s)
  BY DEF Sent
<1>2. \A k : Has(k, s, d)' <=> Has(k, s, d)
  BY DEF Has
<1> QED BY <1>1, <1>2, ChannelFrame DEF IInv

\* What both iterations of the loop have in common.
LEMMA FillStep ==
    ASSUME IInv, NEW r \in Rank, Fill(r)
    PROVE  IInv'
<1> DEFINE f == from(r)
           t == to(r)
           ti == tIndex[r]
           size == IF loc[r] = "sends" THEN ssize[r] ELSE rsize[r]
           disp == IF loc[r] = "sends" THEN sdisp[r] ELSE rdisp[r]
           size1 == IF loc[r] = "sends" THEN ssize'[r] ELSE rsize'[r]
           disp1 == IF loc[r] = "sends" THEN sdisp'[r] ELSE rdisp'[r]
<1>1. /\ TypeOK /\ Computed(r) /\ Received(r)
      /\ loc[r] \in {"sends", "receives"} /\ restSize[r] > 0
      /\ UNCHANGED <<calls, call, loc, channel, result>>
  BY DEF IInv, Fill, FillRest, FillPart
<1>2. /\ IsDistribution(f) /\ IsDistribution(t) /\ f[Size] = t[Size]
      /\ call[r] \in DOMAIN calls
  BY <1>1, InCall DEF from, to
<1>3. WalkInv(r, f, t, offset[r], restSize[r], ti, tOffset[r], size, disp)
  BY <1>1 DEF Computed, from, to
<1>4. /\ offset[r] \in Nat /\ restSize[r] \in Nat /\ ti \in 0..Size
      /\ tOffset[r] \in Nat /\ size \in [Rank -> Nat] /\ disp \in [Rank -> Nat]
  BY <1>1 DEF TypeOK
<1> DEFINE Assigned(x) ==
        /\ size1 = [size EXCEPT ![ti] = x]
        /\ disp1 = [disp EXCEPT ![ti] = offset[r]]
        /\ loc[r] = "sends" => rsize' = rsize /\ rdisp' = rdisp
        /\ loc[r] = "receives" => ssize' = ssize /\ sdisp' = sdisp
        /\ ssize' \in [Rank -> [Rank -> Nat]] /\ sdisp' \in [Rank -> [Rank -> Nat]]
        /\ rsize' \in [Rank -> [Rank -> Nat]] /\ rdisp' \in [Rank -> [Rank -> Nat]]
<1>5. ASSUME NEW x \in Nat, SetSize(r, x), ti \in Rank PROVE Assigned(x)
  <2>1. CASE loc[r] = "sends"
    <3>1. /\ ssize' = [ssize EXCEPT ![r][ti] = x]
          /\ sdisp' = [sdisp EXCEPT ![r][ti] = offset[r]]
          /\ rsize' = rsize /\ rdisp' = rdisp
      BY <2>1, <1>5 DEF SetSize
    <3>2. /\ ssize \in [Rank -> [Rank -> Nat]] /\ sdisp \in [Rank -> [Rank -> Nat]]
          /\ rsize \in [Rank -> [Rank -> Nat]] /\ rdisp \in [Rank -> [Rank -> Nat]]
      BY <1>1 DEF TypeOK
    <3>3. /\ ssize'[r] = [ssize[r] EXCEPT ![ti] = x]
          /\ sdisp'[r] = [sdisp[r] EXCEPT ![ti] = offset[r]]
      BY <3>1, <3>2
    <3>4. /\ ssize' \in [Rank -> [Rank -> Nat]] /\ sdisp' \in [Rank -> [Rank -> Nat]]
      BY <3>1, <3>2, <1>4
    <3> QED BY <3>1, <3>2, <3>3, <3>4, <2>1
  <2>2. CASE loc[r] = "receives"
    <3>1. /\ rsize' = [rsize EXCEPT ![r][ti] = x]
          /\ rdisp' = [rdisp EXCEPT ![r][ti] = offset[r]]
          /\ ssize' = ssize /\ sdisp' = sdisp
      BY <2>2, <1>5 DEF SetSize
    <3>2. /\ rsize \in [Rank -> [Rank -> Nat]] /\ rdisp \in [Rank -> [Rank -> Nat]]
          /\ ssize \in [Rank -> [Rank -> Nat]] /\ sdisp \in [Rank -> [Rank -> Nat]]
      BY <1>1 DEF TypeOK
    <3>3. /\ rsize'[r] = [rsize[r] EXCEPT ![ti] = x]
          /\ rdisp'[r] = [rdisp[r] EXCEPT ![ti] = offset[r]]
      BY <3>1, <3>2
    <3>4. /\ rsize' \in [Rank -> [Rank -> Nat]] /\ rdisp' \in [Rank -> [Rank -> Nat]]
      BY <3>1, <3>2, <1>4
    <3> QED BY <3>1, <3>2, <3>3, <3>4, <2>2
  <2> QED BY <2>1, <2>2, <1>1
<1>6. /\ WalkInv(r, f, t, offset'[r], restSize'[r], tIndex'[r], tOffset'[r],
                 size1, disp1)
      /\ offset' \in [Rank -> Nat] /\ restSize' \in [Rank -> Nat]
      /\ tIndex' \in [Rank -> 0..Size] /\ tOffset' \in [Rank -> Nat]
      /\ \E x : Assigned(x)
  <2>1. CASE FillRest(r)
    <3>1. /\ restSize[r] < t[ti + 1] - t[ti] - tOffset[r]
          /\ SetSize(r, restSize[r]) /\ offset' = offset /\ tIndex' = tIndex
          /\ restSize' = [restSize EXCEPT ![r] = 0]
          /\ tOffset' = [tOffset EXCEPT ![r] = 0]
      BY <2>1 DEF FillRest, Part
    <3>2. /\ ti \in Rank
          /\ AllFilled(r, f, t, [size EXCEPT ![ti] = restSize[r]],
                                [disp EXCEPT ![ti] = offset[r]])
      BY <1>1, <1>2, <1>3, <1>4, <3>1, WalkRest
    <3>3. Assigned(restSize[r])
      BY <1>4, <1>5, <3>1, <3>2
    <3>4. restSize'[r] = 0
      BY <3>1, <1>1 DEF TypeOK
    <3>5. WalkInv(r, f, t, offset'[r], 0, tIndex'[r], tOffset'[r], size1, disp1)
      BY <3>2, <3>3 DEF WalkInv
    <3>6. /\ offset' \in [Rank -> Nat] /\ restSize' \in [Rank -> Nat]
          /\ tIndex' \in [Rank -> 0..Size] /\ tOffset' \in [Rank -> Nat]
      BY <3>1, <1>1 DEF TypeOK
    <3> HIDE DEF Assigned
    <3> QED BY <3>3, <3>4, <3>5, <3>6
  <2>2. CASE FillPart(r)
    <3> DEFINE part == t[ti + 1] - t[ti] - tOffset[r]
    <3>1. /\ restSize[r] >= part /\ SetSize(r, part)
          /\ restSize' = [restSize EXCEPT ![r] = @ - part]
          /\ offset' = [offset EXCEPT ![r] = @ + part]
          /\ tIndex' = [tIndex EXCEPT ![r] = @ + 1]
          /\ tOffset' = [tOffset EXCEPT ![r] = 0]
      BY <2>2 DEF FillPart, Part
    <3>0. part = t[ti + 1] - t[ti] - tOffset[r] /\ part \in Nat
      <4>1. ti \in Rank /\ tOffset[r] <= t[ti + 1] - t[ti]
        BY <1>1, <1>3 DEF WalkInv
      <4>2. t[ti + 1] \in Nat /\ t[ti] \in Nat
        BY <4>1, <1>2, DistributionFacts
      <4> QED BY <4>1, <4>2, <1>4
    <3> HIDE DEF part, size, disp, f, t, ti
    <3>2. /\ ti \in Rank /\ part \in Nat /\ restSize[r] - part \in Nat
          /\ WalkInv(r, f, t, offset[r] + part, restSize[r] - part, ti + 1, 0,
                     [size EXCEPT ![ti] = part], [disp EXCEPT ![ti] = offset[r]])
      <4>1. /\ IsDistribution(f) /\ IsDistribution(t) /\ f[Size] = t[Size]
            /\ offset[r] \in Nat /\ restSize[r] \in Nat /\ restSize[r] > 0
            /\ ti \in 0..Size /\ tOffset[r] \in Nat /\ part \in Int
            /\ size \in [Rank -> Nat] /\ disp \in [Rank -> Nat]
            /\ WalkInv(r, f, t, offset[r], restSize[r], ti, tOffset[r], size, disp)
            /\ part = t[ti + 1] - t[ti] - tOffset[r] /\ restSize[r] >= part
        BY <1>1, <1>2, <1>3, <1>4, <3>0, <3>1
      <4> HIDE DEF Assigned, size1, disp1
      <4>2. ti \in Rank
        BY <4>1, WalkPart
      <4>3. restSize[r] - part \in Nat
        BY <4>1, WalkPart
      <4>4. WalkInv(r, f, t, offset[r] + part, restSize[r] - part, ti + 1, 0,
                    [size EXCEPT ![ti] = part], [disp EXCEPT ![ti] = offset[r]])
        BY <4>1, WalkPart
      <4> QED BY <4>2, <4>3, <4>4, <3>0
    <3> USE DEF size, disp, f, t, ti
    <3>3. Assigned(part)
      BY <1>5, <3>1, <3>2
    <3>4. /\ offset'[r] = offset[r] + part /\ restSize'[r] = restSize[r] - part
          /\ tIndex'[r] = ti + 1 /\ tOffset'[r] = 0
      BY <3>1, <1>1 DEF TypeOK
    <3>5. WalkInv(r, f, t, offset'[r], restSize'[r], tIndex'[r], tOffset'[r],
                  size1, disp1)
      BY <3>2, <3>3, <3>4
    <3>6. ti + 1 \in 0..Size
      BY <3>2, SizeAssumption DEF Rank
    <3>7. offset[r] + part \in Nat
      BY <3>2, <1>4
    <3>8. /\ offset' \in [Rank -> Nat] /\ restSize' \in [Rank -> Nat]
          /\ tIndex' \in [Rank -> 0..Size] /\ tOffset' \in [Rank -> Nat]
      BY <3>1, <3>2, <3>6, <3>7, <1>1 DEF TypeOK
    <3> HIDE DEF Assigned
    <3> QED BY <3>3, <3>5, <3>8
  <2> QED BY <2>1, <2>2 DEF Fill
<1>7. TypeOK'
  BY <1>1, <1>6 DEF TypeOK
<1>8. Computed(r)'
  <2>1. CASE loc[r] = "sends"
    BY <2>1, <1>1, <1>6 DEF Computed, from, to, current, target
  <2>2. CASE loc[r] = "receives"
    BY <2>2, <1>1, <1>6 DEF Computed, from, to, current, target
  <2> QED BY <2>1, <2>2, <1>1
<1>9. Received(r)'
  BY <1>1 DEF Received, MessageOf, Sends
<1>10. \A s, d \in Rank : ChannelOK(s, d)'
  BY <1>1, QuietChannels
<1> QED BY <1>7, <1>8, <1>9, <1>10, StepOf DEF Step

LEMMA FillReceivesStep ==
    ASSUME IInv, NEW r \in Rank, FillReceives(r)
    PROVE  IInv'
<1> DEFINE f == target(r)
           t == current(r)
<1>1. /\ TypeOK /\ Computed(r) /\ Received(r) /\ loc[r] = "sends"
      /\ restSize[r] = 0 /\ loc'[r] = "receives"
      /\ UNCHANGED <<calls, call, ssize, sdisp, rsize, rdisp, channel, result>>
  BY DEF IInv, TypeOK, FillReceives, sizeVars
<1>2. /\ IsDistribution(f) /\ IsDistribution(t) /\ f[Size] = t[Size]
      /\ call[r] \in DOMAIN calls
  BY <1>1, InCall
<1>3. PICK i \in 0..(Size + 1) :
        /\ IsLowerBound(t, f[r] + 1, i)
        /\ tIndex' = [tIndex EXCEPT ![r] = i - 1]
        /\ offset' = [offset EXCEPT ![r] = 0]
        /\ restSize' = [restSize EXCEPT ![r] = f[r + 1] - f[r]]
        /\ tOffset' = [tOffset EXCEPT ![r] = f[r] - t[i - 1]]
  BY DEF FillReceives, StartFill
<1>4. /\ i - 1 \in 0..Size
      /\ f[r] - t[i - 1] \in Nat
      /\ f[r + 1] - f[r] \in Nat
      /\ WalkInv(r, f, t, 0, f[r + 1] - f[r], i - 1, f[r] - t[i - 1],
                 Zeros, Zeros)
  BY <1>2, <1>3, WalkStart
<1>5. TypeOK'
  <2>1. /\ offset' \in [Rank -> Nat] /\ restSize' \in [Rank -> Nat]
        /\ tIndex' \in [Rank -> 0..Size] /\ tOffset' \in [Rank -> Nat]
    BY <1>1, <1>3, <1>4 DEF TypeOK
  <2>2. loc' \in [Rank -> {"caller", "sends", "receives", "wait"}]
    BY <1>1 DEF TypeOK, FillReceives
  <2>3. \A q \in Rank : call[q] \in DOMAIN calls
                            \/ (loc'[q] = "caller" /\ call[q] = 0)
    BY <1>1, <1>2 DEF TypeOK, FillReceives
  <2> QED BY <1>1, <2>1, <2>2, <2>3 DEF TypeOK
<1>6. Computed(r)'
  <2>1. /\ offset'[r] = 0 /\ restSize'[r] = f[r + 1] - f[r]
        /\ tIndex'[r] = i - 1 /\ tOffset'[r] = f[r] - t[i - 1]
    BY <1>1, <1>3 DEF TypeOK
  <2>2. /\ AllFilled(r, t, f, ssize[r], sdisp[r])
        /\ rsize[r] = Zeros /\ rdisp[r] = Zeros
    BY <1>1 DEF Computed, WalkInv
  <2>3. current(r)' = current(r) /\ target(r)' = target(r)
    BY <1>1 DEF current, target
  <2> QED BY <1>1, <1>4, <2>1, <2>2, <2>3 DEF Computed
<1>7. Received(r)'
  BY <1>1 DEF Received, MessageOf, Sends
<1>8. \A s, d \in Rank : ChannelOK(s, d)'
  <2>1. \A q \in Rank : /\ q # r => loc'[q] = loc[q]
                        /\ loc'[r] \in {"wait", "caller"} <=>
                           loc[r] \in {"wait", "caller"}
    BY <1>1 DEF FillReceives, TypeOK
  <2> QED BY <1>1, <2>1, QuietChannels
<1> QED BY <1>5, <1>6, <1>7, <1>8, StepOf DEF Step

LEMMA PostStep ==
    ASSUME IInv, NEW r \in Rank, Post(r)
    PROVE  IInv'
<1>0. PICK n : n = call[r]
  OBVIOUS
<1>1. /\ TypeOK /\ Computed(r) /\ Received(r) /\ loc[r] = "receives"
      /\ restSize[r] = 0 /\ loc'[r] = "wait" /\ n \in Nat
      /\ UNCHANGED <<calls, call, offset, restSize, tIndex, tOffset,
                     ssize, sdisp, rsize, rdisp, result>>
      /\ DOMAIN result[r] = {}
  BY <1>0 DEF IInv, TypeOK, Post, Received, fillVars, sizeVars
<1>2. /\ n \in DOMAIN calls /\ IsDistribution(current(r)) /\ IsDistribution(target(r))
      /\ n > 0
  BY <1>0, <1>1, InCall, CallFacts
<1>3. /\ AllFilled(r, current(r), target(r), ssize[r], sdisp[r])
      /\ AllFilled(r, target(r), current(r), rsize[r], rdisp[r])
  BY <1>1 DEF Computed, WalkInv
<1>4. ASSUME NEW d \in Rank
      PROVE  /\ Sends(n, r, d) <=> ssize[r][d] > 0
             /\ Sends(n, r, d) =>
                  [call |-> n, size |-> ssize[r][d],
                   first |-> current(r)[r] + sdisp[r][d]] = MessageOf(n, r, d)
             /\ MessageOf(n, r, d) \in Message
  <2>1. Filled(r, current(r), target(r), ssize[r], sdisp[r], d)
    BY <1>3 DEF AllFilled
  <2>2. /\ current(r)[r] \in Nat /\ target(r)[d] \in Nat
        /\ Overlap(current(r), target(r), r, d) \in Nat
    BY <1>2, DistributionFacts, OverlapSymmetric
  <2>3. /\ Sends(n, r, d) <=> Overlap(current(r), target(r), r, d) > 0
        /\ MessageOf(n, r, d) =
            [call |-> n, size |-> Overlap(current(r), target(r), r, d),
             first |-> Larger(current(r)[r], target(r)[d])]
    BY <1>0 DEF Sends, MessageOf, current, target
  <2>4. Larger(current(r)[r], target(r)[d]) \in Nat
    BY <2>2 DEF Larger
  <2>5. Sends(n, r, d) => current(r)[r] + sdisp[r][d] =
                          Larger(current(r)[r], target(r)[d])
    BY <2>1, <2>2, <2>3, <2>4 DEF Filled
  <2> QED BY <2>1, <2>2, <2>3, <2>4, <2>5, <1>1 DEF Filled, Message
<1>5. ASSUME NEW s \in Rank, NEW d \in Rank
      PROVE  channel'[<<s, d>>] =
                IF s = r /\ Sends(n, r, d)
                THEN Append(channel[<<s, d>>], MessageOf(n, r, d))
                ELSE channel[<<s, d>>]
  <2>1. channel'[<<s, d>>] =
            IF s = r /\ ssize[r][d] > 0
            THEN Append(channel[<<s, d>>],
                        [call |-> n, size |-> ssize[r][d],
                         first |-> current(r)[r] + sdisp[r][d]])
            ELSE channel[<<s, d>>]
    BY <1>0 DEF Post, nonempty
  <2> QED BY <2>1, <1>4
<1>6. TypeOK'
  <2>1. \A k \in Rank \X Rank : channel'[k] \in Seq(Message)
    <3> SUFFICES ASSUME NEW s \in Rank, NEW d \in Rank
                 PROVE  channel'[<<s, d>>] \in Seq(Message)
      OBVIOUS
    <3>1. channel[<<s, d>>] \in Seq(Message)
      BY <1>1 DEF TypeOK
    <3>2. CASE s = r /\ Sends(n, r, d)
      <4>1. Append(channel[<<s, d>>], MessageOf(n, r, d)) \in Seq(Message)
        BY <3>1, <1>4
      <4> QED BY <4>1, <3>2, <1>5
    <3>3. CASE ~(s = r /\ Sends(n, r, d))
      BY <3>1, <3>3, <1>5
    <3> QED BY <3>2, <3>3
  <2>2. channel' \in [Rank \X Rank -> Seq(Message)]
    BY <2>1 DEF Post
  <2>3. loc' \in [Rank -> {"caller", "sends", "receives", "wait"}]
    BY <1>1 DEF TypeOK, Post
  <2>4. \A q \in Rank : call[q] \in DOMAIN calls
                            \/ (loc'[q] = "caller" /\ call[q] = 0)
    BY <1>0, <1>1, <1>2 DEF TypeOK, Post
  <2> QED BY <1>1, <2>2, <2>3, <2>4 DEF TypeOK
<1>7. Computed(r)'
  BY <1>1, <1>3 DEF Computed, current, target
<1>8. Received(r)'
  BY <1>1 DEF Received
<1>9. ASSUME NEW s \in Rank, NEW d \in Rank PROVE ChannelOK(s, d)'
  <2>1. ChannelOK(s, d)
    BY DEF IInv
  <2>2. \A k : Has(k, s, d)' <=> Has(k, s, d)
    BY <1>1 DEF Has
  <2>3. \A k : (s # r \/ k # n) => (Sent(k, s)' <=> Sent(k, s))
    BY <1>0, <1>1 DEF Sent, Post, TypeOK
  <2>4. CASE s # r \/ ~Sends(n, r, d)
    <3>1. channel'[<<s, d>>] = channel[<<s, d>>]
      BY <2>4, <1>5
    <3>2. \A k \in DOMAIN calls : Sends(k, s, d) =>
                /\ Sent(k, s)' <=> Sent(k, s)
                /\ Has(k, s, d)' <=> Has(k, s, d)
      BY <2>2, <2>3, <2>4
    <3> QED BY <3>1, <3>2, <2>1, <1>1, ChannelFrame
  <2>5. CASE s = r /\ Sends(n, r, d)
    <3> DEFINE old == channel[<<s, d>>]
               new == channel'[<<s, d>>]
               m == MessageOf(n, s, d)
    <3>1. /\ old \in Seq(Message) /\ m \in Message /\ new = Append(old, m)
          /\ m.call = n
      BY <2>5, <1>1, <1>4, <1>5 DEF TypeOK, MessageOf
    <3>2. /\ Len(old) \in Nat /\ DOMAIN old = 1..Len(old)
          /\ DOMAIN new = 1..(Len(old) + 1)
          /\ new[Len(old) + 1] = m
          /\ \A k \in 1..Len(old) : new[k] = old[k]
      BY <3>1
    <3>3. ~Sent(n, s) /\ Sent(n, s)' /\ ~Has(n, s, d)
      BY <2>1, <2>5, <1>0, <1>1, <1>2 DEF Sent, ChannelOK
    <3>4. /\ \A k : Sends(k, s, d)' <=> Sends(k, s, d)
          /\ \A k : MessageOf(k, s, d)' = MessageOf(k, s, d)
      BY <1>1 DEF Sends, MessageOf
    <3>5. /\ UnderWay(n, s, d)' /\ ~UnderWay(n, s, d)
          /\ \A k : k # n => (UnderWay(k, s, d)' <=> UnderWay(k, s, d))
      BY <2>2, <2>3, <2>5, <3>3, <3>4, <1>1, <1>2 DEF UnderWay
    <3>6. \A k \in 1..Len(old) : UnderWay(old[k].call, s, d)
      BY <2>1, <3>2 DEF ChannelOK
    <3>7. \A k \in 1..Len(old) : old[k].call \in Nat /\ old[k].call < n
      <4> SUFFICES ASSUME NEW k \in 1..Len(old)
                   PROVE  old[k].call \in Nat /\ old[k].call < n
        OBVIOUS
      <4>1. old[k].call \in Nat
        <5>1. old[k] \in Message
          BY <3>1, <3>2
        <5> QED BY <5>1 DEF Message
      <4>2. Sent(old[k].call, s)
        BY <3>6 DEF UnderWay
      <4> QED BY <4>1, <4>2, <2>5, <1>0, <1>1 DEF Sent
    <3> HIDE DEF old, new, m
    <3>8. ASSUME NEW k \in DOMAIN new, NEW c, c = new[k]
          PROVE  UnderWay(c.call, s, d)' /\ c = MessageOf(c.call, s, d)'
      <4>1. CASE k = Len(old) + 1
        BY <4>1, <3>1, <3>2, <3>4, <3>5, <3>8 DEF m
      <4>2. CASE k \in 1..Len(old)
        <5>1. old[k] = MessageOf(old[k].call, s, d)
          BY <2>1, <4>2, <3>2 DEF ChannelOK, old
        <5>2. /\ c = old[k] /\ UnderWay(c.call, s, d)
              /\ c.call # n
          BY <4>2, <3>2, <3>6, <3>7, <3>8, <1>1
        <5> QED BY <5>1, <5>2, <3>4, <3>5
      <4> QED BY <4>1, <4>2, <3>2
    <3>9. ASSUME NEW j \in DOMAIN new, NEW k \in DOMAIN new, j < k
          PROVE  new[j].call < new[k].call
      <4>1. CASE k = Len(old) + 1
        BY <4>1, <3>1, <3>2, <3>7, <3>9
      <4>2. CASE k \in 1..Len(old)
        <5>1. j \in 1..Len(old)
          BY <4>2, <3>2, <3>9
        <5>2. old[j].call < old[k].call
          BY <5>1, <4>2, <3>2, <3>9, <2>1 DEF ChannelOK, old
        <5> QED BY <5>1, <5>2, <4>2, <3>2
      <4> QED BY <4>1, <4>2, <3>2
    <3>10. ASSUME NEW k \in DOMAIN calls, UnderWay(k, s, d)'
           PROVE  \E i \in DOMAIN new : new[i].call = k
      <4>1. CASE k = n
        BY <4>1, <3>1, <3>2
      <4>2. CASE k # n
        <5>1. PICK i \in DOMAIN old : old[i].call = k
          BY <4>2, <3>5, <3>10, <2>1 DEF ChannelOK, old
        <5> QED BY <5>1, <3>2
      <4> QED BY <4>1, <4>2
    <3>11. \A k \in DOMAIN calls : Sends(k, s, d) /\ Has(k, s, d) => Sent(k, s)'
      BY <2>1, <2>3, <3>3 DEF ChannelOK
    <3>12. /\ \A k \in DOMAIN calls :
                UnderWay(k, s, d)' => \E i \in DOMAIN new : new[i].call = k
           /\ \A k \in DOMAIN calls : Sends(k, s, d)' /\ Has(k, s, d)' => Sent(k, s)'
      BY <3>10, <3>11, <3>4, <2>2
    <3> QED BY <3>8, <3>9, <3>12, <1>1 DEF ChannelOK, new
  <2> QED BY <2>4, <2>5
<1> QED BY <1>6, <1>7, <1>8, <1>9, StepOf DEF Step

\* The oldest message of s is the one r waits for.
LEMMA HeadIsCurrent ==
    ASSUME IInv, NEW r \in Rank, NEW s \in Rank, loc[r] = "wait",
           rsize[r][s] > 0, s \notin DOMAIN result[r], channel[<<s, r>>] # <<>>
    PROVE  /\ UnderWay(call[r], s, r)
           /\ channel[<<s, r>>][1].call = call[r]
           /\ channel[<<s, r>>][1] = MessageOf(call[r], s, r)
<1> DEFINE n == call[r]
           old == channel[<<s, r>>]
<1>1. /\ TypeOK /\ Computed(r) /\ ChannelOK(s, r)
      /\ n \in Nat /\ call[s] \in Nat /\ old \in Seq(Message)
  BY DEF IInv, TypeOK
<1>2. /\ n \in DOMAIN calls /\ IsDistribution(current(r)) /\ IsDistribution(target(r))
  BY <1>1, InCall
<1>3. Sends(n, s, r)
  <2>1. Filled(r, target(r), current(r), rsize[r], rdisp[r], s)
    BY <1>1 DEF Computed, AllFilled
  <2> QED BY <2>1, <1>2, OverlapSymmetric DEF Filled, Sends, current, target
<1>4. DOMAIN old = 1..Len(old) /\ Len(old) \in Nat /\ 1 \in DOMAIN old
  BY <1>1
<1>5. UnderWay(old[1].call, s, r) /\ old[1] = MessageOf(old[1].call, s, r)
  BY <1>1, <1>4 DEF ChannelOK
<1>6. old[1].call \in Nat /\ old[1].call >= n
  <2>1. old[1].call \in Nat
    BY <1>5, <1>1, CallFacts DEF UnderWay
  <2> QED BY <2>1, <1>5, <1>1 DEF UnderWay, Has
<1>7. Sent(n, s)
  BY <1>5, <1>6, <1>1 DEF UnderWay, Sent
<1>8. UnderWay(n, s, r)
  BY <1>2, <1>3, <1>7, <1>1 DEF UnderWay, Has
<1>9. PICK k \in DOMAIN old : old[k].call = n
  BY <1>8, <1>2, <1>1 DEF ChannelOK
<1>10. k = 1
  <2>1. k > 1 => old[1].call < old[k].call
    BY <1>1, <1>4 DEF ChannelOK
  <2> QED BY <2>1, <1>9, <1>6, <1>4, <1>1
<1> QED BY <1>5, <1>8, <1>9, <1>10

LEMMA ReceiveStep ==
    ASSUME IInv, NEW r \in Rank, NEW s \in Rank, Receive(r, s)
    PROVE  IInv'
<1>0. PICK n : n = call[r]
  OBVIOUS
<1> DEFINE old == channel[<<s, r>>]
<1>1. /\ TypeOK /\ Computed(r) /\ Received(r) /\ loc[r] = "wait" /\ n \in Nat
      /\ UNCHANGED <<calls, call, loc, offset, restSize, tIndex, tOffset,
                     ssize, sdisp, rsize, rdisp>>
      /\ old # <<>> /\ old \in Seq(Message) /\ s \notin DOMAIN result[r]
      /\ DOMAIN result[r] \subseteq Rank
  BY <1>0 DEF IInv, TypeOK, Receive, fillVars, sizeVars
<1>2. /\ UnderWay(n, s, r) /\ old[1].call = n /\ old[1] = MessageOf(n, s, r)
  BY <1>0, HeadIsCurrent DEF Receive
<1>3. /\ DOMAIN result'[r] = DOMAIN result[r] \cup {s}
      /\ result'[r][s] = MessageOf(n, s, r)
      /\ \A q \in DOMAIN result[r] : result'[r][q] = result[r][q]
      /\ \A q \in Rank : q # r => result'[q] = result[q]
      /\ DOMAIN result' = Rank
  <2>1. result' = [result EXCEPT ![r] =
            [q \in DOMAIN @ \cup {s} |-> IF q = s THEN Head(old) ELSE @[q]]]
    BY DEF Receive
  <2>2. DOMAIN result = Rank
    BY <1>1 DEF TypeOK
  <2>3. result'[r] = [q \in DOMAIN result[r] \cup {s} |->
                        IF q = s THEN Head(old) ELSE result[r][q]]
    BY <2>1, <2>2
  <2>4. Head(old) = old[1]
    BY <1>1
  <2>5. DOMAIN result' = Rank /\ \A q \in Rank : q # r => result'[q] = result[q]
    BY <2>1, <2>2
  <2> QED BY <2>3, <2>4, <2>5, <1>1, <1>2
<1>4. /\ channel'[<<s, r>>] = Tail(old)
      /\ \A q, d \in Rank : q # s \/ d # r =>
            channel'[<<q, d>>] = channel[<<q, d>>]
      /\ channel' \in [Rank \X Rank -> Seq(Message)]
  <2>1. channel' = [channel EXCEPT ![<<s, r>>] = Tail(old)]
    BY DEF Receive
  <2>2. channel \in [Rank \X Rank -> Seq(Message)]
    BY <1>1 DEF TypeOK
  <2>3. Tail(old) \in Seq(Message)
    BY <1>1
  <2> QED BY <2>1, <2>2, <2>3
<1>5. TypeOK'
  <2>1. \A q \in Rank : DOMAIN result'[q] \subseteq Rank
    <3>1. ASSUME NEW q \in Rank, q # r PROVE DOMAIN result'[q] \subseteq Rank
      BY <3>1, <1>1, <1>3 DEF TypeOK
    <3>2. DOMAIN result'[r] \subseteq Rank
      BY <1>1, <1>3
    <3> QED BY <3>1, <3>2
  <2> QED BY <2>1, <1>1, <1>3, <1>4, ZenonT(40) DEF TypeOK
<1>6. Computed(r)'
  BY <1>1 DEF Computed, current, target
<1>7. Received(r)'
  <2>1. \A q : /\ MessageOf(n, q, r)' = MessageOf(n, q, r)
               /\ Sends(n, q, r)' <=> Sends(n, q, r)
    BY <1>1 DEF MessageOf, Sends
  <2>2. n # 0
    BY <1>1, <1>2, CallFacts DEF UnderWay
  <2>3. \A q \in DOMAIN result'[r] :
            result'[r][q] = MessageOf(n, q, r) /\ Sends(n, q, r)
    BY <1>0, <1>1, <1>2, <1>3 DEF Received, UnderWay
  <2> QED BY <2>1, <2>2, <2>3, <1>0, <1>1 DEF Received
<1>8. ASSUME NEW q \in Rank, NEW d \in Rank PROVE ChannelOK(q, d)'
  <2>1. ChannelOK(q, d)
    BY DEF IInv
  <2>2. \A k : Sent(k, q)' <=> Sent(k, q)
    BY <1>1 DEF Sent
  <2>3. \A k : (q # s \/ d # r \/ k # n) => (Has(k, q, d)' <=> Has(k, q, d))
    BY <1>0, <1>1, <1>3 DEF Has
  <2>4. CASE q # s \/ d # r
    <3>1. channel'[<<q, d>>] = channel[<<q, d>>]
      BY <2>4, <1>4
    <3>2. \A k \in DOMAIN calls : Sends(k, q, d) =>
                /\ Sent(k, q)' <=> Sent(k, q)
                /\ Has(k, q, d)' <=> Has(k, q, d)
      BY <2>2, <2>3, <2>4
    <3> QED BY <3>1, <3>2, <2>1, <1>1, ChannelFrame
  <2>5. CASE q = s /\ d = r
    <3> DEFINE new == channel'[<<s, r>>]
    <3>1. /\ Len(old) \in Nat /\ Len(old) > 0
          /\ DOMAIN old = 1..Len(old)
          /\ DOMAIN new = 1..(Len(old) - 1)
          /\ \A k \in 1..(Len(old) - 1) : new[k] = old[k + 1]
      BY <1>1, <1>4
    <3>2. /\ \A k : Sends(k, s, r)' <=> Sends(k, s, r)
          /\ \A k : MessageOf(k, s, r)' = MessageOf(k, s, r)
      BY <1>1 DEF Sends, MessageOf
    <3>3. Has(n, s, r)' /\ Sent(n, s)
      BY <1>0, <1>1, <1>2, <1>3 DEF Has, UnderWay
    <3>4. \A k : k # n => (UnderWay(k, s, r)' <=> UnderWay(k, s, r))
      BY <2>2, <2>3, <2>5, <3>2, <1>1 DEF UnderWay
    <3>5. ~UnderWay(n, s, r)'
      BY <3>3 DEF UnderWay
    <3>6. \A k \in 1..(Len(old) - 1) :
            /\ k + 1 \in DOMAIN old /\ 1 \in DOMAIN old /\ 1 < k + 1
            /\ n < old[k + 1].call
            /\ UnderWay(old[k + 1].call, s, r)
            /\ old[k + 1] = MessageOf(old[k + 1].call, s, r)
      <4> SUFFICES ASSUME NEW k \in 1..(Len(old) - 1)
                   PROVE  /\ k + 1 \in DOMAIN old /\ 1 \in DOMAIN old /\ 1 < k + 1
                          /\ n < old[k + 1].call
                          /\ UnderWay(old[k + 1].call, s, r)
                          /\ old[k + 1] = MessageOf(old[k + 1].call, s, r)
        OBVIOUS
      <4>1. k + 1 \in DOMAIN old /\ 1 \in DOMAIN old /\ 1 < k + 1
        BY <3>1
      <4> QED BY <4>1, <2>1, <2>5, <1>2 DEF ChannelOK
    <3> HIDE DEF old, new
    <3>7. ASSUME NEW k \in DOMAIN new, NEW c, c = new[k]
          PROVE  UnderWay(c.call, s, r)' /\ c = MessageOf(c.call, s, r)'
      <4>1. /\ c = old[k + 1] /\ n < c.call
            /\ UnderWay(c.call, s, r) /\ c = MessageOf(c.call, s, r)
        BY <3>1, <3>6, <3>7
      <4>2. c.call # n
        <5>1. c.call \in Nat
          BY <4>1, <1>1, CallFacts DEF UnderWay
        <5> QED BY <5>1, <4>1, <1>1
      <4> QED BY <4>1, <4>2, <3>2, <3>4
    <3>8. ASSUME NEW j \in DOMAIN new, NEW k \in DOMAIN new, j < k
          PROVE  new[j].call < new[k].call
      <4>1. /\ j + 1 \in DOMAIN old /\ k + 1 \in DOMAIN old /\ j + 1 < k + 1
            /\ new[j] = old[j + 1] /\ new[k] = old[k + 1]
        BY <3>1, <3>8
      <4> QED BY <4>1, <2>1, <2>5 DEF ChannelOK, old
    <3>9. ASSUME NEW k \in DOMAIN calls, UnderWay(k, s, r)'
          PROVE  \E i \in DOMAIN new : new[i].call = k
      <4>1. k # n /\ UnderWay(k, s, r)
        BY <3>4, <3>5, <3>9
      <4>2. PICK i \in DOMAIN old : old[i].call = k
        BY <4>1, <2>1, <2>5 DEF ChannelOK, old
      <4>3. i # 1
        BY <4>1, <4>2, <1>2 DEF old
      <4>4. i - 1 \in DOMAIN new /\ new[i - 1] = old[i]
        BY <4>3, <3>1
      <4> QED BY <4>2, <4>4
    <3>10. \A k \in DOMAIN calls : Sends(k, s, r)' /\ Has(k, s, r)' => Sent(k, s)'
      BY <2>1, <2>2, <2>3, <2>5, <3>2, <3>3 DEF ChannelOK
    <3>11. /\ \A k \in DOMAIN calls :
                UnderWay(k, s, r)' => \E i \in DOMAIN new : new[i].call = k
      BY <3>9
    <3> QED BY <3>7, <3>8, <3>10, <3>11, <2>5, <1>1 DEF ChannelOK, new
  <2> QED BY <2>4, <2>5
<1> QED BY <1>5, <1>6, <1>7, <1>8, StepOf DEF Step

LEMMA WaitAllStep ==
    ASSUME IInv, NEW r \in Rank, WaitAll(r)
    PROVE  IInv'
<1>1. /\ TypeOK /\ Computed(r) /\ Received(r) /\ loc[r] = "wait"
      /\ loc'[r] = "caller" /\ \A q \in Rank : q # r => loc'[q] = loc[q]
      /\ \A s \in Rank : rsize[r][s] > 0 => s \in DOMAIN result[r]
      /\ UNCHANGED <<calls, call, offset, restSize, tIndex, tOffset,
                     ssize, sdisp, rsize, rdisp, channel, result>>
  BY DEF IInv, TypeOK, WaitAll, fillVars, sizeVars
<1>2. /\ call[r] \in DOMAIN calls
      /\ IsDistribution(current(r)) /\ IsDistribution(target(r))
  BY <1>1, InCall
<1>3. TypeOK'
  <2>1. loc' \in [Rank -> {"caller", "sends", "receives", "wait"}]
    BY <1>1 DEF TypeOK, WaitAll
  <2>2. \A q \in Rank : call[q] \in DOMAIN calls
                            \/ (loc'[q] = "caller" /\ call[q] = 0)
    BY <1>1, <1>2 DEF TypeOK
  <2> QED BY <2>1, <2>2, <1>1 DEF TypeOK
<1>4. Computed(r)'
  BY <1>1 DEF Computed, current, target
<1>5. ASSUME NEW s \in Rank, Sends(call[r], s, r) PROVE s \in DOMAIN result[r]
  <2>1. Filled(r, target(r), current(r), rsize[r], rdisp[r], s)
    BY <1>1 DEF Computed, AllFilled
  <2>2. rsize[r][s] > 0
    BY <2>1, <1>2, <1>5, OverlapSymmetric DEF Filled, Sends, current, target
  <2> QED BY <2>2, <1>1
<1>6. Received(r)'
  BY <1>1, <1>5 DEF Received, MessageOf, Sends
<1>7. \A s, d \in Rank : ChannelOK(s, d)'
  BY <1>1, QuietChannels
<1> QED BY <1>3, <1>4, <1>6, <1>7, StepOf DEF Step

LEMMA InitInv == Init => IInv
<1> SUFFICES ASSUME Init PROVE IInv
  OBVIOUS
<1> USE DEF Init
<1>1. Zeros \in [Rank -> Nat]
  BY DEF Zeros
<1>2. /\ DOMAIN <<>> = {}
      /\ <<>> \in Seq(Message)
  OBVIOUS
<1>3. TypeOK
  <2>1. 0 \in 0..Size /\ 0 \in Nat
    BY SizeAssumption
  <2>2. /\ offset \in [Rank -> Nat] /\ restSize \in [Rank -> Nat]
        /\ tIndex \in [Rank -> 0..Size] /\ tOffset \in [Rank -> Nat]
    BY <2>1 DEF Zeros
  <2>3. /\ ssize \in [Rank -> [Rank -> Nat]] /\ sdisp \in [Rank -> [Rank -> Nat]]
        /\ rsize \in [Rank -> [Rank -> Nat]] /\ rdisp \in [Rank -> [Rank -> Nat]]
    BY <1>1
  <2>4. channel \in [Rank \X Rank -> Seq(Message)]
    BY <1>2
  <2>5. DOMAIN result = Rank /\ \A r \in Rank : DOMAIN result[r] \subseteq Rank
    BY <1>2
  <2> QED BY <2>1, <2>2, <2>3, <2>4, <2>5 DEF TypeOK
<1>4. ASSUME NEW r \in Rank PROVE Computed(r) /\ Received(r)
  <2>1. loc[r] = "caller" /\ call[r] = 0 /\ DOMAIN result[r] = {}
    BY <1>2 DEF Zeros
  <2> QED BY <2>1 DEF Computed, Received
<1>5. ASSUME NEW s \in Rank, NEW d \in Rank PROVE ChannelOK(s, d)
  <2>1. channel[<<s, d>>] = <<>> /\ call[s] = 0 /\ call[d] = 0 /\ result[d] = <<>>
    OBVIOUS
  <2>2. \A n \in DOMAIN calls : ~Sent(n, s) /\ ~Has(n, s, d)
    BY <2>1, <1>2, <1>3, CallFacts DEF Sent, Has
  <2> QED BY <2>1, <2>2, <1>2 DEF ChannelOK, UnderWay
<1> QED BY <1>3, <1>4, <1>5 DEF IInv

LEMMA NextInv == IInv /\ [Next]_vars => IInv'
<1> SUFFICES ASSUME IInv, [Next]_vars PROVE IInv'
  OBVIOUS
<1>1. ASSUME NEW r \in Rank, Step(r) PROVE IInv'
  <2>1. CASE Begin(r)
    BY <2>1, BeginStep
  <2>2. CASE Fill(r)
    BY <2>2, FillStep
  <2>3. CASE FillReceives(r)
    BY <2>3, FillReceivesStep
  <2>4. CASE Post(r)
    BY <2>4, PostStep
  <2>5. CASE \E s \in Rank : Receive(r, s)
    BY <2>5, ReceiveStep
  <2>6. CASE WaitAll(r)
    BY <2>6, WaitAllStep
  <2> QED BY <1>1, <2>1, <2>2, <2>3, <2>4, <2>5, <2>6 DEF Step
<1>2. CASE UNCHANGED vars
  <2>1. /\ UNCHANGED <<calls, call, loc, offset, restSize, tIndex, tOffset,
                       ssize, sdisp, rsize, rdisp, channel, result>>
    BY <1>2 DEF vars, fillVars, sizeVars
  <2>2. TypeOK'
    BY <2>1 DEF IInv, TypeOK
  <2>3. \A q \in Rank : Computed(q)' /\ Received(q)'
    BY <2>1, Frame DEF IInv, Keeps
  <2>4. \A s, d \in Rank : ChannelOK(s, d)'
    BY <2>1, ChannelFrame DEF IInv, Sent, Has
  <2> QED BY <2>2, <2>3, <2>4 DEF IInv
<1> QED BY <1>1, <1>2 DEF Next, Done

THEOREM Invariance == Spec => []IInv
BY InitInv, NextInv, PTL DEF Spec

\* The walk of "fill" never leaves a distribution, and its sizes are never
\* negative, for any number of processes and any distributions.
THEOREM WalkStaysInsideHolds == Spec => []WalkStaysInside
<1>1. IInv => WalkStaysInside
  <2> SUFFICES ASSUME IInv, NEW r \in Rank, loc[r] \in {"sends", "receives"},
                      restSize[r] > 0
               PROVE  /\ tIndex[r] \in Rank
                      /\ Part(r) >= 0
                      /\ to(r)[tIndex[r]] + tOffset[r] = from(r)[r] + offset[r]
    BY DEF WalkStaysInside
  <2>1. /\ TypeOK /\ Computed(r) /\ tOffset[r] \in Nat
        /\ IsDistribution(to(r))
    BY InCall DEF IInv, TypeOK, to
  <2>2. /\ tIndex[r] \in Rank
        /\ to(r)[tIndex[r]] + tOffset[r] = from(r)[r] + offset[r]
        /\ tOffset[r] <= to(r)[tIndex[r] + 1] - to(r)[tIndex[r]]
    BY <2>1 DEF Computed, WalkInv, from, to
  <2>3. to(r)[tIndex[r] + 1] \in Nat /\ to(r)[tIndex[r]] \in Nat
    BY <2>1, <2>2, DistributionFacts
  <2> QED BY <2>1, <2>2, <2>3 DEF Part
<1> QED BY <1>1, Invariance, PTL

\* A process does not both send to another one and receive from it.
LEMMA OneDirection ==
    ASSUME NEW f, IsDistribution(f), NEW t, IsDistribution(t),
           NEW r \in Rank, NEW q \in Rank,
           Overlap(f, t, r, q) > 0, Overlap(t, f, r, q) > 0
    PROVE  q = r
<1>1. /\ r \in Nat /\ q \in Nat
      /\ f[r] \in Nat /\ f[r + 1] \in Nat /\ t[r] \in Nat /\ t[r + 1] \in Nat
      /\ f[q] \in Nat /\ f[q + 1] \in Nat /\ t[q] \in Nat /\ t[q + 1] \in Nat
      /\ r \in 0..Size /\ q \in 0..Size /\ r + 1 \in 0..Size /\ q + 1 \in 0..Size
  BY DistributionFacts
<1>2. f[r] < t[q + 1] /\ t[q] < f[r + 1] /\ t[r] < f[q + 1] /\ f[q] < t[r + 1]
  BY <1>1 DEF Overlap
<1>3. CASE q < r
  <2>1. t[q + 1] <= t[r] /\ f[q + 1] <= f[r]
    BY <1>1, <1>3 DEF IsDistribution
  <2> QED BY <2>1, <1>1, <1>2
<1>4. CASE r < q
  <2>1. t[r + 1] <= t[q] /\ f[r + 1] <= f[q]
    BY <1>1, <1>4 DEF IsDistribution
  <2> QED BY <2>1, <1>1, <1>2
<1> QED BY <1>1, <1>3, <1>4

\* The array of requests is never too short, for any number of processes.
THEOREM RequestsSufficeHolds == Spec => []RequestsSuffice
<1>1. IInv => RequestsSuffice
  <2> SUFFICES ASSUME IInv, NEW r \in Rank, loc[r] = "receives", restSize[r] = 0
               PROVE  Cardinality(nonempty(rsize[r]))
                        + Cardinality(nonempty(ssize[r])) <= Size + 1
    BY DEF RequestsSuffice
  <2> DEFINE R == nonempty(rsize[r])
             S == nonempty(ssize[r])
  <2>1. /\ AllFilled(r, current(r), target(r), ssize[r], sdisp[r])
        /\ AllFilled(r, target(r), current(r), rsize[r], rdisp[r])
        /\ IsDistribution(current(r)) /\ IsDistribution(target(r))
    BY InCall DEF IInv, Computed, WalkInv
  <2>2. R \cap S \subseteq {r}
    BY <2>1, OneDirection DEF nonempty, AllFilled, Filled
  <2>3. IsFiniteSet(Rank) /\ Cardinality(Rank) = Size
    BY FS_Interval, SizeAssumption DEF Rank
  <2>4. R \subseteq Rank /\ S \subseteq Rank /\ R \cup S \subseteq Rank
    BY DEF nonempty
  <2> HIDE DEF R, S
  <2>5. /\ IsFiniteSet(R) /\ IsFiniteSet(S)
        /\ Cardinality(R \cup S) <= Size
    BY <2>3, <2>4, FS_Subset
  <2>6. Cardinality(R \cup S) =
            Cardinality(R) + Cardinality(S) - Cardinality(R \cap S)
    BY <2>5, FS_Union
  <2>7. Cardinality(R \cap S) <= 1 /\ IsFiniteSet(R \cap S)
    <3>1. IsFiniteSet({r}) /\ Cardinality({r}) = 1
      BY FS_Singleton
    <3> QED BY <3>1, <2>2, FS_Subset
  <2>8. /\ Cardinality(R) \in Nat /\ Cardinality(S) \in Nat
        /\ Cardinality(R \cap S) \in Nat
    BY <2>5, <2>7, FS_CardinalityType
  <2> QED BY <2>5, <2>6, <2>7, <2>8, SizeAssumption DEF R, S
<1> QED BY <1>1, Invariance, PTL

\* What a process has received and what it has computed.
LEMMA ReceivedFacts ==
    ASSUME IInv, NEW r \in Rank, NEW s \in DOMAIN result[r],
           loc[r] = "wait" \/ (loc[r] = "caller" /\ call[r] > 0)
    PROVE  /\ result[r][s].call = call[r]
           /\ result[r][s].size = rsize[r][s] /\ rsize[r][s] \in Nat
           /\ rdisp[r][s] \in Nat
           /\ target(r)[r] \in Nat /\ result[r][s].first \in Nat
           /\ result[r][s].first = target(r)[r] + rdisp[r][s]
<1>0. TypeOK /\ Computed(r) /\ Received(r)
  BY DEF IInv
<1>1. /\ TypeOK /\ Computed(r) /\ Received(r) /\ s \in Rank
      /\ IsDistribution(current(r)) /\ IsDistribution(target(r))
      /\ rsize[r][s] \in Nat /\ rdisp[r][s] \in Nat
  <2>1. s \in Rank
    BY <1>0 DEF TypeOK
  <2>2. IsDistribution(current(r)) /\ IsDistribution(target(r))
    BY <1>0, InCall
  <2>3. rsize \in [Rank -> [Rank -> Nat]] /\ rdisp \in [Rank -> [Rank -> Nat]]
    BY <1>0 DEF TypeOK
  <2>4. rsize[r][s] \in Nat /\ rdisp[r][s] \in Nat
    BY <2>1, <2>3
  <2> QED BY <1>0, <2>1, <2>2, <2>4
<1>2. Filled(r, target(r), current(r), rsize[r], rdisp[r], s)
  BY <1>1 DEF Computed, AllFilled
<1>3. /\ result[r][s].call = call[r]
      /\ result[r][s].size = Overlap(current(r), target(r), s, r)
      /\ result[r][s].first = Larger(current(r)[s], target(r)[r])
      /\ Overlap(current(r), target(r), s, r) > 0
  <2>1. result[r][s] = MessageOf(call[r], s, r) /\ Sends(call[r], s, r)
    BY <1>1 DEF Received
  <2> QED BY <2>1 DEF MessageOf, Sends, current, target
<1>4. /\ target(r)[r] \in Nat /\ current(r)[s] \in Nat
  BY <1>1, DistributionFacts
<1>5. /\ rsize[r][s] = Overlap(current(r), target(r), s, r)
      /\ rdisp[r][s] = Larger(current(r)[s], target(r)[r]) - target(r)[r]
  BY <1>1, <1>2, <1>3, OverlapSymmetric DEF Filled
<1>6. Larger(current(r)[s], target(r)[r]) \in Nat
  BY <1>4 DEF Larger
<1> QED BY <1>1, <1>3, <1>4, <1>5, <1>6

\* Every message is received by the call it was sent in, into a receive of
\* exactly its size, for any sequence of calls.
THEOREM MessagesFitHolds == Spec => []MessagesFit
<1>1. IInv => MessagesFit
  BY ReceivedFacts DEF MessagesFit
<1> QED BY <1>1, Invariance, PTL

\* Every place of a distribution belongs to a process.
LEMMA PlaceHasOwner ==
    ASSUME NEW d, IsDistribution(d), NEW x \in Nat, x < d[Size]
    PROVE  \E q \in Rank : d[q] <= x /\ x < d[q + 1]
<1> DEFINE Behind == {k \in 0..Size : x < d[k]}
<1>1. Behind \subseteq Nat /\ Behind # {}
  BY SizeAssumption
<1>2. PICK k \in Behind : \A j \in Behind : ~(<<j, k>> \in OpToRel(<, Nat))
  BY <1>1, NatLessThanWellFounded, WFMin
<1>3. \A j \in Behind : ~(j < k)
  BY <1>1, <1>2 DEF OpToRel
<1>4. k # 0
  BY DEF IsDistribution
<1>5. k - 1 \in 0..Size /\ k - 1 < k /\ k \in Nat /\ k \in 0..Size
  BY <1>1, <1>4, SizeAssumption
<1>6. ~(x < d[k - 1])
  BY <1>3, <1>5
<1>7. d[k - 1] <= x /\ x < d[(k - 1) + 1]
  BY <1>5, <1>6 DEF IsDistribution
<1>8. k - 1 \in Rank
  BY <1>5, SizeAssumption DEF Rank
<1> QED BY <1>7, <1>8

\* The promise of balance: a process returns with its part of the target
\* distribution, every place once and in order.
THEOREM SliceReturnedHolds == Spec => []SliceReturned
<1>1. IInv => SliceReturned
  <2> SUFFICES ASSUME IInv, NEW r \in Rank, loc[r] = "caller", call[r] > 0,
                      NEW i \in 0..(target(r)[r + 1] - target(r)[r] - 1)
               PROVE  At(r, i) = {target(r)[r] + i}
    BY DEF SliceReturned
  <2> DEFINE x == target(r)[r] + i
             covers(q) == /\ rdisp[r][q] <= i
                          /\ i < rdisp[r][q] + result[r][q].size
  <2>1. /\ TypeOK /\ Computed(r) /\ Received(r)
        /\ IsDistribution(current(r)) /\ IsDistribution(target(r))
        /\ current(r)[Size] = target(r)[Size]
    BY InCall DEF IInv
  <2>2. /\ target(r)[r] \in Nat /\ target(r)[r + 1] \in Nat
        /\ target(r)[r + 1] <= target(r)[Size] /\ target(r)[Size] \in Nat
    BY <2>1, DistributionFacts
  <2>3. i \in Nat /\ x \in Nat /\ x < target(r)[r + 1] /\ x < current(r)[Size]
    BY <2>1, <2>2
  <2>4. ASSUME NEW q \in DOMAIN result[r]
        PROVE  result[r][q].first + i - rdisp[r][q] = x
    BY <2>2, <2>3, ReceivedFacts
  <2>5. PICK q \in Rank : current(r)[q] <= x /\ x < current(r)[q + 1]
    BY <2>1, <2>3, PlaceHasOwner
  <2>6. current(r)[q] \in Nat /\ current(r)[q + 1] \in Nat
    BY <2>1, DistributionFacts
  <2> DEFINE first == Larger(current(r)[q], target(r)[r])
  <2>7. /\ first \in Nat /\ first <= x
        /\ x < first + Overlap(current(r), target(r), q, r)
        /\ Overlap(current(r), target(r), q, r) > 0
    BY <2>2, <2>3, <2>5, <2>6 DEF Overlap, Larger
  <2>8. q \in DOMAIN result[r]
    BY <2>1, <2>7 DEF Received, Sends, current, target
  <2>9. /\ result[r][q].first = first
        /\ result[r][q].size = Overlap(current(r), target(r), q, r)
    <3>1. result[r][q] = MessageOf(call[r], q, r)
      BY <2>1, <2>8 DEF Received
    <3> QED BY <3>1 DEF MessageOf, current, target
  <2>10. Overlap(current(r), target(r), q, r) \in Nat
    BY <2>1, OverlapSymmetric
  <2>11. /\ rdisp[r][q] \in Nat /\ first = target(r)[r] + rdisp[r][q]
    BY <2>8, <2>9, ReceivedFacts
  <2> HIDE DEF first
  <2>12. rdisp[r][q] <= i /\ i < rdisp[r][q] + result[r][q].size
    BY <2>2, <2>3, <2>7, <2>9, <2>10, <2>11
  <2> HIDE DEF x
  <2>13. At(r, i) = {x}
    BY <2>4, <2>8, <2>12 DEF At
  <2> QED BY <2>13 DEF x
<1> QED BY <1>1, Invariance, PTL
=============================================================================
