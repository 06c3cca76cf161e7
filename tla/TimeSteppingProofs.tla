-------------------------- MODULE TimeSteppingProofs ---------------------------
(***************************************************************************)
(* The time of the load steps, for any simulation, precision and errors:   *)
(* substeps are numbered without gaps, pseudo time stepping takes exactly  *)
(* its substeps whatever the additions lose, a load step ends at its end   *)
(* time, a transient time step starts from the last accepted solution      *)
(* however often it is rejected, and results are stored in order.          *)
(***************************************************************************)
EXTENDS TimeStepping, TLAPS

Running == pc \in {"loop", "solve"}

Types ==
    /\ pc \in {"factory", "loop", "solve", "error"}
    /\ loadSteps \in Simulations
    /\ step \in Nat \ {0} /\ substep \in Int
    /\ currentTime \in Int /\ timeStep \in Int /\ endTime \in Int
    /\ nTimeStep \in Int /\ lastU \in Int
    /\ accepted \in [number : Nat, time : Int]
    /\ Running => step <= Len(loadSteps)

\* The time after k substeps: the exact one up to k errors.
NearSubstep(k) ==
    LET length == LoadStep.duration \div LoadStep.substeps
    IN /\ currentTime <= lastU + k * length + k * MaxError
       /\ lastU + k * length - k * MaxError <= currentTime

\* In a pseudo time stepping load step U, and with it lastU, still is the one
\* from before the load step.
PseudoInv ==
    Running /\ LoadStep.kind = "PSEUDO" =>
        LET k == IF pc = "solve" THEN substep + 1 ELSE substep
        IN /\ substep \in Nat /\ k <= LoadStep.substeps
           /\ endTime <= lastU + LoadStep.duration + MaxError
           /\ lastU + LoadStep.duration - MaxError <= endTime
           /\ IF k = LoadStep.substeps THEN currentTime = endTime
              ELSE NearSubstep(k)

IInv == Types /\ SubstepsConsecutive /\ PseudoInv

\* The time of a load step is clamped to its end, or well before it.
TimeInv ==
    /\ Running => currentTime = endTime \/ currentTime + Precision < endTime
    /\ pc = "factory" /\ step > 1 => currentTime = endTime

\* The time is that of the last solution up to an error.
Near(time, error) == time - lastU <= error /\ lastU - time <= error

\* What k accepted time steps leave: each was at least half of the shortest one,
\* and each moves the proposed time step by two errors at most.
Proposed ==
    LET k == accepted.number
    IN /\ k * Shortest(LoadStep)
            <= 2 * (lastU + LoadStep.duration + MaxError - endTime)
       /\ Shortest(LoadStep) - 2 * (k * MaxError) <= nTimeStep
       /\ LoadStep.auto =>
            nTimeStep <= Max(LoadStep.timeStep, LoadStep.maxTimeStep)
                           + 2 * (k * MaxError)

\* r attempts since the last accepted time step were rejected, each of which left
\* a time step shorter by at least half of minTimeStep, or crossed one of the
\* two limits.
Attempts(r) ==
    LET min == LoadStep.minTimeStep
    IN IF LoadStep.auto
         THEN /\ r = 0 \/ min <= nTimeStep
              /\ r * min + 2 * nTimeStep
                   + (IF nTimeStep > min THEN min ELSE 0)
                   + (IF nTimeStep > LoadStep.maxTimeStep THEN min ELSE 0)
                 <= 2 * Longest(LoadStep) + 2 * min
         ELSE r = 0

\* A transient load step: while its end is not reached, the time it is to go on
\* from is that of the last solution up to two errors for each rejection.
AtLoop ==
    /\ Proposed
    /\ \E r \in Nat : Attempts(r) /\ Near(currentTime, 2 * (r * MaxError))
InAttempt ==
    /\ Proposed
    /\ timeStep - nTimeStep <= 2 * MaxError
    /\ nTimeStep - timeStep <= 2 * MaxError
    /\ \E r \in Nat :
         /\ Attempts(r)
         /\ Near(currentTime - timeStep, 2 * (r * MaxError) + MaxError)
TransientInv ==
    Running /\ LoadStep.kind = "TRANSIENT" =>
        /\ lastU = accepted.time
        /\ pc = "loop" /\ currentTime # endTime => AtLoop
        /\ pc = "solve" =>
             /\ lastU < currentTime
             /\ Near(currentTime - timeStep,
                     2 * (Rejections(LoadStep) * MaxError) + MaxError)
             /\ currentTime # endTime => InAttempt

\* The stored time, the accepted time and the time of the solver.
StoredInv ==
    /\ stored.number \in Nat /\ stored.time \in Int
    /\ Running => stored.number = 0 \/ stored.time <= accepted.time
    /\ pc = "factory" => stored.number = 0 \/ stored.time <= currentTime
    /\ pc = "loop" => \/ currentTime = accepted.time
                      \/ /\ LoadStep.kind = "TRANSIENT"
                         /\ currentTime + Precision < endTime
    /\ pc = "solve" => accepted.time < currentTime

-----------------------------------------------------------------------------
(* Arithmetic of substeps                                                  *)

LEMMA NextMultiple ==
    ASSUME NEW k \in Nat, NEW n \in Nat, NEW x \in Nat, k + 1 <= n
    PROVE  /\ k * x \in Nat /\ (k + 1) * x \in Nat /\ n * x \in Nat
           /\ (k + 1) * x = k * x + x
           /\ (k + 1) * x <= n * x
<1>1. (k + 1) * x = k * x + x
  OBVIOUS
<1>2. n - (k + 1) \in Nat
  OBVIOUS
<1>3. n * x = (k + 1) * x + (n - (k + 1)) * x
  OBVIOUS
<1>4. (n - (k + 1)) * x \in Nat /\ k * x \in Nat /\ (k + 1) * x \in Nat /\ n * x \in Nat
  BY <1>2
<1> QED BY <1>1, <1>3, <1>4

\* One substep more, where kq, k1q and nq are the multiples k, k + 1 and n of
\* its length q, and kE, k1E and nE those of the largest error E.
LEMMA SubstepArithmetic ==
    ASSUME NEW T \in Int, NEW U \in Int, NEW end \in Int, NEW d \in Int,
           NEW q \in Int, NEW e \in Int, NEW E \in Int, NEW P \in Int,
           NEW kq \in Int, NEW k1q \in Int, NEW nq \in Int,
           NEW kE \in Int, NEW k1E \in Int, NEW nE \in Int,
           -E <= e, e <= E, 0 <= E, 0 < P,
           k1q = kq + q, k1q <= nq, k1E = kE + E, k1E <= nE,
           q > P + nE + E, nq <= d, d + nE + E <= nq + P,
           end <= U + d + E, U + d - E <= end,
           T <= U + kq + kE, U + kq - kE <= T
    PROVE  /\ T + q + e <= U + k1q + k1E
           /\ U + k1q - k1E <= T + q + e
           /\ k1q = nq => T + q + e + P >= end
           /\ k1q + q <= nq => T + q + e + P < end
           /\ T + P < end
OBVIOUS

LEMMA Quotient ==
    ASSUME NEW d \in Nat, NEW n \in Nat \ {0}
    PROVE  d \div n \in Nat /\ n * (d \div n) <= d
OBVIOUS

\* A product that is at most a has at most a \div m as its factor.
LEMMA QuotientBound ==
    ASSUME NEW a \in Int, NEW m \in Nat \ {0}, NEW k \in Nat, k * m <= a
    PROVE  k <= a \div m
<1> DEFINE q == a \div m
<1>1. k * m \in Nat
  OBVIOUS
<1>2. a \in Nat
  BY <1>1
<1>3. q \in Nat /\ a < m * q + m
  BY <1>2
<1>4. SUFFICES ASSUME q + 1 <= k PROVE FALSE
  BY <1>3
<1> HIDE DEF q
<1>5. k - (q + 1) \in Nat
  BY <1>3, <1>4
<1>6. k * m = (k - (q + 1)) * m + (q * m + m)
  BY <1>3
<1>7. (k - (q + 1)) * m \in Nat
  BY <1>5
<1>8. q * m = m * q /\ q * m \in Nat
  BY <1>3
<1> QED BY <1>1, <1>2, <1>3, <1>6, <1>7, <1>8

\* Products with the same factor are ordered as the others.
LEMMA OrderedProducts ==
    ASSUME NEW k \in Nat, NEW n \in Nat, NEW x \in Nat, k <= n
    PROVE  k * x \in Nat /\ n * x \in Nat /\ k * x <= n * x
<1>1. n - k \in Nat /\ n * x = k * x + (n - k) * x
  OBVIOUS
<1>2. (n - k) * x \in Nat /\ k * x \in Nat /\ n * x \in Nat
  BY <1>1
<1> QED BY <1>1, <1>2

\* Dividing by anything but one at least halves.
LEMMA HalfQuotient ==
    ASSUME NEW x \in Nat, NEW f \in Nat \ {0}, x \div f < x
    PROVE  x \div f \in Nat /\ 2 * (x \div f) <= x
<1> DEFINE q == x \div f
<1>1. q \in Nat /\ f * q <= x
  BY Quotient
<1>2. f # 1
  <2> SUFFICES ASSUME f = 1 PROVE FALSE
    OBVIOUS
  <2>1. x \div 1 = x
    OBVIOUS
  <2> QED BY <2>1
<1> HIDE DEF q
<1>3. f - 2 \in Nat /\ f * q = 2 * q + (f - 2) * q
  BY <1>1, <1>2
<1>4. (f - 2) * q \in Nat /\ 2 * q \in Nat
  BY <1>1, <1>3
<1>5. 2 * q <= x
  BY <1>1, <1>3, <1>4
<1> QED BY <1>1, <1>5 DEF q

LEMMA RunningFacts ==
    ASSUME Types, step <= Len(loadSteps)
    PROVE  /\ WellConfigured(LoadStep)
           /\ LoadStep.duration \in Nat /\ LoadStep.timeStep \in Nat
<1>1. step \in 1..Len(loadSteps)
  BY SimulationsAssumption DEF Types
<1> QED BY <1>1, SimulationsAssumption DEF Types, WellConfigured, LoadStep

\* The numbers of a pseudo time stepping load step.
LEMMA PseudoFacts ==
    ASSUME NEW l, WellConfigured(l), l.kind = "PSEUDO"
    PROVE  LET n == l.substeps
               length == l.duration \div l.substeps
           IN /\ n \in Nat \ {0} /\ length \in Nat
              /\ l.duration \in Nat /\ n * length \in Nat
              /\ (n + 1) * MaxError = n * MaxError + MaxError
              /\ n * MaxError \in Nat
              /\ length > Precision + n * MaxError + MaxError
              /\ n * length <= l.duration
              /\ l.duration + n * MaxError + MaxError <= n * length + Precision
<1> DEFINE n == l.substeps
           length == l.duration \div n
<1>1. n \in Nat \ {0} /\ l.duration \in Nat
  BY DEF WellConfigured
<1>2. length \in Nat /\ n * length <= l.duration
  BY <1>1, Quotient
<1>3. (n + 1) * MaxError = n * MaxError + MaxError /\ n * MaxError \in Nat
      /\ n * length \in Nat
  BY <1>1, <1>2, RoundingAssumption
<1>4. /\ length > Precision + (n + 1) * MaxError
      /\ l.duration - n * length + (n + 1) * MaxError <= Precision
  BY DEF WellConfigured
<1> HIDE DEF length, n
<1>5. /\ length > Precision + n * MaxError + MaxError
      /\ l.duration + n * MaxError + MaxError <= n * length + Precision
  BY <1>1, <1>2, <1>3, <1>4, PrecisionAssumption, RoundingAssumption
<1> QED BY <1>1, <1>2, <1>3, <1>5 DEF n, length

\* The numbers of a transient load step: the errors of its time steps and of its
\* rejected attempts are small.
LEMMA TransientFacts ==
    ASSUME NEW l, WellConfigured(l), l.kind = "TRANSIENT"
    PROVE  LET KE == TimeSteps(l) * MaxError
               RE == Rejections(l) * MaxError
           IN /\ l.duration \in Nat /\ l.timeStep \in Nat /\ l.auto \in BOOLEAN
              /\ l.duration > Precision + MaxError
              /\ Shortest(l) \in Nat \ {0}
              /\ TimeSteps(l) \in Nat /\ KE \in Nat
              /\ Rejections(l) \in Nat /\ RE \in Nat
              /\ Precision > 2 * RE + MaxError
              /\ Shortest(l) > 4 * KE + 4 * RE + 6 * MaxError
              /\ Shortest(l) <= l.timeStep
<1> DEFINE K == TimeSteps(l)
           R == Rejections(l)
           S == Shortest(l)
<1>1. /\ l.duration \in Nat /\ l.timeStep \in Nat /\ l.auto \in BOOLEAN
      /\ l.duration > Precision + MaxError
      /\ l.auto => /\ l.minTimeStep \in Nat /\ l.maxTimeStep \in Nat
      /\ S > 0
      /\ Precision > (2 * R + 1) * MaxError
      /\ S > 2 * (2 * K + 2 * R + 3) * MaxError
  BY DEF WellConfigured
<1>2. S \in Nat \ {0} /\ S <= l.timeStep
  BY <1>1 DEF Shortest, Min
<1>3. \A a \in Nat, b \in Nat \ {0} : a \div b \in Nat
  OBVIOUS
<1>4. 2 * l.duration \in Nat /\ K \in Nat
  BY <1>1, <1>2, <1>3 DEF TimeSteps
<1>5. 2 * (K * MaxError) \in Nat /\ K * MaxError \in Nat
  BY <1>4, RoundingAssumption
<1>6. R \in Nat
  <2>1. CASE l.auto
    <3>1. l.minTimeStep \in Nat \ {0}
      BY <1>1, <2>1 DEF Shortest, Min
    <3>2. 2 * Longest(l) \in Nat
      BY <1>1, <1>4, <1>5, <2>1, RoundingAssumption DEF Longest, Max
    <3> QED BY <1>3, <2>1, <3>1, <3>2 DEF Rejections
  <2> QED BY <2>1 DEF Rejections
<1>7. R * MaxError \in Nat
  BY <1>6, RoundingAssumption
<1> HIDE DEF K, R, S
<1>8. /\ (2 * R + 1) * MaxError = 2 * (R * MaxError) + MaxError
      /\ 2 * (2 * K + 2 * R + 3) * MaxError
            = 4 * (K * MaxError) + 4 * (R * MaxError) + 6 * MaxError
  BY <1>4, <1>6, RoundingAssumption
<1>9. /\ Precision > 2 * (R * MaxError) + MaxError
      /\ S > 4 * (K * MaxError) + 4 * (R * MaxError) + 6 * MaxError
  BY <1>1, <1>8
<1> QED BY <1>1, <1>2, <1>4, <1>5, <1>6, <1>7, <1>9 DEF K, R, S

\* The numbers of automatic time stepping: at least two rejections are covered.
LEMMA AutomaticFacts ==
    ASSUME NEW l, WellConfigured(l), l.kind = "TRANSIENT", l.auto
    PROVE  /\ l.minTimeStep \in Nat \ {0} /\ l.maxTimeStep \in Nat
           /\ l.minTimeStep <= l.maxTimeStep /\ l.factor \in Nat \ {0}
           /\ Shortest(l) <= l.minTimeStep
           /\ Longest(l) \in Nat
           /\ Longest(l) = Max(l.timeStep, l.maxTimeStep)
                             + 2 * (TimeSteps(l) * MaxError)
           /\ Precision > 5 * MaxError
           /\ \A r \in Nat : r * l.minTimeStep <= 2 * Longest(l)
                               => r <= Rejections(l)
<1> DEFINE K == TimeSteps(l)
           R == Rejections(l)
           L == Longest(l)
<1>1. /\ l.timeStep \in Nat /\ Shortest(l) \in Nat \ {0}
      /\ K \in Nat /\ K * MaxError \in Nat
      /\ R \in Nat /\ R * MaxError \in Nat
      /\ Precision > 2 * (R * MaxError) + MaxError
  BY TransientFacts
<1>2. /\ l.minTimeStep \in Nat \ {0} /\ l.maxTimeStep \in Nat
      /\ l.minTimeStep <= l.maxTimeStep /\ l.factor \in Nat \ {0}
      /\ Shortest(l) <= l.minTimeStep
  BY <1>1 DEF WellConfigured, Shortest, Min
<1>3. /\ L \in Nat /\ L >= l.minTimeStep
      /\ L = Max(l.timeStep, l.maxTimeStep) + 2 * (K * MaxError)
  <2>1. L = Max(l.timeStep, l.maxTimeStep) + 2 * (K * MaxError)
    BY DEF Longest
  <2>2. Max(l.timeStep, l.maxTimeStep) \in Nat
        /\ Max(l.timeStep, l.maxTimeStep) >= l.minTimeStep
    BY <1>1, <1>2 DEF Max
  <2> HIDE DEF K, L
  <2> QED BY <1>1, <1>2, <2>1, <2>2
<1>4. \A r \in Nat : r * l.minTimeStep <= 2 * L => r <= R
  BY <1>2, <1>3, QuotientBound DEF Rejections
<1> HIDE DEF K, R, L
<1>5. 2 <= R
  BY <1>2, <1>3, <1>4
<1>6. 2 * MaxError <= R * MaxError
  BY <1>1, <1>5, RoundingAssumption, OrderedProducts
<1>7. Precision > 5 * MaxError
  BY <1>1, <1>6, RoundingAssumption, PrecisionAssumption
<1> QED BY <1>2, <1>3, <1>4, <1>7 DEF K, R, L

-----------------------------------------------------------------------------
(* Every step keeps the invariant                                          *)

LEMMA InitInv == Init => IInv /\ TimeInv
BY DEF Init, IInv, Types, SubstepsConsecutive, PseudoInv, TimeInv, Running

LEMMA StartStep == ASSUME IInv, StartLoadStep PROVE IInv'
<1> USE DEF IInv
<1>1. step <= Len(loadSteps) /\ WellConfigured(LoadStep)
      /\ LoadStep.duration \in Nat /\ LoadStep.timeStep \in Nat
  BY RunningFacts DEF StartLoadStep
<1>2. PICK e \in Rounding : endTime' = currentTime + LoadStep.duration + e
  BY DEF StartLoadStep
<1>3. e \in Int /\ e <= MaxError /\ -MaxError <= e
  BY RoundingAssumption
<1>4. /\ substep' = 0 /\ accepted' = [number |-> 0, time |-> currentTime]
      /\ nTimeStep' = LoadStep.timeStep /\ lastU' = currentTime
      /\ pc' \in {"loop", "error"} /\ currentTime' = currentTime
      /\ timeStep' = timeStep /\ loadSteps' = loadSteps /\ step' = step
  BY DEF StartLoadStep, config
<1>5. Types'
  BY <1>1, <1>2, <1>3, <1>4 DEF Types, Running
<1>6. SubstepsConsecutive'
  BY <1>4 DEF SubstepsConsecutive
<1>7. PseudoInv'
  <2> SUFFICES ASSUME LoadStep.kind = "PSEUDO" PROVE PseudoInv'
    BY <1>4 DEF PseudoInv, LoadStep
  <2>1. LoadStep' = LoadStep
    BY <1>4 DEF LoadStep
  <2> DEFINE n == LoadStep.substeps
             length == LoadStep.duration \div LoadStep.substeps
  <2>2. n \in Nat \ {0} /\ length \in Nat
    BY <1>1, PseudoFacts
  <2>3. 0 * length = 0 /\ 0 * MaxError = 0
    BY <2>2, RoundingAssumption
  <2>4. NearSubstep(0)'
    BY <1>4, <2>1, <2>3 DEF NearSubstep, Types
  <2>5. /\ endTime' <= lastU' + LoadStep.duration + MaxError
        /\ lastU' + LoadStep.duration - MaxError <= endTime'
    BY <1>1, <1>2, <1>3, <1>4, RoundingAssumption DEF Types
  <2> QED BY <1>4, <2>1, <2>2, <2>4, <2>5 DEF PseudoInv
<1> QED BY <1>5, <1>6, <1>7

LEMMA SteadyStep == ASSUME IInv, RunSteadyState PROVE IInv'
<1> USE DEF IInv
<1>1. LoadStep.duration \in Nat /\ LoadStep.kind = "STEADY_STATE"
  BY RunningFacts DEF RunSteadyState, Types, Running
<1>2. /\ currentTime' = endTime /\ timeStep' = LoadStep.duration
      /\ pc = "loop" /\ pc' = "solve" /\ loadSteps' = loadSteps /\ step' = step
      /\ UNCHANGED <<substep, endTime, nTimeStep, lastU, accepted>>
  BY DEF RunSteadyState, config, history
<1>3. Types'
  BY <1>1, <1>2 DEF Types, Running
<1>4. SubstepsConsecutive'
  BY <1>2 DEF SubstepsConsecutive
<1>5. PseudoInv'
  BY <1>1, <1>2 DEF PseudoInv, LoadStep
<1> QED BY <1>3, <1>4, <1>5

\* What runNextTimeStep() of the two kinds with substeps changes.
LEMMA AdvanceFacts ==
    ASSUME IInv, pc = "loop", NEW t \in Int, Advance(t)
    PROVE  /\ Types' /\ SubstepsConsecutive' /\ LoadStep' = LoadStep
           /\ currentTime' = t /\ pc' = "solve"
           /\ UNCHANGED <<substep, endTime, lastU, step, loadSteps>>
<1> USE DEF IInv
<1>1. /\ currentTime' = t /\ pc' = "solve"
      /\ UNCHANGED <<substep, endTime, lastU, step, loadSteps, nTimeStep, accepted>>
  BY DEF Advance, config, history
<1>2. PICK e \in Rounding : timeStep' = t - currentTime + e
  BY DEF Advance
<1>3. Types'
  BY <1>1, <1>2, RoundingAssumption DEF Types, Running
<1>4. SubstepsConsecutive' /\ LoadStep' = LoadStep
  BY <1>1 DEF SubstepsConsecutive, LoadStep
<1> QED BY <1>1, <1>3, <1>4

LEMMA PseudoStep == ASSUME IInv, RunPseudoTimeStep PROVE IInv'
<1> USE DEF IInv
<1> DEFINE n == LoadStep.substeps
           length == LoadStep.duration \div LoadStep.substeps
           k == substep
<1>0. /\ pc = "loop" /\ hasNextTimeStep /\ LoadStep.kind = "PSEUDO"
      /\ WellConfigured(LoadStep)
  BY RunningFacts DEF RunPseudoTimeStep, Types, Running
<1>1. PICK e \in Rounding : Advance(Clamp(currentTime + length + e))
  BY DEF RunPseudoTimeStep
<1> DEFINE t == currentTime + length + e
<1>2. /\ n \in Nat \ {0} /\ length \in Nat
      /\ LoadStep.duration \in Nat /\ n * length \in Nat
      /\ (n + 1) * MaxError = n * MaxError + MaxError
      /\ n * MaxError \in Nat
      /\ length > Precision + n * MaxError + MaxError
      /\ n * length <= LoadStep.duration
      /\ LoadStep.duration + n * MaxError + MaxError <= n * length + Precision
  BY <1>0, PseudoFacts
<1>3. e \in Int /\ e <= MaxError /\ -MaxError <= e /\ MaxError \in Nat
  BY RoundingAssumption
<1>4. /\ k \in Nat /\ k < n
      /\ endTime <= lastU + LoadStep.duration + MaxError
      /\ lastU + LoadStep.duration - MaxError <= endTime
      /\ NearSubstep(k)
  <2>1. /\ k \in Nat /\ k <= n
        /\ endTime <= lastU + LoadStep.duration + MaxError
        /\ lastU + LoadStep.duration - MaxError <= endTime
        /\ IF k = n THEN currentTime = endTime ELSE NearSubstep(k)
    BY <1>0 DEF PseudoInv, Running
  <2>2. k # n
    BY <1>0, <2>1, PrecisionAssumption DEF hasNextTimeStep, Types
  <2> QED BY <1>2, <2>1, <2>2
<1>5. t \in Int /\ Clamp(t) \in Int
  BY <1>2, <1>3 DEF Types, Clamp
<1>6. /\ Types' /\ SubstepsConsecutive' /\ LoadStep' = LoadStep
      /\ currentTime' = Clamp(t) /\ pc' = "solve"
      /\ UNCHANGED <<substep, endTime, lastU, step, loadSteps>>
  BY <1>0, <1>1, <1>5, AdvanceFacts
<1>7. /\ (k + 1) * length = k * length + length /\ (k + 1) * length <= n * length
      /\ (k + 1) * MaxError = k * MaxError + MaxError
      /\ (k + 1) * MaxError <= n * MaxError
      /\ k * length \in Nat /\ k * MaxError \in Nat
      /\ (k + 1) * length \in Nat /\ (k + 1) * MaxError \in Nat
  BY <1>2, <1>3, <1>4, NextMultiple
<1>8. /\ t <= lastU + (k + 1) * length + (k + 1) * MaxError
      /\ lastU + (k + 1) * length - (k + 1) * MaxError <= t
      /\ (k + 1) * length = n * length => t + Precision >= endTime
      /\ (k + 1) * length + length <= n * length => t + Precision < endTime
  <2>1. /\ currentTime <= lastU + k * length + k * MaxError
        /\ lastU + k * length - k * MaxError <= currentTime
    BY <1>4 DEF NearSubstep
  <2>2. /\ currentTime \in Int /\ lastU \in Int /\ endTime \in Int
        /\ Precision \in Int /\ 0 < Precision /\ MaxError \in Int /\ 0 <= MaxError
    BY PrecisionAssumption, RoundingAssumption DEF Types
  <2> HIDE DEF length, n, k
  <2>3. /\ length \in Int /\ LoadStep.duration \in Int
        /\ k * length \in Int /\ (k + 1) * length \in Int /\ n * length \in Int
        /\ k * MaxError \in Int /\ (k + 1) * MaxError \in Int /\ n * MaxError \in Int
    BY <1>2, <1>7
  <2> QED BY ONLY <1>2, <1>3, <1>4, <1>7, <2>1, <2>2, <2>3, SubstepArithmetic
<1>9. IF k + 1 = n THEN currentTime' = endTime ELSE currentTime' = t
  <2> HIDE DEF length, n, k, t
  <2>1. CASE k + 1 = n
    <3>1. t + Precision >= endTime
      BY <1>8, <2>1
    <3> QED BY <1>6, <2>1, <3>1 DEF Clamp
  <2>2. CASE k + 1 # n
    <3>1. k + 1 \in Nat /\ (k + 1) + 1 <= n
      BY <1>2, <1>4, <2>2
    <3>2. (k + 1) * length + length <= n * length
      BY <1>2, <3>1, NextMultiple
    <3>3. t + Precision < endTime
      BY <1>8, <3>2
    <3>4. t + Precision \in Int /\ endTime \in Int
      BY <1>5, PrecisionAssumption DEF Types
    <3>5. ~(t + Precision >= endTime)
      BY <3>3, <3>4
    <3> QED BY <1>6, <2>2, <3>5 DEF Clamp
  <2> QED BY <2>1, <2>2
<1>10. PseudoInv'
  <2>1. k + 1 # n => NearSubstep(k + 1)'
    BY <1>6, <1>8, <1>9 DEF NearSubstep
  <2>2. k + 1 <= n
    BY <1>2, <1>4
  <2> QED BY <1>4, <1>6, <1>9, <2>1, <2>2 DEF PseudoInv
<1> QED BY <1>6, <1>10

LEMMA TransientStep == ASSUME IInv, RunTransientTimeStep PROVE IInv'
<1> USE DEF IInv
<1>1. PICK e \in Rounding : Advance(Clamp(currentTime + nTimeStep + e))
  BY DEF RunTransientTimeStep
<1> DEFINE t == Clamp(currentTime + nTimeStep + e)
<1>2. t \in Int
  BY RoundingAssumption DEF Types, Clamp
<1>3. pc = "loop" /\ LoadStep.kind = "TRANSIENT"
  BY DEF RunTransientTimeStep
<1>4. /\ Types' /\ SubstepsConsecutive' /\ LoadStep' = LoadStep
  BY <1>1, <1>2, <1>3, AdvanceFacts
<1>5. PseudoInv'
  BY <1>3, <1>4 DEF PseudoInv
<1> QED BY <1>4, <1>5

\* An accepted time step.
LEMMA AcceptStep ==
    ASSUME IInv, pc = "solve", Accept, nTimeStep' \in Int, lastU' \in Int,
           LoadStep.kind = "PSEUDO" => lastU' = lastU,
           UNCHANGED <<config, step, clock>>
    PROVE  IInv'
<1> USE DEF IInv
<1>1. /\ accepted' = [number |-> accepted.number + 1, time |-> currentTime]
      /\ substep' = substep + 1 /\ pc' = "loop"
      /\ UNCHANGED <<loadSteps, step, currentTime, timeStep, endTime>>
  BY DEF Accept, config, clock
<1>2. Types'
  BY <1>1 DEF Types, Running
<1>3. SubstepsConsecutive'
  BY <1>1 DEF SubstepsConsecutive
<1>4. PseudoInv'
  <2> SUFFICES ASSUME LoadStep.kind = "PSEUDO" PROVE PseudoInv'
    BY <1>1 DEF PseudoInv, LoadStep
  <2>1. LoadStep' = LoadStep /\ lastU' = lastU
    BY <1>1 DEF LoadStep
  <2>2. /\ substep \in Nat /\ substep + 1 <= LoadStep.substeps
        /\ endTime <= lastU + LoadStep.duration + MaxError
        /\ lastU + LoadStep.duration - MaxError <= endTime
        /\ IF substep + 1 = LoadStep.substeps THEN currentTime = endTime
           ELSE NearSubstep(substep + 1)
    BY DEF PseudoInv, Running
  <2>3. substep' \in Nat
    BY <1>1, <2>2
  <2> QED BY <1>1, <2>1, <2>2, <2>3 DEF PseudoInv, NearSubstep
<1> QED BY <1>2, <1>3, <1>4

LEMMA ProposalFacts ==
    ASSUME Types, Running, LoadStep.kind = "TRANSIENT", NEW n \in Proposals
    PROVE  n \in Int
<1>1. WellConfigured(LoadStep)
  BY RunningFacts DEF Types
<1>2. CASE n = timeStep
  BY <1>2 DEF Types
<1>3. CASE n # timeStep
  <2>1. /\ LoadStep.auto
        /\ \/ n = Min(LoadStep.maxTimeStep, LoadStep.factor * timeStep)
           \/ n = Max(LoadStep.minTimeStep, timeStep \div LoadStep.factor)
    BY <1>3 DEF Proposals
  <2>2. /\ LoadStep.minTimeStep \in Int /\ LoadStep.maxTimeStep \in Int
        /\ LoadStep.factor \in Nat \ {0}
    BY <1>1, <2>1 DEF WellConfigured
  <2>3. \A f \in Nat \ {0}, x \in Int : f * x \in Int /\ x \div f \in Int
    OBVIOUS
  <2>4. LoadStep.factor * timeStep \in Int /\ timeStep \div LoadStep.factor \in Int
    BY <2>2, <2>3 DEF Types
  <2> QED BY <2>1, <2>2, <2>4 DEF Min, Max
<1> QED BY <1>2, <1>3

LEMMA RejectStep == ASSUME IInv, RejectTransient PROVE IInv'
<1> USE DEF IInv
<1>1. /\ pc = "solve" /\ pc' = "loop" /\ LoadStep.kind = "TRANSIENT"
      /\ nTimeStep' \in Proposals /\ substep' = (substep - 1) + 1
      /\ UNCHANGED <<loadSteps, step, timeStep, endTime, lastU, accepted>>
  BY DEF RejectTransient, config, history
<1>2. PICK e \in Rounding : currentTime' = currentTime - timeStep + e
  BY DEF RejectTransient
<1>3. nTimeStep' \in Int
  BY <1>1, ProposalFacts DEF Running
<1>4. substep' = substep
  BY <1>1 DEF Types
<1>5. Types'
  BY <1>1, <1>2, <1>3, <1>4, RoundingAssumption DEF Types, Running
<1>6. SubstepsConsecutive'
  BY <1>1, <1>4 DEF SubstepsConsecutive
<1>7. PseudoInv'
  BY <1>1 DEF PseudoInv, LoadStep
<1> QED BY <1>5, <1>6, <1>7

LEMMA NextInv == IInv /\ [Next]_vars => IInv'
<1> SUFFICES ASSUME IInv, [Next]_vars PROVE IInv'
  OBVIOUS
<1>1. CASE ProcessTimeStep
  <2>1. /\ pc = "solve" /\ Accept /\ nTimeStep' = nTimeStep /\ lastU' = lastU
        /\ UNCHANGED <<config, step, clock>>
    BY <1>1 DEF ProcessTimeStep
  <2> QED BY <2>1, AcceptStep DEF IInv, Types
<1>2. CASE AcceptTransient
  <2>1. /\ pc = "solve" /\ Accept /\ nTimeStep' \in Proposals
        /\ LoadStep.kind = "TRANSIENT" /\ lastU' = currentTime
        /\ UNCHANGED <<config, step, clock>>
    BY <1>2 DEF AcceptTransient
  <2>2. nTimeStep' \in Int
    BY <2>1, ProposalFacts DEF IInv, Running
  <2> QED BY <2>1, <2>2, AcceptStep DEF IInv, Types
<1>3. CASE FinishLoadStep
  <2>1. /\ pc' = "factory" /\ step' = step + 1
        /\ UNCHANGED <<loadSteps, substep, currentTime, timeStep, endTime,
                       nTimeStep, lastU, accepted>>
    BY <1>3 DEF FinishLoadStep, config, clock, history
  <2> QED BY <2>1 DEF IInv, Types, SubstepsConsecutive, PseudoInv, Running
<1>4. CASE UNCHANGED vars
  <2>1. UNCHANGED <<pc, loadSteps, step, substep, currentTime, timeStep, endTime,
                    nTimeStep, lastU, accepted>>
    BY <1>4 DEF vars, config, clock, history
  <2>2. LoadStep' = LoadStep /\ Running' = Running
    BY <2>1 DEF LoadStep, Running
  <2>3. Types' /\ SubstepsConsecutive'
    BY <2>1, <2>2 DEF IInv, Types, SubstepsConsecutive
  <2>4. PseudoInv'
    BY <2>1, <2>2 DEF IInv, PseudoInv, NearSubstep
  <2> QED BY <2>3, <2>4 DEF IInv
<1> QED BY <1>1, <1>2, <1>3, <1>4, StartStep, SteadyStep, PseudoStep, TransientStep,
           RejectStep DEF Next, Done

-----------------------------------------------------------------------------
(* Rejected attempts and the errors they leave                             *)

\* The number of accepted time steps before the end of the load step.
LEMMA AcceptedBound ==
    ASSUME NEW l, WellConfigured(l), l.kind = "TRANSIENT",
           NEW k \in Nat, k * Shortest(l) <= 2 * l.duration
    PROVE  /\ k <= TimeSteps(l) /\ k * MaxError \in Nat
           /\ k * MaxError <= TimeSteps(l) * MaxError
<1>1. Shortest(l) \in Nat \ {0} /\ l.duration \in Nat /\ TimeSteps(l) \in Nat
  BY TransientFacts
<1>2. k <= TimeSteps(l)
  BY <1>1, QuotientBound DEF TimeSteps
<1> QED BY <1>1, <1>2, RoundingAssumption, OrderedProducts

\* The number of rejections since the last accepted time step.
LEMMA RejectedBound ==
    ASSUME WellConfigured(LoadStep), LoadStep.kind = "TRANSIENT",
           nTimeStep \in Int, NEW r \in Nat, Attempts(r)
    PROVE  /\ r * MaxError \in Nat
           /\ r * MaxError <= Rejections(LoadStep) * MaxError
<1> DEFINE l == LoadStep
           min == l.minTimeStep
<1>1. Rejections(l) \in Nat /\ l.auto \in BOOLEAN
  BY TransientFacts
<1>2. r <= Rejections(l)
  <2>1. CASE r = 0
    BY <1>1, <2>1
  <2>2. CASE r # 0
    <3>1. /\ l.auto /\ min <= nTimeStep
          /\ r * min + 2 * nTimeStep + (IF nTimeStep > min THEN min ELSE 0)
               + (IF nTimeStep > l.maxTimeStep THEN min ELSE 0)
             <= 2 * Longest(l) + 2 * min
      BY <2>2 DEF Attempts
    <3>2. min \in Nat \ {0} /\ Longest(l) \in Nat
          /\ \A n \in Nat : n * min <= 2 * Longest(l) => n <= Rejections(l)
      BY <3>1, AutomaticFacts
    <3>3. r * min \in Nat
      BY <3>2
    <3> HIDE DEF min, l
    <3>4. r * min <= 2 * Longest(l)
      BY <3>1, <3>2, <3>3
    <3> QED BY <3>2, <3>4
  <2> QED BY <2>1, <2>2
<1> QED BY <1>1, <1>2, RoundingAssumption, OrderedProducts

\* Proposed bounds the accepted time steps before the end of the load step, and
\* with them the proposed time step from below.
LEMMA ProposedBound ==
    ASSUME Types, WellConfigured(LoadStep), LoadStep.kind = "TRANSIENT", Proposed,
           lastU + MaxError <= endTime
    PROVE  /\ accepted.number * MaxError \in Nat
           /\ accepted.number * MaxError <= TimeSteps(LoadStep) * MaxError
           /\ accepted.number * Shortest(LoadStep) \in Nat
           /\ 2 * nTimeStep > Shortest(LoadStep)
                                + 4 * (Rejections(LoadStep) * MaxError) + 6 * MaxError
<1> DEFINE l == LoadStep
           k == accepted.number
           KE == TimeSteps(l) * MaxError
           RE == Rejections(l) * MaxError
<1>1. /\ Shortest(l) \in Nat \ {0} /\ l.duration \in Nat
      /\ KE \in Nat /\ RE \in Nat
      /\ Shortest(l) > 4 * KE + 4 * RE + 6 * MaxError
  BY TransientFacts
<1>2. /\ k \in Nat /\ lastU \in Int /\ endTime \in Int /\ nTimeStep \in Int
      /\ MaxError \in Nat
  BY RoundingAssumption DEF Types
<1>3. /\ k * Shortest(l) <= 2 * (lastU + l.duration + MaxError - endTime)
      /\ Shortest(l) - 2 * (k * MaxError) <= nTimeStep
  BY DEF Proposed
<1>4. k * Shortest(l) \in Nat
  BY <1>1, <1>2
<1> HIDE DEF KE, RE
<1>5. k * Shortest(l) <= 2 * l.duration
  <2> HIDE DEF k, l
  <2> QED BY <1>1, <1>2, <1>3, <1>4
<1>6. k * MaxError \in Nat /\ k * MaxError <= KE
  BY <1>2, <1>5, AcceptedBound DEF KE
<1>7. 2 * nTimeStep > Shortest(l) + 4 * RE + 6 * MaxError
  <2> HIDE DEF k, l
  <2> QED BY <1>1, <1>2, <1>3, <1>6
<1> QED BY <1>4, <1>6, <1>7 DEF KE, RE

\* The loop goes on: the time is near that of the last solution.
LEMMA LoopFacts ==
    ASSUME Types, TimeInv, TransientInv, pc = "loop", LoadStep.kind = "TRANSIENT",
           currentTime # endTime
    PROVE  /\ currentTime + Precision < endTime /\ AtLoop
           /\ Near(currentTime, 2 * (Rejections(LoadStep) * MaxError))
           /\ 2 * nTimeStep > Shortest(LoadStep)
                                + 4 * (Rejections(LoadStep) * MaxError) + 6 * MaxError
<1>1. WellConfigured(LoadStep) /\ AtLoop /\ currentTime + Precision < endTime
  BY RunningFacts DEF Types, Running, TimeInv, TransientInv
<1>2. PICK r \in Nat : Attempts(r) /\ Near(currentTime, 2 * (r * MaxError))
  BY <1>1 DEF AtLoop
<1>3. /\ r * MaxError \in Nat
      /\ r * MaxError <= Rejections(LoadStep) * MaxError
  BY <1>1, <1>2, RejectedBound DEF Types
<1>4. /\ Rejections(LoadStep) * MaxError \in Nat
      /\ Precision > 2 * (Rejections(LoadStep) * MaxError) + MaxError
  BY <1>1, TransientFacts
<1>5. Near(currentTime, 2 * (Rejections(LoadStep) * MaxError))
  BY <1>2, <1>3, <1>4 DEF Near, Types
<1>6. lastU + MaxError <= endTime
  BY <1>1, <1>4, <1>5, RoundingAssumption, PrecisionAssumption DEF Near, Types
<1> QED BY <1>1, <1>5, <1>6, ProposedBound DEF AtLoop

\* An attempt at a time step before the end of the load step: the time step is
\* near the proposed one, and the time of the last solution is left behind by at
\* least half of the shortest time step.
LEMMA AttemptFacts ==
    ASSUME Types, TimeInv, TransientInv, pc = "solve", LoadStep.kind = "TRANSIENT",
           currentTime # endTime
    PROVE  /\ WellConfigured(LoadStep) /\ InAttempt
           /\ currentTime + Precision < endTime
           /\ accepted.number * Shortest(LoadStep) \in Nat
           /\ accepted.number * MaxError \in Nat
           /\ timeStep > MaxError
           /\ 2 * (currentTime - lastU) >= Shortest(LoadStep)
<1>1. /\ WellConfigured(LoadStep) /\ InAttempt /\ currentTime + Precision < endTime
      /\ lastU < currentTime
      /\ Near(currentTime - timeStep,
              2 * (Rejections(LoadStep) * MaxError) + MaxError)
  BY RunningFacts DEF Types, Running, TimeInv, TransientInv
<1>2. /\ Rejections(LoadStep) * MaxError \in Nat /\ Shortest(LoadStep) \in Nat
      /\ Precision > 2 * (Rejections(LoadStep) * MaxError) + MaxError
  BY <1>1, TransientFacts
<1>3. lastU + MaxError <= endTime
  BY <1>1, <1>2, RoundingAssumption, PrecisionAssumption DEF Types
<1>4. /\ accepted.number * MaxError \in Nat
      /\ accepted.number * Shortest(LoadStep) \in Nat
      /\ 2 * nTimeStep > Shortest(LoadStep)
                           + 4 * (Rejections(LoadStep) * MaxError) + 6 * MaxError
  BY <1>1, <1>3, ProposedBound DEF InAttempt
<1>5. nTimeStep - timeStep <= 2 * MaxError
  BY <1>1 DEF InAttempt
<1>6. timeStep > MaxError
  BY <1>2, <1>4, <1>5, RoundingAssumption DEF Types
<1>7. 2 * (currentTime - lastU) >= Shortest(LoadStep)
  <2> DEFINE RE == Rejections(LoadStep) * MaxError
  <2>1. lastU - (currentTime - timeStep) <= 2 * RE + MaxError
    BY <1>1 DEF Near
  <2>2. RE \in Nat /\ 2 * nTimeStep > Shortest(LoadStep) + 4 * RE + 6 * MaxError
    BY <1>2, <1>4
  <2> HIDE DEF RE
  <2> QED BY <1>2, <1>5, <2>1, <2>2, RoundingAssumption DEF Types
<1> QED BY <1>1, <1>4, <1>6, <1>7

\* A rejected attempt: automatic time stepping proposes less than the time step,
\* one of its limits or at most half of it.
LEMMA RejectedFacts ==
    ASSUME Types, TimeInv, TransientInv, RejectTransient
    PROVE  /\ pc = "solve" /\ LoadStep.kind = "TRANSIENT" /\ LoadStep.auto
           /\ currentTime # endTime
           /\ nTimeStep' \in Int /\ nTimeStep' <= timeStep - Precision
           /\ LoadStep.minTimeStep <= nTimeStep'
           /\ \/ nTimeStep' = LoadStep.minTimeStep
              \/ nTimeStep' = LoadStep.maxTimeStep
              \/ 2 * nTimeStep' <= timeStep
<1> DEFINE l == LoadStep
           n == nTimeStep'
<1>1. /\ pc = "solve" /\ l.kind = "TRANSIENT" /\ n \in Proposals
      /\ timeStep - Precision >= n
  BY DEF RejectTransient
<1>2. n \in Int /\ n < timeStep /\ n <= timeStep - Precision
  BY <1>1, ProposalFacts, PrecisionAssumption DEF Types, Running
<1>3. /\ l.auto /\ currentTime < endTime
      /\ \/ n = Min(l.maxTimeStep, l.factor * timeStep)
         \/ n = Max(l.minTimeStep, timeStep \div l.factor)
  BY <1>1, <1>2 DEF Proposals, Types
<1>4. currentTime # endTime
  BY <1>3 DEF Types
<1>5. WellConfigured(l) /\ timeStep > MaxError
  BY <1>1, <1>4, AttemptFacts
<1>6. /\ l.minTimeStep \in Nat \ {0} /\ l.maxTimeStep \in Nat
      /\ l.minTimeStep <= l.maxTimeStep /\ l.factor \in Nat \ {0}
  BY <1>1, <1>3, <1>5, AutomaticFacts
<1>7. timeStep \in Nat
  BY <1>5, RoundingAssumption DEF Types
<1>8. /\ l.minTimeStep <= n
      /\ n = l.minTimeStep \/ n = l.maxTimeStep \/ 2 * n <= timeStep
  <2>1. CASE n = Min(l.maxTimeStep, l.factor * timeStep)
    <3>1. \A f \in Nat \ {0}, x \in Nat : f * x \in Nat /\ x <= f * x
      OBVIOUS
    <3>2. timeStep <= l.factor * timeStep /\ l.factor * timeStep \in Nat
      BY <1>6, <1>7, <3>1
    <3>3. n = l.maxTimeStep
      BY <1>2, <1>6, <1>7, <2>1, <3>2 DEF Min
    <3> QED BY <1>6, <3>3
  <2>2. CASE n = Max(l.minTimeStep, timeStep \div l.factor)
    <3>1. timeStep \div l.factor \in Nat
      BY <1>6, <1>7, Quotient
    <3>2. l.minTimeStep <= n /\ timeStep \div l.factor <= n
      BY <1>6, <2>2, <3>1 DEF Max
    <3>3. 2 * (timeStep \div l.factor) <= timeStep
      BY <1>2, <1>6, <1>7, <3>1, <3>2, HalfQuotient
    <3>4. n = l.minTimeStep \/ n = timeStep \div l.factor
      BY <2>2 DEF Max
    <3> QED BY <3>2, <3>3, <3>4
  <2> QED BY <1>3, <2>1, <2>2
<1> QED BY <1>1, <1>2, <1>3, <1>4, <1>8

\* The time a rejected attempt goes back to is well before the end.
LEMMA RejectedTime ==
    ASSUME Types, TimeInv, TransientInv, RejectTransient
    PROVE  currentTime' + Precision < endTime'
<1>1. PICK e \in Rounding : currentTime' = currentTime - timeStep + e
  BY DEF RejectTransient
<1>2. endTime' = endTime
  BY DEF RejectTransient
<1>3. currentTime + Precision < endTime /\ timeStep > MaxError
  BY RejectedFacts, AttemptFacts
<1> QED BY <1>1, <1>2, <1>3, PrecisionAssumption, RoundingAssumption DEF Types

\* One step of the time, before the end of the load step or exactly there.
LEMMA NextTime ==
    IInv /\ TransientInv /\ TimeInv /\ [Next]_vars => TimeInv'
<1> SUFFICES ASSUME IInv, TransientInv, TimeInv, [Next]_vars PROVE TimeInv'
  OBVIOUS
<1>1. Types
  BY DEF IInv
<1>2. CASE StartLoadStep
  <2>1. PICK e \in Rounding : endTime' = currentTime + LoadStep.duration + e
    BY <1>2 DEF StartLoadStep
  <2>2. LoadStep.duration \in Nat /\ LoadStep.duration > Precision + MaxError
    BY <1>1, <1>2, RunningFacts DEF StartLoadStep, WellConfigured
  <2>3. currentTime' = currentTime /\ pc' # "factory"
    BY <1>2 DEF StartLoadStep
  <2>4. currentTime + Precision < endTime'
    BY <1>1, <2>1, <2>2, PrecisionAssumption, RoundingAssumption DEF Types
  <2> QED BY <2>3, <2>4 DEF TimeInv
<1>3. CASE RunSteadyState
  BY <1>3 DEF RunSteadyState, TimeInv
<1>4. ASSUME NEW t \in Int, Advance(Clamp(t)) PROVE TimeInv'
  <2>1. currentTime' = Clamp(t) /\ pc' = "solve" /\ endTime' = endTime
    BY <1>4 DEF Advance
  <2>2. Clamp(t) = endTime \/ Clamp(t) + Precision < endTime
    BY <1>1, PrecisionAssumption DEF Clamp, Types
  <2> QED BY <2>1, <2>2 DEF TimeInv
<1>5. CASE RunPseudoTimeStep
  <2>1. LoadStep.duration \div LoadStep.substeps \in Int
    BY <1>1, <1>5, RunningFacts, PseudoFacts DEF RunPseudoTimeStep, Types, Running
  <2> QED BY <1>1, <1>4, <1>5, <2>1, RoundingAssumption DEF RunPseudoTimeStep, Types
<1>6. CASE RunTransientTimeStep
  BY <1>1, <1>4, <1>6, RoundingAssumption DEF RunTransientTimeStep, Types
<1>7. CASE ProcessTimeStep \/ AcceptTransient
  BY <1>7 DEF ProcessTimeStep, AcceptTransient, Accept, clock, TimeInv, Running
<1>8. CASE RejectTransient
  <2>1. pc' = "loop" /\ currentTime' + Precision < endTime'
    BY <1>1, <1>8, RejectedTime DEF RejectTransient
  <2> QED BY <2>1 DEF TimeInv
<1>9. CASE FinishLoadStep
  BY <1>9 DEF FinishLoadStep, hasNextTimeStep, TimeInv, Running, clock
<1>10. CASE UNCHANGED vars
  BY <1>10 DEF vars, clock, TimeInv, Running
<1> QED BY <1>2, <1>3, <1>5, <1>6, <1>7, <1>8, <1>9, <1>10 DEF Next, Done

\* A new load step: no time step is accepted and none is rejected.
LEMMA StartTransient ==
    ASSUME IInv, StartLoadStep PROVE TransientInv'
<1> DEFINE l == LoadStep
<1>1. Types /\ WellConfigured(l)
  BY RunningFacts DEF IInv, StartLoadStep
<1>2. PICK e \in Rounding : endTime' = currentTime + l.duration + e
  BY DEF StartLoadStep
<1>3. /\ accepted' = [number |-> 0, time |-> currentTime]
      /\ nTimeStep' = l.timeStep /\ lastU' = currentTime
      /\ pc' \in {"loop", "error"} /\ currentTime' = currentTime
      /\ loadSteps' = loadSteps /\ step' = step
  BY DEF StartLoadStep, config
<1>4. LoadStep' = l
  BY <1>3 DEF LoadStep
<1>5. SUFFICES ASSUME l.kind = "TRANSIENT" PROVE AtLoop'
  BY <1>3, <1>4 DEF TransientInv
<1>6. /\ l.duration \in Nat /\ l.timeStep \in Nat /\ l.auto \in BOOLEAN
      /\ Shortest(l) \in Nat \ {0} /\ Shortest(l) <= l.timeStep
  BY <1>1, <1>5, TransientFacts
<1>7. e \in Int /\ e <= MaxError /\ MaxError \in Nat /\ 0 * MaxError = 0
      /\ 0 * Shortest(l) = 0
  BY <1>6, RoundingAssumption
<1>8. Proposed'
  <2>1. l.auto => l.timeStep <= Max(l.timeStep, l.maxTimeStep)
    <3>1. l.auto => l.maxTimeStep \in Nat
      BY <1>1, <1>5, AutomaticFacts
    <3> QED BY <1>6, <3>1 DEF Max
  <2>2. 0 <= 2 * (lastU' + l.duration + MaxError - endTime')
    <3>1. currentTime \in Int
      BY <1>1 DEF Types
    <3>2. lastU' = currentTime
      BY <1>3
    <3> HIDE DEF l
    <3> QED BY <1>2, <1>6, <1>7, <3>1, <3>2
  <2>3. l.auto => Max(l.timeStep, l.maxTimeStep) \in Int
    BY <1>1, <1>5, <1>6, AutomaticFacts DEF Max
  <2> QED BY <1>3, <1>4, <1>6, <1>7, <2>1, <2>2, <2>3 DEF Proposed
<1>9. Attempts(0)'
  <2> SUFFICES ASSUME l.auto PROVE Attempts(0)'
    BY <1>4 DEF Attempts
  <2>1. /\ l.minTimeStep \in Nat \ {0} /\ l.maxTimeStep \in Nat
        /\ Longest(l) \in Nat
        /\ Longest(l) = Max(l.timeStep, l.maxTimeStep)
                         + 2 * (TimeSteps(l) * MaxError)
        /\ TimeSteps(l) * MaxError \in Nat
    BY <1>1, <1>5, AutomaticFacts, TransientFacts
  <2>2. l.timeStep <= Longest(l) /\ 0 * l.minTimeStep = 0
    BY <1>6, <2>1 DEF Max
  <2> QED BY <1>3, <1>4, <1>6, <2>1, <2>2 DEF Attempts
<1>10. Near(currentTime, 2 * (0 * MaxError))'
  BY <1>1, <1>3, <1>7 DEF Near, Types
<1> QED BY <1>8, <1>9, <1>10 DEF AtLoop

\* The solver's time advances by the proposed time step.
LEMMA RunTransient ==
    ASSUME IInv, TimeInv, TransientInv, RunTransientTimeStep PROVE TransientInv'
<1> DEFINE l == LoadStep
           RE == Rejections(l) * MaxError
<1>1. Types /\ pc = "loop" /\ l.kind = "TRANSIENT" /\ currentTime # endTime
  BY PrecisionAssumption DEF IInv, RunTransientTimeStep, hasNextTimeStep, Types
<1>2. /\ WellConfigured(l) /\ lastU = accepted.time
      /\ currentTime + Precision < endTime /\ AtLoop
      /\ Near(currentTime, 2 * RE)
      /\ 2 * nTimeStep > Shortest(l) + 4 * RE + 6 * MaxError
  BY <1>1, LoopFacts, RunningFacts DEF TransientInv, Running, Types
<1>3. /\ RE \in Nat /\ Shortest(l) \in Nat /\ MaxError \in Nat
      /\ Precision > 2 * RE + MaxError
  BY <1>1, <1>2, TransientFacts, RoundingAssumption
<1>4. PICK e \in Rounding : Advance(Clamp(currentTime + nTimeStep + e))
  BY DEF RunTransientTimeStep
<1>5. PICK f \in Rounding : timeStep' = currentTime' - currentTime + f
  BY <1>4 DEF Advance
<1>6. /\ currentTime' = Clamp(currentTime + nTimeStep + e) /\ pc' = "solve"
      /\ UNCHANGED <<endTime, nTimeStep, lastU, accepted, loadSteps, step>>
  BY <1>4 DEF Advance, config, history
<1>7. /\ e \in Int /\ -MaxError <= e /\ e <= MaxError
      /\ f \in Int /\ -MaxError <= f /\ f <= MaxError
  BY RoundingAssumption
<1>8. /\ LoadStep' = l /\ currentTime' \in Int
      /\ currentTime' - timeStep' = currentTime - f
      /\ currentTime' # endTime => currentTime' = currentTime + nTimeStep + e
  BY <1>1, <1>5, <1>6, <1>7 DEF LoadStep, Clamp, Types
<1>9. lastU' = accepted'.time
  BY <1>2, <1>6
<1> HIDE DEF RE
<1>10. lastU' < currentTime'
  <2>1. lastU - currentTime <= 2 * RE /\ currentTime - lastU <= 2 * RE
    BY <1>2 DEF Near
  <2>2. CASE currentTime' = endTime
    BY <1>1, <1>2, <1>3, <1>6, <2>1, <2>2, PrecisionAssumption DEF Types
  <2>3. CASE currentTime' # endTime
    <3>1. currentTime' = currentTime + nTimeStep + e
      BY <1>8, <2>3
    <3>2. currentTime \in Int /\ lastU \in Int /\ nTimeStep \in Int
      BY <1>1 DEF Types
    <3>3. nTimeStep > 2 * RE + MaxError
      BY <1>2, <1>3, <3>2
    <3>4. lastU < currentTime + nTimeStep + e
      BY <1>3, <1>7, <2>1, <3>2, <3>3
    <3> QED BY <1>6, <3>1, <3>4
  <2> QED BY <2>2, <2>3
<1>11. Near(currentTime - timeStep, 2 * RE + MaxError)'
  <2>1. Near(currentTime, 2 * RE)
    BY <1>2
  <2>2. /\ (currentTime' - timeStep') - lastU' <= 2 * RE + MaxError
        /\ lastU' - (currentTime' - timeStep') <= 2 * RE + MaxError
    BY <1>1, <1>3, <1>6, <1>7, <1>8, <2>1 DEF Near, Types
  <2> QED BY <1>8, <2>2 DEF Near, RE
<1>12. ASSUME currentTime' # endTime PROVE InAttempt'
  <2>1. Proposed'
    BY <1>2, <1>6, <1>8 DEF AtLoop, Proposed
  <2>2. PICK r \in Nat : Attempts(r) /\ Near(currentTime, 2 * (r * MaxError))
    BY <1>2 DEF AtLoop
  <2>3. Attempts(r)'
    BY <1>6, <1>8, <2>2 DEF Attempts
  <2>4. r * MaxError \in Nat
    BY <1>3
  <2>5. Near(currentTime - timeStep, 2 * (r * MaxError) + MaxError)'
    BY <1>1, <1>3, <1>6, <1>7, <1>8, <2>2, <2>4 DEF Near, Types
  <2>6. /\ timeStep' - nTimeStep' <= 2 * MaxError
        /\ nTimeStep' - timeStep' <= 2 * MaxError
    <3>1. currentTime \in Int /\ nTimeStep \in Int
      BY <1>1 DEF Types
    <3>2. timeStep' = nTimeStep + e + f
      BY <1>5, <1>7, <1>8, <1>12, <3>1
    <3> QED BY <1>3, <1>6, <1>7, <3>1, <3>2
  <2> QED BY <2>1, <2>3, <2>5, <2>6 DEF InAttempt
<1> QED BY <1>6, <1>8, <1>9, <1>10, <1>11, <1>12 DEF TransientInv, RE

\* An accepted time step: at least half of the shortest one, and the next one is
\* at most two errors shorter than the last, or at least minTimeStep.
LEMMA AcceptedTransient ==
    ASSUME IInv, TimeInv, TransientInv, AcceptTransient PROVE TransientInv'
<1> DEFINE l == LoadStep
           k == accepted.number
           S == Shortest(l)
<1>1. Types /\ pc = "solve" /\ l.kind = "TRANSIENT"
  BY DEF IInv, AcceptTransient
<1>2. /\ accepted' = [number |-> k + 1, time |-> currentTime]
      /\ pc' = "loop" /\ lastU' = currentTime
      /\ UNCHANGED <<currentTime, timeStep, endTime, loadSteps, step>>
      /\ nTimeStep' \in Proposals /\ timeStep - Precision < nTimeStep'
  BY DEF AcceptTransient, Accept, clock, config
<1>3. LoadStep' = l
  BY <1>2 DEF LoadStep
<1>4. SUFFICES ASSUME currentTime # endTime PROVE AtLoop'
  BY <1>2, <1>3 DEF TransientInv
<1>5. /\ WellConfigured(l) /\ InAttempt /\ currentTime + Precision < endTime
      /\ k * S \in Nat /\ k * MaxError \in Nat /\ timeStep > MaxError
      /\ 2 * (currentTime - lastU) >= S
  BY <1>1, <1>4, AttemptFacts
<1>6. /\ l.duration \in Nat /\ l.timeStep \in Nat /\ l.auto \in BOOLEAN
      /\ S \in Nat \ {0} /\ S <= l.timeStep
      /\ TimeSteps(l) * MaxError \in Nat
  BY <1>1, <1>5, TransientFacts
<1>7. /\ k \in Nat /\ currentTime \in Int /\ lastU \in Int /\ endTime \in Int
      /\ timeStep \in Int /\ nTimeStep \in Int /\ nTimeStep' \in Int
      /\ MaxError \in Nat /\ Precision \in Nat
  BY <1>1, <1>2, ProposalFacts, RoundingAssumption, PrecisionAssumption
     DEF Types, Running
<1>8. /\ (k + 1) * S = k * S + S
      /\ (k + 1) * MaxError = k * MaxError + MaxError
      /\ 0 * MaxError = 0
  BY <1>6, <1>7
<1>9. /\ k * S <= 2 * (lastU + l.duration + MaxError - endTime)
      /\ S - 2 * (k * MaxError) <= nTimeStep
      /\ nTimeStep - timeStep <= 2 * MaxError
      /\ timeStep - nTimeStep <= 2 * MaxError
  BY <1>5 DEF InAttempt, Proposed
<1>10. l.auto => /\ l.minTimeStep \in Nat \ {0} /\ l.maxTimeStep \in Nat
                 /\ l.minTimeStep <= l.maxTimeStep /\ l.factor \in Nat \ {0}
                 /\ S <= l.minTimeStep
                 /\ Longest(l) \in Nat
                 /\ Longest(l) = Max(l.timeStep, l.maxTimeStep)
                                  + 2 * (TimeSteps(l) * MaxError)
  BY <1>1, <1>5, AutomaticFacts
<1>11. (k + 1) * S <= 2 * (currentTime + l.duration + MaxError - endTime)
  <2> HIDE DEF l, k, S
  <2>1. 2 * (lastU + l.duration + MaxError - endTime) + S
          <= 2 * (currentTime + l.duration + MaxError - endTime)
    BY <1>5, <1>6, <1>7
  <2> QED BY <1>5, <1>6, <1>7, <1>8, <1>9, <2>1
\* Each proposal is near the last time step, or within the limits.
<1>12. /\ S - 2 * (k * MaxError + MaxError) <= nTimeStep'
       /\ l.auto => nTimeStep' <= Max(l.timeStep, l.maxTimeStep)
                                   + 2 * (k * MaxError + MaxError)
  <2>1. l.auto => nTimeStep <= Max(l.timeStep, l.maxTimeStep) + 2 * (k * MaxError)
    BY <1>5 DEF InAttempt, Proposed
  <2>2. l.auto => /\ Max(l.timeStep, l.maxTimeStep) \in Nat
                  /\ l.maxTimeStep <= Max(l.timeStep, l.maxTimeStep)
    BY <1>6, <1>10 DEF Max
  <2>3. CASE nTimeStep' = timeStep
    <3> HIDE DEF l, k, S
    <3> QED BY <1>5, <1>6, <1>7, <1>9, <2>1, <2>2, <2>3
  <2>4. CASE nTimeStep' # timeStep
    <3>1. /\ l.auto
          /\ \/ nTimeStep' = Min(l.maxTimeStep, l.factor * timeStep)
             \/ nTimeStep' = Max(l.minTimeStep, timeStep \div l.factor)
      BY <1>2, <2>4 DEF Proposals
    <3>2. timeStep \in Nat
      BY <1>5, <1>7
    <3>3. \A f \in Nat \ {0}, x \in Nat : f * x \in Nat /\ x <= f * x
      OBVIOUS
    <3>4. /\ timeStep <= l.factor * timeStep /\ l.factor * timeStep \in Nat
          /\ timeStep \div l.factor \in Nat
          /\ l.factor * (timeStep \div l.factor) <= timeStep
      BY <1>10, <3>1, <3>2, <3>3, Quotient
    <3>5. timeStep \div l.factor <= l.factor * (timeStep \div l.factor)
          /\ l.factor * (timeStep \div l.factor) \in Nat
      BY <1>10, <3>1, <3>3, <3>4
    <3>6. CASE nTimeStep' = Min(l.maxTimeStep, l.factor * timeStep)
      <4>1. /\ nTimeStep' <= l.maxTimeStep
            /\ nTimeStep' = l.maxTimeStep \/ timeStep <= nTimeStep'
        BY <1>10, <3>1, <3>2, <3>4, <3>6 DEF Min
      <4> HIDE DEF l, k, S
      <4> QED BY <1>5, <1>6, <1>7, <1>9, <1>10, <2>2, <3>1, <4>1
    <3>7. CASE nTimeStep' = Max(l.minTimeStep, timeStep \div l.factor)
      <4>1. /\ l.minTimeStep <= nTimeStep'
            /\ nTimeStep' <= l.maxTimeStep \/ nTimeStep' <= timeStep
        BY <1>10, <3>1, <3>2, <3>4, <3>5, <3>7 DEF Max
      <4> HIDE DEF l, k, S
      <4> QED BY <1>5, <1>6, <1>7, <1>9, <1>10, <2>1, <2>2, <3>1, <4>1
    <3> QED BY <3>1, <3>6, <3>7
  <2> QED BY <2>3, <2>4
<1>13. Proposed'
  BY <1>2, <1>3, <1>8, <1>11, <1>12 DEF Proposed
<1>14. Attempts(0)'
  <2> SUFFICES ASSUME l.auto PROVE Attempts(0)'
    BY <1>3 DEF Attempts
  <2>1. (k + 1) * S <= 2 * l.duration
    <3>1. MaxError <= Precision
      <4>1. /\ Rejections(l) * MaxError \in Nat
            /\ Precision > 2 * (Rejections(l) * MaxError) + MaxError
        BY <1>1, <1>5, TransientFacts
      <4> QED BY <1>7, <4>1
    <3> HIDE DEF l, k, S
    <3> QED BY <1>5, <1>6, <1>7, <1>11, <3>1
  <2>2. (k + 1) * MaxError <= TimeSteps(l) * MaxError
    BY <1>1, <1>5, <1>7, <2>1, AcceptedBound
  <2>3. nTimeStep' <= Longest(l)
    <3>1. Max(l.timeStep, l.maxTimeStep) \in Nat
      BY <1>6, <1>10 DEF Max
    <3> HIDE DEF l, k, S
    <3> QED BY <1>5, <1>6, <1>7, <1>8, <1>10, <1>12, <2>2, <3>1
  <2>4. 0 * l.minTimeStep = 0
    BY <1>10
  <2> QED BY <1>3, <1>7, <1>10, <2>3, <2>4 DEF Attempts
<1>15. Near(currentTime, 2 * (0 * MaxError))'
  BY <1>2, <1>7, <1>8 DEF Near
<1> QED BY <1>13, <1>14, <1>15 DEF AtLoop

\* A rejection, where rm and r1m are the multiples r and r + 1 of min: what
\* Attempts adds for it is what the time step n1 is shorter than n.
LEMMA RejectionArithmetic ==
    ASSUME NEW n \in Int, NEW n1 \in Int, NEW dt \in Int,
           NEW min \in Nat \ {0}, NEW max \in Nat, NEW L \in Nat,
           NEW E \in Nat, NEW P \in Nat, NEW rm \in Nat, NEW r1m \in Nat,
           min <= max, P > 5 * E, dt - n <= 2 * E,
           n1 <= dt - P, min <= n1, n1 = min \/ n1 = max \/ 2 * n1 <= dt,
           r1m = rm + min,
           rm + 2 * n + (IF n > min THEN min ELSE 0) + (IF n > max THEN min ELSE 0)
             <= 2 * L + 2 * min
    PROVE  /\ n1 < n
           /\ r1m + 2 * n1 + (IF n1 > min THEN min ELSE 0)
                + (IF n1 > max THEN min ELSE 0)
              <= 2 * L + 2 * min
<1>1. n1 + 3 * E < n
  OBVIOUS
<1>2. CASE n1 = min
  BY <1>1, <1>2
<1>3. CASE n1 = max
  BY <1>1, <1>3
<1>4. CASE 2 * n1 <= dt
  <2>1. 2 * n1 + min <= 2 * n
    BY <1>1, <1>4
  <2> QED BY <1>1, <2>1
<1> QED BY <1>1, <1>2, <1>3, <1>4

\* A rejected attempt: the time goes back, two more errors off, and the next time
\* step is shorter.
LEMMA RejectedTransient ==
    ASSUME IInv, TimeInv, TransientInv, RejectTransient PROVE TransientInv'
<1> DEFINE l == LoadStep
           k == accepted.number
           min == l.minTimeStep
           max == l.maxTimeStep
<1>1. Types
  BY DEF IInv
<1>2. /\ pc = "solve" /\ l.kind = "TRANSIENT" /\ l.auto /\ currentTime # endTime
      /\ nTimeStep' \in Int /\ nTimeStep' <= timeStep - Precision
      /\ min <= nTimeStep'
      /\ nTimeStep' = min \/ nTimeStep' = max \/ 2 * nTimeStep' <= timeStep
  BY <1>1, RejectedFacts
<1>3. PICK e \in Rounding : currentTime' = currentTime - timeStep + e
  BY DEF RejectTransient
<1>4. /\ pc' = "loop"
      /\ UNCHANGED <<timeStep, endTime, lastU, accepted, loadSteps, step>>
  BY DEF RejectTransient, config, history
<1>5. LoadStep' = l
  BY <1>4 DEF LoadStep
<1>6. WellConfigured(l) /\ InAttempt /\ k * MaxError \in Nat /\ lastU = accepted.time
  BY <1>1, <1>2, AttemptFacts DEF TransientInv, Running
<1>7. /\ min \in Nat \ {0} /\ max \in Nat /\ min <= max /\ Shortest(l) <= min
      /\ Longest(l) \in Nat /\ Precision > 5 * MaxError /\ Shortest(l) \in Nat
  BY <1>2, <1>6, AutomaticFacts, TransientFacts
<1>8. /\ timeStep - nTimeStep <= 2 * MaxError
      /\ timeStep \in Int /\ nTimeStep \in Int /\ currentTime \in Int /\ lastU \in Int
      /\ MaxError \in Nat /\ Precision \in Nat
      /\ e \in Int /\ -MaxError <= e /\ e <= MaxError
  BY <1>1, <1>6, RoundingAssumption, PrecisionAssumption DEF InAttempt, Types
<1>9. PICK r \in Nat : /\ Attempts(r)
                       /\ Near(currentTime - timeStep, 2 * (r * MaxError) + MaxError)
  BY <1>6 DEF InAttempt
<1>10. /\ (r + 1) * min = r * min + min /\ r * min \in Nat /\ (r + 1) * min \in Nat
       /\ (r + 1) * MaxError = r * MaxError + MaxError /\ r * MaxError \in Nat
  BY <1>7, <1>8
<1>11. r * min + 2 * nTimeStep
         + (IF nTimeStep > min THEN min ELSE 0)
         + (IF nTimeStep > max THEN min ELSE 0)
       <= 2 * Longest(l) + 2 * min
  BY <1>2, <1>9 DEF Attempts
<1>12. /\ nTimeStep' < nTimeStep
       /\ (r + 1) * min + 2 * nTimeStep'
            + (IF nTimeStep' > min THEN min ELSE 0)
            + (IF nTimeStep' > max THEN min ELSE 0)
          <= 2 * Longest(l) + 2 * min
  <2> DEFINE n1 == nTimeStep'
             L == Longest(l)
             rm == r * min
             r1m == (r + 1) * min
  <2>1. /\ n1 \in Int /\ nTimeStep \in Int /\ timeStep \in Int
        /\ min \in Nat \ {0} /\ max \in Nat /\ L \in Nat /\ rm \in Nat /\ r1m \in Nat
        /\ MaxError \in Nat /\ Precision \in Nat /\ min <= max
    BY <1>2, <1>7, <1>8, <1>10
  <2>2. /\ Precision > 5 * MaxError /\ timeStep - nTimeStep <= 2 * MaxError
        /\ n1 <= timeStep - Precision /\ min <= n1
        /\ n1 = min \/ n1 = max \/ 2 * n1 <= timeStep
        /\ r1m = rm + min
    BY <1>2, <1>7, <1>8, <1>10
  <2>3. rm + 2 * nTimeStep + (IF nTimeStep > min THEN min ELSE 0)
          + (IF nTimeStep > max THEN min ELSE 0) <= 2 * L + 2 * min
    BY <1>11
  <2> HIDE DEF l, min, max, n1, L, rm, r1m
  <2>4. /\ n1 < nTimeStep
        /\ r1m + 2 * n1 + (IF n1 > min THEN min ELSE 0)
             + (IF n1 > max THEN min ELSE 0)
           <= 2 * L + 2 * min
    BY ONLY <2>1, <2>2, <2>3, RejectionArithmetic
  <2> QED BY <2>4 DEF n1, L, rm, r1m
<1>13. Proposed'
  <2>1. /\ k * Shortest(l) <= 2 * (lastU + l.duration + MaxError - endTime)
        /\ nTimeStep <= Max(l.timeStep, l.maxTimeStep) + 2 * (k * MaxError)
    BY <1>2, <1>6 DEF InAttempt, Proposed
  <2>2. Max(l.timeStep, l.maxTimeStep) \in Int
    BY <1>2, <1>6, <1>7, TransientFacts DEF Max
  <2>3. Shortest(l) - 2 * (k * MaxError) <= nTimeStep'
    BY <1>2, <1>6, <1>7
  <2>4. nTimeStep' <= Max(l.timeStep, l.maxTimeStep) + 2 * (k * MaxError)
    <3>1. \A a, b, c \in Int : a < b /\ b <= c => a <= c
      OBVIOUS
    <3>2. Max(l.timeStep, l.maxTimeStep) + 2 * (k * MaxError) \in Int
      BY <1>6, <2>2
    <3> QED BY <1>2, <1>8, <1>12, <2>1, <3>1, <3>2
  <2> QED BY <1>4, <1>5, <2>1, <2>3, <2>4 DEF Proposed
<1>14. Attempts(r + 1)'
  <2>1. r + 1 = 0 \/ min <= nTimeStep'
    BY <1>2
  <2> QED BY <1>2, <1>5, <1>12, <2>1 DEF Attempts
<1>15. Near(currentTime, 2 * ((r + 1) * MaxError))'
  BY <1>3, <1>4, <1>8, <1>9, <1>10 DEF Near
<1>16. AtLoop'
  <2>1. r + 1 \in Nat
    OBVIOUS
  <2> QED BY <1>13, <1>14, <1>15, <2>1 DEF AtLoop
<1> QED BY <1>4, <1>5, <1>6, <1>16 DEF TransientInv

\* Every step of a transient load step keeps its invariant.
LEMMA NextTransient ==
    IInv /\ TimeInv /\ TransientInv /\ [Next]_vars => TransientInv'
<1> SUFFICES ASSUME IInv, TimeInv, TransientInv, [Next]_vars PROVE TransientInv'
  OBVIOUS
<1>1. CASE RunSteadyState \/ RunPseudoTimeStep
  <2>1. LoadStep.kind # "TRANSIENT" /\ UNCHANGED <<loadSteps, step>>
    BY <1>1 DEF RunSteadyState, RunPseudoTimeStep, Advance, config
  <2> QED BY <2>1 DEF TransientInv, LoadStep
<1>2. CASE ProcessTimeStep
  <2>1. LoadStep.kind # "TRANSIENT" /\ UNCHANGED <<loadSteps, step>>
    BY <1>2 DEF ProcessTimeStep, config
  <2> QED BY <2>1 DEF TransientInv, LoadStep
<1>3. CASE FinishLoadStep
  BY <1>3 DEF FinishLoadStep, TransientInv, Running
<1>4. CASE UNCHANGED vars
  <2>1. UNCHANGED <<pc, loadSteps, step, currentTime, timeStep, endTime, nTimeStep,
                    lastU, accepted>>
    BY <1>4 DEF vars, config, clock, history
  <2>2. LoadStep' = LoadStep /\ Running' = Running
    BY <2>1 DEF LoadStep, Running
  <2>3. Proposed' = Proposed
    BY <2>1, <2>2 DEF Proposed
  <2>4. \A r : Attempts(r)' = Attempts(r)
    BY <2>1, <2>2 DEF Attempts
  <2>5. \A x : Near(currentTime, x)' = Near(currentTime, x)
               /\ Near(currentTime - timeStep, x)' = Near(currentTime - timeStep, x)
    BY <2>1 DEF Near
  <2>6. AtLoop' = AtLoop
    BY <2>1, <2>3, <2>4, <2>5 DEF AtLoop
  <2>7. InAttempt' = InAttempt
    BY <2>1, <2>3, <2>4, <2>5 DEF InAttempt
  <2>8. Near(currentTime - timeStep,
             2 * (Rejections(LoadStep) * MaxError) + MaxError)'
          = Near(currentTime - timeStep,
                 2 * (Rejections(LoadStep) * MaxError) + MaxError)
    BY <2>1, <2>2 DEF Near
  <2> QED BY <2>1, <2>2, <2>6, <2>7, <2>8 DEF TransientInv
<1> QED BY <1>1, <1>2, <1>3, <1>4, StartTransient, RunTransient, AcceptedTransient,
           RejectedTransient DEF Next, Done

-----------------------------------------------------------------------------
(* The order of the results                                                *)

LEMMA InitTransient == Init => TransientInv /\ StoredInv
BY DEF Init, TransientInv, StoredInv, Running

\* An attempt ends later than the last accepted time step.
LEMMA AdvanceStored ==
    ASSUME IInv, StoredInv, pc = "loop", pc' = "solve",
           accepted.time < currentTime',
           UNCHANGED history
    PROVE  StoredInv'
BY DEF StoredInv, Running, history

LEMMA NextStored ==
    IInv /\ TimeInv /\ TransientInv /\ StoredInv /\ [Next]_vars => StoredInv'
<1> SUFFICES ASSUME IInv, TimeInv, TransientInv, StoredInv, [Next]_vars
             PROVE  StoredInv'
  OBVIOUS
<1>1. Types
  BY DEF IInv
<1>2. CASE StartLoadStep
  <2>1. /\ accepted' = [number |-> 0, time |-> currentTime]
        /\ pc = "factory" /\ pc' \in {"loop", "error"} /\ currentTime' = currentTime
        /\ stored' = stored
    BY <1>2 DEF StartLoadStep
  <2> QED BY <2>1 DEF StoredInv, Running
<1>3. CASE RunSteadyState
  <2>1. /\ pc = "loop" /\ pc' = "solve" /\ UNCHANGED history
        /\ LoadStep.kind = "STEADY_STATE" /\ currentTime' = endTime
        /\ hasNextTimeStep
    BY <1>3 DEF RunSteadyState
  <2>2. accepted.time = currentTime /\ currentTime < endTime
    BY <1>1, <2>1, PrecisionAssumption DEF StoredInv, hasNextTimeStep, Types
  <2> QED BY <2>1, <2>2, AdvanceStored
<1>4. CASE RunPseudoTimeStep
  <2> DEFINE length == LoadStep.duration \div LoadStep.substeps
  <2>1. /\ pc = "loop" /\ hasNextTimeStep /\ LoadStep.kind = "PSEUDO"
        /\ WellConfigured(LoadStep)
    BY <1>1, <1>4, RunningFacts DEF RunPseudoTimeStep, Types, Running
  <2>2. PICK e \in Rounding : Advance(Clamp(currentTime + length + e))
    BY <1>4 DEF RunPseudoTimeStep
  <2>3. length \in Nat /\ length > MaxError
    <3> DEFINE nE == LoadStep.substeps * MaxError
    <3>1. length \in Nat /\ nE \in Nat /\ length > Precision + nE + MaxError
      BY <2>1, PseudoFacts
    <3> HIDE DEF length, nE
    <3> QED BY <3>1, PrecisionAssumption, RoundingAssumption
  <2>4. /\ pc' = "solve" /\ UNCHANGED history
        /\ currentTime' = Clamp(currentTime + length + e)
    BY <2>2 DEF Advance
  <2>5. accepted.time = currentTime /\ currentTime < endTime
    BY <1>1, <2>1, PrecisionAssumption DEF StoredInv, hasNextTimeStep, Types
  <2>6. currentTime < Clamp(currentTime + length + e)
    <3> HIDE DEF length
    <3> QED BY <1>1, <2>3, <2>5, RoundingAssumption, PrecisionAssumption
            DEF Clamp, Types
  <2> QED BY <2>1, <2>4, <2>5, <2>6, AdvanceStored
<1>5. CASE RunTransientTimeStep
  <2>1. /\ pc = "loop" /\ pc' = "solve" /\ UNCHANGED <<history, loadSteps, step>>
        /\ LoadStep.kind = "TRANSIENT"
    BY <1>5 DEF RunTransientTimeStep, Advance, config
  <2>2. lastU' = accepted'.time /\ lastU' < currentTime'
    BY <1>5, <2>1, RunTransient DEF TransientInv, LoadStep, Running
  <2>3. accepted.time < currentTime'
    BY <2>1, <2>2 DEF history
  <2> QED BY <2>1, <2>3, AdvanceStored
<1>6. CASE ProcessTimeStep \/ AcceptTransient
  <2>1. /\ pc = "solve" /\ pc' = "loop" /\ currentTime' = currentTime
        /\ accepted' = [number |-> accepted.number + 1, time |-> currentTime]
        /\ \/ stored' = [number |-> stored.number + 1,
                         last |-> <<step, substep>>, time |-> currentTime]
           \/ stored' = stored
    BY <1>6 DEF ProcessTimeStep, AcceptTransient, Accept, clock
  <2>2. accepted.time < currentTime
        /\ (stored.number = 0 \/ stored.time <= accepted.time)
    BY <2>1 DEF StoredInv, Running
  <2>3. stored'.number \in Nat /\ stored'.time \in Int
        /\ (stored'.number = 0 \/ stored'.time <= currentTime)
    BY <1>1, <2>1, <2>2 DEF StoredInv, Types
  <2> QED BY <2>1, <2>3 DEF StoredInv, Running
<1>7. CASE RejectTransient
  <2>1. /\ pc = "solve" /\ pc' = "loop" /\ LoadStep.kind = "TRANSIENT"
        /\ UNCHANGED <<history, loadSteps, step>>
    BY <1>7 DEF RejectTransient, config
  <2>2. currentTime' + Precision < endTime'
    BY <1>1, <1>7, RejectedTime
  <2> QED BY <2>1, <2>2 DEF StoredInv, Running, LoadStep, history
<1>8. CASE FinishLoadStep
  <2>1. /\ pc = "loop" /\ pc' = "factory" /\ ~hasNextTimeStep
        /\ UNCHANGED <<currentTime, history>>
    BY <1>8 DEF FinishLoadStep, clock
  <2>2. currentTime = accepted.time
    BY <2>1 DEF StoredInv, hasNextTimeStep
  <2> QED BY <2>1, <2>2 DEF StoredInv, Running, history
<1>9. CASE UNCHANGED vars
  BY <1>9 DEF vars, config, clock, history, StoredInv, Running, LoadStep
<1> QED BY <1>2, <1>3, <1>4, <1>5, <1>6, <1>7, <1>8, <1>9 DEF Next, Done

\* What a step does to the accepted and stored time steps.
LEMMA NextInOrder ==
    IInv /\ StoredInv /\ [Next]_vars => [StepInOrder]_vars
<1> SUFFICES ASSUME IInv, StoredInv, [Next]_vars PROVE StepInOrder \/ UNCHANGED vars
  OBVIOUS
<1>1. Types /\ SubstepsConsecutive
  BY DEF IInv
<1>2. CASE StartLoadStep
  <2>1. accepted' = [number |-> 0, time |-> currentTime] /\ stored' = stored
    BY <1>2 DEF StartLoadStep
  <2>2. accepted'.number # accepted.number + 1
    BY <1>1, <2>1 DEF Types
  <2> QED BY <2>1, <2>2 DEF StepInOrder
<1>3. CASE ProcessTimeStep \/ AcceptTransient
  <2>1. /\ pc = "solve"
        /\ accepted' = [number |-> accepted.number + 1, time |-> currentTime]
        /\ \/ stored' = [number |-> stored.number + 1,
                         last |-> <<step, substep>>, time |-> currentTime]
           \/ stored' = stored
    BY <1>3 DEF ProcessTimeStep, AcceptTransient, Accept
  <2>2. /\ substep = accepted.number /\ accepted.time < currentTime
        /\ stored.number = 0 \/ stored.time <= accepted.time
    BY <1>1, <2>1 DEF StoredInv, Running, SubstepsConsecutive
  <2>3. stored.number = 0 \/ stored.time < currentTime
    BY <1>1, <2>2 DEF StoredInv, Types
  <2> QED BY <2>1, <2>2, <2>3 DEF StepInOrder
<1>4. ASSUME UNCHANGED history PROVE StepInOrder
  BY <1>1, <1>4 DEF history, StepInOrder, Types
<1> QED BY <1>2, <1>3, <1>4
        DEF Next, Done, RunSteadyState, RunPseudoTimeStep, RunTransientTimeStep, Advance,
            RejectTransient, FinishLoadStep

-----------------------------------------------------------------------------
(* Theorems                                                                *)

\* The invariant of the load steps.
THEOREM Invariance == Spec => []IInv
<1>1. Init => IInv
  BY InitInv
<1>2. IInv /\ [Next]_vars => IInv'
  BY NextInv
<1> QED BY <1>1, <1>2, PTL DEF Spec

\* Time steps are numbered from 0 without gaps, also across rejected ones
\* (TransientFirstOrderImplicit decrements the substep that run() increments).
THEOREM SubstepsConsecutiveHolds == Spec => []SubstepsConsecutive
<1>1. IInv => SubstepsConsecutive
  BY DEF IInv
<1> QED BY <1>1, Invariance, PTL

\* A pseudo time stepping load step takes exactly its substeps, whatever the
\* additions of PseudoTimeStepping lose, as long as the precision covers it.
THEOREM WholeLoadAppliedHolds == Spec => []WholeLoadApplied
<1>1. IInv => WholeLoadApplied
  <2> SUFFICES ASSUME IInv, pc = "loop", LoadStep.kind = "PSEUDO",
                      substep # LoadStep.substeps
               PROVE  hasNextTimeStep
    BY DEF WholeLoadApplied
  <2> USE DEF IInv
  <2> DEFINE n == LoadStep.substeps
             length == LoadStep.duration \div LoadStep.substeps
             k == substep
  <2>1. /\ k \in Nat /\ k <= n
        /\ endTime <= lastU + LoadStep.duration + MaxError
        /\ lastU + LoadStep.duration - MaxError <= endTime
        /\ NearSubstep(k)
    BY DEF PseudoInv, Running
  <2>2. /\ n \in Nat \ {0} /\ length \in Nat
        /\ LoadStep.duration \in Nat /\ n * length \in Nat
        /\ n * MaxError \in Nat
        /\ length > Precision + n * MaxError + MaxError
        /\ n * length <= LoadStep.duration
        /\ LoadStep.duration + n * MaxError + MaxError <= n * length + Precision
    BY RunningFacts, PseudoFacts DEF Types, Running
  <2>3. k + 1 <= n
    BY <2>1, <2>2
  <2>4. /\ MaxError \in Int /\ 0 <= MaxError /\ Precision \in Int /\ 0 < Precision
        /\ -MaxError <= 0 /\ 0 <= MaxError /\ 0 \in Int
        /\ currentTime \in Int /\ lastU \in Int /\ endTime \in Int
    BY PrecisionAssumption, RoundingAssumption DEF Types
  <2>5. /\ (k + 1) * length = k * length + length /\ (k + 1) * length <= n * length
        /\ (k + 1) * MaxError = k * MaxError + MaxError
        /\ (k + 1) * MaxError <= n * MaxError
        /\ k * length \in Int /\ (k + 1) * length \in Int /\ n * length \in Int
        /\ k * MaxError \in Int /\ (k + 1) * MaxError \in Int /\ n * MaxError \in Int
    BY <2>1, <2>2, <2>3, NextMultiple, RoundingAssumption
  <2>6. /\ currentTime <= lastU + k * length + k * MaxError
        /\ lastU + k * length - k * MaxError <= currentTime
    BY <2>1 DEF NearSubstep
  <2> HIDE DEF length, n, k
  <2>7. length \in Int /\ LoadStep.duration \in Int
    BY <2>2
  <2>8. currentTime + Precision < endTime
    BY ONLY <2>1, <2>2, <2>4, <2>5, <2>6, <2>7, SubstepArithmetic
  <2> QED BY <2>8 DEF hasNextTimeStep
<1> QED BY <1>1, Invariance, PTL

\* The time, the attempts of transient time steps and the stored results.
THEOREM TimeInvariance == Spec => [](TimeInv /\ TransientInv /\ StoredInv)
<1>1. Init => TimeInv /\ TransientInv /\ StoredInv
  BY InitInv, InitTransient
<1>2. IInv /\ (TimeInv /\ TransientInv /\ StoredInv) /\ [Next]_vars
        => (TimeInv /\ TransientInv /\ StoredInv)'
  BY NextTime, NextTransient, NextStored
<1> QED BY <1>1, <1>2, Invariance, PTL DEF Spec

\* No load step runs past its end time and each ends exactly there, whatever
\* automatic time stepping proposes and rejects (runNextTimeStep clamps the time).
THEOREM TimeInLoadStepHolds == Spec => []TimeInLoadStep
<1>1. IInv /\ TimeInv => TimeInLoadStep
  BY PrecisionAssumption DEF IInv, Types, TimeInv, TimeInLoadStep, Running
<1> QED BY <1>1, Invariance, TimeInvariance, PTL

\* A transient time step starts from the solution of the time it goes back to,
\* however often it was rejected: the errors of TransientFirstOrderImplicit's
\* subtractions stay below the precision.
THEOREM StartsFromLastSolutionHolds == Spec => []StartsFromLastSolution
<1>1. IInv /\ TransientInv => StartsFromLastSolution
  <2> SUFFICES ASSUME IInv, TransientInv, pc = "solve", LoadStep.kind = "TRANSIENT"
               PROVE  /\ lastU = accepted.time
                      /\ currentTime - timeStep - lastU < Precision
                      /\ lastU - (currentTime - timeStep) < Precision
    BY DEF StartsFromLastSolution
  <2> DEFINE RE == Rejections(LoadStep) * MaxError
  <2>1. lastU = accepted.time /\ Near(currentTime - timeStep, 2 * RE + MaxError)
    BY DEF TransientInv, Running
  <2>2. RE \in Nat /\ Precision > 2 * RE + MaxError
    BY RunningFacts, TransientFacts DEF IInv, Types, Running
  <2> HIDE DEF RE
  <2> QED BY <2>1, <2>2, PrecisionAssumption, RoundingAssumption
          DEF Near, IInv, Types
<1> QED BY <1>1, Invariance, TimeInvariance, PTL

\* The accepted and the stored times increase, and what is stored is the time
\* step just accepted (Assembler::storeSolution).
THEOREM StoredInOrderHolds == Spec => StoredInOrder
<1>1. IInv /\ StoredInv /\ [Next]_vars => [StepInOrder]_vars
  BY NextInOrder
<1> QED BY <1>1, Invariance, TimeInvariance, PTL DEF Spec, StoredInOrder
=============================================================================
