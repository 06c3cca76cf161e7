---------------------------- MODULE TimeStepping -----------------------------
(***************************************************************************)
(* The physics solver's time: Factory::solve runs the load steps one after *)
(* another; each is a LoadStepSolver (steady state, pseudo time stepping   *)
(* or first order implicit transient with automatic time stepping).        *)
(*                                                                         *)
(* Time is counted in integer units far smaller than any time step.  Each  *)
(* addition or subtraction of times is wrong by some element of Rounding,  *)
(* as it is for doubles; Precision is the code's 1e-8.                     *)
(***************************************************************************)
EXTENDS Integers, Sequences, FiniteSets

CONSTANTS
    Simulations,        \* the sequences of load steps that can be configured
    Frequencies,        \* the configured *_store_frequency of the results
    Nth,                \* results_nth_stepping
    Precision,          \* LoadStepSolver::_precision
    Rounding,           \* errors of one floating point addition
    MaxError            \* bound: no error is larger

ASSUME PrecisionAssumption == Precision \in Nat \ {0}
ASSUME RoundingAssumption ==
    /\ MaxError \in Nat
    /\ Rounding \subseteq -MaxError..MaxError
ASSUME NthAssumption == Nth \in Nat \ {0}

\* The shortest time step a transient load step is configured for, the number of
\* its time steps if each is at least half as long, the longest one, which may
\* grow by two errors with every time step, and how often one can be rejected: it
\* is at least halved, but for the steps down to maxTimeStep and to minTimeStep.
Min(a, b) == IF a < b THEN a ELSE b
Max(a, b) == IF a < b THEN b ELSE a
Shortest(l) == IF l.auto THEN Min(l.timeStep, l.minTimeStep) ELSE l.timeStep
TimeSteps(l) == (2 * l.duration) \div Shortest(l)
Longest(l) == Max(l.timeStep, l.maxTimeStep) + 2 * (TimeSteps(l) * MaxError)
Rejections(l) == IF l.auto THEN (2 * Longest(l)) \div l.minTimeStep ELSE 0

\* What is expected of a load step: a duration the precision can resolve; for
\* transient ones, a precision that covers the errors of the rejected attempts,
\* and time steps longer than all errors; for pseudo time stepping, substeps
\* longer than the precision and the errors that can add up, which the precision
\* in turn covers.
WellConfigured(l) ==
    /\ l.kind \in {"STEADY_STATE", "PSEUDO", "TRANSIENT"}
    /\ l.duration \in Nat /\ l.duration > Precision + MaxError
    /\ l.timeStep \in Nat
    /\ l.kind = "TRANSIENT" =>
        /\ l.auto \in BOOLEAN
        /\ l.auto => /\ l.minTimeStep \in Nat /\ l.maxTimeStep \in Nat
                     /\ l.minTimeStep <= l.maxTimeStep
                     /\ l.factor \in Nat \ {0}
        /\ Shortest(l) > 0
        /\ Precision > (2 * Rejections(l) + 1) * MaxError
        /\ Shortest(l) > 2 * (2 * TimeSteps(l) + 2 * Rejections(l) + 3) * MaxError
    /\ l.kind = "PSEUDO" =>
        LET length == l.duration \div l.substeps
            errors == (l.substeps + 1) * MaxError
        IN /\ l.substeps \in Nat \ {0}
           /\ length > Precision + errors
           /\ l.duration - l.substeps * length + errors <= Precision
ASSUME SimulationsAssumption ==
    \A s \in Simulations : /\ Len(s) \in Nat
                           /\ \A i \in 1..Len(s) : WellConfigured(s[i])

VARIABLES
    pc,             \* where the solver is
    loadSteps,      \* the configured load steps
    frequency,      \* the configured store frequency
    step,           \* Step::step, counted from 1
    substep,        \* Step::substep, counted from 0
    currentTime,    \* Step::currentTime
    timeStep,       \* Step::timeStep
    endTime,        \* _startTime + _duration of the running load step
    nTimeStep,      \* TransientFirstOrderImplicit::_nTimeStep
    alpha,          \* _alpha as <<numerator, denominator>>
    lastU,          \* time the solution kept in U belongs to
    accepted,       \* history: number and time of the accepted time steps
    stored          \* history: number and last of the stored time steps

config == <<loadSteps, frequency>>
clock == <<currentTime, timeStep, endTime>>
history == <<accepted, stored>>
vars == <<pc, config, step, substep, clock, nTimeStep, alpha, lastU, history>>

LoadStep == loadSteps[step]
Kinds == {"STEADY_STATE", "PSEUDO", "TRANSIENT"}

\* Step::finalTime is initialised to 0 and never assigned.
finalTime == 0
isLast == currentTime = finalTime

\* Visualization::storeStep, Monitoring::storeStep
StoreStep ==
    \/ frequency = "EVERY_TIMESTEP"
    \/ (frequency = "EVERY_NTH_TIMESTEP" /\ substep % Nth = 0)
    \/ (frequency = "LAST_TIMESTEP" /\ isLast)

Init ==
    /\ pc = "factory"
    /\ loadSteps \in Simulations /\ frequency \in Frequencies
    /\ step = 1 /\ substep = 0
    /\ currentTime = 0 /\ timeStep = 0 /\ endTime = 0
    /\ nTimeStep = 0 /\ alpha = <<0, 1>> /\ lastU = 0
    /\ accepted = [number |-> 0, time |-> 0]
    /\ stored = [number |-> 0, last |-> <<>>, time |-> 0]

\* The literal 2 / 3 is a division of integers.
Alpha(method, user) ==
    CASE method = "CRANK_NICOLSON" -> <<1, 2>>
      [] method = "GALERKIN" -> <<2 \div 3, 1>>
      [] method = "BACKWARD_DIFF" -> <<1, 1>>
      [] method = "USER" -> user

\* Alpha has to be from interval (0, 1>
AlphaAllowed(a) == a[1] > 0 /\ a[1] <= a[2]

\* Mutant of StartLoadStep: the substep is not reset.
StartLoadStepNoReset ==
    /\ pc = "factory" /\ step <= Len(loadSteps)
    /\ \E e \in Rounding : endTime' = currentTime + LoadStep.duration + e
    /\ accepted' = [number |-> 0, time |-> currentTime]
    /\ nTimeStep' = LoadStep.timeStep /\ lastU' = currentTime
    /\ pc' = "loop"
    /\ UNCHANGED <<config, step, substep, currentTime, timeStep, alpha, stored>>

\* LoadStepSolver::run up to the loop, with initLoadStep.
StartLoadStep ==
    /\ pc = "factory" /\ step <= Len(loadSteps)
    /\ \E e \in Rounding : endTime' = currentTime + LoadStep.duration + e
    /\ substep' = 0
    /\ accepted' = [number |-> 0, time |-> currentTime]
    /\ nTimeStep' = LoadStep.timeStep
    /\ lastU' = currentTime
    /\ alpha' = IF LoadStep.kind = "TRANSIENT"
                  THEN Alpha(LoadStep.method, LoadStep.alpha) ELSE alpha
    /\ pc' = IF LoadStep.kind = "TRANSIENT" /\ LoadStep.method = "USER"
                  /\ ~AlphaAllowed(LoadStep.alpha)
               THEN "error" ELSE "loop"
    /\ UNCHANGED <<config, step, currentTime, timeStep, stored>>

hasNextTimeStep == currentTime + Precision < endTime

\* Mutant of Clamp: the time is left where the additions put it.
ClampNot(t) == t

\* A time within Precision of the end of the load step is the end.
Clamp(t) == IF t + Precision >= endTime THEN endTime ELSE t

\* runNextTimeStep up to processTimeStep
Advance(t) ==
    /\ currentTime' = t
    /\ \E e \in Rounding : timeStep' = t - currentTime + e
    /\ pc' = "solve"
    /\ UNCHANGED <<config, step, substep, endTime, nTimeStep, alpha, lastU,
                   history>>

RunSteadyState ==
    /\ pc = "loop" /\ hasNextTimeStep /\ LoadStep.kind = "STEADY_STATE"
    /\ currentTime' = endTime       \* the same sum as _startTime + _duration
    /\ timeStep' = LoadStep.duration
    /\ pc' = "solve"
    /\ UNCHANGED <<config, step, substep, endTime, nTimeStep, alpha, lastU,
                   history>>

RunPseudoTimeStep ==
    /\ pc = "loop" /\ hasNextTimeStep /\ LoadStep.kind = "PSEUDO"
    /\ \E e \in Rounding :
         Advance(Clamp(currentTime + LoadStep.duration \div LoadStep.substeps
                       + e))

RunTransientTimeStep ==
    /\ pc = "loop" /\ hasNextTimeStep /\ LoadStep.kind = "TRANSIENT"
    /\ \E e \in Rounding : Advance(Clamp(currentTime + nTimeStep + e))

\* processSolution and storeSolution of an accepted time step; back in run(),
\* the next substep.
Accept ==
    /\ accepted' = [number |-> accepted.number + 1, time |-> currentTime]
    /\ stored' = IF StoreStep
                   THEN [number |-> stored.number + 1,
                         last |-> <<step, substep>>, time |-> currentTime]
                   ELSE stored
    /\ substep' = substep + 1
    /\ pc' = "loop"

\* SteadyStateSolver::processTimeStep, PseudoTimeStepping::processTimeStep
ProcessTimeStep ==
    /\ pc = "solve" /\ LoadStep.kind \in {"STEADY_STATE", "PSEUDO"}
    /\ Accept
    /\ UNCHANGED <<config, step, clock, nTimeStep, alpha, lastU>>

\* What automatic time stepping can propose: the solution hardly changed or
\* the response frequency is low (longer), high (shorter), or in between.
Proposals ==
    IF LoadStep.auto /\ currentTime < endTime
      THEN { timeStep,
             Min(LoadStep.maxTimeStep, LoadStep.factor * timeStep),
             Max(LoadStep.minTimeStep, timeStep \div LoadStep.factor) }
      ELSE {timeStep}

\* TransientFirstOrderImplicit::processTimeStep: the time step was not longer
\* than the proposed one.
AcceptTransient ==
    /\ pc = "solve" /\ LoadStep.kind = "TRANSIENT"
    /\ nTimeStep' \in Proposals
    /\ timeStep - Precision < nTimeStep'
    /\ lastU' = currentTime
    /\ Accept
    /\ UNCHANGED <<config, step, clock, alpha>>

\* Mutants of RejectTransient: the substep is not decreased; the time is not
\* turned back; the shorter time step is forgotten.
RejectWith(newSubstep, back) ==
    /\ pc = "solve" /\ LoadStep.kind = "TRANSIENT"
    /\ nTimeStep' \in Proposals
    /\ timeStep - Precision >= nTimeStep'
    /\ currentTime' = currentTime - back
    /\ substep' = newSubstep
    /\ pc' = "loop"
    /\ UNCHANGED <<config, step, timeStep, endTime, alpha, lastU, history>>
RejectSkipsNumber == RejectWith(substep + 1, timeStep)
RejectKeepsTime == RejectWith(substep, 0)
RejectKeepsStep ==
    /\ pc = "solve" /\ LoadStep.kind = "TRANSIENT"
    /\ \E n \in Proposals : timeStep - Precision >= n
    /\ nTimeStep' = timeStep
    /\ currentTime' = currentTime - timeStep
    /\ pc' = "loop"
    /\ UNCHANGED <<config, step, substep, timeStep, endTime, alpha, lastU,
                   history>>

\* ... or it was: go back in time; --substep is undone by run()'s substep++.
RejectTransient ==
    /\ pc = "solve" /\ LoadStep.kind = "TRANSIENT"
    /\ nTimeStep' \in Proposals
    /\ timeStep - Precision >= nTimeStep'
    /\ \E e \in Rounding : currentTime' = currentTime - timeStep + e
    /\ substep' = (substep - 1) + 1
    /\ pc' = "loop"
    /\ UNCHANGED <<config, step, timeStep, endTime, alpha, lastU, history>>

\* The loop of run() ends; Factory::solve goes on to the next load step.
FinishLoadStep ==
    /\ pc = "loop" /\ ~hasNextTimeStep
    /\ step' = step + 1
    /\ pc' = "factory"
    /\ UNCHANGED <<config, substep, clock, nTimeStep, alpha, lastU, history>>

Done == /\ pc = "error" \/ (pc = "factory" /\ step > Len(loadSteps))
        /\ UNCHANGED vars

Next ==
    \/ StartLoadStep
    \/ RunSteadyState \/ RunPseudoTimeStep \/ RunTransientTimeStep
    \/ ProcessTimeStep \/ AcceptTransient \/ RejectTransient
    \/ FinishLoadStep
    \/ Done

(* One thread of control per process: it keeps running. *)
Spec == Init /\ [][Next]_vars /\ WF_vars(Next)

-----------------------------------------------------------------------------
Finished == pc = "factory" /\ step > Len(loadSteps)

\* The time never runs past the end of the load step, and a load step ends
\* exactly there, so that rounding errors do not add up over load steps.
TimeInLoadStep ==
    /\ currentTime <= endTime \/ pc \in {"factory", "error"}
    /\ pc = "factory" /\ step > 1 => currentTime = endTime

\* Time steps are numbered from 0 without gaps: a rejected time step, whose
\* number wraps below 0 for the first one, is repeated under its number.
SubstepsConsecutive == pc \in {"loop", "solve"} => substep = accepted.number

\* The accepted times of a load step increase, and so does the stored time;
\* nothing is stored twice and nothing that is not accepted is stored.
StepInOrder ==
    /\ accepted'.number = accepted.number + 1
         => accepted'.time > accepted.time
    /\ stored' # stored =>
         /\ stored'.number = stored.number + 1
         /\ stored'.time > stored.time \/ stored.number = 0
         /\ stored'.last = <<step, accepted.number>>
         /\ stored'.time = accepted'.time
StoredInOrder == [][StepInOrder]_vars

\* A pseudo time stepping load step takes exactly the configured number of
\* substeps, so that its last one applies the whole load
\* (internalForceReduction = (substep + 1) / substeps = 1).
WholeLoadApplied ==
    pc = "loop" /\ LoadStep.kind = "PSEUDO" /\ ~hasNextTimeStep
        => substep = LoadStep.substeps

\* A transient time step starts from the solution U of the time it goes back
\* to: when a step was rejected, U is still the last accepted solution.
StartsFromLastSolution ==
    pc = "solve" /\ LoadStep.kind = "TRANSIENT" =>
        /\ lastU = accepted.time
        /\ currentTime - timeStep - lastU < Precision
        /\ lastU - (currentTime - timeStep) < Precision

\* However the proposals alternate, the simulation ends.
SimulationEnds == <>(Finished \/ pc = "error")

\* output.cpp: LAST_TIMESTEP, "Only last results are stored."
LastResultsStored ==
    Finished /\ frequency = "LAST_TIMESTEP" =>
        stored.number = 1 /\ stored.time = currentTime
=============================================================================
