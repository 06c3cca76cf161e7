----------------------------- MODULE NewtonRaphson -----------------------------
(***************************************************************************)
(* One load step of the assembler: every time step is solved by            *)
(* LinearTimeStep or by NewtonRaphson, which re-assemble parts of the      *)
(* linear system (Assembler, LoadStepSolver) and tell the linear solver    *)
(* (FETISolver) which parts they have changed.  The solver keeps copies,   *)
(* so a part that is not re-assembled, or not announced, is stale.         *)
(*                                                                         *)
(* Numbers are abstracted to their origin.  A matrix or a vector is known  *)
(* by the solution it was assembled from and by the attempt (time and time *)
(* step) it was assembled for; a solution by the linear solve that made it.*)
(***************************************************************************)
EXTENDS Integers, Sequences

CONSTANTS
    Configurations,     \* the solver settings to choose from
    Steps,              \* number of time steps of the load step
    MaxRejections       \* bound: transient attempts that are rejected

ASSUME StepsAssumption == Steps \in Nat \ {0} /\ MaxRejections \in Nat

\* "Turn on at least one convergence parameter for NONLINEAR solver."
ASSUME ConfigurationsAssumption ==
    \A c \in Configurations :
        /\ c.method \in {"LINEAR", "NEWTON_RAPHSON", "MODIFIED_NEWTON_RAPHSON"}
        /\ {c.first, c.second, c.adaptive, c.lineSearch, c.transient}
             \subseteq BOOLEAN
        /\ c.method # "LINEAR" => c.first \/ c.second
        /\ c.maxIterations \in Nat \ {0}

VARIABLES
    pc,             \* where the solver is
    conf,           \* the chosen settings
    attempt,        \* number of processTimeStep calls: names time and dt
    iteration,      \* Step::iteration
    solves,         \* number of linear solves: names the solutions
    primal,         \* Instance::primalSolution
    solution,       \* NewtonRaphson::_solution
    K, origK, M, f, R, B1c, duplicity,  \* the parts of Instance
    updated,        \* updatedMatrices
    precision,      \* configuration.precision of the linear solver
    solver,         \* copies in the linear solver (Domain, IterSolver)
    temperature,    \* temperatureResidual, with the solution it is for
    heat,           \* heatResidual, with the solution it is for
    U, V,           \* TransientFirstOrderImplicit::U, V
    stored          \* history: the solutions of the accepted time steps

instance == <<K, origK, M, f, R, B1c, duplicity>>
residuals == <<temperature, heat>>
transient == <<U, V, stored>>
vars == <<pc, conf, attempt, iteration, solves, primal, solution, instance,
          updated, precision, solver, residuals, transient>>

Newton == conf.method # "LINEAR"

\* Precision is counted in the tightenings it went through.
NaN == -1

None == [at |-> -1, attempt |-> 0]
here == [at |-> primal.id, attempt |-> attempt]

Init ==
    /\ pc = "step" /\ conf \in Configurations
    /\ attempt = 0 /\ iteration = 0 /\ solves = 0
    /\ primal = [id |-> 0, delta |-> FALSE, nan |-> FALSE]
    /\ solution = primal
    /\ K = [stiffness |-> None, mass |-> <<>>] /\ origK = None /\ M = None
    /\ f = [load |-> None, residual |-> None, inertia |-> <<>>]
    /\ R = None
    /\ B1c = [attempt |-> 0, minus |-> <<>>] /\ duplicity = None
    /\ updated = {} /\ precision = 0
    /\ solver = [K |-> K, dirichlet |-> B1c, duplicity |-> None,
                 precision |-> 0]
    /\ temperature = [at |-> -1, value |-> "above"]
    /\ heat = [at |-> -1, below |-> FALSE]
    /\ U = primal.id /\ V = <<>> /\ stored = <<>>

(***************************************************************************)
(* Assembling.                                                             *)
(***************************************************************************)

\* What a load step without or with a mass matrix has parts of.
StationaryParts == {"K", "f", "R", "B1", "B1c", "B1duplicity"}
TransientParts == {"K", "M", "f", "R", "B1"}

\* What the load step lets through of a request: updateStructuralMatrices
Masked(matrices) ==
    matrices \cap IF conf.transient THEN TransientParts ELSE StationaryParts

\* Mutant of AddsInertia: the inertia is added to f only together with K.
AddsInertiaWithK(matrices) == conf.transient /\ matrices \cap {"K", "M"} # {}

\* The right hand side gets M * ((1 / alpha dt) U + ((1 - alpha) / alpha) V).
AddsInertia(matrices) == conf.transient /\ matrices \cap {"K", "M", "f"} # {}

\* Mutant of Gluing: the Dirichlet values are kept, not evaluated again.
GluingKeepsDirichlet(matrices) ==
    /\ B1c' = IF "B1" \in matrices THEN [attempt |-> attempt, minus |-> <<>>]
                                   ELSE B1c
    /\ duplicity' = IF matrices \cap {"B1", "B1duplicity"} # {}
                      THEN K'.stiffness ELSE duplicity

\* Assembler::updateGluingMatrices; the duplicity scales by the diagonal of K.
Gluing(matrices) ==
    /\ B1c' = IF matrices \cap {"B1", "B1c"} # {}
                THEN [attempt |-> attempt, minus |-> <<>>] ELSE B1c
    /\ duplicity' = IF matrices \cap {"B1", "B1duplicity"} # {}
                      THEN K'.stiffness ELSE duplicity

\* reassembleStructuralMatrices of the load step: assemble, add the mass
\* matrix to K, glue, add the inertia to f.
Reassemble(matrices) ==
    LET addsMass == conf.transient /\ matrices \cap {"K", "M"} # {}
        fresh == IF "K" \in matrices
                   THEN [stiffness |-> here, mass |-> <<>>] ELSE K
        load == IF "f" \in matrices
                  THEN [load |-> here, residual |-> None, inertia |-> <<>>]
                  ELSE f
    IN  /\ M' = IF "M" \in matrices THEN here ELSE M
        /\ R' = IF "R" \in matrices THEN here ELSE R
        /\ K' = IF addsMass THEN [fresh EXCEPT !.mass = Append(@, M')]
                            ELSE fresh
        /\ origK' = IF addsMass THEN fresh.stiffness ELSE origK
        /\ f' = IF AddsInertia(matrices)
                  THEN [load EXCEPT !.inertia =
                          Append(@, [mass |-> M', from |-> U, steps |-> Len(V)])]
                  ELSE load
        /\ Gluing(matrices)

(***************************************************************************)
(* The linear solver.                                                      *)
(***************************************************************************)

\* FETISolver::init: a new cluster and a new iterative solver copy everything
\* and factorise K.
Initialised == [K |-> K, dirichlet |-> B1c, duplicity |-> duplicity,
                precision |-> precision]

\* FETISolver::update: a new K means a full initialisation; otherwise only the
\* announced parts are copied.
UpdateSolver ==
    /\ pc = "update"
    /\ solver' = IF updated \cap {"K", "N"} # {} THEN Initialised
                   ELSE [solver EXCEPT
                          !.dirichlet = IF updated \cap {"B1c", "f"} # {}
                                          THEN B1c ELSE @,
                          !.duplicity = IF "B1duplicity" \in updated
                                          THEN duplicity ELSE @]
    /\ pc' = "run"
    /\ UNCHANGED <<conf, attempt, iteration, solves, primal, solution, instance,
                   updated, precision, residuals, transient>>

\* FETISolver::solve; the solution is truncated to the configured precision.
LinearSolve ==
    /\ pc = "run"
    /\ solves' = solves + 1
    /\ primal' = [id |-> solves + 1, delta |-> iteration > 0,
                  nan |-> primal.nan \/ precision = NaN]
    /\ pc' = IF iteration > 0 THEN "delta" ELSE IF Newton THEN "loop" ELSE "solved"
    /\ UNCHANGED <<conf, attempt, iteration, solution, instance, updated,
                   precision, solver, residuals, transient>>

(***************************************************************************)
(* The time step solvers.                                                  *)
(***************************************************************************)

\* The call of processTimeStep and the first, linear, solve.
FirstSolve ==
    /\ pc = "step" /\ Len(stored) < Steps
    /\ attempt' = attempt + 1 /\ iteration' = 0
    /\ temperature' = [at |-> -1, value |-> "above"]
    /\ heat' = [at |-> -1, below |-> FALSE]
    /\ pc' = "assemble"
    /\ UNCHANGED <<conf, solves, primal, solution, instance, updated, precision,
                   solver, transient>>

\* What a linear time step requests.
LinearParts == {"K", "M", "f", "B1"}

AssembleFirst ==
    /\ pc = "assemble"
    /\ updated' = Masked(LinearParts)
    /\ Reassemble(updated')
    /\ pc' = "update"
    /\ UNCHANGED <<conf, attempt, iteration, solves, primal, solution, precision,
                   solver, residuals, transient>>

More == iteration < conf.maxIterations

\* The modified method keeps the tangent matrix of the first solve.
Requested ==
    IF conf.method = "NEWTON_RAPHSON" THEN {"K", "M", "f", "R"} ELSE {"f", "R"}

\* The head of the loop and the assembling of f and R.
Iterate ==
    /\ pc = "loop" /\ More
    /\ iteration' = iteration + 1
    /\ solution' = primal
    /\ updated' = Masked(Requested)
    /\ Reassemble(updated')
    /\ pc' = "residual"
    /\ UNCHANGED <<conf, attempt, solves, primal, precision, solver, residuals,
                   transient>>

\* The loop is left by its condition, which increments the iteration anyway.
Exhausted ==
    /\ pc = "loop" /\ ~More
    /\ iteration' = iteration + 1
    /\ pc' = "solved"
    /\ UNCHANGED <<conf, attempt, solves, primal, solution, instance, updated,
                   precision, solver, residuals, transient>>

\* Mutant of HeatStops: the other criterion is forgotten.
HeatStopsAlone(below) == conf.second /\ below /\ iteration > 1

HeatStops(below) ==
    /\ conf.second /\ below /\ iteration > 1
    /\ conf.first => temperature.value = "below"

\* f = f - R and the heat residual of it.
Residual ==
    /\ pc = "residual"
    /\ f' = [f EXCEPT !.residual = R]
    /\ \E below \in IF conf.second /\ ~primal.nan THEN BOOLEAN ELSE {FALSE} :
        /\ heat' = IF conf.second THEN [at |-> primal.id, below |-> below] ELSE heat
        /\ pc' = IF HeatStops(below) THEN "solved" ELSE "constraints"
    /\ UNCHANGED <<conf, attempt, iteration, solves, primal, solution, K, origK,
                   M, R, B1c, duplicity, updated, precision, solver,
                   temperature, transient>>

\* After the test: B1c, and the duplicity if there is a new K.
Constraints ==
    /\ pc = "constraints"
    /\ LET matrices == IF "K" \in updated THEN {"B1c", "B1duplicity"} ELSE {"B1c"}
       IN  Reassemble(matrices) /\ updated' = updated \cup matrices
    /\ pc' = "subtract"
    /\ UNCHANGED <<conf, attempt, iteration, solves, primal, solution, precision,
                   solver, residuals, transient>>

\* addToDirichletInB1(-1, primalSolution): the unknown is an increment.
AddToDirichlet == [B1c EXCEPT !.minus = Append(@, primal.id)]

\* The adaptive precision, min(r_tol * |dU| / |U|, c_fact * precision), never
\* loosens.  Without the first residual both norms are 0, and std::min keeps
\* its first argument if the comparison with it is false.
Subtract ==
    /\ pc = "subtract"
    /\ B1c' = AddToDirichlet
    /\ precision' = CASE ~conf.adaptive \/ iteration = 1 -> precision
                      [] conf.first -> precision + 1
                      [] OTHER -> NaN
    /\ pc' = "update"
    /\ UNCHANGED <<conf, attempt, iteration, solves, primal, solution, K, origK,
                   M, f, R, duplicity, updated, solver, residuals, transient>>

\* Mutant of Sum: the solution stays the increment.
SumNot == primal

\* "U = delta U + U"
Sum == [primal EXCEPT !.delta = FALSE, !.nan = @ \/ solution.nan]

\* Only the first criterion stops here, and it stops at the requested value.
TemperatureStops(value) == conf.first /\ ~conf.second /\ value # "above"

\* The line search leaves R assembled at its last trial solution, and damps
\* the increment.
LineSearch == [at |-> -1, attempt |-> attempt]

\* The new solution and the temperature residual of it.
AddIncrement ==
    /\ pc = "delta"
    /\ R' = IF conf.lineSearch THEN LineSearch ELSE R
    /\ primal' = Sum
    /\ \E value \in IF conf.first THEN {"below", "equal", "above"} ELSE {"above"} :
        /\ temperature' = IF conf.first THEN [at |-> primal.id, value |-> value]
                                        ELSE temperature
        /\ pc' = IF TemperatureStops(value) THEN "solved" ELSE "loop"
    /\ UNCHANGED <<conf, attempt, iteration, solves, solution, K, origK, M, f,
                   B1c, duplicity, updated, precision, solver, heat, transient>>

\* "V = (1 / alpha * delta T) * delta U - (1 - alpha) / alpha * V"; U = U_i
KeepStep == /\ V' = Append(V, <<U, primal.id>>) /\ U' = primal.id

\* Mutant of Accept: U is replaced before V gets the difference to it.
AcceptSwapped ==
    /\ pc = "solved"
    /\ U' = IF conf.transient THEN primal.id ELSE U
    /\ V' = IF conf.transient THEN Append(V, <<U', primal.id>>) ELSE V
    /\ stored' = Append(stored, primal)
    /\ pc' = "step"
    /\ UNCHANGED <<conf, attempt, iteration, solves, primal, solution, instance,
                   updated, precision, solver, residuals>>

\* The time step is accepted: V follows from the old U and the new solution.
Accept ==
    /\ pc = "solved"
    /\ IF conf.transient THEN KeepStep ELSE UNCHANGED <<U, V>>
    /\ stored' = Append(stored, primal)
    /\ pc' = "step"
    /\ UNCHANGED <<conf, attempt, iteration, solves, primal, solution, instance,
                   updated, precision, solver, residuals>>

\* The automatic time stepping repeats the attempt with a shorter step.
Reject ==
    /\ pc = "solved" /\ conf.transient
    /\ attempt - Len(stored) <= MaxRejections
    /\ pc' = "step"
    /\ UNCHANGED <<conf, attempt, iteration, solves, primal, solution, instance,
                   updated, precision, solver, residuals, transient>>

Finished == pc = "step" /\ Len(stored) = Steps /\ UNCHANGED vars

Next ==
    \/ FirstSolve \/ AssembleFirst
    \/ Iterate \/ Exhausted \/ Residual \/ Constraints \/ Subtract
    \/ UpdateSolver \/ LinearSolve
    \/ AddIncrement
    \/ Accept \/ Reject
    \/ Finished

Spec == Init /\ [][Next]_vars

(***************************************************************************)
(* Properties                                                              *)
(***************************************************************************)

Origin == [at : -1 .. solves, attempt : 0 .. attempt]

\* Types of the state; an origin never lies in the future.
TypeOK ==
    /\ conf \in Configurations
    /\ iteration \in 0 .. conf.maxIterations + 1
    /\ attempt \in Nat /\ solves \in Nat
    /\ primal \in [id : {solves}, delta : BOOLEAN, nan : BOOLEAN]
    /\ {K.stiffness, origK, M, f.load, f.residual, R, duplicity} \subseteq Origin
    /\ updated \subseteq {"K", "M", "f", "R", "B1", "B1c", "B1duplicity"}
    /\ precision \in Nat \cup {NaN}
    /\ \A i \in DOMAIN V : V[i] \in (0 .. solves) \X (0 .. solves)

\* The linear system that is solved belongs together.  The solver has
\* factorised the current K, and K is the stiffness at the current solution
\* (the modified method: of this attempt's first solve) with exactly one mass
\* matrix of the same origin.  The right hand side is of the current solution,
\* minus R of the same solution after the first solve, with the inertia of the
\* last accepted step added exactly once.
SystemIsConsistent ==
    pc = "run" =>
        LET full == iteration = 0 \/ conf.method = "NEWTON_RAPHSON" IN
        /\ solver.K = K
        /\ K.stiffness.attempt = attempt
        /\ full => K.stiffness = here
        /\ K.mass = IF conf.transient THEN <<K.stiffness>> ELSE <<>>
        /\ conf.transient => origK = K.stiffness
        /\ f.load = here
        /\ f.residual = IF iteration > 0 THEN here ELSE None
        /\ IF conf.transient
             THEN /\ Len(f.inertia) = 1
                  /\ f.inertia[1].from = U /\ f.inertia[1].steps = Len(stored)
             ELSE f.inertia = <<>>

\* The solver's copies of the constraints are those of the linear system: the
\* Dirichlet values of this attempt's time, minus the current solution if and
\* only if the unknown is an increment, and the duplicity of the matrix it has
\* factorised.
ConstraintsAreConsistent ==
    pc = "run" =>
        /\ solver.dirichlet.attempt = attempt
        /\ solver.dirichlet.minus = IF iteration > 0 THEN <<primal.id>> ELSE <<>>
        /\ solver.duplicity = solver.K.stiffness

Converged ==
    /\ conf.first => /\ temperature.at = primal.id
                     /\ temperature.value # "above"
    /\ conf.second => heat.at = primal.id /\ heat.below

\* A time step that leaves the loop before the iterations are exhausted has
\* met every criterion that is turned on, at the solution it leaves with.
StopsConverged ==
    pc = "solved" /\ Newton /\ iteration <= conf.maxIterations => Converged

\* What is stored is always a solution and never an increment of one.
StoredAreSolutions == \A i \in DOMAIN stored : ~stored[i].delta

\* The inertia of the next attempt continues the stored steps, however many
\* attempts were rejected in between: U is the last stored solution, and V has
\* the difference of each stored solution to the one before, once.
InertiaContinues ==
    conf.transient =>
        /\ Len(V) = Len(stored)
        /\ \A i \in DOMAIN V :
             V[i] = <<IF i = 1 THEN 0 ELSE stored[i - 1].id, stored[i].id>>
        /\ U = IF stored = <<>> THEN 0 ELSE stored[Len(stored)].id

(***************************************************************************)
(* What comments and messages of the program say.                          *)
(***************************************************************************)

\* "ADAPTIVE PRECISION": the linear solver works with the reported precision.
AdaptivePrecisionIsUsed == pc = "run" => solver.precision = precision
================================================================================
