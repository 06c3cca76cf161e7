-------------------------- MODULE NewtonRaphsonProofs --------------------------
(***************************************************************************)
(* The linear systems of NewtonRaphson are consistent for every setting,   *)
(* every number of iterations, time steps and rejected attempts.           *)
(***************************************************************************)
EXTENDS NewtonRaphson, TLAPS

Solutions == [id : Int, delta : BOOLEAN, nan : BOOLEAN]

\* The types the proofs need: most facts below are equalities of origins,
\* which hold whatever an origin is.
Shape ==
    /\ conf \in Configurations
    /\ iteration \in Nat /\ solves \in Nat
    /\ primal \in Solutions /\ solution \in Solutions
    /\ solver = [K |-> solver.K, dirichlet |-> solver.dirichlet,
                 duplicity |-> solver.duplicity, precision |-> solver.precision]
    /\ U \in Int /\ V \in Seq(Int \X Int) /\ stored \in Seq(Solutions)

\* Only the code between the linear solve and the sum works on an increment,
\* and only the first solve of an attempt has iteration 0.
Control ==
    /\ primal.delta <=> pc = "delta"
    /\ pc \in {"residual", "constraints", "subtract", "delta"} => iteration > 0
    /\ pc = "assemble" => iteration = 0
    /\ pc \in {"update", "run"} /\ iteration > 0 => Newton
    /\ pc \in {"loop", "residual", "constraints", "subtract", "delta"} => Newton
    /\ pc \notin {"solved", "step"} => iteration <= conf.maxIterations

\* K has exactly one mass matrix, of the origin of its stiffness.
MassOf(k) == IF conf.transient THEN <<k>> ELSE <<>>

\* From the first assembling to the end of the attempt.
Assembled ==
    /\ K = [stiffness |-> K.stiffness, mass |-> MassOf(K.stiffness)]
    /\ K.stiffness.attempt = attempt
    /\ conf.transient => origK = K.stiffness /\ M = K.stiffness

TangentIsCurrent ==
    iteration = 0 \/ conf.method = "NEWTON_RAPHSON" => K.stiffness = here

\* The right hand side that is assembled from the current solution.
Load(residual) ==
    [load |-> here, residual |-> residual,
     inertia |-> IF conf.transient
                   THEN <<[mass |-> M, from |-> U, steps |-> Len(V)]>>
                   ELSE <<>>]

Dirichlet ==
    [attempt |-> attempt,
     minus |-> IF iteration > 0 THEN <<primal.id>> ELSE <<>>]

\* The parts of the instance, by the place in the code.
Instance ==
    /\ pc \in {"update", "run", "loop", "residual", "constraints", "subtract",
               "delta"} => Assembled
    /\ pc \in {"residual", "constraints", "subtract", "update", "run"}
         => TangentIsCurrent
    /\ pc = "residual" => R = here /\ f = Load(None)
    /\ pc \in {"constraints", "subtract", "update", "run"}
         => f = Load(IF iteration > 0 THEN here ELSE None)
    /\ pc = "subtract" => B1c = [attempt |-> attempt, minus |-> <<>>]
    /\ pc = "update" => B1c = Dirichlet

SolverHasK == solver.K = K /\ solver.duplicity = K.stiffness

\* The copies in the solver, or the announcement that they will be renewed.
Copies ==
    /\ pc \in {"run", "loop", "delta"} => SolverHasK
    /\ pc \in {"residual", "constraints", "subtract", "update"}
         => /\ "f" \in updated
            /\ "K" \in updated \/ SolverHasK
    /\ pc \in {"update", "run", "loop", "subtract", "delta"}
         => duplicity = K.stiffness
    /\ pc \in {"residual", "constraints"} /\ "K" \notin updated
         => duplicity = K.stiffness
    /\ pc = "run" => solver.dirichlet = Dirichlet

\* A temperature residual that is not above the request is of the solution the
\* loop is at.
Criteria ==
    /\ pc \in {"assemble", "update", "run"} /\ iteration = 0
         => temperature.value = "above"
    /\ pc \in {"loop", "residual"} /\ temperature.value # "above"
         => temperature.at = primal.id
    /\ ~conf.first => temperature.value = "above"
    /\ StopsConverged

IInv == /\ Shape /\ Control /\ Instance /\ Copies /\ Criteria
        /\ StoredAreSolutions /\ InertiaContinues

\* Initially nothing is assembled and nothing is stored.
LEMMA InitIInv == Init => IInv
BY ConfigurationsAssumption
   DEF Init, IInv, Shape, Solutions, Control, Instance, Copies, Criteria,
       StopsConverged, StoredAreSolutions, InertiaContinues, None, Newton

\* An index that is not the first has a predecessor.
LEMMA Predecessor ==
    ASSUME NEW n \in Nat, NEW i \in 1..n, i # 1 PROVE i - 1 \in 1..n
OBVIOUS

\* Appending an element leaves the others where they are.
LEMMA AppendKeeps ==
    ASSUME NEW S, NEW s \in Seq(S), NEW e \in S
    PROVE  /\ \A j \in 1..Len(s) : Append(s, e)[j] = s[j]
           /\ DOMAIN s = 1..Len(s)
           /\ DOMAIN Append(s, e) = DOMAIN s \cup {Len(s) + 1}
<1>1. /\ \A j \in 1..Len(s) : Append(s, e)[j] = s[j]
      /\ DOMAIN s = 1..Len(s)
  OBVIOUS
<1>2. Len(s) \in Nat /\ DOMAIN Append(s, e) = 1..(Len(s) + 1)
  OBVIOUS
<1>3. \A n \in Nat : 1..(n + 1) = (1..n) \cup {n + 1}
  OBVIOUS
<1> QED BY <1>1, <1>2, <1>3

\* The fields of a solver whose right-hand side and scaling are renewed.
LEMMA RenewedFields ==
    ASSUME NEW s, NEW d, NEW p,
           s = [K |-> s.K, dirichlet |-> s.dirichlet,
                duplicity |-> s.duplicity, precision |-> s.precision]
    PROVE  /\ [s EXCEPT !.dirichlet = d, !.duplicity = p].dirichlet = d
           /\ [s EXCEPT !.dirichlet = d, !.duplicity = p].duplicity = p
           /\ [s EXCEPT !.dirichlet = d, !.duplicity = p].K = s.K
OBVIOUS

\* Every action keeps the shapes.
LEMMA NextShape ==
    ASSUME Shape, [Next]_vars PROVE Shape'
<1> USE ConfigurationsAssumption
    DEF instance, residuals, transient, Shape, Solutions
<1>1. CASE FirstSolve
  BY <1>1 DEF FirstSolve
<1>2. CASE AssembleFirst
  BY <1>2 DEF AssembleFirst, Reassemble, Gluing, AddsInertia, here, Masked,
             StationaryParts, TransientParts, LinearParts
<1>3. CASE Iterate
  BY <1>3
  DEF Iterate, Reassemble, Gluing, Masked, StationaryParts, TransientParts,
      AddsInertia, here, Requested,
      More
<1>4. CASE Exhausted
  BY <1>4 DEF Exhausted, More
<1>5. CASE Residual
  BY <1>5 DEF Residual, HeatStops
<1>6. CASE Constraints
  BY <1>6 DEF Constraints, Reassemble, Gluing, AddsInertia, here
<1>7. CASE Subtract
  BY <1>7 DEF Subtract, AddToDirichlet, NaN
<1>8. CASE UpdateSolver
  BY <1>8 DEF UpdateSolver, Initialised
<1>9. CASE LinearSolve
  BY <1>9 DEF LinearSolve, NaN
<1>10. CASE AddIncrement
  BY <1>10 DEF AddIncrement, LineSearch, Sum, TemperatureStops, here
<1>11. CASE Accept
  <2>1. stored' \in Seq(Solutions)
    BY <1>11 DEF Accept
  <2>2. V' \in Seq(Int \X Int) /\ U' \in Int
    <3>1. CASE conf.transient
      <4>1. <<U, primal.id>> \in Int \X Int
        OBVIOUS
      <4>2. V' = Append(V, <<U, primal.id>>) /\ U' = primal.id
        BY <1>11, <3>1 DEF Accept, KeepStep
      <4> QED BY <4>1, <4>2
    <3>2. CASE ~conf.transient
      BY <1>11, <3>2 DEF Accept
    <3> QED BY <3>1, <3>2
  <2> QED BY <1>11, <2>1, <2>2 DEF Accept
<1>12. CASE Reject
  BY <1>12 DEF Reject
<1>13. CASE UNCHANGED vars
  BY <1>13 DEF vars
<1> QED
  BY <1>1, <1>2, <1>3, <1>4, <1>5, <1>6, <1>7, <1>8, <1>9, <1>10, <1>11,
     <1>12, <1>13
  DEF Next, Finished

\* Only the actions around the linear solve make and remove an increment.
LEMMA NextControl ==
    ASSUME Shape, Control, [Next]_vars PROVE Control'
<1> USE ConfigurationsAssumption
    DEF instance, residuals, transient, Shape, Solutions, Control, Newton
<1>1. CASE FirstSolve
  BY <1>1 DEF FirstSolve
<1>2. CASE AssembleFirst
  BY <1>2 DEF AssembleFirst, Reassemble, Gluing, AddsInertia, here, Masked,
             StationaryParts, TransientParts, LinearParts
<1>3. CASE Iterate
  BY <1>3
  DEF Iterate, Reassemble, Gluing, Masked, StationaryParts, TransientParts,
      AddsInertia, here, Requested,
      More
<1>4. CASE Exhausted
  BY <1>4 DEF Exhausted, More
<1>5. CASE Residual
  BY <1>5 DEF Residual, HeatStops
<1>6. CASE Constraints
  BY <1>6 DEF Constraints, Reassemble, Gluing, AddsInertia, here
<1>7. CASE Subtract
  BY <1>7 DEF Subtract, AddToDirichlet, NaN
<1>8. CASE UpdateSolver
  BY <1>8 DEF UpdateSolver, Initialised
<1>9. CASE LinearSolve
  BY <1>9 DEF LinearSolve, NaN
<1>10. CASE AddIncrement
  BY <1>10 DEF AddIncrement, LineSearch, Sum, TemperatureStops, here
<1>11. CASE Accept
  BY <1>11 DEF Accept, KeepStep
<1>12. CASE Reject
  BY <1>12 DEF Reject
<1>13. CASE UNCHANGED vars
  BY <1>13 DEF vars
<1> QED
  BY <1>1, <1>2, <1>3, <1>4, <1>5, <1>6, <1>7, <1>8, <1>9, <1>10, <1>11,
     <1>12, <1>13
  DEF Next, Finished

\* What is assembled, and what is kept, is of the origin the place in the code
\* asks for.
LEMMA NextInstance ==
    ASSUME Shape, Control, Instance, Copies, [Next]_vars PROVE Instance'
<1> USE ConfigurationsAssumption
    DEF instance, residuals, transient, Shape, Solutions, Control, Newton,
        Instance, Assembled, MassOf, TangentIsCurrent, Load, Dirichlet, here
<1>1. CASE FirstSolve
  BY <1>1 DEF FirstSolve
<1>2. CASE AssembleFirst
  <2>1. updated' = IF conf.transient THEN {"K", "M", "f", "B1"}
                                     ELSE {"K", "f", "B1"}
    BY <1>2 DEF AssembleFirst, Masked, StationaryParts,
                  TransientParts, LinearParts
  <2>2. M' = (IF conf.transient THEN here ELSE M)
    BY <1>2, <2>1 DEF AssembleFirst, Reassemble
  <2>3. /\ K' = [stiffness |-> here, mass |-> MassOf(here)]
        /\ origK' = IF conf.transient THEN here ELSE origK
    <3>1. CASE conf.transient
      <4>1. K' = [stiffness |-> here, mass |-> Append(<<>>, here)]
            /\ origK' = here
        BY <1>2, <2>1, <2>2, <3>1 DEF AssembleFirst, Reassemble
      <4> QED BY <3>1, <4>1
    <3>2. CASE ~conf.transient
      BY <1>2, <2>1, <3>2 DEF AssembleFirst, Reassemble
    <3> QED BY <3>1, <3>2
  <2>4. f' = [load |-> here, residual |-> None,
              inertia |-> IF conf.transient
                THEN <<[mass |-> M', from |-> U, steps |-> Len(V)]>> ELSE <<>>]
    <3>1. "f" \in updated' /\ (AddsInertia(updated') <=> conf.transient)
      BY <2>1 DEF AddsInertia
    <3>2. Reassemble(updated')
      BY <1>2 DEF AssembleFirst
    <3> DEFINE load == [load |-> here, residual |-> None, inertia |-> <<>>]
               mine == [mass |-> M', from |-> U, steps |-> Len(V)]
    <3>3. f' = IF conf.transient
                 THEN [load EXCEPT !.inertia = Append(@, mine)] ELSE load
      BY <3>1, <3>2 DEF Reassemble
    <3>4. [load EXCEPT !.inertia = Append(@, mine)]
            = [load |-> here, residual |-> None, inertia |-> <<mine>>]
      OBVIOUS
    <3> QED BY <3>3, <3>4
  <2>5. B1c' = [attempt |-> attempt, minus |-> <<>>]
    BY <1>2, <2>1 DEF AssembleFirst, Reassemble, Gluing
  <2>6. UNCHANGED <<conf, attempt, iteration, primal, transient>>
        /\ pc' = "update" /\ iteration = 0
    BY <1>2 DEF AssembleFirst
  <2>7. here' = here
    BY <2>6
  <2>8. Assembled' /\ TangentIsCurrent'
    BY <2>2, <2>3, <2>6, <2>7
  <2>9. f' = Load(None)'
    BY <2>4, <2>6, <2>7 DEF None
  <2> QED BY <2>5, <2>6, <2>8, <2>9
<1>3. CASE Iterate
  <2>1. UNCHANGED <<conf, attempt, primal, transient>> /\ pc' = "residual"
    BY <1>3 DEF Iterate
  <2>2. here' = here /\ iteration' > 0
    BY <1>3, <2>1 DEF Iterate
  <2>3. updated' = IF conf.method = "NEWTON_RAPHSON"
                     THEN IF conf.transient THEN {"K", "M", "f", "R"}
                                            ELSE {"K", "f", "R"}
                     ELSE {"f", "R"}
    BY <1>3 DEF Iterate, Masked, StationaryParts, TransientParts, Requested
  <2>4. R' = here
    BY <1>3, <2>3 DEF Iterate, Reassemble
  <2>5. f' = [load |-> here, residual |-> None,
              inertia |-> IF conf.transient
                THEN <<[mass |-> M', from |-> U, steps |-> Len(V)]>> ELSE <<>>]
    <3>1. "f" \in updated' /\ Reassemble(updated')
      BY <1>3, <2>3 DEF Iterate
    <3>2. CASE conf.transient
      <4>1. f' = [load |-> here, residual |-> None,
                  inertia |-> Append(<<>>,
                    [mass |-> M', from |-> U, steps |-> Len(V)])]
        BY <3>1, <3>2 DEF Reassemble, AddsInertia
      <4> QED BY <3>2, <4>1
    <3>3. CASE ~conf.transient
      BY <3>1, <3>3 DEF Reassemble, AddsInertia
    <3> QED BY <3>2, <3>3
  <2>6. f' = Load(None)'
    BY <2>1, <2>2, <2>5 DEF None
  <2>7. Assembled' /\ TangentIsCurrent'
    <3>1. CASE conf.method = "NEWTON_RAPHSON"
      <4>1. M' = (IF conf.transient THEN here ELSE M)
        BY <1>3, <2>3, <3>1 DEF Iterate, Reassemble
      <4>2. /\ K' = [stiffness |-> here, mass |-> MassOf(here)]
            /\ origK' = IF conf.transient THEN here ELSE origK
        <5>1. CASE conf.transient
          <6>1. K' = [stiffness |-> here, mass |-> Append(<<>>, here)]
                /\ origK' = here
            BY <1>3, <2>3, <3>1, <4>1, <5>1 DEF Iterate, Reassemble
          <6> QED BY <5>1, <6>1
        <5>2. CASE ~conf.transient
          BY <1>3, <2>3, <3>1, <5>2 DEF Iterate, Reassemble
        <5> QED BY <5>1, <5>2
      <4> QED BY <2>1, <2>2, <4>1, <4>2
    <3>2. CASE conf.method # "NEWTON_RAPHSON"
      <4>1. UNCHANGED <<K, M, origK>>
        BY <1>3, <2>3, <3>2 DEF Iterate, Reassemble
      <4> QED BY <1>3, <2>1, <2>2, <3>2, <4>1 DEF Iterate
    <3> QED BY <3>1, <3>2
  <2> QED BY <2>1, <2>2, <2>4, <2>6, <2>7
<1>4. CASE Exhausted
  BY <1>4 DEF Exhausted, More
<1>5. CASE Residual
  <2>1. /\ pc = "residual" /\ pc' \in {"solved", "constraints"}
        /\ f' = [f EXCEPT !.residual = R]
        /\ UNCHANGED <<conf, attempt, iteration, primal, K, origK, M, R, B1c,
                       temperature, transient>>
    BY <1>5 DEF Residual
  <2>2. f = Load(None) /\ R = here
    BY <2>1
  <2>3. f' = Load(here)'
    BY <2>1, <2>2
  <2>4. iteration > 0
    BY <2>1
  <2>5. Assembled' /\ TangentIsCurrent'
    BY <2>1
  <2> QED BY <2>1, <2>3, <2>4, <2>5
<1>6. CASE Constraints
  BY <1>6 DEF Constraints, Reassemble, Gluing, AddsInertia, here
<1>7. CASE Subtract
  <2>1. B1c = [attempt |-> attempt, minus |-> <<>>] /\ primal.id \in Int
    BY <1>7 DEF Subtract
  <2>2. B1c' = [attempt |-> attempt, minus |-> Append(<<>>, primal.id)]
    BY <1>7, <2>1 DEF Subtract, AddToDirichlet
  <2>3. B1c' = [attempt |-> attempt, minus |-> <<primal.id>>]
    BY <2>1, <2>2
  <2>4. B1c' = Dirichlet'
    BY <1>7, <2>3 DEF Subtract
  <2> QED BY <1>7, <2>4 DEF Subtract
<1>8. CASE UpdateSolver
  BY <1>8 DEF UpdateSolver, Initialised
<1>9. CASE LinearSolve
  BY <1>9 DEF LinearSolve, NaN
<1>10. CASE AddIncrement
  BY <1>10 DEF AddIncrement, LineSearch, Sum, TemperatureStops, here
<1>11. CASE Accept
  BY <1>11 DEF Accept, KeepStep
<1>12. CASE Reject
  BY <1>12 DEF Reject
<1>13. CASE UNCHANGED vars
  BY <1>13 DEF vars
<1> QED
  BY <1>1, <1>2, <1>3, <1>4, <1>5, <1>6, <1>7, <1>8, <1>9, <1>10, <1>11,
     <1>12, <1>13
  DEF Next, Finished

\* The solver's copies are renewed whenever their originals have changed.
LEMMA NextCopies ==
    ASSUME Shape, Control, Instance, Copies, [Next]_vars PROVE Copies'
<1> USE ConfigurationsAssumption
    DEF instance, residuals, transient, Shape, Solutions, Control, Newton,
        Copies, SolverHasK, Dirichlet
<1>1. CASE FirstSolve
  BY <1>1 DEF FirstSolve
<1>2. CASE AssembleFirst
  BY <1>2 DEF AssembleFirst, Reassemble, Gluing, AddsInertia, here, Masked,
             StationaryParts, TransientParts, LinearParts
<1>3. CASE Iterate
  BY <1>3
  DEF Iterate, Reassemble, Gluing, Masked, StationaryParts, TransientParts,
      AddsInertia, here, Requested,
      More
<1>4. CASE Exhausted
  BY <1>4 DEF Exhausted, More
<1>5. CASE Residual
  BY <1>5 DEF Residual, HeatStops
<1>6. CASE Constraints
  BY <1>6 DEF Constraints, Reassemble, Gluing, AddsInertia, here
<1>7. CASE Subtract
  BY <1>7 DEF Subtract, AddToDirichlet, NaN
<1>8. CASE UpdateSolver
  <2>1. B1c = Dirichlet /\ duplicity = K.stiffness
    BY <1>8 DEF UpdateSolver, Initialised, Instance
  <2>2. /\ solver'.dirichlet = B1c
        /\ solver'.K = K /\ solver'.duplicity = K.stiffness
    <3>1. CASE "K" \in updated
      BY <1>8, <2>1, <3>1 DEF UpdateSolver, Initialised
    <3>2. CASE "K" \notin updated /\ "N" \in updated
      BY <1>8, <2>1, <3>2 DEF UpdateSolver, Initialised
    <3>3. CASE "K" \notin updated /\ "N" \notin updated
      <4>1. SolverHasK /\ "f" \in updated
        BY <1>8, <3>3 DEF UpdateSolver, Initialised
      <4>2. PICK p : p = IF "B1duplicity" \in updated
                           THEN duplicity ELSE solver.duplicity
        OBVIOUS
      <4>3. p = K.stiffness
        BY <2>1, <4>1, <4>2
      <4>4. /\ updated \cap {"K", "N"} = {}
            /\ updated \cap {"B1c", "f"} # {}
        BY <3>3, <4>1
      <4>5. solver' = [solver EXCEPT !.dirichlet = B1c, !.duplicity = p]
        BY <1>8, <4>2, <4>4 DEF UpdateSolver
      <4>6. /\ solver'.dirichlet = B1c
            /\ solver'.duplicity = p /\ solver'.K = solver.K
        BY <4>5, RenewedFields
      <4> QED BY <4>1, <4>3, <4>6
    <3> QED BY <3>1, <3>2, <3>3
  <2>3. UNCHANGED <<K, duplicity, attempt, iteration, primal>> /\ pc' = "run"
    BY <1>8 DEF UpdateSolver, Initialised
  <2> QED BY <2>1, <2>2, <2>3
<1>9. CASE LinearSolve
  BY <1>9 DEF LinearSolve, NaN
<1>10. CASE AddIncrement
  BY <1>10 DEF AddIncrement, LineSearch, Sum, TemperatureStops, here
<1>11. CASE Accept
  BY <1>11 DEF Accept, KeepStep
<1>12. CASE Reject
  BY <1>12 DEF Reject
<1>13. CASE UNCHANGED vars
  BY <1>13 DEF vars
<1> QED
  BY <1>1, <1>2, <1>3, <1>4, <1>5, <1>6, <1>7, <1>8, <1>9, <1>10, <1>11,
     <1>12, <1>13
  DEF Next, Finished

\* The loop stops at the solution its criteria are about.
LEMMA NextCriteria ==
    ASSUME Shape, Control, Criteria, [Next]_vars PROVE Criteria'
<1> USE ConfigurationsAssumption
    DEF instance, residuals, transient, Shape, Solutions, Control, Newton,
        Criteria, StopsConverged, Converged
<1>1. CASE FirstSolve
  BY <1>1 DEF FirstSolve
<1>2. CASE AssembleFirst
  BY <1>2 DEF AssembleFirst, Reassemble, Gluing, AddsInertia, here, Masked,
             StationaryParts, TransientParts, LinearParts
<1>3. CASE Iterate
  BY <1>3
  DEF Iterate, Reassemble, Gluing, Masked, StationaryParts, TransientParts,
      AddsInertia, here, Requested,
      More
<1>4. CASE Exhausted
  BY <1>4 DEF Exhausted, More
<1>5. CASE Residual
  BY <1>5 DEF Residual, HeatStops
<1>6. CASE Constraints
  BY <1>6 DEF Constraints, Reassemble, Gluing, AddsInertia, here
<1>7. CASE Subtract
  BY <1>7 DEF Subtract, AddToDirichlet, NaN
<1>8. CASE UpdateSolver
  BY <1>8 DEF UpdateSolver, Initialised
<1>9. CASE LinearSolve
  BY <1>9 DEF LinearSolve, NaN
<1>10. CASE AddIncrement
  <2>1. UNCHANGED <<conf, iteration, heat>> /\ primal'.id = primal.id
    BY <1>10 DEF AddIncrement, LineSearch, Sum
  <2>2. pc' \in {"solved", "loop"} /\ iteration > 0
    BY <1>10 DEF AddIncrement, LineSearch
  <2>3. PICK value \in {"below", "equal", "above"} :
          /\ temperature' = IF conf.first
                              THEN [at |-> primal.id, value |-> value]
                              ELSE temperature
          /\ pc' = IF TemperatureStops(value) THEN "solved" ELSE "loop"
          /\ ~conf.first => value = "above"
    BY <1>10 DEF AddIncrement, LineSearch
  <2>4. pc' = "loop" /\ temperature'.value # "above"
          => temperature'.at = primal.id
    BY <1>10, <2>3 DEF AddIncrement, LineSearch
  <2>5. pc' = "solved" => /\ conf.first /\ ~conf.second
                          /\ temperature'.at = primal.id
                          /\ temperature'.value # "above"
    BY <2>3 DEF TemperatureStops
  <2>6. ASSUME pc' = "solved" PROVE Converged'
    <3>1. conf.first /\ ~conf.second /\ conf' = conf
      BY <2>1, <2>5, <2>6
    <3>2. temperature'.at = primal'.id /\ temperature'.value # "above"
      BY <2>1, <2>5, <2>6
    <3> QED BY <3>1, <3>2
  <2>7. ~conf.first => temperature'.value = "above"
    BY <2>3
  <2> QED BY <2>1, <2>2, <2>4, <2>6, <2>7
<1>11. CASE Accept
  BY <1>11 DEF Accept, KeepStep
<1>12. CASE Reject
  BY <1>12 DEF Reject
<1>13. CASE UNCHANGED vars
  BY <1>13 DEF vars
<1> QED
  BY <1>1, <1>2, <1>3, <1>4, <1>5, <1>6, <1>7, <1>8, <1>9, <1>10, <1>11,
     <1>12, <1>13
  DEF Next, Finished

\* Accepting a step extends U, V and the stored steps alike.
LEMMA NextStored ==
    ASSUME Shape, Control, StoredAreSolutions, InertiaContinues, [Next]_vars
    PROVE  (StoredAreSolutions /\ InertiaContinues)'
<1> USE ConfigurationsAssumption
    DEF instance, residuals, transient, Shape, Solutions, Control,
        StoredAreSolutions, InertiaContinues
<1>1. CASE FirstSolve
  BY <1>1 DEF FirstSolve
<1>2. CASE AssembleFirst
  BY <1>2 DEF AssembleFirst, Reassemble, Gluing, AddsInertia, here, Masked,
             StationaryParts, TransientParts, LinearParts
<1>3. CASE Iterate
  BY <1>3
  DEF Iterate, Reassemble, Gluing, Masked, StationaryParts, TransientParts,
      AddsInertia, here, Requested,
      More
<1>4. CASE Exhausted
  BY <1>4 DEF Exhausted, More
<1>5. CASE Residual
  BY <1>5 DEF Residual, HeatStops
<1>6. CASE Constraints
  BY <1>6 DEF Constraints, Reassemble, Gluing, AddsInertia, here
<1>7. CASE Subtract
  BY <1>7 DEF Subtract, AddToDirichlet, NaN
<1>8. CASE UpdateSolver
  BY <1>8 DEF UpdateSolver, Initialised
<1>9. CASE LinearSolve
  BY <1>9 DEF LinearSolve, NaN
<1>10. CASE AddIncrement
  BY <1>10 DEF AddIncrement, LineSearch, Sum, TemperatureStops, here
<1>11. CASE Accept
  <2>1. /\ stored' = Append(stored, primal) /\ ~primal.delta
        /\ conf' = conf
    BY <1>11 DEF Accept
  <2>2. StoredAreSolutions'
    BY <2>1
  <2>3. CASE conf.transient
    <3>1. V' = Append(V, <<U, primal.id>>) /\ U' = primal.id
      BY <1>11, <2>3 DEF Accept, KeepStep
    <3>2. <<U, primal.id>> \in Int \X Int
      OBVIOUS
    <3>3. Len(V) = Len(stored) /\ Len(V') = Len(stored')
      BY <2>1, <2>3, <3>1, <3>2
    <3>4. U' = stored'[Len(stored')].id /\ stored' # <<>>
      BY <2>1, <3>1
    <3>5. ASSUME NEW i \in DOMAIN V'
          PROVE V'[i] = <<IF i = 1 THEN 0 ELSE stored'[i - 1].id,
                          stored'[i].id>>
      <4>1. CASE i \in DOMAIN V
        <5>1. V'[i] = V[i] /\ stored'[i] = stored[i]
              /\ (i # 1 => stored'[i - 1] = stored[i - 1])
          <6>1. i \in 1..Len(V) /\ i \in 1..Len(stored)
            <7>1. V \in Seq(Int \X Int)
              OBVIOUS
            <7>2. DOMAIN V = 1..Len(V)
              BY <3>2, <7>1, AppendKeeps
            <7> QED BY <3>3, <4>1, <7>2
          <6>2. V'[i] = V[i]
            BY <3>1, <3>2, <6>1, AppendKeeps
          <6>3. \A j \in 1..Len(stored) : stored'[j] = stored[j]
            BY <2>1, AppendKeeps
          <6>4. Len(stored) \in Nat
            OBVIOUS
          <6>5. i # 1 => i - 1 \in 1..Len(stored)
            BY <6>1, <6>4, Predecessor
          <6>6. stored'[i] = stored[i]
            BY <6>1, <6>3
          <6> QED BY <6>2, <6>3, <6>5, <6>6
        <5> QED BY <2>3, <4>1, <5>1
      <4>2. CASE i = Len(V) + 1
        <5>1. V'[i] = <<U, primal.id>> /\ stored'[i] = primal
          BY <2>1, <3>1, <3>2, <3>3, <4>2
        <5>2. U = IF i = 1 THEN 0 ELSE stored'[i - 1].id
          BY <2>1, <2>3, <3>3, <4>2
        <5> QED BY <5>1, <5>2
      <4>3. i \in DOMAIN V \cup {Len(V) + 1}
        BY <3>1, <3>2, AppendKeeps
      <4> QED BY <4>1, <4>2, <4>3
    <3> QED BY <2>1, <2>2, <3>3, <3>4, <3>5
  <2>4. CASE ~conf.transient
    BY <2>1, <2>2, <2>4
  <2> QED BY <2>3, <2>4
<1>12. CASE Reject
  BY <1>12 DEF Reject
<1>13. CASE UNCHANGED vars
  BY <1>13 DEF vars
<1> QED
  BY <1>1, <1>2, <1>3, <1>4, <1>5, <1>6, <1>7, <1>8, <1>9, <1>10, <1>11,
     <1>12, <1>13
  DEF Next, Finished

\* The inductive invariant holds in every reachable state.
THEOREM Invariance == Spec => []IInv
<1>1. Init => IInv
  BY InitIInv
<1>2. IInv /\ [Next]_vars => IInv'
  BY NextShape, NextControl, NextInstance, NextCopies, NextCriteria, NextStored
  DEF IInv
<1> QED BY <1>1, <1>2, PTL DEF Spec

\* Every linear system that is solved belongs together: the factorised matrix,
\* the residual and the inertia, for any number of iterations and rejections.
THEOREM SystemIsConsistentHolds == Spec => []SystemIsConsistent
<1>1. IInv => SystemIsConsistent
  <2> SUFFICES ASSUME IInv, pc = "run" PROVE SystemIsConsistent
    BY DEF SystemIsConsistent
  <2>1. /\ K = [stiffness |-> K.stiffness, mass |-> MassOf(K.stiffness)]
        /\ K.stiffness.attempt = attempt
        /\ conf.transient => origK = K.stiffness
        /\ TangentIsCurrent /\ solver.K = K
    BY DEF IInv, Instance, Assembled, Copies, SolverHasK
  <2>2. f = Load(IF iteration > 0 THEN here ELSE None)
    BY DEF IInv, Instance
  <2>3. conf.transient =>
          /\ Len(f.inertia) = 1
          /\ f.inertia[1].from = U /\ f.inertia[1].steps = Len(V)
    BY <2>2 DEF Load
  <2>4. conf.transient => Len(V) = Len(stored)
    BY DEF IInv, InertiaContinues
  <2> QED BY <2>1, <2>2, <2>3, <2>4
          DEF SystemIsConsistent, TangentIsCurrent, MassOf, Load
<1> QED BY <1>1, Invariance, PTL

\* The solver never works with Dirichlet values of another attempt or another
\* solution, nor with the duplicity of another matrix.
THEOREM ConstraintsAreConsistentHolds == Spec => []ConstraintsAreConsistent
<1>1. IInv => ConstraintsAreConsistent
  BY DEF IInv, Copies, SolverHasK, Dirichlet, ConstraintsAreConsistent
<1> QED BY <1>1, Invariance, PTL

\* The loop is left early only at a solution that meets every criterion.
THEOREM StopsConvergedHolds == Spec => []StopsConverged
<1>1. IInv => StopsConverged
  BY DEF IInv, Criteria
<1> QED BY <1>1, Invariance, PTL

\* No increment is ever stored as the result of a time step.
THEOREM StoredAreSolutionsHolds == Spec => []StoredAreSolutions
<1>1. IInv => StoredAreSolutions
  BY DEF IInv
<1> QED BY <1>1, Invariance, PTL

\* U and V continue the stored steps across any number of rejected attempts.
THEOREM InertiaContinuesHolds == Spec => []InertiaContinues
<1>1. IInv => InertiaContinues
  BY DEF IInv
<1> QED BY <1>1, Invariance, PTL
================================================================================
