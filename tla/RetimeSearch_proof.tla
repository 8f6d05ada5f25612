-------------------------- MODULE RetimeSearch_proof --------------------------
(***************************************************************************)
(* What TLAPS proves of the retiming search, for every set of feasible     *)
(* dilations, every candidate set, every grid and number of halvings.      *)
(***************************************************************************)
EXTENDS RetimeSearch, RetimeContract, TLAPS

\* The last dilation is a positive integer.
LEMMA SpanIsPositive == Span \in Nat /\ Span > 0
  BY SearchAssumption DEF Span

\* Every probed point is a dilation.
LEMMA ProbesAreDilations ==
  ASSUME TypeOK
  PROVE  Probes \subseteq Dilation
  BY SpanIsPositive DEF Probes, Dilation, TypeOK

LEMMA GridIsDilations == Grid \subseteq Dilation
  <1> SUFFICES ASSUME NEW c \in 0 .. Cells PROVE c * CellSize \in 0 .. Span
    BY DEF Grid, Dilation
  <1>1. c \in Nat /\ CellSize \in Nat /\ Cells \in Nat /\ c <= Cells
    BY SearchAssumption
  <1>2. c * CellSize \in Nat /\ c * CellSize <= Cells * CellSize
    BY <1>1
  <1> QED
    BY <1>2, SpanIsPositive DEF Span

-----------------------------------------------------------------------------
(***************************************************************************)
(* The inductive invariant: the bracket always holds a crossing and shrinks*)
(* as Width says; the stages passed have found nothing.                    *)
(***************************************************************************)

BracketOK ==
  (pc = "bisect" \/ Found)
    => /\ lo \notin feasible /\ hi \in feasible
       /\ lo < hi
       /\ hi - lo <= Width[step]

ResultOK ==
  /\ pc # "done" => result = NoDilation
  /\ Found => result = hi /\ step = Iterations

StagesOK ==
  /\ pc = "grid" => Probes \cap feasible = {}
  /\ (pc = "done" /\ result = NoDilation) => (Grid \cup Probes) \cap feasible = {}

IInv == TypeOK /\ BracketOK /\ ResultOK /\ StagesOK

\* Opening a bracket between a failing and a feasible dilation establishes it.
LEMMA OpenEstablishes ==
  ASSUME IInv, NEW a \in Dilation, NEW b \in feasible,
         a \notin feasible, a < b, pc # "done", OpenBracket(a, b)
  PROVE  IInv'
  <1>1. /\ lo' = a /\ hi' = b /\ start' = a /\ step' = 0 /\ pc' = "bisect"
        /\ feasible' = feasible /\ candidates' = candidates /\ result' = result
    BY DEF OpenBracket, problem
  <1>2. b \in Dilation /\ a \in Int /\ b \in Int
    BY SpanIsPositive DEF IInv, TypeOK, Dilation
  <1>3. TypeOK'
    BY <1>1, <1>2, SearchAssumption DEF IInv, TypeOK
  <1>4. b - a <= Width[0]
    <2>1. b - a <= Span /\ Span <= Width[0] /\ Width[0] \in Nat
      BY <1>2, SpanIsPositive, SearchAssumption DEF Dilation
    <2> QED
      BY <1>2, <2>1, SpanIsPositive
  <1>5. BracketOK'
    BY <1>1, <1>4 DEF BracketOK
  <1>6. ResultOK' /\ StagesOK'
    BY <1>1 DEF IInv, ResultOK, StagesOK, Found
  <1> QED
    BY <1>3, <1>5, <1>6 DEF IInv

\* The predecessor of the first feasible point fails.
LEMMA CrossingBrackets ==
  ASSUME IInv, NEW points \in SUBSET Dilation, NEW a, NEW b, Crossing(points, a, b)
  PROVE  /\ a \in Dilation /\ b \in feasible
         /\ a \notin feasible /\ a < b
  <1>1. /\ a \in points /\ b \in points /\ b \in feasible /\ a < b
        /\ \A p \in points \cap feasible : b <= p
    BY DEF Crossing
  <1>2. a \in Int /\ b \in Int
    BY <1>1, SpanIsPositive DEF Dilation
  <1>3. a \notin feasible
    <2>1. ~(b <= a)
      BY <1>1, <1>2
    <2> QED
      BY <1>1, <2>1
  <1> QED
    BY <1>1, <1>3

\* One halving keeps the crossing inside and the width under its bound.
LEMMA HalvingShrinks ==
  ASSUME IInv, Bisect
  PROVE  IInv'
  <1> DEFINE mid == (lo + hi) \div 2
  <1>1. /\ pc = "bisect" /\ step < Iterations
        /\ step' = step + 1 /\ pc' = pc
        /\ feasible' = feasible /\ candidates' = candidates
        /\ start' = start /\ result' = result
    BY DEF Bisect, problem
  <1>2. \/ mid \in feasible /\ hi' = mid /\ lo' = lo
        \/ mid \notin feasible /\ lo' = mid /\ hi' = hi
    BY DEF Bisect
  <1>3. /\ lo \in Nat /\ hi \in Nat /\ hi <= Span
        /\ lo \notin feasible /\ hi \in feasible /\ lo < hi /\ hi - lo <= Width[step]
    BY <1>1, SpanIsPositive DEF IInv, TypeOK, BracketOK, Dilation
  <1>4. /\ step \in Nat /\ step + 1 \in 0 .. Iterations
        /\ Width[step] \in Nat /\ Width[step + 1] \in Nat
        /\ Width[step] <= 2 * Width[step + 1]
    BY <1>1, SearchAssumption DEF IInv, TypeOK
  <1>5. mid \in Nat /\ lo <= mid /\ mid < hi
    BY <1>3
  <1>6. mid - lo <= Width[step + 1] /\ hi - mid <= Width[step + 1]
    BY <1>3, <1>4
  <1>7. mid \in Dilation
    BY <1>3, <1>5, SpanIsPositive DEF Dilation
  <1> HIDE DEF mid
  <1>8. lo' \notin feasible' /\ hi' \in feasible' /\ lo' < hi' /\ hi' - lo' <= Width[step']
    <2>1. CASE mid \in feasible /\ hi' = mid /\ lo' = lo
      <3>1. lo # mid
        BY <1>3, <2>1
      <3> QED
        BY <1>1, <1>3, <1>5, <1>6, <2>1, <3>1
    <2>2. CASE mid \notin feasible /\ lo' = mid /\ hi' = hi
      BY <1>1, <1>3, <1>5, <1>6, <2>2
    <2> QED
      BY <1>2, <2>1, <2>2
  <1>9. TypeOK'
    BY <1>1, <1>2, <1>4, <1>7 DEF IInv, TypeOK
  <1>10. BracketOK' /\ ResultOK' /\ StagesOK'
    BY <1>1, <1>8 DEF IInv, BracketOK, ResultOK, StagesOK, Found
  <1> QED
    BY <1>9, <1>10 DEF IInv

\* A stage that found nothing keeps the invariant.
LEMMA MoveKeeps ==
  ASSUME IInv, pc \in {"maximum", "candidates", "grid"},
         NEW stage \in {"candidates", "grid", "done"}, MoveOn(stage),
         stage = "grid" => Probes \cap feasible = {},
         stage = "done" => (Grid \cup Probes) \cap feasible = {}
  PROVE  IInv'
  <1>1. /\ pc' = stage /\ lo' = lo /\ hi' = hi /\ step' = step /\ start' = start
        /\ feasible' = feasible /\ candidates' = candidates
        /\ result' = result /\ result = NoDilation
    BY DEF MoveOn, problem, IInv, ResultOK
  <1>2. TypeOK'
    BY <1>1 DEF IInv, TypeOK
  <1>3. BracketOK' /\ ResultOK'
    BY <1>1 DEF BracketOK, ResultOK, Found
  <1>4. StagesOK'
    BY <1>1 DEF StagesOK, Probes, Grid
  <1> QED
    BY <1>2, <1>3, <1>4 DEF IInv

THEOREM SearchInvariant == Spec => []IInv
  <1>1. Init => IInv
    <2> SUFFICES ASSUME Init PROVE IInv
      OBVIOUS
    <2>1. 0 \in Dilation /\ 0 \in 0 .. Iterations
      BY SpanIsPositive, SearchAssumption DEF Dilation
    <2>2. TypeOK
      BY <2>1 DEF Init, TypeOK
    <2> QED
      BY <2>2 DEF Init, IInv, BracketOK, ResultOK, StagesOK, Found
  <1>2. IInv /\ [Next]_vars => IInv'
    <2> SUFFICES ASSUME IInv, [Next]_vars PROVE IInv'
      OBVIOUS
    <2>1. CASE TryMaximum
      <3>1. CASE Span \in feasible /\ OpenBracket(0, Span)
        <4>1. 0 \in Dilation /\ 0 \notin feasible /\ 0 < Span
          BY SpanIsPositive DEF Dilation, IInv, TypeOK
        <4> QED
          BY <2>1, <3>1, <4>1, OpenEstablishes DEF TryMaximum
      <3>2. CASE MoveOn("candidates")
        BY <2>1, <3>2, MoveKeeps DEF TryMaximum
      <3> QED
        BY <2>1, <3>1, <3>2 DEF TryMaximum
    <2>2. CASE TryCandidates
      <3>1. ASSUME NEW a \in Probes, NEW b \in Probes,
                   Crossing(Probes, a, b), OpenBracket(a, b)
            PROVE  IInv'
        <4>1. Probes \in SUBSET Dilation
          BY ProbesAreDilations DEF IInv
        <4>2. a \in Dilation /\ b \in feasible /\ a \notin feasible /\ a < b
          BY <3>1, <4>1, CrossingBrackets
        <4> QED
          BY <2>2, <3>1, <4>2, OpenEstablishes DEF TryCandidates
      <3>2. CASE Probes \cap feasible = {} /\ MoveOn("grid")
        BY <2>2, <3>2, MoveKeeps DEF TryCandidates
      <3> QED
        BY <2>2, <3>1, <3>2 DEF TryCandidates
    <2>3. CASE ScanGrid
      <3>1. ASSUME NEW a \in Grid, NEW b \in Grid,
                   Crossing(Grid, a, b), OpenBracket(a, b)
            PROVE  IInv'
        <4>1. a \in Dilation /\ b \in feasible /\ a \notin feasible /\ a < b
          BY <3>1, GridIsDilations, CrossingBrackets
        <4> QED
          BY <2>3, <3>1, <4>1, OpenEstablishes DEF ScanGrid
      <3>2. CASE Grid \cap feasible = {} /\ MoveOn("done")
        <4>1. (Grid \cup Probes) \cap feasible = {}
          BY <2>3, <3>2 DEF ScanGrid, IInv, StagesOK
        <4> QED
          BY <2>3, <3>2, <4>1, MoveKeeps DEF ScanGrid
      <3> QED
        BY <2>3, <3>1, <3>2 DEF ScanGrid
    <2>4. CASE Bisect
      BY <2>4, HalvingShrinks
    <2>5. CASE Return
      <3>1. /\ pc = "bisect" /\ step = Iterations /\ result' = hi /\ pc' = "done"
            /\ UNCHANGED <<feasible, candidates, lo, hi, step, start>>
        BY <2>5 DEF Return, problem
      <3>2. hi \in Dilation /\ hi # NoDilation
        BY SpanIsPositive, SearchAssumption DEF IInv, TypeOK, Dilation
      <3>3. TypeOK'
        BY <3>1, <3>2 DEF IInv, TypeOK
      <3>4. BracketOK' /\ ResultOK' /\ StagesOK'
        BY <3>1, <3>2 DEF IInv, BracketOK, ResultOK, StagesOK, Found
      <3> QED
        BY <3>3, <3>4 DEF IInv
    <2>6. CASE UNCHANGED vars
      BY <2>6 DEF vars, problem, IInv, TypeOK, BracketOK, ResultOK, StagesOK,
                  Found, Probes, Grid
    <2> QED
      BY <2>1, <2>2, <2>3, <2>4, <2>5, <2>6 DEF Next
  <1> QED
    BY <1>1, <1>2, PTL DEF Spec

-----------------------------------------------------------------------------
\* Level 1 never hands on a route that does not clear, for any margin function.
THEOREM ResultIsFeasible == Spec => []ReturnsFeasible
  <1>1. IInv => ReturnsFeasible
    BY DEF IInv, BracketOK, ResultOK, ReturnsFeasible
  <1> QED
    BY <1>1, SearchInvariant, PTL

\* Within the resolution below the result lies a dilation that fails.
THEOREM ResultIsACrossing == Spec => []EndsAtCrossing
  <1>1. IInv => EndsAtCrossing
    BY DEF IInv, TypeOK, BracketOK, ResultOK, EndsAtCrossing
  <1> QED
    BY <1>1, SearchInvariant, PTL

\* A margin that only improves as the route slows down gets its smallest
\* feasible dilation, up to the resolution of the bisection.
THEOREM ResultIsSmallest == Spec => []SmallestWhenMonotone
  <1>1. IInv => SmallestWhenMonotone
    <2> SUFFICES ASSUME IInv, Found, \A d \in feasible : d .. Span \subseteq feasible,
                        NEW d \in feasible
                 PROVE  result <= d + Width[Iterations]
      BY DEF SmallestWhenMonotone
    <2>1. /\ lo \in Nat /\ lo <= Span /\ hi \in Nat /\ d \in Nat
          /\ lo \notin feasible /\ hi - lo <= Width[Iterations] /\ result = hi
      BY SpanIsPositive DEF IInv, TypeOK, BracketOK, ResultOK, Dilation
    <2>2. lo < d
      <3>1. d <= lo => lo \in d .. Span
        BY <2>1, SpanIsPositive
      <3> QED
        BY <2>1, <3>1
    <2>3. Width[Iterations] \in Nat
      BY SearchAssumption
    <2> QED
      BY <2>1, <2>2, <2>3
  <1> QED
    BY <1>1, SearchInvariant, PTL

\* Retiming is given up only when no probed dilation clears.
THEOREM GivingUpIsHonest == Spec => []GivesUpHonestly
  <1>1. IInv => GivesUpHonestly
    BY DEF IInv, StagesOK, GivesUpHonestly
  <1> QED
    BY <1>1, SearchInvariant, PTL

-----------------------------------------------------------------------------
\* The search keeps the contract by which RouteCascade knows it: the answer of
\* searchRetimeLambda is feasible, or no dilation of the grid is.
THEOREM SearchKeepsContract ==
  Spec => [](pc = "done" => result \in RetimeOutcomes(feasible, Grid, NoDilation))
  <1>1. ReturnsFeasible /\ GivesUpHonestly
          => (pc = "done" => result \in RetimeOutcomes(feasible, Grid, NoDilation))
    BY DEF ReturnsFeasible, GivesUpHonestly, Found, RetimeOutcomes
  <1> QED
    BY <1>1, ResultIsFeasible, GivingUpIsHonest, PTL

\* The variables keep their types; above all, no bisection runs past its last step.
THEOREM SearchTypes == Spec => []TypeOK
  <1>1. IInv => TypeOK
    BY DEF IInv
  <1> QED
    BY <1>1, SearchInvariant, PTL
=============================================================================
