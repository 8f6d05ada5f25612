----------------------------- MODULE RetimeSearch -----------------------------
(***************************************************************************)
(* Level 1: the search for the time dilation that restores the margin of a *)
(* whole route.  searchRetimeLambda and searchRetimeLambdaRelative         *)
(* (route_retime_search.cpp) and LocalPlanner._search_retime_whole_route   *)
(* (local_planner.py) are the same search; only the Python one probes the  *)
(* closed-form candidates before the grid.                                 *)
(*                                                                         *)
(* A dilation d stands for lambda = 1 + d * (lam_max - 1) / Span.  Every   *)
(* evaluation of the certificate at a dilation is a membership test in the *)
(* set of the dilations that clear: nothing is assumed of its shape.       *)
(***************************************************************************)
EXTENDS Integers

CONSTANTS
  Cells,        \* grid cells: kGridPoints - 1
  CellSize,     \* dilations per cell
  Iterations,   \* bisection steps
  Width,        \* Width[k]: a bound of the bracket after k bisection steps
  NoDilation    \* nullopt, None

Span == Cells * CellSize
Dilation == 0 .. Span

ASSUME SearchAssumption ==
  /\ Cells \in Nat \ {0}
  /\ CellSize \in Nat \ {0}
  /\ Iterations \in Nat
  /\ Width \in [0 .. Iterations -> Nat]
  /\ Span <= Width[0]
  /\ \A k \in 0 .. Iterations : k < Iterations => Width[k] <= 2 * Width[k + 1]
  /\ NoDilation \notin Int

VARIABLES
  feasible,     \* the dilations whose retimed route clears the target margin
  candidates,   \* the closed-form candidates, strictly inside the interval
  pc,           \* the stage of the search
  lo, hi,       \* the bracket
  step,         \* bisection steps taken
  start,        \* history: the bracket's first lo
  result

problem == <<feasible, candidates>>
vars == <<problem, pc, lo, hi, step, start, result>>

TypeOK ==
  /\ feasible \subseteq Dilation \ {0}
  /\ candidates \subseteq 1 .. Span - 1
  /\ pc \in {"maximum", "candidates", "grid", "bisect", "done"}
  /\ lo \in Dilation /\ hi \in Dilation /\ start \in Dilation
  /\ step \in 0 .. Iterations
  /\ result \in Dilation \cup {NoDilation}

-----------------------------------------------------------------------------
Grid == {c * CellSize : c \in 0 .. Cells}
Probes == {0, Span} \cup candidates

\* b is the first of the points that clears and a the point just before it.
Crossing(points, a, b) ==
  /\ b \in points \cap feasible
  /\ \A p \in points \cap feasible : b <= p
  /\ a \in points /\ a < b
  /\ \A p \in points : p < b => p <= a

OpenBracket(a, b) ==
  /\ lo' = a /\ hi' = b /\ start' = a
  /\ step' = 0
  /\ pc' = "bisect"
  /\ UNCHANGED <<problem, result>>

MoveOn(stage) ==
  /\ pc' = stage
  /\ UNCHANGED <<problem, lo, hi, step, start, result>>

\* Mutation: lam_max is returned as soon as it clears.
TryMaximumOnly ==
  /\ pc = "maximum"
  /\ \/ /\ Span \in feasible
        /\ result' = Span /\ pc' = "done"
        /\ UNCHANGED <<problem, lo, hi, step, start>>
     \/ Span \notin feasible /\ MoveOn("candidates")

\* lam_max alone clears: bisect the whole interval.
TryMaximum ==
  /\ pc = "maximum"
  /\ \/ Span \in feasible /\ OpenBracket(0, Span)
     \/ Span \notin feasible /\ MoveOn("candidates")

\* Mutation: no candidate clears, so retiming is given up.
TryCandidatesOnly ==
  /\ pc = "candidates"
  /\ \/ \E a, b \in Probes : Crossing(Probes, a, b) /\ OpenBracket(a, b)
     \/ Probes \cap feasible = {} /\ MoveOn("done")

\* Python only: the closed-form candidates.  With none, nothing is found that
\* the probe of lam_max has not excluded.
TryCandidates ==
  /\ pc = "candidates"
  /\ \/ \E a, b \in Probes : Crossing(Probes, a, b) /\ OpenBracket(a, b)
     \/ Probes \cap feasible = {} /\ MoveOn("grid")

ScanGrid ==
  /\ pc = "grid"
  /\ \/ \E a, b \in Grid : Crossing(Grid, a, b) /\ OpenBracket(a, b)
     \/ Grid \cap feasible = {} /\ MoveOn("done")

\* Mutation: the halves are swapped.
BisectWrongHalf ==
  /\ pc = "bisect" /\ step < Iterations
  /\ LET mid == (lo + hi) \div 2
     IN  \/ mid \in feasible /\ lo' = mid /\ hi' = hi
         \/ mid \notin feasible /\ hi' = mid /\ lo' = lo
  /\ step' = step + 1
  /\ UNCHANGED <<problem, pc, start, result>>

Bisect ==
  /\ pc = "bisect" /\ step < Iterations
  /\ LET mid == (lo + hi) \div 2
     IN  \/ mid \in feasible /\ hi' = mid /\ lo' = lo
         \/ mid \notin feasible /\ lo' = mid /\ hi' = hi
  /\ step' = step + 1
  /\ UNCHANGED <<problem, pc, start, result>>

\* Mutation: one bisection step too few.
ReturnEarly ==
  /\ pc = "bisect" /\ step >= Iterations - 1
  /\ result' = hi
  /\ pc' = "done"
  /\ UNCHANGED <<problem, lo, hi, step, start>>

Return ==
  /\ pc = "bisect" /\ step = Iterations
  /\ result' = hi
  /\ pc' = "done"
  /\ UNCHANGED <<problem, lo, hi, step, start>>

\* The caller searches only when the route as it is (dilation 0) fails.
Init ==
  /\ feasible \in SUBSET (Dilation \ {0})
  /\ candidates \in SUBSET (1 .. Span - 1)
  /\ pc = "maximum"
  /\ lo = 0 /\ hi = 0 /\ start = 0 /\ step = 0
  /\ result = NoDilation

Next == TryMaximum \/ TryCandidates \/ ScanGrid \/ Bisect \/ Return

Spec == Init /\ [][Next]_vars

-----------------------------------------------------------------------------
Found == pc = "done" /\ result # NoDilation

\* "It cannot return an infeasible lambda even if the true feasible set is not
\* an interval" (local_planner.py): whatever set of dilations clears, the route
\* handed on by Level 1 clears.
ReturnsFeasible == Found => result \in feasible

\* The returned dilation sits on a boundary: within the resolution below it lies
\* a dilation that fails, so the route is never slowed past the crossing found.
EndsAtCrossing ==
  Found => \E d \in Dilation : /\ d \notin feasible
                               /\ d < result
                               /\ result - d <= Width[Iterations]

\* With a margin that only improves as the route slows down, the result is the
\* smallest feasible dilation, up to the resolution.
SmallestWhenMonotone ==
  (Found /\ \A d \in feasible : d .. Span \subseteq feasible)
    => \A d \in feasible : result <= d + Width[Iterations]

\* Giving up is honest: not one of the probed dilations clears.
GivesUpHonestly ==
  (pc = "done" /\ result = NoDilation) => (Grid \cup Probes) \cap feasible = {}
=============================================================================
