------------------------------ MODULE RunMetrics ------------------------------
(***************************************************************************)
(* What the scripts read out of one run: compute_metrics.py, the alignment *)
(* of validate_prediction.py, and the times exp3_interaction_force.py and  *)
(* nominal_route_crossing.py look for.                                     *)
(*                                                                         *)
(* A bag has a sequence of messages per topic, in the order the reader     *)
(* returns them.  `at` is when a message was recorded, `stamp` its own     *)
(* time, on another clock.  The position error of a sample is a number of  *)
(* units, and a sample that lacks a goal joint is not whole.               *)
(***************************************************************************)
EXTENDS Integers, Sequences, FiniteSets, SequencesExt, FiniteSetsExt

CONSTANTS
  Settle,      \* SETTLE_WINDOW_S
  Tolerance,   \* POS_TOL_RAD
  Period,      \* dt of validate_prediction.py, in units of the stamps
  None

JointState == [at : Int, whole : BOOLEAN, err : Int]
Diagnostic == [at : Int, stamp : Int, acts : BOOLEAN, margin : Int \cup {None}, bind : Nat]

\* No two messages of a topic are recorded at the same time.
Distinct(msgs) == \A i, j \in DOMAIN msgs : msgs[i].at = msgs[j].at => i = j

BagSet ==
  {b \in [joints : Seq(JointState), sent : SUBSET Int, routes : SUBSET Int,
          diag : Seq(Diagnostic), routed : BOOLEAN] : Distinct(b.joints) /\ Distinct(b.diag)}

\* Sorted by the time of recording: the n-th message has n of them up to its time.
InTime(msgs) ==
  [n \in DOMAIN msgs |->
     CHOOSE d \in ToSet(msgs) : Cardinality({e \in ToSet(msgs) : e.at <= d.at}) = n]

-----------------------------------------------------------------------------
Final(joints) == CHOOSE j \in ToSet(joints) : \A k \in ToSet(joints) : k.at <= j.at

\* compute() raises: nothing recorded, or the last sample lacks a goal joint.
Unusable(joints) == joints = <<>> \/ ~Final(joints).whole

\* Mutation: the last sample alone, as before the settle window.
WindowOfOne(joints) == {Final(joints)}

Window(joints) ==
  {j \in ToSet(joints) : j.whole /\ j.at >= Final(joints).at - Settle}

TaskSuccess(joints) == \A j \in Window(joints) : j.err <= Tolerance

\* The last time the error was above the tolerance; the first sample if it never was.
LastViolation(joints) ==
  Max({Min({j.at : j \in ToSet(joints)})}
        \cup {j.at : j \in {k \in ToSet(joints) : k.whole /\ k.err > Tolerance}})

\* From the goal's request, or the first sample, until the route was received.
PlanningLatency(bag) ==
  IF bag.routes = {} THEN None
  ELSE Min(bag.routes)
         - Min(IF bag.sent = {} THEN {j.at : j \in ToSet(bag.joints)} ELSE bag.sent)

ExecutionDuration(bag) ==
  IF bag.routes = {} THEN None
  ELSE Max({0, LastViolation(bag.joints) - Min(bag.routes)})

-----------------------------------------------------------------------------
\* Interventions as events: the transitions from not intervening to intervening.
Starts(diag) ==
  FoldLeft(LAMBDA acc, d : [n |-> acc.n + IF d.acts /\ ~acc.was THEN 1 ELSE 0, was |-> d.acts],
           [n |-> 0, was |-> FALSE], diag).n

\* Mutation: transitions are counted in the order of reading.
EpisodesAsRead(diag) == Starts(diag)

Episodes(diag) == Starts(InTime(diag))

Samples(diag) == Cardinality({n \in DOMAIN diag : diag[n].acts})

\* A cycle that only holds the brake has no margin.
MinMargin(diag) ==
  LET margins == {d.margin : d \in ToSet(diag)} \ {None}
  IN IF margins = {} THEN None ELSE Min(margins)

Compute(bag) ==
  [success |-> TaskSuccess(bag.joints),
   latency |-> PlanningLatency(bag),
   execution |-> ExecutionDuration(bag),
   margin |-> MinMargin(bag.diag),
   samples |-> IF bag.diag = <<>> THEN None ELSE Samples(bag.diag),
   episodes |-> IF bag.diag = <<>> THEN None ELSE Episodes(bag.diag),
   routed |-> bag.routed]

-----------------------------------------------------------------------------
\* Since the start of the force schedule, if its log line was found.
ExecutionStart(diag, t0) ==
  IF t0 = None \/ diag = <<>> THEN None ELSE Min({d.stamp : d \in ToSet(diag)}) - t0

FirstDetection(diag, t0) ==
  LET sorted == InTime(diag)
      acting == {n \in DOMAIN diag : sorted[n].acts}
  IN IF t0 = None \/ acting = {} THEN None ELSE sorted[Min(acting)].stamp - t0

\* Mutation: the time stays relative to the goal's acceptance.
KeepAnchor(t, start) == t

\* Re-anchored to the start of execution.
Anchored(t, start) == IF t # None /\ start # None THEN t - start ELSE t

\* The first whole-route evaluation in the log; the next starts at step 0 again.
FirstBatch(log) ==
  LET restarts == {i \in DOMAIN log : i > 1 /\ log[i].step = 0}
  IN IF restarts = {} THEN log ELSE SubSeq(log, 1, Min(restarts) - 1)

\* The first time its margin is negative.
RouteCrossing(log) ==
  LET below == {n \in DOMAIN FirstBatch(log) : log[n].margin < 0}
  IN IF below = {} THEN None ELSE log[Min(below)].time

-----------------------------------------------------------------------------
Distance(a, b) == IF a < b THEN b - a ELSE a - b

\* The observation nearest to what d predicts, among those after d; the earlier of two.
Nearest(later, time) ==
  CHOOSE o \in later : \A p \in later :
    \/ Distance(o.stamp, time) < Distance(p.stamp, time)
    \/ Distance(o.stamp, time) = Distance(p.stamp, time) /\ o.stamp <= p.stamp

\* Mutation: an observation two cycles off is close enough, as it once was.
CloseWithinTwo(gap) == gap <= 2 * Period

Close(gap) == 2 * gap <= Period

\* Each prediction with the observation it is compared to.
Validated(diag) ==
  LET samples == {d \in ToSet(diag) : d.margin # None}
      Due(d) == d.stamp + d.bind * Period
      Later(d) == {o \in samples : o.stamp > d.stamp}
  IN {<<d, Nearest(Later(d), Due(d))>> :
        d \in {e \in samples :
               /\ e.bind > 0 /\ Later(e) # {}
               /\ Close(Distance(Nearest(Later(e), Due(e)).stamp, Due(e)))}}
=============================================================================
