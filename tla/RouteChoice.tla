----------------------------- MODULE RouteChoice ------------------------------
(***************************************************************************)
(* What planning promises of the route it hands to the online loop, in one *)
(* step: the least intrusive adaptation that clears the certificate.       *)
(*                                                                         *)
(* The six adaptations, in the order in which plan_route (local_planner.py)*)
(* and addTrajectorySegment (horizon_trajectory_operator.cpp) prefer them: *)
(*   0  the primary route as it is       3  the via route as it is         *)
(*   1  the primary route retimed        4  the via route retimed          *)
(*   2  the primary route reshaped       5  the via route reshaped         *)
(***************************************************************************)
EXTENDS Integers

CONSTANTS
  Span,       \* dilations 1 .. Span of a route; 0 is the route as it is
  Grid        \* the dilations every search evaluates

ASSUME DilationAssumption == Span \in Nat /\ Grid \subseteq 1 .. Span

Base == {"primary", "via"}
Route == {r \in [base : Base, slow : 0 .. Span, bent : BOOLEAN] : r.bent => r.slow = 0}
Plain(b) == [base |-> b, slow |-> 0, bent |-> FALSE]
Slowed(b, d) == [base |-> b, slow |-> d, bent |-> FALSE]
Bent(b) == [base |-> b, slow |-> 0, bent |-> TRUE]

Config == [predict : BOOLEAN, act : BOOLEAN, allow : SUBSET {1, 2, 3},
           candidate : BOOLEAN, pretrack : BOOLEAN]

VARIABLES
  config,     \* the ablation flags; whether a via route is supplied; pretracking
  clear,      \* the routes that clear m_safe under the forces they would meet
  solved,     \* the bases whose reshape QP is solved
  decision    \* level, route and whether the certificate was triggered

facts == <<config, clear, solved>>

Undecided == [level |-> -1, route |-> Plain("primary"), triggered |-> FALSE]
Decided(l, r, t) == [level |-> l, route |-> r, triggered |-> t]
Decision == [level : -1 .. 3, route : Route, triggered : BOOLEAN]

FactsOK ==
  /\ config \in Config
  /\ clear \in SUBSET Route
  /\ solved \in SUBSET Base

-----------------------------------------------------------------------------
Rank == 0 .. 5
BaseOf(k) == IF k < 3 THEN "primary" ELSE "via"
LevelOf(k) == IF k < 3 THEN k ELSE 3

Permitted(k) ==
  /\ k \in {1, 4} => 1 \in config.allow
  /\ k \in {2, 5} => 2 \in config.allow
  /\ k >= 3 => 3 \in config.allow /\ config.candidate

\* The routes adaptation k may come up with, and those it never overlooks.
Offers(k) ==
  IF ~Permitted(k) THEN {}
  ELSE IF k \in {0, 3} THEN {Plain(BaseOf(k))}
  ELSE IF k \in {1, 4} THEN {Slowed(BaseOf(k), d) : d \in 1 .. Span}
  ELSE {Bent(b) : b \in solved \cap {BaseOf(k)}}

Sure(k) ==
  IF k \in {1, 4} THEN {r \in Offers(k) : r.slow \in Grid} ELSE Offers(k)

Exhausted(k) == Sure(k) \cap clear = {}

Adapts == config.predict /\ config.act

-----------------------------------------------------------------------------
\* Prediction or action is ablated: the route is left as it is.
LeaveAlone ==
  /\ ~Adapts
  /\ decision' = Decided(0, Plain("primary"),
                         config.predict /\ Plain("primary") \notin clear)

\* The first adaptation that clears; a later one only after those before it.
Adapt ==
  /\ Adapts
  /\ \E k \in Rank : \E r \in Offers(k) \cap clear :
       /\ \A j \in Rank : j < k => Exhausted(j)
       /\ decision' = Decided(LevelOf(k), r, k # 0)

\* Nothing clears: the online levels must cope with the primary route.
FallBack ==
  /\ Adapts
  /\ \A j \in Rank : Exhausted(j)
  /\ decision' = Decided(0, Plain("primary"), TRUE)

Choose ==
  /\ decision = Undecided
  /\ LeaveAlone \/ Adapt \/ FallBack
  /\ UNCHANGED facts

Init == FactsOK /\ decision = Undecided

Spec == Init /\ [][Choose]_<<facts, decision>>
=============================================================================
