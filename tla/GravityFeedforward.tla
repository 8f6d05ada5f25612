-------------------------- MODULE GravityFeedforward --------------------------
(***************************************************************************)
(* The gravity feedforward controller (gravity_feedforward_controller.cpp) *)
(* at the end of the online loop: the subscription's thread leaves the     *)
(* newest trajectory message in a RealtimeBuffer, the controller manager's *)
(* thread reads it in every update() and moves the controller through its  *)
(* life cycle; the arm moves between any two of these.                     *)
(*                                                                         *)
(* A message names some of the joints.  The integral state of a joint is   *)
(* kept as its torque, i_gain * integral_error; one period is the unit of  *)
(* time.  The feedforward, proportional and damping terms of the effort    *)
(* keep no state and are left out.                                         *)
(***************************************************************************)
EXTENDS Integers

CONSTANTS
  Joint,
  Position,     \* the positions of a joint
  Velocity,     \* the velocities a message may ask for
  Content,      \* the messages, without their number
  Unset,        \* no position for a named joint
  NoMessage,    \* the empty buffer
  IGain,        \* i_gains_
  IClamp,       \* i_clamp_
  MaxMessages,  \* bound: messages received
  MaxSwitches   \* bound: activations

Point == [q : Position \cup {Unset}, v : Velocity]

ASSUME ControllerAssumption ==
  /\ Position \subseteq Int /\ Unset \notin Position
  /\ 0 \in Velocity
  /\ \A c \in Content : DOMAIN c \subseteq Joint /\ \A i \in DOMAIN c : c[i] \in Point
  /\ IGain \in [Joint -> Int]
  /\ IClamp \in [Joint -> Nat]
  /\ MaxMessages \in Nat /\ MaxSwitches \in Nat

Message == [n : 1 .. MaxMessages, points : Content]
ASSUME NoMessageAssumption == NoMessage \notin Message

VARIABLES
  state,          \* the life cycle: unconfigured, inactive, active, finalized
  subscribed,     \* trajectory_sub_ exists
  pending,        \* rt_trajectory_: written, not yet read
  current,        \* rt_trajectory_: what readFromRT last returned
  target,         \* target_position_ and target_velocity_
  have_target,
  windup,         \* i_gains_ * integral_error_
  term,           \* the integral term of the last effort
  pos,            \* the measured positions
  received,       \* messages received so far
  switches,       \* activations so far
  since,          \* history: messages received before this activation
  from,           \* history: the message a joint's target position is from
  untouched       \* history: no update has seen a message or a moved arm

buffer == <<pending, current>>
targets == <<target, have_target, from>>
integral == <<windup, term>>
counters == <<received, switches>>
vars == <<state, subscribed, buffer, targets, integral, pos, counters, since, untouched>>

TypeOK ==
  /\ state \in {"unconfigured", "inactive", "active", "finalized"}
  /\ subscribed \in BOOLEAN
  /\ pending \in Message \cup {NoMessage} /\ current \in Message \cup {NoMessage}
  /\ target \in [Joint -> [q : Position \cup {0}, v : Velocity]]
  /\ have_target \in BOOLEAN
  /\ windup \in [Joint -> Int] /\ term \in [Joint -> Int]
  /\ pos \in [Joint -> Position]
  /\ received \in 0 .. MaxMessages /\ switches \in 0 .. MaxSwitches
  /\ since \in 0 .. received
  /\ from \in [Joint -> 0 .. received]
  /\ untouched \in BOOLEAN

-----------------------------------------------------------------------------
Still == [i \in Joint |-> 0]

\* The integral term is clamped, and with it the state it came from.
Clamped(i, x) ==
  IF IClamp[i] > 0
    THEN IF x > IClamp[i] THEN IClamp[i] ELSE IF x < -IClamp[i] THEN -IClamp[i] ELSE x
    ELSE x

\* What a joint's position error adds to its integral term.
Pull(i) == IGain[i] * (target[i].q - pos[i])

Heard == current # NoMessage
Named == IF Heard THEN DOMAIN current.points ELSE {}

\* A joint without a position in the message keeps its own.
Follow(old, p) == [q |-> IF p.q = Unset THEN old.q ELSE p.q, v |-> p.v]

-----------------------------------------------------------------------------
LifeCycle(here, next) ==
  /\ state = here /\ state' = next
  /\ UNCHANGED <<pos, received>>

\* on_configure; a chain that does not match the joints ends in on_error.
Configure ==
  \/ /\ LifeCycle("unconfigured", "inactive")
     /\ subscribed' = TRUE
     /\ target' = [i \in Joint |-> [q |-> 0, v |-> 0]]
     /\ have_target' = FALSE
     /\ from' = Still
     /\ UNCHANGED <<buffer, integral, switches, since, untouched>>
  \/ /\ LifeCycle("unconfigured", "finalized")
     /\ UNCHANGED <<subscribed, buffer, targets, integral, switches, since, untouched>>

\* Mutation: the messages of before stay in the buffer.
ActivateKeepsBuffer ==
  /\ LifeCycle("inactive", "active")
  /\ switches < MaxSwitches /\ switches' = switches + 1
  /\ target' = [i \in Joint |-> [q |-> pos[i], v |-> 0]]
  /\ have_target' = TRUE
  /\ windup' = Still /\ term' = Still
  /\ since' = received /\ from' = [i \in Joint |-> received] /\ untouched' = TRUE
  /\ UNCHANGED <<subscribed, buffer>>

\* Mutation: the last target of before is kept.
ActivateKeepsTarget ==
  /\ LifeCycle("inactive", "active")
  /\ switches < MaxSwitches /\ switches' = switches + 1
  /\ UNCHANGED target
  /\ have_target' = TRUE
  /\ windup' = Still /\ term' = Still
  /\ pending' = NoMessage /\ current' = NoMessage
  /\ since' = received /\ from' = [i \in Joint |-> received] /\ untouched' = TRUE
  /\ UNCHANGED subscribed

\* on_activate: hold where the arm is until a message arrives.
Activate ==
  /\ LifeCycle("inactive", "active")
  /\ switches < MaxSwitches /\ switches' = switches + 1
  /\ target' = [i \in Joint |-> [q |-> pos[i], v |-> 0]]
  /\ have_target' = TRUE
  /\ windup' = Still /\ term' = Still
  /\ pending' = NoMessage /\ current' = NoMessage
  /\ since' = received /\ from' = [i \in Joint |-> received] /\ untouched' = TRUE
  /\ UNCHANGED subscribed

Deactivate ==
  /\ LifeCycle("active", "inactive")
  /\ have_target' = FALSE
  /\ windup' = Still /\ term' = Still
  /\ UNCHANGED <<subscribed, buffer, target, from, switches, since, untouched>>

\* on_cleanup is not overridden: the subscription and the buffer stay.
CleanUp ==
  /\ LifeCycle("inactive", "unconfigured")
  /\ UNCHANGED <<subscribed, buffer, targets, integral, switches, since, untouched>>

\* The subscription's callback, on its own thread.
Receive ==
  /\ subscribed
  /\ received < MaxMessages /\ received' = received + 1
  /\ \E c \in Content : pending' = [n |-> received + 1, points |-> c]
  /\ UNCHANGED <<state, subscribed, current, targets, integral, pos, switches, since, untouched>>

\* readFromRT never waits: a write under way keeps the newer message back.
ReadBuffer ==
  \/ pending # NoMessage /\ current' = pending /\ pending' = NoMessage
  \/ UNCHANGED buffer

\* The message last read is applied again in every update.
PickUp ==
  /\ target' = [i \in Joint |->
       IF i \in Named' THEN Follow(target[i], current'.points[i]) ELSE target[i]]
  /\ from' = [i \in Joint |-> IF i \in Named' THEN current'.n ELSE from[i]]
  /\ have_target' = (have_target \/ Heard')

\* Mutation: the output alone is clamped.
IntegrateBehindClamp ==
  IF have_target'
    THEN /\ windup' = [i \in Joint |-> windup[i] + IGain[i] * (target'[i].q - pos[i])]
         /\ term' = [i \in Joint |-> Clamped(i, windup'[i])]
    ELSE UNCHANGED windup /\ term' = Still

Integrate ==
  IF have_target'
    THEN /\ windup' = [i \in Joint |->
              Clamped(i, windup[i] + IGain[i] * (target'[i].q - pos[i]))]
         /\ term' = windup'
    ELSE UNCHANGED windup /\ term' = Still

Update ==
  /\ state = "active"
  /\ ReadBuffer
  /\ PickUp
  /\ Integrate
  /\ untouched' = (untouched /\ ~Heard')
  /\ UNCHANGED <<state, subscribed, pos, counters, since>>

\* The arm follows its efforts, or whatever else moves it.
Move ==
  /\ \E i \in Joint : \E p \in Position \ {pos[i]} : pos' = [pos EXCEPT ![i] = p]
  /\ untouched' = FALSE
  /\ UNCHANGED <<state, subscribed, buffer, targets, integral, counters, since>>

Init ==
  /\ state = "unconfigured" /\ subscribed = FALSE
  /\ pending = NoMessage /\ current = NoMessage
  /\ target = [i \in Joint |-> [q |-> 0, v |-> 0]] /\ have_target = FALSE
  /\ windup = Still /\ term = Still
  /\ pos \in [Joint -> Position]
  /\ received = 0 /\ switches = 0
  /\ since = 0 /\ from = Still /\ untouched = FALSE

Next ==
  Configure \/ Activate \/ Deactivate \/ CleanUp \/ Receive \/ Update \/ Move

Spec == Init /\ [][Next]_vars

-----------------------------------------------------------------------------
\* An active controller never pursues a target of an earlier activation, nor one
\* that arrived while it was inactive: every target is the position held at
\* activation or from a message received since ("avoids commanding a jump toward
\* stale/uninitialized zeros", on_activate).
TargetsAreRecent ==
  state = "active" => have_target /\ \A i \in Joint : from[i] >= since

\* Activation is bumpless: until a message or a movement arrives the controller
\* holds the measured position at rest, and the integral adds no torque.
BumplessStart ==
  (state = "active" /\ untouched) =>
    \A i \in Joint : target[i] = [q |-> pos[i], v |-> 0] /\ term[i] = 0

\* "So a long saturated period doesn't keep growing unboundedly underneath the
\* clamp" (update): however long the error lasted, the integral torque recedes in
\* the very update in which the error has changed sign.
UnwindsAtOnce ==
  [][Update => \A i \in Joint :
       /\ term[i] > 0 /\ Pull(i)' < 0 => term'[i] < term[i]
       /\ term[i] < 0 /\ Pull(i)' > 0 => term'[i] > term[i]]_vars
=============================================================================
