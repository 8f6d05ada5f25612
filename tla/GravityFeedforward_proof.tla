----------------------- MODULE GravityFeedforward_proof -----------------------
(***************************************************************************)
(* Proofs about GravityFeedforward, for any joints, messages and gains.    *)
(***************************************************************************)
EXTENDS GravityFeedforward, TLAPS

\* What the buffer of an active controller holds was received while active.
BufferIsRecent ==
  \A m \in {pending, current} :
    m # NoMessage => m.n <= received /\ (state = "active" => m.n >= since)

\* The integral torque is the state it came from, and within the clamp.
IntegralOK ==
  /\ term = windup
  /\ \A i \in Joint : IClamp[i] > 0 => -IClamp[i] <= windup[i] /\ windup[i] <= IClamp[i]

IInv == TypeOK /\ BufferIsRecent /\ TargetsAreRecent /\ IntegralOK /\ BumplessStart

-----------------------------------------------------------------------------
\* Clamping yields an integer within the clamp, between 0 and its argument, and
\* strictly on its argument's side of a value within the clamp.
LEMMA ClampedFacts ==
  ASSUME NEW i \in Joint, NEW x \in Int
  PROVE  /\ Clamped(i, x) \in Int
         /\ IClamp[i] > 0 => -IClamp[i] <= Clamped(i, x) /\ Clamped(i, x) <= IClamp[i]
         /\ x = 0 => Clamped(i, x) = 0
         /\ \A w \in Int :
              (IClamp[i] > 0 => -IClamp[i] <= w /\ w <= IClamp[i])
                => /\ w > 0 /\ x < w => Clamped(i, x) < w
                   /\ w < 0 /\ x > w => Clamped(i, x) > w
<1>1. IClamp[i] \in Nat
  BY ControllerAssumption
<1> QED
  BY <1>1 DEF Clamped

\* A message of the buffer has a number and a point for each joint it names.
LEMMA MessageFacts ==
  ASSUME NEW m \in Message
  PROVE  /\ m.n \in 1 .. MaxMessages
         /\ m.points \in Content
         /\ \A i \in DOMAIN m.points : i \in Joint /\ m.points[i] \in Point
  BY ControllerAssumption DEF Message

\* A followed point yields a target.
LEMMA FollowFacts ==
  ASSUME NEW old \in [q : Position \cup {0}, v : Velocity], NEW p \in Point
  PROVE  Follow(old, p) \in [q : Position \cup {0}, v : Velocity]
  BY ControllerAssumption DEF Follow, Point

\* The error of a joint is an integer, and with it what it adds to the integral.
LEMMA PullFacts ==
  ASSUME NEW i \in Joint, NEW a \in Position \cup {0}, NEW b \in Position
  PROVE  IGain[i] * (a - b) \in Int /\ (a = b => IGain[i] * (a - b) = 0)
<1>1. IGain[i] \in Int /\ a \in Int /\ b \in Int
  BY ControllerAssumption
<1>2. a - b \in Int
  BY <1>1
<1>3. a = b => a - b = 0
  BY <1>1
<1>4. \A d \in Int : IGain[i] * d \in Int /\ (d = 0 => IGain[i] * d = 0)
  BY <1>1
<1> QED
  BY <1>2, <1>3, <1>4

-----------------------------------------------------------------------------
\* What an update does, for the proofs of its invariance.
LEMMA UpdateFacts ==
  ASSUME IInv, Update
  PROVE  /\ pending' \in Message \cup {NoMessage} /\ current' \in Message \cup {NoMessage}
         /\ \A m \in {pending', current'} : m # NoMessage => m \in {pending, current}
         /\ target' \in [Joint -> [q : Position \cup {0}, v : Velocity]]
         /\ from' \in [Joint -> 0 .. received]
         /\ \A i \in Joint : from'[i] >= since
         /\ have_target' = TRUE
         /\ ~Heard' => target' = target
<1> USE DEF IInv
<1>1. /\ pending' \in Message \cup {NoMessage} /\ current' \in Message \cup {NoMessage}
      /\ \A m \in {pending', current'} : m # NoMessage => m \in {pending, current}
    <2>1. pending \in Message \cup {NoMessage} /\ current \in Message \cup {NoMessage}
      BY DEF TypeOK
    <2>2. CASE pending # NoMessage /\ current' = pending /\ pending' = NoMessage
      BY <2>1, <2>2
    <2>3. CASE pending' = pending /\ current' = current
      BY <2>1, <2>3
    <2> QED
      BY <2>2, <2>3 DEF Update, ReadBuffer, buffer
<1>2. state = "active" /\ have_target = TRUE /\ \A i \in Joint : from[i] >= since
  BY DEF Update, TargetsAreRecent, TypeOK
<1>3. ASSUME NEW i \in Named'
      PROVE  current' \in Message /\ i \in Joint /\ current'.points[i] \in Point
    <2>1. Heard' /\ i \in DOMAIN current'.points
      BY <1>3 DEF Named
    <2>2. current' \in Message
      BY <2>1, <1>1 DEF Heard
    <2> QED
      BY <2>1, <2>2, MessageFacts
<1>4. ASSUME NEW i \in Joint
      PROVE  (IF i \in Named' THEN Follow(target[i], current'.points[i]) ELSE target[i])
               \in [q : Position \cup {0}, v : Velocity]
    <2>1. target[i] \in [q : Position \cup {0}, v : Velocity]
      BY DEF TypeOK
    <2>2. CASE i \in Named'
      BY <2>1, <2>2, <1>3, FollowFacts
    <2>3. CASE i \notin Named'
      BY <2>1, <2>3
    <2> QED
      BY <2>2, <2>3
<1>5. ASSUME NEW i \in Joint
      PROVE  LET n == IF i \in Named' THEN current'.n ELSE from[i]
             IN  n \in 0 .. received /\ n >= since
    <2>1. CASE i \in Named'
      <3>1. current' \in Message /\ current' # NoMessage
        BY <2>1, <1>3, NoMessageAssumption
      <3>2. current'.n \in 1 .. MaxMessages
        BY <3>1, MessageFacts
      <3>3. current'.n <= received /\ current'.n >= since
        BY <3>1, <1>1, <1>2 DEF BufferIsRecent
      <3> QED
        BY <2>1, <3>2, <3>3 DEF TypeOK
    <2>2. CASE i \notin Named'
      BY <2>2, <1>2 DEF TypeOK
    <2> QED
      BY <2>1, <2>2
<1>6. PickUp
  BY DEF Update
<1>7. target' \in [Joint -> [q : Position \cup {0}, v : Velocity]]
  BY <1>4, <1>6 DEF PickUp
<1>8. from' \in [Joint -> 0 .. received] /\ \A i \in Joint : from'[i] >= since
  BY <1>5, <1>6 DEF PickUp
<1>9. have_target' = TRUE
  BY <1>2, <1>6 DEF PickUp
<1>10. ~Heard' => target' = target
    <2>1. ~Heard' => Named' = {}
      BY DEF Named
    <2>2. target = [i \in Joint |-> target[i]]
      BY DEF TypeOK
    <2> QED
      BY <2>1, <2>2, <1>6 DEF PickUp
<1> QED
  BY <1>1, <1>7, <1>8, <1>9, <1>10

\* What an update does to the integral.
LEMMA IntegralFacts ==
  ASSUME IInv, Update
  PROVE  /\ windup' \in [Joint -> Int]
         /\ term' = windup'
         /\ \A i \in Joint :
              /\ IGain[i] * (target'[i].q - pos[i]) \in Int
              /\ target'[i].q = pos[i] => IGain[i] * (target'[i].q - pos[i]) = 0
              /\ windup'[i] = Clamped(i, windup[i] + IGain[i] * (target'[i].q - pos[i]))
              /\ windup[i] \in Int
<1>1. have_target' = TRUE /\ target' \in [Joint -> [q : Position \cup {0}, v : Velocity]]
  BY UpdateFacts
<1>2. /\ windup' = [i \in Joint |-> Clamped(i, windup[i] + IGain[i] * (target'[i].q - pos[i]))]
      /\ term' = windup'
  BY <1>1 DEF Update, Integrate
<1>3. ASSUME NEW i \in Joint
      PROVE  /\ IGain[i] * (target'[i].q - pos[i]) \in Int
             /\ target'[i].q = pos[i] => IGain[i] * (target'[i].q - pos[i]) = 0
             /\ windup[i] \in Int
             /\ Clamped(i, windup[i] + IGain[i] * (target'[i].q - pos[i])) \in Int
    <2>1. target'[i].q \in Position \cup {0} /\ pos[i] \in Position /\ windup[i] \in Int
      BY <1>1 DEF IInv, TypeOK
    <2>2. /\ IGain[i] * (target'[i].q - pos[i]) \in Int
          /\ target'[i].q = pos[i] => IGain[i] * (target'[i].q - pos[i]) = 0
      BY <2>1, PullFacts
    <2>3. windup[i] + IGain[i] * (target'[i].q - pos[i]) \in Int
      BY <2>1, <2>2
    <2> QED
      BY <2>1, <2>2, <2>3, ClampedFacts
<1> QED
  BY <1>2, <1>3

-----------------------------------------------------------------------------
\* No joint adds torque, is told a message, or has a target but zero.
LEMMA StillFacts ==
  /\ Still \in [Joint -> Int]
  /\ \A n \in Nat : Still \in [Joint -> 0 .. n]
  /\ [i \in Joint |-> [q |-> 0, v |-> 0]] \in [Joint -> [q : Position \cup {0}, v : Velocity]]
  BY ControllerAssumption DEF Still

LEMMA InitInvariant == Init => IInv
<1> SUFFICES ASSUME Init PROVE IInv
  OBVIOUS
<1>1. TypeOK
  <2>1. 0 \in 0 .. MaxMessages /\ 0 \in 0 .. MaxSwitches /\ 0 \in 0 .. 0
    BY ControllerAssumption
  <2> QED
    BY <2>1, StillFacts DEF Init, TypeOK
<1>2. IntegralOK
  BY ControllerAssumption DEF Init, IntegralOK, Still
<1> QED
  BY <1>1, <1>2 DEF Init, IInv, BufferIsRecent, TargetsAreRecent, BumplessStart

\* Each step preserves the invariant.
LEMMA NextInvariant == IInv /\ [Next]_vars => IInv'
<1> SUFFICES ASSUME IInv, [Next]_vars PROVE IInv'
  OBVIOUS
<1> USE DEF IInv
<1>1. CASE Configure
  <2>1. TypeOK'
    <3>1. from' \in [Joint -> 0 .. received]
      BY <1>1, StillFacts, ControllerAssumption DEF Configure, TypeOK, targets
    <3>2. target' \in [Joint -> [q : Position \cup {0}, v : Velocity]]
      BY <1>1, StillFacts DEF Configure, TypeOK, targets
    <3> QED
      BY <1>1, <3>1, <3>2 DEF Configure, LifeCycle, TypeOK, buffer, targets, integral
  <2>2. BufferIsRecent' /\ TargetsAreRecent' /\ BumplessStart'
    BY <1>1 DEF Configure, LifeCycle, BufferIsRecent, TargetsAreRecent, BumplessStart, buffer
  <2>3. IntegralOK'
    BY <1>1 DEF Configure, IntegralOK, integral
  <2> QED
    BY <2>1, <2>2, <2>3
<1>2. CASE Activate
  <2>1. TypeOK'
    BY <1>2, ControllerAssumption DEF Activate, LifeCycle, TypeOK, Still
  <2>2. BufferIsRecent'
    BY <1>2 DEF Activate, BufferIsRecent
  <2>3. TargetsAreRecent'
    BY <1>2 DEF Activate, LifeCycle, TargetsAreRecent, TypeOK
  <2>4. IntegralOK'
    BY <1>2, ControllerAssumption DEF Activate, IntegralOK, Still
  <2>5. BumplessStart'
    BY <1>2 DEF Activate, LifeCycle, BumplessStart, Still
  <2> QED
    BY <2>1, <2>2, <2>3, <2>4, <2>5
<1>3. CASE Deactivate
  <2>1. TypeOK'
    BY <1>3, StillFacts DEF Deactivate, LifeCycle, TypeOK, buffer
  <2>2. BufferIsRecent' /\ TargetsAreRecent' /\ BumplessStart'
    BY <1>3 DEF Deactivate, LifeCycle, BufferIsRecent, TargetsAreRecent, BumplessStart, buffer
  <2>3. IntegralOK'
    BY <1>3, ControllerAssumption DEF Deactivate, IntegralOK, Still
  <2> QED
    BY <2>1, <2>2, <2>3
<1>4. CASE CleanUp
  BY <1>4 DEF CleanUp, LifeCycle, TypeOK, BufferIsRecent, TargetsAreRecent, BumplessStart,
              IntegralOK, buffer, targets, integral
<1>5. CASE Receive
  <2>1. received' = received + 1 /\ received' \in 1 .. MaxMessages
    BY <1>5, ControllerAssumption DEF Receive, TypeOK
  <2>2. PICK c \in Content : pending' = [n |-> received + 1, points |-> c]
    BY <1>5 DEF Receive
  <2>3. pending' \in Message /\ pending'.n = received'
    BY <2>1, <2>2 DEF Message
  <2>4. TypeOK'
    BY <1>5, <2>1, <2>3 DEF Receive, TypeOK, targets, integral
  <2>5. BufferIsRecent'
    <3>1. pending'.n >= since
      BY <2>1, <2>3 DEF TypeOK
    <3>2. current # NoMessage => current.n \in Nat /\ current.n <= received'
      BY <2>1, MessageFacts DEF TypeOK, BufferIsRecent
    <3> QED
      BY <1>5, <2>1, <2>3, <3>1, <3>2 DEF Receive, BufferIsRecent, TypeOK
  <2>6. TargetsAreRecent' /\ BumplessStart' /\ IntegralOK'
    BY <1>5 DEF Receive, TargetsAreRecent, BumplessStart, IntegralOK, targets, integral
  <2> QED
    BY <2>4, <2>5, <2>6
<1>6. CASE Update
  <2>0. UNCHANGED <<state, subscribed, pos, received, switches, since>>
    BY <1>6 DEF Update, counters
  <2>1. TypeOK'
    BY <1>6, <2>0, UpdateFacts, IntegralFacts DEF Update, TypeOK
  <2>2. BufferIsRecent'
    BY <1>6, <2>0, UpdateFacts DEF BufferIsRecent
  <2>3. TargetsAreRecent'
    BY <1>6, <2>0, UpdateFacts DEF TargetsAreRecent
  <2>4. IntegralOK'
    <3>1. ASSUME NEW i \in Joint, IClamp[i] > 0
          PROVE  -IClamp[i] <= windup'[i] /\ windup'[i] <= IClamp[i]
      BY <1>6, <3>1, IntegralFacts, ClampedFacts
    <3> QED
      BY <1>6, <3>1, IntegralFacts DEF IntegralOK
  <2>5. BumplessStart'
    <3>1. SUFFICES ASSUME state' = "active", untouched', NEW i \in Joint
                   PROVE  target'[i] = [q |-> pos'[i], v |-> 0] /\ term'[i] = 0
      BY DEF BumplessStart
    <3>2. state = "active" /\ untouched /\ ~Heard'
      BY <1>6, <3>1 DEF Update
    <3>3. target' = target /\ target[i] = [q |-> pos[i], v |-> 0] /\ windup[i] = 0
      BY <1>6, <3>2, UpdateFacts DEF BumplessStart, IntegralOK
    <3>4. target'[i].q = pos[i]
      BY <3>3
    <3>5. windup'[i] = Clamped(i, 0)
      BY <1>6, <3>3, <3>4, IntegralFacts
    <3>6. term'[i] = 0
      BY <1>6, <3>5, IntegralFacts, ClampedFacts
    <3> QED
      BY <2>0, <3>3, <3>6
  <2> QED
    BY <2>1, <2>2, <2>3, <2>4, <2>5
<1>7. CASE Move
  <2>1. TypeOK'
    BY <1>7 DEF Move, TypeOK, buffer, targets, integral, counters
  <2>2. BufferIsRecent' /\ TargetsAreRecent' /\ BumplessStart' /\ IntegralOK'
    BY <1>7 DEF Move, BufferIsRecent, TargetsAreRecent, BumplessStart, IntegralOK,
                buffer, targets, integral, counters
  <2> QED
    BY <2>1, <2>2
<1>8. CASE UNCHANGED vars
  BY <1>8 DEF vars, TypeOK, BufferIsRecent, TargetsAreRecent, BumplessStart,
              IntegralOK, buffer, targets, integral, counters
<1> QED
  BY <1>1, <1>2, <1>3, <1>4, <1>5, <1>6, <1>7, <1>8 DEF Next

-----------------------------------------------------------------------------
\* The inductive invariant: types, the age of what the buffer and the targets
\* hold, the clamp on the integral, and the bumpless start.
THEOREM ControllerInvariant == Spec => []IInv
<1> QED
  BY InitInvariant, NextInvariant, PTL DEF Spec

\* An active controller never pursues a target of before its activation
\* (on_activate, update).
THEOREM NoStaleTarget == Spec => []TargetsAreRecent
<1>1. IInv => TargetsAreRecent
  BY DEF IInv
<1> QED
  BY <1>1, ControllerInvariant, PTL

\* Until a message or a movement arrives, activation holds the measured position
\* and the integral adds no torque (on_activate, update).
THEOREM StartsBumpless == Spec => []BumplessStart
<1>1. IInv => BumplessStart
  BY DEF IInv
<1> QED
  BY <1>1, ControllerInvariant, PTL

\* The anti-windup of update(): for every gain and clamp the integral torque
\* recedes as soon as the error has changed sign.
THEOREM NeverWindsUp == Spec => UnwindsAtOnce
<1>1. ASSUME IInv, [Next]_vars
      PROVE  [Update => \A i \in Joint :
                /\ term[i] > 0 /\ Pull(i)' < 0 => term'[i] < term[i]
                /\ term[i] < 0 /\ Pull(i)' > 0 => term'[i] > term[i]]_vars
  <2>1. SUFFICES ASSUME Update, NEW i \in Joint
                 PROVE  /\ term[i] > 0 /\ Pull(i)' < 0 => term'[i] < term[i]
                        /\ term[i] < 0 /\ Pull(i)' > 0 => term'[i] > term[i]
    OBVIOUS
  <2> DEFINE pull == IGain[i] * (target'[i].q - pos[i])
  <2>2. Pull(i)' = pull
    BY <2>1 DEF Pull, Update
  <2>3. /\ pull \in Int /\ windup[i] \in Int
        /\ windup'[i] = Clamped(i, windup[i] + pull)
        /\ term'[i] = windup'[i] /\ term[i] = windup[i]
    BY <1>1, <2>1, IntegralFacts DEF IInv, IntegralOK
  <2>4. IClamp[i] > 0 => -IClamp[i] <= windup[i] /\ windup[i] <= IClamp[i]
    BY <1>1 DEF IInv, IntegralOK
  <2> HIDE DEF pull
  <2>5. /\ windup[i] > 0 /\ pull < 0 => windup'[i] < windup[i]
        /\ windup[i] < 0 /\ pull > 0 => windup'[i] > windup[i]
    <3>1. windup[i] + pull \in Int
      BY <2>3
    <3>2. /\ pull < 0 => windup[i] + pull < windup[i]
          /\ pull > 0 => windup[i] + pull > windup[i]
      BY <2>3
    <3> QED
      BY <2>3, <2>4, <3>1, <3>2, ClampedFacts
  <2> QED
    BY <2>2, <2>3, <2>5
<1> QED
  BY <1>1, ControllerInvariant, PTL DEF Spec, UnwindsAtOnce

\* The variables keep their types, for any joints and messages.
THEOREM ControllerTypes == Spec => []TypeOK
<1>1. IInv => TypeOK
  BY DEF IInv
<1> QED
  BY <1>1, ControllerInvariant, PTL
=============================================================================
