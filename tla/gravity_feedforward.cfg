CONSTANTS
  j1 = j1
  j2 = j2
  Joint <- MCJoint
  Position <- MCPosition
  Velocity <- MCVelocity
  Content <- MCContent
  Unset = Unset
  NoMessage = NoMessage
  IGain <- MCIGain
  IClamp <- MCIClamp
  MaxMessages = 4
  MaxSwitches = 2
SPECIFICATION Spec
INVARIANTS
  TargetsAreRecent
  BumplessStart
PROPERTIES
  UnwindsAtOnce
