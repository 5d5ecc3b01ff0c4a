SPECIFICATION Spec
CONSTANTS
  SecMaxErr = 2
  MaxSerializedErr = 2
  Second = 1
  Me = me
  Addrs = {me, you}
  SSRCs = {1, 2}
  MySSRC = 1
  NoAddr = NoAddr
  NoSSRC = NoSSRC
  W = 3
  FirstSeq = 2
  MaxSent = 4
  MaxEvents = 4
  MaxSets = 2
  MaxTime = 2
INVARIANTS
  OneSource
  LossesTrue
  ChooserExact
PROPERTIES
  InForce
CHECK_DEADLOCK FALSE
