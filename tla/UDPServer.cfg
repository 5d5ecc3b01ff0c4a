SPECIFICATION FairSpec
CONSTANTS
  NoStream = NoStream
  Streams = {s1, s2, s3}
  Timed = {s1, s2}
  KeepConn = {s2}
  CloseOnStreamClosed = TRUE
  Preset = FALSE
INVARIANTS
  OneOwner
  ShutdownComplete
  JudgedByOwnTime
PROPERTIES
  HandlerContract
  CloseTerminates
  StreamsClosedAtShutdown
  ServerFollowsStream
