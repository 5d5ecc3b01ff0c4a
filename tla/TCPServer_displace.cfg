SPECIFICATION Spec
CONSTANTS
  s1 = s1
  s2 = s2
  s3 = s3
  a1 = a1
  a2 = a2
  NoStream = NoStream
  NoChannel = NoChannel
  AddrOf <- OneAddr
  Streams = {s1, s2, s3}
  Channels = {1}
  Addrs = {a1}
  Timed = {s1, s2}
  KeepConn = {s2, s3}
  CloseOnStreamClosed = TRUE
  ChannelTimeout = TRUE
  MaxPackets = 2
  Overlap = FALSE
  Preset = FALSE
INVARIANTS
  BoundStreamHasNoServerTimer
  IdleChannelGuarded
PROPERTIES
  HandlerContract
