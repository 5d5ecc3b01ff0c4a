SPECIFICATION Spec
CONSTANTS
  s1 = s1
  s2 = s2
  s3 = s3
  a1 = a1
  a2 = a2
  NoStream = NoStream
  NoChannel = NoChannel
  AddrOf <- OneAddr
  Streams = {s1, s2}
  Channels = {1, 2}
  Addrs = {a1}
  Timed = {s1}
  KeepConn = {s2}
  CloseOnStreamClosed = TRUE
  ChannelTimeout = FALSE
  MaxPackets = 1
  Overlap = TRUE
  Preset = FALSE
INVARIANTS
  TypeOK
  NoStreamLost
  SingleOwner
  ChannelsInReach
  ShutdownComplete
