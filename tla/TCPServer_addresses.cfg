SPECIFICATION Spec
CONSTANTS
  s1 = s1
  s2 = s2
  s3 = s3
  a1 = a1
  a2 = a2
  NoStream = NoStream
  NoChannel = NoChannel
  AddrOf <- TwoAddrs
  Streams = {s1, s3}
  Channels = {1, 2}
  Addrs = {a1, a2}
  Timed = {s1}
  KeepConn = {}
  CloseOnStreamClosed = TRUE
  ChannelTimeout = FALSE
  MaxPackets = 1
  Overlap = FALSE
  Preset = FALSE
INVARIANTS
  ShutdownComplete
