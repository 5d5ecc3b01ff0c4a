SPECIFICATION Spec
CONSTANTS
  None = None
  Data = {d1, d2}
  Packets = {p1, p2, p3}
  Frames = {f1, f2}
  Streams = {s1, s2}
  Keys = {k1, k2}
  Handlerless = {s2}
  ReleasesAtStop = FALSE
  MaxReads = 3
SYMMETRY Alike
INVARIANTS
  Ownership
  BytesAlive
  FramesApart
  AllReturned
CHECK_DEADLOCK FALSE
