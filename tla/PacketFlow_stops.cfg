SPECIFICATION Spec
CONSTANTS
  None = None
  Data = {d1, d2}
  Packets = {p1, p2, p3}
  Frames = {f1, f2}
  Streams = {s1, s2}
  Keys = {k1, k2}
  Handlerless = {}
  ReleasesAtStop = TRUE
  MaxReads = 3
SYMMETRY Alike
INVARIANT ReleasedOnce
CHECK_DEADLOCK FALSE
