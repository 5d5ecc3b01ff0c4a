-------------------------------- MODULE Frame --------------------------------
(***************************************************************************)
(* A frame, the packets of one timestamp and payload type, and the writer  *)
(* that sends it with other header fields (src/frame/frame.go).  A packet  *)
(* here is a layer and the time it came in.                                *)
(***************************************************************************)
EXTENDS Framing

(* ----------------------------- IncomingFrame ---------------------------- *)

ZeroTime == 0

\* NewFrame, and what Clear leaves; retyped is history.
EmptyFrame == [packets |-> <<>>, timestamp |-> Zeros(4), payloadType |-> 0,
               start |-> ZeroTime, end |-> ZeroTime, retyped |-> FALSE]

\* timeRangeExpand: a packet older than the last one moves the start back.
TimeRangeExpand(start, end, cur, n) ==
  LET guess == IF n > 2 THEN (end - start) \div (n - 2) ELSE 0
      offset == cur - end - guess
  IN  IF start = ZeroTime THEN <<cur, cur>>
      ELSE <<IF cur < end THEN start + offset ELSE start, cur>>

Belongs(f, l) == \/ f.packets = <<>>
                 \/ f.timestamp = l.timestamp /\ f.payloadType = l.payloadType

\* IncomingFrame.Append; the frame is unchanged when the packet is refused.
AppendPacket(f, l, time) ==
  LET range == TimeRangeExpand(f.start, f.end, time, Len(f.packets) + 1)
      first == f.packets = <<>>
  IN  IF ~Belongs(f, l) THEN f
      ELSE [f EXCEPT !.packets = Append(@, l),
                     !.timestamp = IF first THEN l.timestamp ELSE @,
                     !.payloadType = IF first THEN l.payloadType ELSE @,
                     !.start = range[1], !.end = range[2]]

SetFrameTimestamp(f, t) ==
  [f EXCEPT !.packets = [i \in DOMAIN @ |-> [@[i] EXCEPT !.timestamp = t]],
            !.timestamp = t]

\* The frame gets the type, its packets the bits of it.
SetFramePayloadType(f, t) ==
  [f EXCEPT !.packets = [i \in DOMAIN @ |-> SetPayloadType(@[i], t)],
            !.payloadType = t, !.retyped = TRUE]

(* ---------------------------- FullFrameWriter --------------------------- *)

\* A field to override is <<value>>, one that is left alone <<>>; size is the
\* cached size, 0 when unknown.
NewWriter(frame) == [frame |-> frame, size |-> 0, timestamp |-> <<>>,
                     payloadType |-> <<>>, seq |-> <<>>, ssrc |-> <<>>]

\* SetFrame
SetFrame(w, frame) == [w EXCEPT !.frame = frame, !.size = 0]

SumOf(ns) ==
  LET sum[i \in 0 .. Len(ns)] == IF i = 0 THEN 0 ELSE sum[i - 1] + ns[i]
  IN  sum[Len(ns)]

\* Size, and the writer that remembers it.
FrameSize(w) ==
  IF w.size # 0 THEN w.size
  ELSE SumOf([i \in DOMAIN w.frame.packets |-> Size(w.frame.packets[i]) + 2])
AskSize(w) == [w EXCEPT !.size = FrameSize(w)]

\* modifyPacket, on a copy of the header (detachPacket), for the i-th packet;
\* the writer counts its sequence number up with every packet.
ModifyPacket(w, i) ==
  LET l == w.frame.packets[i]
      typed == IF w.payloadType = <<>> THEN l ELSE SetPayloadType(l, w.payloadType[1])
  IN  [typed EXCEPT
        !.timestamp = IF w.timestamp = <<>> THEN @ ELSE w.timestamp[1],
        !.seq = IF w.seq = <<>> THEN @ ELSE (w.seq[1] + i - 1) % UInt16,
        !.ssrc = IF w.ssrc = <<>> THEN @ ELSE w.ssrc[1]]

\* WriteTo: the bytes, and the writer with its next sequence number.
FrameBytes(w) ==
  FlattenSeq([i \in DOMAIN w.frame.packets |->
                LET l == ModifyPacket(w, i) IN Framed(Size(l) % UInt16, WriteTo(l))])

\* mutant
AfterWriteForgets(w) == w

AfterWrite(w) ==
  IF w.seq = <<>> THEN w
  ELSE [w EXCEPT !.seq = <<(@[1] + Len(w.frame.packets)) % UInt16>>]

(* --------------------------- PayloadFrameWriter ------------------------- *)

PayloadSize(f) == SumOf([i \in DOMAIN f.packets |-> f.packets[i].payloadSize])
PayloadBytes(f) ==
  FlattenSeq([i \in DOMAIN f.packets |-> PayloadOf(f.packets[i])])
===============================================================================
