------------------------------- MODULE Framing -------------------------------
(***************************************************************************)
(* Packets on a byte stream, each after the two bytes of its length: the   *)
(* incremental Parser of the TCP channel (src/rtp/parser.go), the blocking *)
(* Reader and the Writer used for files (reader.go, writer.go).  Pure      *)
(* operations on their state; Wire composes them.                          *)
(***************************************************************************)
EXTENDS Layer

CONSTANT MaxPacketSize   \* math.MaxUint16

ASSUME FramingAssumption == MaxPacketSize \in MinHeader .. UInt16 - 1

Drop(s, n) == SubSeq(s, n + 1, Len(s))

(* -------------------------------- Parser -------------------------------- *)

\* Parser.reset: bytes of the length seen, bytes of the packet still needed,
\* and the chunks collected of it.
Reset == [header |-> <<>>, need |-> 0, cache |-> <<>>]

\* The parser after a call, the layer it unmarshals into, what is left of the
\* chunk, and the result: a packet, an error, or more bytes needed.
Outcome(parser, layer, remain, result) ==
  [parser |-> parser, layer |-> layer, remain |-> remain, result |-> result]

\* mutant
ParseBodyKeepsError(p, layer, buf) ==
  IF Len(buf) < p.need
  THEN Outcome([p EXCEPT !.cache = Append(@, buf), !.need = @ - Len(buf)],
               layer, <<>>, "more")
  ELSE LET r == UnmarshalChunks(layer, Append(p.cache, SubSeq(buf, 1, p.need)))
       IN  Outcome(IF r.err = NoError THEN Reset ELSE [p EXCEPT !.need = 0], r.layer,
                   Drop(buf, p.need), IF r.err = NoError THEN "packet" ELSE r.err)

\* mutant
ParseBodyWantsMore(p, layer, buf) ==
  IF Len(buf) <= p.need
  THEN Outcome([p EXCEPT !.cache = Append(@, buf), !.need = @ - Len(buf)],
               layer, <<>>, "more")
  ELSE LET r == UnmarshalChunks(layer, Append(p.cache, SubSeq(buf, 1, p.need)))
       IN  Outcome(Reset, r.layer, Drop(buf, p.need),
                   IF r.err = NoError THEN "packet" ELSE r.err)

\* Once the length is known.
ParseBody(p, layer, buf) ==
  IF buf = <<>> THEN Outcome(p, layer, <<>>, "more")
  ELSE IF Len(buf) < p.need
  THEN Outcome([p EXCEPT !.cache = Append(@, buf), !.need = @ - Len(buf)],
               layer, <<>>, "more")
  ELSE LET r == UnmarshalChunks(layer, Append(p.cache, SubSeq(buf, 1, p.need)))
       IN  Outcome(Reset, r.layer, Drop(buf, p.need),
                   IF r.err = NoError THEN "packet" ELSE r.err)

\* One call of Parse on a chunk that is not empty.
Parse(p, layer, buf) ==
  LET hn == 2 - Len(p.header)
      h == p.header \o SubSeq(buf, 1, hn)
  IN  IF hn = 0 THEN ParseBody(p, layer, buf)
      ELSE IF Len(buf) < hn
      THEN Outcome([p EXCEPT !.header = @ \o buf], layer, <<>>, "more")
      ELSE ParseBody([p EXCEPT !.header = h, !.need = Get16(h)], layer, Drop(buf, hn))

(* -------------------------------- Reader -------------------------------- *)

\* Reader.Read keeps the buffer it fills: the two bytes of the length, or a
\* packet of that length.
StartRead == [size |-> 2, buf |-> <<>>, body |-> FALSE]
Wanted(r) == r.size - Len(r.buf)

\* Bytes b have come in: go on, return an error, or return a packet.
ReadStep(r, b) ==
  LET buf == r.buf \o b
      u == UnmarshalChunks(Fresh, <<buf>>)
  IN  IF Len(buf) < r.size
      THEN [reader |-> [r EXCEPT !.buf = buf], result |-> "more", layer |-> Fresh]
      ELSE IF ~r.body /\ Get16(buf) < MinHeader
      THEN [reader |-> StartRead, result |-> "PacketSizeNotEnough", layer |-> Fresh]
      ELSE IF ~r.body
      THEN [reader |-> [size |-> Get16(buf), buf |-> <<>>, body |-> TRUE],
            result |-> "more", layer |-> Fresh]
      ELSE [reader |-> StartRead, layer |-> u.layer,
            result |-> IF u.err = NoError THEN "packet" ELSE u.err]

(* -------------------------------- Writer -------------------------------- *)

Framed(size, bytes) == Put16(size) \o bytes

\* Writer.Write: a packet that is too long is left out without an error.
Fits(l) == Size(l) <= MaxPacketSize
Written(l) == IF Fits(l) THEN Framed(Size(l), WriteTo(l)) ELSE <<>>
===============================================================================
