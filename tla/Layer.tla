-------------------------------- MODULE Layer --------------------------------
(***************************************************************************)
(* An RTP packet in memory and on the wire (src/rtp/layer.go): the setters *)
(* of Header and IncomingPayload, WriteTo, and UnmarshalChunks with the    *)
(* sizes it checks.  A layer is a record, an operation maps layers to      *)
(* layers.  The wire is a sequence of bytes; a word of the header (two or  *)
(* four bytes the code never looks into) is the sequence of its bytes.     *)
(***************************************************************************)
EXTENDS Integers, Sequences, SequencesExt

MinHeader == 12       \* RtpHeaderMinSize
WriteBufLen == 16     \* writeBufLen
MaxCSRC == 15         \* what four bits count
UInt8 == 256
UInt16 == 65536

\* Big-endian bytes of a uint16, and back.
Put16(n) == <<(n \div 256) % 256, n % 256>>
Get16(b) == b[1] * 256 + b[2]

Zeros(n) == [i \in 1 .. n |-> 0]
Cap(s, n) == IF Len(s) > n THEN SubSeq(s, 1, n) ELSE s

(* ---------------------------- Header, setters --------------------------- *)

\* What Header.Clear leaves, and what NewIncomingLayer makes.
Fresh == [version |-> 2, padding |-> FALSE, extension |-> FALSE,
          marker |-> FALSE, payloadType |-> 0, seq |-> 0,
          timestamp |-> Zeros(4), ssrc |-> Zeros(4), csrcList |-> <<>>,
          profile |-> Zeros(2), extContents |-> <<>>, paddingLength |-> 0,
          payload |-> <<>>, payloadSize |-> 0]

Bit(n, i) == (n \div 2^i) % 2
BitOr(a, b) == LET OneOf(i) == 2^i * (IF Bit(a, i) + Bit(b, i) = 0 THEN 0 ELSE 1)
               IN  OneOf(0) + OneOf(1) + OneOf(2) + OneOf(3)
                   + OneOf(4) + OneOf(5) + OneOf(6)

\* The payload type is or-ed into its byte, not assigned.
SetPayloadType(l, t) == [l EXCEPT !.payloadType = BitOr(@, t % 128)]

\* SetMarker, SetSequenceNumber, SetTimestamp and SetSSRC.
Stamp(l, s) == [l EXCEPT !.marker = s.marker, !.seq = s.seq,
                         !.timestamp = s.timestamp, !.ssrc = s.ssrc]

SetCSRCList(l, ws) == [l EXCEPT !.csrcList = Cap(ws, MaxCSRC)]

AddCSRC(l, w) ==
  IF Len(l.csrcList) < MaxCSRC THEN [l EXCEPT !.csrcList = Append(@, w)] ELSE l

AddCSRCList(l, ws) ==
  [l EXCEPT !.csrcList = @ \o Cap(ws, MaxCSRC - Len(@))]

\* Contents too long are cut to 15 words; the flag of the extension, which
\* decides whether they are sent, is left alone.
SetExtensionContents(l, ws) ==
  [l EXCEPT !.extContents = IF Len(ws) >= UInt16 THEN Cap(ws, 15) ELSE ws]

AddExtensionContents(l, ws) ==
  [l EXCEPT !.extContents = @ \o Cap(ws, UInt16 - 1 - Len(@))]

\* Any length raises the flag, zero as well.
SetPaddingLength(l, n) == [l EXCEPT !.paddingLength = n, !.padding = TRUE]

SetContent(l, c) == [l EXCEPT !.payload = <<c>>, !.payloadSize = Len(c)]

AddContent(l, c) == [l EXCEPT !.payload = Append(@, c), !.payloadSize = @ + Len(c)]

\* BuildIncomingLayer; the size of the payload is not set.
Build(c) == [c EXCEPT !.version = 2, !.padding = c.paddingLength > 0,
                      !.extension = c.extContents # <<>>,
                      !.payloadType = @ % 128, !.payloadSize = 0]

(* -------------------------------- WriteTo ------------------------------- *)

\* mutant
SizeByContents(l) == MinHeader + 4 * Len(l.csrcList)
  + (IF l.extContents # <<>> THEN 4 + 4 * Len(l.extContents) ELSE 0)
  + l.payloadSize + (IF l.padding THEN l.paddingLength ELSE 0)

\* combinedLayer.Size
Size(l) == MinHeader + 4 * Len(l.csrcList)
             + (IF l.extension THEN 4 + 4 * Len(l.extContents) ELSE 0)
             + l.payloadSize
             + (IF l.padding THEN l.paddingLength ELSE 0)

\* What the payload's own WriteTo writes.
PayloadOf(l) == FlattenSeq(l.payload)

\* BuildIncomingLayer leaves the size of the payload unknown.
Counted(l) == l.payloadSize = Len(PayloadOf(l))

\* The padding goes out a buffer at a time, its length in the last byte.
Padding(n) ==
  LET rest[remain \in 1 .. UInt8] ==
        IF remain <= WriteBufLen THEN Zeros(remain - 1) \o <<n>>
        ELSE Zeros(WriteBufLen) \o rest[remain - WriteBufLen]
  IN  rest[n]

Flag(b, weight) == IF b THEN weight ELSE 0

FirstByte(l) == 64 * l.version + Flag(l.padding, 32) + Flag(l.extension, 16)
                  + (Len(l.csrcList) % 16)

WriteTo(l) ==
  <<FirstByte(l), Flag(l.marker, 128) + l.payloadType>>
    \o Put16(l.seq) \o l.timestamp \o l.ssrc
    \o FlattenSeq(l.csrcList)
    \o (IF l.extension
        THEN l.profile \o Put16(Len(l.extContents) % UInt16)
               \o FlattenSeq(Cap(l.extContents, Len(l.extContents) % UInt16))
        ELSE <<>>)
    \o PayloadOf(l)
    \o (IF l.padding /\ l.paddingLength > 0 THEN Padding(l.paddingLength) ELSE <<>>)

(* ---------------------------- UnmarshalChunks --------------------------- *)

\* slice.Chunks: the first n bytes, flat; what follows them, and they
\* themselves, as chunks, of which some may be empty: nobody looks.
Total(cs) == Len(FlattenSeq(cs))
Slice(cs, n) == SubSeq(FlattenSeq(cs), 1, n)
Before(cs, i) == Total(SubSeq(cs, 1, i - 1))
CutFrom(cs, n) ==
  [i \in DOMAIN cs |-> IF n <= Before(cs, i) THEN cs[i]
                       ELSE SubSeq(cs[i], n - Before(cs, i) + 1, Len(cs[i]))]
CutTo(cs, n) ==
  [i \in DOMAIN cs |-> Cap(cs[i], IF n <= Before(cs, i) THEN 0 ELSE n - Before(cs, i))]

Words(b) == [i \in 1 .. Len(b) \div 4 |-> SubSeq(b, 4 * i - 3, 4 * i)]

\* A stage of the parsing: the layer so far, the bytes not consumed, the
\* least size the packet must have, and the error that ended it.
NoError == "none"
Stage(l, rest, min, err) == [layer |-> l, rest |-> rest, min |-> min, err |-> err]
Enough(length, min) == IF length < min THEN "PacketSizeNotEnough" ELSE NoError
Then(r, Next(_)) == IF r.err # NoError THEN r ELSE Next(r)

CSRCCountOf(b) == b[1] % 16

ParseBaseHeader(l, cs, length) ==
  LET b == Slice(cs, MinHeader)
      h == [l EXCEPT !.version = b[1] \div 64,
                     !.padding = (b[1] \div 32) % 2 = 1,
                     !.extension = (b[1] \div 16) % 2 = 1,
                     !.marker = b[2] >= 128, !.payloadType = b[2] % 128]
      min == MinHeader + 4 * CSRCCountOf(b) + Flag(h.extension, 4) + Flag(h.padding, 1)
  IN  IF h.version # 2 THEN Stage(h, cs, MinHeader, "InvalidVersion")
      ELSE Stage([h EXCEPT !.seq = Get16(SubSeq(b, 3, 4)),
                           !.timestamp = SubSeq(b, 5, 8), !.ssrc = SubSeq(b, 9, 12)],
                 CutFrom(cs, MinHeader), min, Enough(length, min))

\* The products are taken in uint8 and uint16, as the code does.
ParseCSRC(r, count) ==
  LET size == (4 * count) % UInt8
  IN  [r EXCEPT !.layer.csrcList = Words(Slice(r.rest, size)),
                !.rest = CutFrom(@, size)]

ParseExtension(r, length) ==
  IF ~r.layer.extension THEN r ELSE
  LET b == Slice(r.rest, 4)
      count == Get16(SubSeq(b, 3, 4))
      size == (4 * count) % UInt16
      min == r.min + 4 * count
      body == CutFrom(r.rest, 4)
      h == [r.layer EXCEPT !.profile = SubSeq(b, 1, 2)]
  IN  IF length < min THEN Stage(h, body, min, Enough(length, min))
      ELSE Stage([h EXCEPT !.extContents = Words(Slice(body, size))],
                 CutFrom(body, size), min, NoError)

ParsePadding(r, cs, length) ==
  IF ~r.layer.padding THEN r ELSE
  LET n == FlattenSeq(cs)[length]
      min == r.min + n - 1
      h == [r.layer EXCEPT !.paddingLength = n]
  IN  IF n = 0 THEN Stage(h, r.rest, r.min, "ZeroPaddingLength")
      ELSE Stage(h, r.rest, min, Enough(length, min))

ParsePayload(r, length) ==
  [r EXCEPT !.layer.payload = CutTo(r.rest, length - r.min),
            !.layer.payloadSize = length - r.min]

\* Into a layer that may hold the fields of an earlier packet.  Unmarshal is
\* the case of one chunk.
UnmarshalChunks(l, cs) ==
  LET length == Total(cs)
  IN  IF length < MinHeader THEN Stage(l, cs, MinHeader, "PacketSizeNotEnough")
      ELSE Then(ParseBaseHeader(l, cs, length), LAMBDA base :
           Then(ParseCSRC(base, CSRCCountOf(Slice(cs, 1))), LAMBDA csrc :
           Then(ParseExtension(csrc, length), LAMBDA ext :
           Then(ParsePadding(ext, cs, length), LAMBDA pad :
                ParsePayload(pad, length)))))

(* ------------------------------- Contents ------------------------------- *)

\* What a layer tells whoever reads it through its methods: fields that its
\* flags hide are not part of it.
View(l) ==
  <<l.marker, l.payloadType, l.seq, l.timestamp, l.ssrc, l.csrcList,
    IF l.extension THEN <<l.profile, l.extContents>> ELSE <<>>,
    PayloadOf(l), IF l.padding THEN l.paddingLength ELSE 0>>
===============================================================================
