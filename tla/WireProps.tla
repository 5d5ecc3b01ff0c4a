------------------------------- MODULE WireProps -------------------------------
(* What must hold of packets sent over a byte stream. *)
EXTENDS Wire

\* However the stream is cut into chunks, the receiver gets what was sent, in
\* order, and stays in step behind what is no packet: Parser.Parse with
\* UnmarshalChunks into a reused layer against WriteTo and the setters, and
\* Reader.Read until it fails.  A packet received can be sent on unchanged.
D == INSTANCE Delivery
DeliversInOrder == D!Spec

\* Size tells what WriteTo writes, for every layer the setters can build: the
\* length in front of a packet and the buffers of Bytes are taken from it.  So do
\* the sizes of both writers of a frame, for the frame as it is now.
SizeIsWritten ==
  /\ Counted(draft) => Size(draft) = Len(WriteTo(draft))
  /\ LET w == SetFrame(writer, frame) IN FrameSize(w) = Len(FrameBytes(w))
  /\ PayloadSize(frame) = Len(PayloadBytes(frame))

\* A frame's times are in order whatever the order its packets come in, so
\* timeRangeExpand never panics.
FrameTimesOrdered == frame.start <= frame.end

\* The packets of a frame agree with it and with each other in timestamp and
\* payload type, also when Append refuses one or SetTimestamp changes them.
\* Not so the type of a frame whose own SetPayloadType was called: it is or-ed
\* into that of the packets (layer.go:277).
FrameIsUniform ==
  \A i \in DOMAIN frame.packets :
     /\ frame.packets[i].timestamp = frame.timestamp
     /\ ~frame.retyped => frame.packets[i].payloadType = frame.payloadType

\* A FullFrameWriter that was given a sequence number counts on from it across
\* packets and frames, past 65535, whatever the packets were numbered before.
NumbersFollow ==
  \A i \in 1 .. Len(rewritten) - 1 :
     rewritten[i + 1].seq = (rewritten[i].seq + 1) % UInt16

\* Everything sent has come out at the end of the stream, but for an empty
\* frame as the last, which the parser would report with the next byte.
Undelivered == SubSeq(sent, Len(got) + 1, Len(sent))
NothingLeft == phase = "ended" => Undelivered \in {<<>>, <<Whole(<<>>)>>}
===============================================================================
