--------------------------------- MODULE Wire ---------------------------------
(***************************************************************************)
(* From a layer being built to a layer received: a sender edits a layer    *)
(* and writes it, alone (rtp.Writer) or in frames (FullFrameWriter), to a  *)
(* byte stream on which the peer may put other things too; a receiver      *)
(* reads the stream in chunks cut anywhere (the loop of TCPChannel.run     *)
(* around Parser.Parse), or as a file (rtp.Reader).                        *)
(* The sender ends before the receiver begins: a read sees a prefix of     *)
(* what is left, which is all that reading earlier could show.             *)
(***************************************************************************)
EXTENDS Frame

CONSTANTS
  Stamps,        \* marker, sequence number, timestamp and SSRC together
  Configs,       \* what BuildIncomingLayer is given
  PayloadTypes, WordLists, Paddings, Contents,   \* arguments of the setters
  Times,         \* times packets come in
  Junk,          \* framed byte sequences that are no packet
  MaxSent,       \* bound: packets and junk on the stream
  MaxEffort      \* bound: setters called and chunks read, together

\* What the arguments are: bytes, words of four bytes, lists of words.
Byte == 0 .. UInt8 - 1
IsWord(b) == b \in Seq(Byte) /\ Len(b) = 4
IsWordList(ws) == ws \in Seq(Seq(Byte)) /\ \A i \in DOMAIN ws : IsWord(ws[i])

\* BuildIncomingLayer takes what it is given: the counts are assumed to be
\* those a header has room for, which the setters see to by themselves.
IsConfig(c) ==
  /\ DOMAIN c = DOMAIN Fresh
  /\ c.marker \in BOOLEAN /\ c.payloadType \in Byte /\ c.seq \in 0 .. UInt16 - 1
  /\ IsWord(c.timestamp) /\ IsWord(c.ssrc)
  /\ c.profile \in Seq(Byte) /\ Len(c.profile) = 2
  /\ IsWordList(c.csrcList) /\ Len(c.csrcList) <= MaxCSRC
  /\ IsWordList(c.extContents) /\ Len(c.extContents) < UInt16
  /\ c.paddingLength \in Byte
  /\ c.payload \in Seq(Seq(Byte))

ASSUME WireAssumption ==
  /\ Times \subseteq Int
  /\ \A c \in Configs : IsConfig(c)
  /\ \A s \in Stamps : /\ s.marker \in BOOLEAN /\ s.seq \in 0 .. UInt16 - 1
                        /\ IsWord(s.timestamp) /\ IsWord(s.ssrc)
  /\ PayloadTypes \subseteq Byte
  /\ \A ws \in WordLists : IsWordList(ws)
  /\ Paddings \subseteq Byte /\ Contents \subseteq Seq(Byte)
  /\ \A b \in Junk : b \in Seq(Byte) /\ Len(b) < UInt16

VARIABLES
  draft,             \* the layer of the sender
  frame, writer,     \* IncomingFrame being filled, FullFrameWriter
  wire, sent,        \* bytes on the stream; what each packet should come to
  phase,             \* send, parse or read, ended or failed
  effort,            \* setters called and chunks read so far
  pos,               \* bytes the receiver has taken
  chunk,             \* rest of the chunk in the loop of run
  parser, layer,     \* Parser, and the layer it reuses
  reader,            \* Reader
  rewritten,         \* headers the writer has sent under its own numbers
  got                \* what the receiver has made of the stream

sendVars == <<draft, frame, writer, wire, sent, rewritten>>
recvVars == <<pos, chunk, parser, layer, reader, got>>
vars == <<sendVars, phase, effort, recvVars>>

\* NewIncomingLayer and BuildIncomingLayer.
Layers == {Fresh} \cup {Build(c) : c \in Configs}

Init ==
  /\ draft \in Layers
  /\ frame = EmptyFrame
  /\ writer = NewWriter(EmptyFrame)
  /\ wire = <<>> /\ sent = <<>> /\ rewritten = <<>>
  /\ phase = "send"
  /\ effort = 0
  /\ pos = 0 /\ chunk = <<>>
  /\ parser = Reset /\ layer = Fresh /\ reader = StartRead
  /\ got = <<>>

\* One thing received: a packet, by what it shows and what it would be
\* written as again, or the error it was.
Packet(l) == [err |-> NoError, view |-> View(l), bytes |-> WriteTo(l)]
Failure(e) == [err |-> e, view |-> <<>>, bytes |-> <<>>]

\* What bytes come to when parsed in one piece into a new layer.
Whole(bytes) == LET r == UnmarshalChunks(Fresh, <<bytes>>)
                IN  IF r.err = NoError THEN Packet(r.layer) ELSE Failure(r.err)

\* What a layer must come to; a padding flag without padding is not RTP, and
\* such a layer may come to anything that keeps the stream in step.
Sound(l) == l.padding => l.paddingLength > 0
Expected(l) == IF Sound(l) THEN Packet(l) ELSE Whole(WriteTo(l))

(* -------------------------------- sender -------------------------------- *)

Sending == phase = "send" /\ UNCHANGED <<phase, recvVars>>
Calls == effort + 1 < MaxEffort /\ effort' = effort + 1

\* The layer after one call, another layer too; a writer after one setter.
Edits(l) ==
  UNION {Layers, {Stamp(l, s) : s \in Stamps}, {SetPayloadType(l, t) : t \in PayloadTypes},
         {SetCSRCList(l, ws) : ws \in WordLists},
         {AddCSRC(l, ws[1]) : ws \in WordLists \ {<<>>}},
         {AddCSRCList(l, ws) : ws \in WordLists},
         {SetExtensionContents(l, ws) : ws \in WordLists},
         {AddExtensionContents(l, ws) : ws \in WordLists},
         {SetPaddingLength(l, n) : n \in Paddings},
         {SetContent(l, c) : c \in Contents}, {AddContent(l, c) : c \in Contents}}

\* A payload type that has no room in its seven bits is ignored.
Overrides(w) ==
  UNION {{[w EXCEPT !.timestamp = v] : v \in {<<>>} \cup {<<s.timestamp>> : s \in Stamps}},
         {[w EXCEPT !.payloadType = v] :
            v \in {<<>>} \cup {<<t>> : t \in {u \in PayloadTypes : u < 128}}},
         {[w EXCEPT !.seq = v] : v \in {<<>>} \cup {<<s.seq>> : s \in Stamps}},
         {[w EXCEPT !.ssrc = v] : v \in {<<>>} \cup {<<s.ssrc>> : s \in Stamps}}}

Edit == /\ Sending
        /\ Calls
        /\ draft' \in Edits(draft)
        /\ UNCHANGED <<frame, writer, wire, sent, rewritten>>

\* Setting the sequence number, or giving it up, starts a new numbering.
Override == /\ Sending
            /\ Calls
            /\ writer' \in Overrides(writer)
            /\ rewritten' = IF writer'.seq = writer.seq THEN rewritten ELSE <<>>
            /\ UNCHANGED <<draft, frame, wire, sent>>

WriteDraft ==
  /\ Sending
  /\ Counted(draft)
  /\ Len(sent) < MaxSent
  /\ wire' = wire \o Written(draft)
  /\ sent' = IF Fits(draft) THEN Append(sent, Expected(draft)) ELSE sent
  /\ UNCHANGED <<draft, effort, frame, writer, rewritten>>

\* Packets of frames have been received: they fit, and know their size.
Collect == /\ Sending
           /\ Fits(draft) /\ Counted(draft)
           /\ Len(sent) + Len(frame.packets) < MaxSent
           /\ \E t \in Times : frame' = AppendPacket(frame, draft, t)
           /\ UNCHANGED <<draft, effort, writer, wire, sent, rewritten>>

\* SetTimestamp and SetPayloadType of the frame, on every packet of it.
Retime == /\ Sending
          /\ Calls
          /\ \E s \in Stamps : frame' = SetFrameTimestamp(frame, s.timestamp)
          /\ UNCHANGED <<draft, writer, wire, sent, rewritten>>

Retype == /\ Sending
          /\ Calls
          /\ \E t \in PayloadTypes : frame' = SetFramePayloadType(frame, t)
          /\ UNCHANGED <<draft, writer, wire, sent, rewritten>>

\* SetFrame, Size and WriteTo, as callers do to allocate the buffer first.
WriteFrame ==
  LET w == AskSize(SetFrame(writer, frame))
      out == [i \in DOMAIN frame.packets |-> ModifyPacket(w, i)]
  IN  /\ Sending
      /\ frame.packets # <<>>
      /\ wire' = wire \o SubSeq(FrameBytes(w), 1, FrameSize(w))
      /\ sent' = sent \o [i \in DOMAIN out |-> Expected(out[i])]
      /\ writer' = [AfterWrite(w) EXCEPT !.frame = EmptyFrame]
      /\ rewritten' = IF w.seq = <<>> THEN rewritten ELSE rewritten \o out
      /\ frame' = EmptyFrame
      /\ UNCHANGED <<draft, effort>>

PeerJunk == /\ Sending
            /\ Len(sent) < MaxSent
            /\ \E b \in Junk : /\ wire' = wire \o Framed(Len(b), b)
                               /\ sent' = Append(sent, Whole(b))
            /\ UNCHANGED <<draft, effort, frame, writer, rewritten>>

\* What is not sent yet plays no part any more.
EndSending == /\ phase = "send"
              /\ sent # <<>>
              /\ phase' \in {"parse", "read"}
              /\ draft' = Fresh /\ frame' = EmptyFrame
              /\ writer' = NewWriter(EmptyFrame) /\ rewritten' = <<>>
              /\ UNCHANGED <<wire, sent, effort, recvVars>>

(* ------------------------------- receiver ------------------------------- *)

Left == Len(wire) - pos
Next1(n) == SubSeq(wire, pos + 1, pos + n)

\* TCPChannel.read: some bytes, at least one.
ReadChunk == /\ phase = "parse"
             /\ chunk = <<>>
             /\ \E n \in (IF effort + 1 < MaxEffort THEN 1 .. Left ELSE {Left} \ {0}) :
                  /\ chunk' = Next1(n)
                  /\ pos' = pos + n
             /\ effort' = effort + 1
             /\ UNCHANGED <<sendVars, phase, parser, layer, reader, got>>

\* One turn of the loop of TCPChannel.run.
ParseChunk ==
  LET o == Parse(parser, layer, chunk)
  IN  /\ phase = "parse"
      /\ chunk # <<>>
      /\ parser' = o.parser
      /\ layer' = o.layer
      /\ chunk' = o.remain
      /\ got' = CASE o.result = "more" -> got
                  [] o.result = "packet" -> Append(got, Packet(o.layer))
                  [] OTHER -> Append(got, Failure(o.result))
      /\ UNCHANGED <<sendVars, phase, effort, pos, reader>>

\* One turn of the loop of Reader.Read, called until it fails: an io.Reader
\* fills as much of the buffer as it likes.
ReadFile ==
  /\ phase = "read"
  /\ \E n \in 1 .. Wanted(reader) :
       /\ n <= Left
       /\ n < Wanted(reader) => effort + 1 < MaxEffort
       /\ LET s == ReadStep(reader, Next1(n))
          IN  /\ reader' = s.reader
              /\ pos' = pos + n
              /\ effort' = IF n < Wanted(reader) THEN effort + 1 ELSE effort
              /\ got' = CASE s.result = "more" -> got
                          [] s.result = "packet" -> Append(got, Packet(s.layer))
                          [] OTHER -> Append(got, Failure(s.result))
              /\ phase' = IF s.result \in {"more", "packet"} THEN "read" ELSE "failed"
  /\ UNCHANGED <<sendVars, chunk, parser, layer>>

\* The stream ends: the loop sees EOF.
EndOfStream == /\ phase \in {"parse", "read"}
               /\ Left = 0 /\ chunk = <<>>
               /\ phase' = "ended"
               /\ UNCHANGED <<sendVars, effort, recvVars>>

Next == \/ Edit \/ Override \/ WriteDraft \/ Collect \/ Retime \/ Retype \/ WriteFrame \/ PeerJunk \/ EndSending
        \/ ReadChunk \/ ParseChunk \/ ReadFile \/ EndOfStream

Spec == Init /\ [][Next]_vars
===============================================================================
