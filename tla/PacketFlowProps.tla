--------------------------- MODULE PacketFlowProps ---------------------------
(* What must hold of the chunks, packets and frames between run and a user. *)
EXTENDS PacketFlow

TypeOK ==
  /\ loop \in {"read", "parse", "handle", "exit", "done"}
  /\ reads \in 0 .. MaxReads /\ left \in BOOLEAN
  /\ data \in Data \cup {None} /\ cached \subseteq Data
  /\ cur \in Packets \cup {None}
  /\ seen \in Streams \cup {None} /\ bound \in Streams \cup {None}
  /\ closing \subseteq Streams /\ closed \subseteq Streams
  /\ dataRef \in [Data -> Int] /\ packetRef \in [Packets -> Int]
  /\ frameRef \in [Frames -> 0 .. 2]
  /\ holds \in [Packets -> SUBSET Data] /\ backing \in [Packets -> SUBSET Data]
  /\ key \in [Packets -> Keys] /\ frameKey \in [Frames -> Keys]
  /\ content \in [Frames -> SUBSET Packets]
  /\ asm \in [Streams -> Frames \cup {None}]
  /\ given \subseteq Frames /\ kept \subseteq Packets /\ lost \subseteq Packets

\* The counts of a packet are those who own it: the loop, a frame, the user,
\* or nobody any more.  So no Release of the loop, of HandlePacket, of a frame
\* or of the user comes too often, and none while another still needs it.
InFrame(p) == \E f \in Frames : p \in content[f]
PacketCounts ==
  \A p \in Packets :
     packetRef[p] = One(cur = p) + One(InFrame(p)) + One(p \in kept) + One(p \in lost)

\* A chunk is counted by the loop and by each packet related to it.
Holders(d) == {p \in Packets : d \in holds[p]}
DataCounts ==
  \A d \in Data : dataRef[d] = One(data = d) + Cardinality(Holders(d))

\* Both: no reference is dropped too often, too early or not at all.
Ownership == PacketCounts /\ DataCounts

\* Every byte somebody may still read, of a packet in a handler's or a user's
\* hands or in the cache of the parser, is in a chunk that has not gone back
\* to the pool, where the next read would overwrite it.
Readable == {p \in Packets : InFrame(p) \/ p \in kept \/ (p = cur /\ loop = "handle")}
BytesAlive ==
  /\ \A p \in Readable : \A d \in backing[p] : dataRef[d] > 0
  /\ \A d \in cached : loop \in {"read", "parse", "handle"} => dataRef[d] > 0

\* The packets of a frame keep the frame's timestamp and payload type: none of
\* them is parsed into again while the frame is in use, and none is in two.
FrameUniform ==
  /\ \A f \in Frames : \A p \in content[f] : key[p] = frameKey[f] /\ p # cur
  /\ \A f, g \in Frames : f # g => content[f] \cap content[g] = {}

\* A frame is in one place: in assembly by one stream that is not closed, with
\* the user, or in the pool and empty.
FramePlaces ==
  /\ \A s, t \in Streams : s # t /\ asm[s] # None => asm[s] # asm[t]
  /\ \A s \in Streams : asm[s] # None => asm[s] \notin given /\ s \notin closed
  /\ \A f \in Frames :
       /\ frameRef[f] = 0 => content[f] = {}
       /\ (frameRef[f] > 0) <=> (f \in given \/ \E s \in Streams : asm[s] = f)

\* What is collected under one timestamp stays together and with one owner.
FramesApart == FrameUniform /\ FramePlaces

\* A frame does not grow once the user has it.
GivenIsFinal == [][\A f \in given : content'[f] \subseteq content[f]]_vars

\* When run has ended, its streams are closed and the user has released what it
\* was given, everything is back in the pools except what was lost.
AllReturned ==
  loop = "done" /\ closing = {} /\ given = {} /\ kept = {} =>
    /\ \A p \in Packets \ lost : packetRef[p] = 0
    /\ \A f \in Frames : frameRef[f] = 0
    /\ \A d \in Data : dataRef[d] > 0 => \E p \in lost : d \in holds[p]

\* No reference is released that was not taken.
ReleasedOnce == \A p \in Packets : packetRef[p] >= 0
===============================================================================
