--------------------------- MODULE PacketFlowProofs ---------------------------
(* Proofs about the chunks, packets and frames between run and a user, for *)
(* any number of each, when a handler that asks for the end of its stream  *)
(* has not released the packet itself.                                     *)
EXTENDS PacketFlowProps, FiniteSetTheorems, TLAPS

USE FlowAssumption DEF loopVars, streamVars, frameVars

(* ------------------------- the inductive invariant ---------------------- *)

\* What the loop has in its hands where.
LoopHolds ==
  /\ (loop \in {"parse", "handle"}) <=> (data # None)
  /\ loop = "handle" => cur # None /\ seen # None
  /\ loop = "parse" /\ cur # None => data \notin holds[cur]
  /\ loop = "done" => cur = None
  /\ loop \in {"exit", "done"} => bound = None

\* The loop alone has a reference to its packet; one in the pool holds nothing.
Pooled ==
  /\ cur # None => packetRef[cur] = 1
  /\ \A p \in Packets : packetRef[p] = 0 => holds[p] = {}

\* Who may be read is related to the chunks it is read from.
Backed ==
  /\ \A p \in Readable : backing[p] \subseteq holds[p]
  /\ loop \in {"read", "parse", "handle"} /\ cached # {} =>
       loop # "handle" /\ cur # None /\ cached \subseteq holds[cur]

\* Every stream the loop uses or a frame is in assembly by will be closed.
StreamsFollowed ==
  /\ seen # None => seen \in {bound} \cup closing \cup closed
  /\ \A s \in Streams : asm[s] # None => s \in {bound} \cup closing

Inv == /\ TypeOK /\ LoopHolds /\ Pooled /\ Backed /\ StreamsFollowed
       /\ PacketCounts /\ DataCounts /\ FrameUniform /\ FramePlaces

LEMMA InitInv == Init => Inv
<1> SUFFICES ASSUME Init PROVE Inv
  OBVIOUS
<1>1. AKey \in Keys
  BY DEF AKey
<1>2. TypeOK
  <2>1. /\ loop = "read" /\ reads \in 0 .. MaxReads /\ left = FALSE
        /\ data = None /\ cached = {} /\ cur = None /\ seen = None /\ bound = None
        /\ closing = {} /\ closed = {} /\ given = {} /\ kept = {} /\ lost = {}
    BY DEF Init
  <2>2. /\ dataRef \in [Data -> Int] /\ packetRef \in [Packets -> Int]
        /\ frameRef \in [Frames -> 0 .. 2]
    BY DEF Init
  <2>3. /\ holds \in [Packets -> SUBSET Data] /\ backing \in [Packets -> SUBSET Data]
        /\ key \in [Packets -> Keys] /\ frameKey \in [Frames -> Keys]
        /\ content \in [Frames -> SUBSET Packets]
        /\ asm \in [Streams -> Frames \cup {None}]
    BY <1>1 DEF Init
  <2> QED
    BY <2>1, <2>2, <2>3 DEF TypeOK
<1>3. LoopHolds /\ Pooled /\ StreamsFollowed
  BY DEF Init, LoopHolds, Pooled, StreamsFollowed
<1>4. Backed
  BY DEF Init, Backed, Readable, InFrame
<1>5. PacketCounts
  BY DEF Init, PacketCounts, InFrame, One
<1>6. DataCounts
  <2> SUFFICES ASSUME NEW d \in Data PROVE dataRef[d] = One(data = d) + Cardinality(Holders(d))
    BY DEF DataCounts
  <2>1. Holders(d) = {}
    BY DEF Init, Holders
  <2> QED
    BY <2>1, FS_EmptySet DEF Init, One
<1>7. FrameUniform /\ FramePlaces
  BY DEF Init, FrameUniform, FramePlaces
<1> QED
  BY <1>2, <1>3, <1>4, <1>5, <1>6, <1>7 DEF Inv

(* ------------------------------ references ------------------------------ *)

LEMMA HoldersFinite ==
  ASSUME NEW ps \in SUBSET Packets, NEW d
  PROVE  /\ IsFiniteSet({p \in ps : d \in holds[p]})
         /\ Cardinality({p \in ps : d \in holds[p]}) \in Nat
  BY FS_Subset, FS_CardinalityType, {p \in ps : d \in holds[p]} \in SUBSET Packets

\* The types of what Release makes.
LEMMA ReleaseTypes ==
  ASSUME TypeOK, NEW ps \in SUBSET Packets, NEW ds
  PROVE  /\ Freed(ps, ds) \in [Data -> Int]
         /\ Fewer(ps) \in [Packets -> Int]
         /\ Cleared(ps) \in [Packets -> SUBSET Data]
         /\ Last(ps) \in SUBSET ps
<1>1. \A d \in Data : dataRef[d] \in Int /\ One(d \in ds) \in Int
                        /\ Cardinality({p \in ps : d \in holds[p]}) \in Int
  <2>1. \A d \in Data : Cardinality({p \in ps : d \in holds[p]}) \in Nat
    BY HoldersFinite
  <2> QED
    BY <2>1 DEF TypeOK, One
<1>2. Freed(ps, ds) \in [Data -> Int]
  BY <1>1 DEF Freed
<1>3. Fewer(ps) \in [Packets -> Int]
  BY DEF TypeOK, Fewer, One
<1> QED
  BY <1>2, <1>3 DEF TypeOK, Cleared, Last

\* Clearing packets takes from the count of a chunk what its holders lose.
LEMMA ClearingCounts ==
  ASSUME TypeOK, DataCounts, NEW ps \in SUBSET Packets, NEW ds \in SUBSET {data},
         \A p \in Packets : holds'[p] = IF p \in ps THEN {} ELSE holds[p],
         dataRef' = Freed(ps, ds), data' = IF ds = {} THEN data ELSE None
  PROVE  DataCounts'
<1> SUFFICES ASSUME NEW d \in Data
             PROVE  dataRef'[d] = One(data' = d) + Cardinality(Holders(d)')
  BY DEF DataCounts
<1> DEFINE cleared == {p \in ps : d \in holds[p]}
<1>1. Holders(d)' = Holders(d) \ cleared /\ cleared \in SUBSET Holders(d)
  BY DEF Holders
<1>2. IsFiniteSet(Holders(d)) /\ IsFiniteSet(cleared)
  BY HoldersFinite DEF Holders
<1>3. Cardinality(Holders(d)) \in Nat /\ Cardinality(cleared) \in Nat
  BY <1>2, FS_CardinalityType
<1>4. Cardinality(Holders(d)') = Cardinality(Holders(d)) - Cardinality(cleared)
  <2>1. Holders(d) \cap cleared = cleared
    BY <1>1
  <2> QED
    BY <1>1, <1>2, <2>1, FS_Difference
<1>5. One(data = d) - One(d \in ds) = One(data' = d)
  BY DEF One
<1>6. dataRef[d] = One(data = d) + Cardinality(Holders(d))
  BY DEF DataCounts
<1>7. dataRef'[d] = dataRef[d] - Cardinality(cleared) - One(d \in ds)
  BY DEF Freed
<1>8. One(data = d) \in Int /\ One(d \in ds) \in Int /\ One(data' = d) \in Int
  BY DEF One
<1> HIDE DEF cleared
<1> QED
  BY <1>3, <1>4, <1>5, <1>6, <1>7, <1>8 DEF One

(* --------------------------------- types -------------------------------- *)

LEMMA LoopTypes ==
  ASSUME Inv,
         Read \/ GetPacket \/ ParseMore \/ ParsePacket \/ ParseDiscarded
           \/ ParseRefused \/ ReadEnds \/ Exit
  PROVE  TypeOK'
<1> USE DEF Inv
<1>1. data # None => data \in Data
  BY DEF TypeOK
<1>2. CASE Read
  BY <1>2 DEF TypeOK, Read
<1>3. CASE GetPacket
  BY <1>3 DEF TypeOK, GetPacket
<1>4. CASE ParseMore
  BY <1>1, <1>4 DEF TypeOK, LoopHolds, ParseMore, Parsing, GoOn
<1>5. CASE ParsePacket
  <2>1. data \in Data /\ cur \in Packets
    BY <1>1, <1>5 DEF TypeOK, LoopHolds, ParsePacket, Parsing
  <2>2. key' \in [Packets -> Keys] /\ left' \in BOOLEAN
    <3>1. PICK k \in Keys, more \in BOOLEAN : key' = [key EXCEPT ![cur] = k] /\ left' = more
      BY <1>5 DEF ParsePacket
    <3> QED
      BY <3>1 DEF TypeOK
  <2>3. /\ holds' \in [Packets -> SUBSET Data] /\ backing' \in [Packets -> SUBSET Data]
        /\ dataRef' \in [Data -> Int]
    BY <1>5, <2>1 DEF TypeOK, ParsePacket
  <2> QED
    BY <1>5, <2>2, <2>3 DEF TypeOK, ParsePacket
<1>6. ASSUME NEW more \in BOOLEAN, Parsing, Discard(more)
      PROVE  /\ cached' = {} /\ holds' \in [Packets -> SUBSET Data]
             /\ dataRef' \in [Data -> Int] /\ backing' \in [Packets -> SUBSET Data]
  <2>1. {cur} \in SUBSET Packets
    BY <1>6 DEF TypeOK, Parsing
  <2>2. Cleared({cur}) \in [Packets -> SUBSET Data] /\ Freed({cur}, Rest(more)) \in [Data -> Int]
    BY <2>1, ReleaseTypes
  <2> QED
    BY <1>6, <2>1, <2>2 DEF TypeOK, Discard
<1>7. CASE ParseDiscarded
  BY <1>1, <1>6, <1>7 DEF TypeOK, ParseDiscarded, GoOn
<1>8. CASE ParseRefused
  BY <1>6, <1>8 DEF TypeOK, ParseRefused, Leave
<1>9. CASE ReadEnds
  BY <1>9 DEF TypeOK, ReadEnds, Leave
<1>10. CASE Exit
  <2>1. {cur} \ {None} \in SUBSET Packets
    BY DEF TypeOK
  <2>2. /\ Fewer({cur} \ {None}) \in [Packets -> Int]
        /\ Last({cur} \ {None}) \in SUBSET Packets
    BY <2>1, ReleaseTypes
  <2>3. /\ Cleared(Last({cur} \ {None})) \in [Packets -> SUBSET Data]
        /\ Freed(Last({cur} \ {None}), {}) \in [Data -> Int]
    BY <2>2, ReleaseTypes
  <2> QED
    BY <1>10, <2>2, <2>3 DEF TypeOK, Exit, ReleasePackets
<1> QED
  BY <1>2, <1>3, <1>4, <1>5, <1>7, <1>8, <1>9, <1>10

\* What a handler and the loop do with a packet, but for the frames.
LEMMA ReleasedTypes ==
  ASSUME TypeOK, NEW ps \in SUBSET Packets, NEW ds, ReleasePackets(ps, ds)
  PROVE  /\ packetRef' \in [Packets -> Int] /\ dataRef' \in [Data -> Int]
         /\ holds' \in [Packets -> SUBSET Data]
<1>1. Fewer(ps) \in [Packets -> Int] /\ Last(ps) \in SUBSET Packets
  BY ReleaseTypes
<1>2. Cleared(Last(ps)) \in [Packets -> SUBSET Data] /\ Freed(Last(ps), ds) \in [Data -> Int]
  BY <1>1, ReleaseTypes
<1> QED
  BY <1>1, <1>2 DEF ReleasePackets

\* HandleStops for a handler that has not released the packet.
LEMMA StopsUnreleased ==
  ASSUME ~ReleasesAtStop, HandleStops
  PROVE  /\ Handling /\ bound = seen
         /\ dataRef' = Freed({}, {data}) /\ UNCHANGED <<packetRef, holds>>
         /\ Leave
         /\ UNCHANGED <<reads, cur, cached, closed, frameVars, backing, key, kept, lost>>
  BY DEF HandleStops

LEMMA HandleTypes ==
  ASSUME Inv, ~ReleasesAtStop,
         HandleForgotten \/ HandleStops \/ HandleReleased \/ HandleAppend \/ HandleNewFrame
  PROVE  TypeOK'
<1> USE DEF Inv
<1>1. data # None => data \in Data
  BY DEF TypeOK
<1>2. cur \in Packets /\ seen \in Streams /\ {cur} \in SUBSET Packets
  BY DEF TypeOK, LoopHolds, Handling, HandleForgotten, HandleStops, HandleReleased,
         HandleAppend, HandleNewFrame
<1>3. \A ds : Freed({}, ds) \in [Data -> Int]
  BY ReleaseTypes
<1>4. CASE HandleForgotten
  <2>1. lost' \subseteq Packets /\ dataRef' \in [Data -> Int] /\ cur' = None
    BY <1>2, <1>3, <1>4 DEF TypeOK, HandleForgotten
  <2>2. /\ loop' \in {"parse", "read"} /\ data' \in Data \cup {None}
        /\ left' \in BOOLEAN /\ seen' = None
    BY <1>1, <1>4 DEF TypeOK, HandleForgotten, GoOn
  <2> QED
    BY <1>4, <2>1, <2>2 DEF TypeOK, HandleForgotten
<1>5. CASE HandleStops
  BY <1>3, <1>5, StopsUnreleased DEF TypeOK, Leave
<1>6. CASE HandleReleased
  <2>1. /\ packetRef' \in [Packets -> Int] /\ dataRef' \in [Data -> Int]
        /\ holds' \in [Packets -> SUBSET Data]
    BY <1>2, <1>6, ReleasedTypes DEF HandleReleased
  <2> QED
    BY <1>1, <1>6, <2>1 DEF TypeOK, HandleReleased, GoOn
<1>7. CASE HandleAppend
  <2>1. content' \in [Frames -> SUBSET Packets]
    BY <1>2, <1>7 DEF TypeOK, HandleAppend, Matches
  <2> QED
    BY <1>1, <1>3, <1>7, <2>1 DEF TypeOK, HandleAppend, GoOn
<1>8. CASE HandleNewFrame
  <2>1. PICK f \in Frames :
               /\ frameRef' = [frameRef EXCEPT ![f] = 1]
               /\ frameKey' = [frameKey EXCEPT ![f] = key[cur]]
               /\ content' = [content EXCEPT ![f] = {cur}]
               /\ asm' = [asm EXCEPT ![seen] = f]
    BY <1>8 DEF HandleNewFrame
  <2>2. /\ frameRef' \in [Frames -> 0 .. 2] /\ frameKey' \in [Frames -> Keys]
        /\ content' \in [Frames -> SUBSET Packets]
        /\ asm' \in [Streams -> Frames \cup {None}]
    BY <1>2, <2>1 DEF TypeOK
  <2>3. given' \subseteq Frames
    BY <1>2, <1>8 DEF TypeOK, HandleNewFrame
  <2> QED
    BY <1>1, <1>3, <1>8, <2>2, <2>3 DEF TypeOK, HandleNewFrame, GoOn
<1> QED
  BY <1>4, <1>5, <1>6, <1>7, <1>8

LEMMA OthersTypes ==
  ASSUME Inv,
         Rebind \/ CloseStream \/ ShareFrame \/ KeepPacket \/ ReleasePacket
           \/ ReleaseShare \/ ReleaseFrame
  PROVE  TypeOK'
<1> USE DEF Inv
<1>1. CASE Rebind
  BY <1>1 DEF TypeOK, Rebind
<1>2. CASE CloseStream
  BY <1>2 DEF TypeOK, CloseStream
<1>3. CASE ShareFrame
  BY <1>3 DEF TypeOK, ShareFrame
<1>4. CASE KeepPacket
  BY <1>4 DEF TypeOK, KeepPacket
<1>5. CASE ReleasePacket
  <2>1. /\ packetRef' \in [Packets -> Int] /\ dataRef' \in [Data -> Int]
        /\ holds' \in [Packets -> SUBSET Data]
    BY <1>5, ReleasedTypes DEF TypeOK, ReleasePacket
  <2> QED
    BY <1>5, <2>1 DEF TypeOK, ReleasePacket
<1>6. CASE ReleaseShare
  BY <1>6 DEF TypeOK, ReleaseShare
<1>7. CASE ReleaseFrame
  <2>1. /\ packetRef' \in [Packets -> Int] /\ dataRef' \in [Data -> Int]
        /\ holds' \in [Packets -> SUBSET Data]
    BY <1>7, ReleasedTypes DEF TypeOK, ReleaseFrame
  <2>2. /\ frameRef' \in [Frames -> 0 .. 2] /\ given' \subseteq Frames
        /\ content' \in [Frames -> SUBSET Packets]
    BY <1>7 DEF TypeOK, ReleaseFrame
  <2> QED
    BY <1>7, <2>1, <2>2 DEF TypeOK, ReleaseFrame
<1> QED
  BY <1>1, <1>2, <1>3, <1>4, <1>5, <1>6, <1>7

(* -------------------------------- packets ------------------------------- *)

\* Who is counted for a packet, and how often.
LEMMA CountedOnce ==
  ASSUME Inv, NEW p \in Packets
  PROVE  /\ packetRef[p] \in 0 .. 4
         /\ packetRef[p] = 0 => cur # p /\ ~InFrame(p) /\ p \notin kept /\ p \notin lost
         /\ cur = p => packetRef[p] = 1 /\ ~InFrame(p) /\ p \notin kept /\ p \notin lost
         /\ InFrame(p) \/ p \in kept \/ p \in lost => packetRef[p] > 0
<1>1. packetRef[p] = One(cur = p) + One(InFrame(p)) + One(p \in kept) + One(p \in lost)
  BY DEF Inv, PacketCounts
<1>2. cur = p => packetRef[p] = 1
  BY DEF Inv, Pooled
<1> QED
  BY <1>1, <1>2 DEF One

\* The loop's own packet goes back to the pool when the loop releases it.
LEMMA LoopReleases ==
  ASSUME Inv, cur # None, packetRef' = Fewer({cur}), cur' = None,
         UNCHANGED <<content, kept, lost>>
  PROVE  PacketCounts'
<1> SUFFICES ASSUME NEW p \in Packets
             PROVE  packetRef'[p] = One(cur' = p) + One(InFrame(p)') + One(p \in kept') + One(p \in lost')
  BY DEF PacketCounts
<1>1. InFrame(p)' <=> InFrame(p)
  BY DEF InFrame
<1>2. packetRef[p] = One(cur = p) + One(InFrame(p)) + One(p \in kept) + One(p \in lost)
  BY DEF Inv, PacketCounts
<1>3. packetRef'[p] = packetRef[p] - One(p \in {cur})
  BY DEF Fewer
<1>4. packetRef[p] \in Int
  BY DEF Inv, TypeOK
<1> QED
  BY <1>1, <1>2, <1>3, <1>4 DEF One

LEMMA PacketNext ==
  ASSUME Inv, ~ReleasesAtStop, TypeOK', Next
  PROVE  PacketCounts'
<1>1. ASSUME UNCHANGED <<packetRef, cur, content, kept, lost>>
      PROVE  PacketCounts'
  <2>1. \A p \in Packets : InFrame(p)' <=> InFrame(p)
    BY <1>1 DEF InFrame
  <2> QED
    BY <1>1, <2>1 DEF Inv, PacketCounts, One
<1>2. CASE Read \/ ParseMore \/ ParsePacket \/ ParseDiscarded \/ ParseRefused
             \/ ReadEnds \/ Rebind \/ CloseStream \/ ShareFrame \/ ReleaseShare
  <2>1. UNCHANGED <<packetRef, cur, content, kept, lost>>
    BY <1>2 DEF Read, ParseMore, ParsePacket, ParseDiscarded, ParseRefused, ReadEnds,
                Rebind, CloseStream, ShareFrame, ReleaseShare
  <2> QED
    BY <1>1, <2>1
<1>3. CASE HandleStops
  BY <1>1, <1>3, StopsUnreleased
<1>4. CASE GetPacket
  <2>1. PICK q \in Packets : /\ packetRef[q] = 0 /\ cur' = q /\ cur = None
                             /\ packetRef' = [packetRef EXCEPT ![q] = 1]
                             /\ UNCHANGED <<content, kept, lost>>
    BY <1>4 DEF GetPacket
  <2> SUFFICES ASSUME NEW p \in Packets
               PROVE  packetRef'[p] = One(cur' = p) + One(InFrame(p)') + One(p \in kept') + One(p \in lost')
    BY DEF PacketCounts
  <2>2. InFrame(p)' <=> InFrame(p)
    BY <2>1 DEF InFrame
  <2>3. packetRef[p] = One(InFrame(p)) + One(p \in kept) + One(p \in lost)
    BY <2>1 DEF Inv, PacketCounts, One
  <2>4. packetRef'[p] = IF p = q THEN 1 ELSE packetRef[p]
    BY <2>1 DEF Inv, TypeOK
  <2>5. p = q => ~InFrame(p) /\ p \notin kept /\ p \notin lost
    BY <2>1, CountedOnce
  <2> QED
    BY <2>1, <2>2, <2>3, <2>4, <2>5 DEF One
<1>5. CASE HandleForgotten
  <2>1. /\ cur \in Packets /\ cur' = None /\ lost' = lost \cup {cur}
        /\ UNCHANGED <<packetRef, content, kept>>
    BY <1>5 DEF Inv, TypeOK, LoopHolds, HandleForgotten, Handling
  <2>2. cur \notin lost
    BY <2>1, CountedOnce
  <2> SUFFICES ASSUME NEW p \in Packets
               PROVE  packetRef'[p] = One(cur' = p) + One(InFrame(p)') + One(p \in kept') + One(p \in lost')
    BY DEF PacketCounts
  <2>3. InFrame(p)' <=> InFrame(p)
    BY <2>1 DEF InFrame
  <2>4. packetRef[p] = One(cur = p) + One(InFrame(p)) + One(p \in kept) + One(p \in lost)
    BY DEF Inv, PacketCounts
  <2> QED
    BY <2>1, <2>2, <2>3, <2>4 DEF One
<1>6. CASE HandleReleased
  BY <1>6, LoopReleases DEF Inv, LoopHolds, HandleReleased, Handling, ReleasePackets
<1>7. CASE Exit
  <2>1. CASE cur = None
    <3>1. Fewer({cur} \ {None}) = packetRef
      <4>1. \A p \in Packets : packetRef[p] - One(p \in {cur} \ {None}) = packetRef[p]
        BY <2>1 DEF Inv, TypeOK, One
      <4> QED
        BY <4>1 DEF Inv, TypeOK, Fewer
    <3> QED
      BY <1>1, <1>7, <2>1, <3>1 DEF Exit, ReleasePackets
  <2>2. CASE cur # None
    <3>1. {cur} \ {None} = {cur}
      BY <2>2
    <3> QED
      BY <1>7, <2>2, <3>1, LoopReleases DEF Exit, ReleasePackets
  <2> QED
    BY <2>1, <2>2
\* A packet that goes from the loop into a frame.
<1>8. ASSUME NEW f \in Frames, cur \in Packets, cur' = None,
             content' = [content EXCEPT ![f] = content[f] \cup {cur}],
             UNCHANGED <<packetRef, kept, lost>>
      PROVE  PacketCounts'
  <2> SUFFICES ASSUME NEW p \in Packets
               PROVE  packetRef'[p] = One(cur' = p) + One(InFrame(p)') + One(p \in kept') + One(p \in lost')
    BY DEF PacketCounts
  <2>1. InFrame(p)' <=> InFrame(p) \/ p = cur
    BY <1>8 DEF InFrame, Inv, TypeOK
  <2>2. ~InFrame(cur)
    BY <1>8, CountedOnce
  <2>3. packetRef[p] = One(cur = p) + One(InFrame(p)) + One(p \in kept) + One(p \in lost)
    BY DEF Inv, PacketCounts
  <2> QED
    BY <1>8, <2>1, <2>2, <2>3 DEF One
<1>9. CASE HandleAppend
  <2>1. asm[seen] \in Frames /\ cur \in Packets
    BY <1>9 DEF Inv, TypeOK, LoopHolds, HandleAppend, Handling, Matches
  <2> QED
    BY <1>8, <1>9, <2>1 DEF HandleAppend
<1>10. CASE HandleNewFrame
  <2>1. PICK f \in Frames : frameRef[f] = 0 /\ content' = [content EXCEPT ![f] = {cur}]
    BY <1>10 DEF HandleNewFrame
  <2>2. content[f] \cup {cur} = {cur}
    BY <2>1 DEF Inv, FramePlaces
  <2>3. cur \in Packets
    BY <1>10 DEF Inv, TypeOK, LoopHolds, HandleNewFrame, Handling
  <2> QED
    BY <1>8, <1>10, <2>1, <2>2, <2>3 DEF HandleNewFrame
<1>11. CASE KeepPacket
  <2>1. PICK q \in Packets \ kept : /\ kept' = kept \cup {q}
                                    /\ packetRef' = [packetRef EXCEPT ![q] = @ + 1]
                                    /\ UNCHANGED <<cur, content, lost>>
    BY <1>11 DEF Inv, TypeOK, KeepPacket
  <2> SUFFICES ASSUME NEW p \in Packets
               PROVE  packetRef'[p] = One(cur' = p) + One(InFrame(p)') + One(p \in kept') + One(p \in lost')
    BY DEF PacketCounts
  <2>2. InFrame(p)' <=> InFrame(p)
    BY <2>1 DEF InFrame
  <2>3. packetRef[p] = One(cur = p) + One(InFrame(p)) + One(p \in kept) + One(p \in lost)
    BY DEF Inv, PacketCounts
  <2>4. packetRef'[p] = packetRef[p] + One(p = q)
    BY <2>1 DEF Inv, TypeOK, One
  <2> QED
    BY <2>1, <2>2, <2>3, <2>4 DEF One
<1>12. CASE ReleasePacket
  <2>1. PICK q \in kept : kept' = kept \ {q} /\ packetRef' = Fewer({q})
                            /\ UNCHANGED <<cur, content, lost>>
    BY <1>12 DEF ReleasePacket, ReleasePackets
  <2> SUFFICES ASSUME NEW p \in Packets
               PROVE  packetRef'[p] = One(cur' = p) + One(InFrame(p)') + One(p \in kept') + One(p \in lost')
    BY DEF PacketCounts
  <2>2. InFrame(p)' <=> InFrame(p)
    BY <2>1 DEF InFrame
  <2>3. packetRef[p] = One(cur = p) + One(InFrame(p)) + One(p \in kept) + One(p \in lost)
    BY DEF Inv, PacketCounts
  <2>4. packetRef'[p] = packetRef[p] - One(p = q)
    BY <2>1 DEF Fewer, One
  <2> QED
    BY <2>1, <2>2, <2>3, <2>4 DEF One
<1>13. CASE ReleaseFrame
  <2>1. PICK f \in given : /\ content' = [content EXCEPT ![f] = {}]
                           /\ packetRef' = Fewer(content[f])
                           /\ UNCHANGED <<cur, kept, lost>>
    BY <1>13 DEF ReleaseFrame, ReleasePackets
  <2> SUFFICES ASSUME NEW p \in Packets
               PROVE  packetRef'[p] = One(cur' = p) + One(InFrame(p)') + One(p \in kept') + One(p \in lost')
    BY DEF PacketCounts
  <2>2. f \in Frames
    BY DEF Inv, TypeOK
  <2>3. InFrame(p)' <=> InFrame(p) /\ p \notin content[f]
    BY <2>1, <2>2 DEF InFrame, Inv, TypeOK, FrameUniform
  <2>4. p \in content[f] => InFrame(p)
    BY <2>2 DEF InFrame
  <2>5. packetRef[p] = One(cur = p) + One(InFrame(p)) + One(p \in kept) + One(p \in lost)
    BY DEF Inv, PacketCounts
  <2>6. packetRef'[p] = packetRef[p] - One(p \in content[f])
    BY <2>1 DEF Fewer
  <2> QED
    BY <2>1, <2>3, <2>4, <2>5, <2>6 DEF One
<1> QED
  BY <1>2, <1>3, <1>4, <1>5, <1>6, <1>7, <1>9, <1>10, <1>11, <1>12, <1>13 DEF Next

(* -------------------------------- chunks -------------------------------- *)

LEMMA ReleasingCounts ==
  ASSUME TypeOK, DataCounts, NEW ps \in SUBSET Packets, NEW ds \in SUBSET {data},
         ReleasePackets(ps, ds), data' = IF ds = {} THEN data ELSE None
  PROVE  DataCounts'
<1>1. Last(ps) \in SUBSET Packets
  BY DEF Last
<1>2. \A p \in Packets : holds'[p] = IF p \in Last(ps) THEN {} ELSE holds[p]
  BY DEF ReleasePackets, Cleared
<1>3. dataRef' = Freed(Last(ps), ds)
  BY DEF ReleasePackets
<1> QED
  BY <1>1, <1>2, <1>3, ClearingCounts

\* Chunks the loop lets go of while packets keep theirs.
LEMMA LettingGo ==
  ASSUME TypeOK, DataCounts, NEW ds \in SUBSET {data}, dataRef' = Freed({}, ds),
         holds' = holds, data' = IF ds = {} THEN data ELSE None
  PROVE  DataCounts'
<1>1. {} \in SUBSET Packets /\ \A p \in Packets : holds'[p] = IF p \in {} THEN {} ELSE holds[p]
  OBVIOUS
<1> QED
  BY <1>1, ClearingCounts

LEMMA RestGoes ==
  ASSUME NEW more \in BOOLEAN, GoOn(more)
  PROVE  /\ Rest(more) \in SUBSET {data}
         /\ data' = IF Rest(more) = {} THEN data ELSE None
<1>1. CASE more
  BY <1>1 DEF Rest, GoOn
<1>2. CASE ~more
  BY <1>2 DEF Rest, GoOn
<1> QED
  BY <1>1, <1>2

\* A packet that comes to hold the chunk of the loop.
LEMMA HoldingCounts ==
  ASSUME Inv, Parsing, loop = "parse", holds' = [holds EXCEPT ![cur] = @ \cup {data}]
  PROVE  \A d \in Data : Cardinality(Holders(d)') = Cardinality(Holders(d)) + One(d = data)
<1>1. cur \in Packets /\ data \in Data /\ data \notin holds[cur]
  BY DEF Inv, TypeOK, LoopHolds, Parsing
<1> SUFFICES ASSUME NEW d \in Data
             PROVE  Cardinality(Holders(d)') = Cardinality(Holders(d)) + One(d = data)
  OBVIOUS
<1>2. IsFiniteSet(Holders(d)) /\ Cardinality(Holders(d)) \in Nat
  BY HoldersFinite DEF Holders
<1>3. CASE d = data
  <2>1. Holders(d)' = Holders(d) \cup {cur} /\ cur \notin Holders(d)
    BY <1>1, <1>3 DEF Inv, TypeOK, Holders
  <2> QED
    BY <1>2, <1>3, <2>1, FS_AddElement DEF One
<1>4. CASE d # data
  <2>1. Holders(d)' = Holders(d)
    BY <1>1, <1>4 DEF Inv, TypeOK, Holders
  <2> QED
    BY <1>2, <1>4, <2>1 DEF One
<1> QED
  BY <1>3, <1>4

LEMMA DataNext ==
  ASSUME Inv, ~ReleasesAtStop, Next
  PROVE  DataCounts'
<1>0. TypeOK /\ DataCounts /\ {} \in SUBSET {data} /\ {data} \in SUBSET {data}
  BY DEF Inv
<1>1. ASSUME UNCHANGED <<dataRef, data, holds>>
      PROVE  DataCounts'
  <2>1. \A d \in Data : Holders(d)' = Holders(d)
    BY <1>1 DEF Holders
  <2> QED
    BY <1>1, <2>1 DEF Inv, DataCounts
<1>2. CASE GetPacket \/ ReadEnds \/ Rebind \/ CloseStream \/ ShareFrame \/ KeepPacket
             \/ ReleaseShare
  <2>1. UNCHANGED <<dataRef, data, holds>>
    BY <1>2 DEF Inv, LoopHolds, GetPacket, ReadEnds, Leave, Rebind, CloseStream, ShareFrame,
                KeepPacket, ReleaseShare
  <2> QED
    BY <1>1, <2>1
<1>3. CASE Read
  <2>1. PICK c \in Data : /\ dataRef[c] = 0 /\ data' = c /\ holds' = holds
                          /\ dataRef' = [dataRef EXCEPT ![c] = 1]
    BY <1>3 DEF Read
  <2> SUFFICES ASSUME NEW d \in Data
               PROVE  dataRef'[d] = One(data' = d) + Cardinality(Holders(d)')
    BY DEF DataCounts
  <2>2. Holders(d)' = Holders(d)
    BY <2>1 DEF Holders
  <2>3. Cardinality(Holders(d)) \in Nat
    BY HoldersFinite DEF Holders
  <2>4. data = None
    BY <1>3 DEF Inv, LoopHolds, Read
  <2>5. dataRef[d] = Cardinality(Holders(d))
    BY <2>3, <2>4 DEF Inv, DataCounts, One
  <2>6. dataRef'[d] = IF d = c THEN 1 ELSE dataRef[d]
    BY <2>1 DEF Inv, TypeOK
  <2> QED
    BY <2>1, <2>2, <2>3, <2>5, <2>6 DEF One
<1>4. CASE ParseMore
  <2>1. Parsing /\ loop = "parse" /\ holds' = [holds EXCEPT ![cur] = @ \cup {data}]
          /\ data' = None /\ dataRef' = dataRef
    BY <1>4 DEF ParseMore, Parsing, GoOn
  <2> SUFFICES ASSUME NEW d \in Data
               PROVE  dataRef'[d] = One(data' = d) + Cardinality(Holders(d)')
    BY DEF DataCounts
  <2>2. Cardinality(Holders(d)') = Cardinality(Holders(d)) + One(d = data)
    BY <2>1, HoldingCounts
  <2>3. Cardinality(Holders(d)) \in Nat
    BY HoldersFinite DEF Holders
  <2>4. dataRef[d] = One(data = d) + Cardinality(Holders(d))
    BY DEF Inv, DataCounts
  <2> QED
    BY <2>1, <2>2, <2>3, <2>4 DEF One
<1>5. CASE ParsePacket
  <2>1. Parsing /\ loop = "parse" /\ holds' = [holds EXCEPT ![cur] = @ \cup {data}]
          /\ data' = data /\ dataRef' = [dataRef EXCEPT ![data] = @ + 1]
    BY <1>5 DEF ParsePacket, Parsing
  <2> SUFFICES ASSUME NEW d \in Data
               PROVE  dataRef'[d] = One(data' = d) + Cardinality(Holders(d)')
    BY DEF DataCounts
  <2>2. Cardinality(Holders(d)') = Cardinality(Holders(d)) + One(d = data)
    BY <2>1, HoldingCounts
  <2>3. Cardinality(Holders(d)) \in Nat
    BY HoldersFinite DEF Holders
  <2>4. dataRef[d] = One(data = d) + Cardinality(Holders(d))
    BY DEF Inv, DataCounts
  <2>5. dataRef'[d] = dataRef[d] + One(d = data)
    BY <2>1 DEF Inv, TypeOK, One
  <2> QED
    BY <2>1, <2>2, <2>3, <2>4, <2>5 DEF One
<1>6. ASSUME NEW more \in BOOLEAN, Parsing, Discard(more), Rest(more) \in SUBSET {data},
             data' = IF Rest(more) = {} THEN data ELSE None
      PROVE  DataCounts'
  <2>1. {cur} \in SUBSET Packets /\ dataRef' = Freed({cur}, Rest(more))
    BY <1>6 DEF Inv, TypeOK, Parsing, Discard
  <2>2. \A p \in Packets : holds'[p] = IF p \in {cur} THEN {} ELSE holds[p]
    BY <1>6 DEF Discard, Cleared
  <2> QED
    BY <1>0, <1>6, <2>1, <2>2, ClearingCounts
<1>7. CASE ParseDiscarded
  BY <1>6, <1>7, RestGoes DEF ParseDiscarded
<1>8. CASE ParseRefused
  <2>1. Rest(FALSE) = {data}
    BY DEF Rest
  <2> QED
    BY <1>0, <1>6, <1>8, <2>1 DEF ParseRefused, Leave
<1>9. CASE HandleForgotten \/ HandleAppend \/ HandleNewFrame
  <2>1. GoOn(left) /\ dataRef' = Freed({}, Rest(left)) /\ holds' = holds
    BY <1>9 DEF HandleForgotten, HandleAppend, HandleNewFrame
  <2>2. left \in BOOLEAN
    BY DEF Inv, TypeOK
  <2> QED
    BY <1>0, <2>1, <2>2, RestGoes, LettingGo
<1>10. CASE HandleStops
  BY <1>0, <1>10, StopsUnreleased, LettingGo DEF Leave
<1>11. CASE HandleReleased
  <2>1. GoOn(left) /\ ReleasePackets({cur}, Rest(left)) /\ left \in BOOLEAN
    BY <1>11 DEF Inv, TypeOK, HandleReleased
  <2>2. {cur} \in SUBSET Packets
    BY <1>11 DEF Inv, TypeOK, LoopHolds, HandleReleased, Handling
  <2> QED
    BY <1>0, <2>1, <2>2, RestGoes, ReleasingCounts
<1>12. CASE Exit
  <2>1. {cur} \ {None} \in SUBSET Packets
    BY DEF Inv, TypeOK
  <2> QED
    BY <1>0, <1>12, <2>1, ReleasingCounts DEF Exit
<1>13. CASE ReleasePacket
  <2>1. PICK p \in kept : ReleasePackets({p}, {}) /\ data' = data
    BY <1>13 DEF ReleasePacket
  <2>2. {p} \in SUBSET Packets
    BY DEF Inv, TypeOK
  <2> QED
    BY <1>0, <2>1, <2>2, ReleasingCounts
<1>14. CASE ReleaseFrame
  <2>1. PICK f \in given : ReleasePackets(content[f], {}) /\ data' = data
    BY <1>14 DEF ReleaseFrame
  <2>2. content[f] \in SUBSET Packets
    BY DEF Inv, TypeOK
  <2> QED
    BY <1>0, <2>1, <2>2, ReleasingCounts
<1> QED
  BY <1>2, <1>3, <1>4, <1>5, <1>7, <1>8, <1>9, <1>10, <1>11, <1>12, <1>13, <1>14 DEF Next

(* -------------------------- the loop and streams ------------------------ *)

LEMMA LoopNext ==
  ASSUME Inv, ~ReleasesAtStop, Next
  PROVE  LoopHolds' /\ StreamsFollowed'
<1> USE DEF Inv
<1>1. CASE Read
  <2>1. data' # None
    BY <1>1 DEF Read
  <2>2. /\ cur # None => packetRef[cur] = 1 /\ holds' = holds
        /\ loop' = "parse" /\ \A p \in Packets : data' \notin holds[p]
    <3>1. PICK d \in Data : dataRef[d] = 0 /\ data' = d
      BY <1>1 DEF Read
    <3>2. Cardinality(Holders(d)) \in Nat /\ IsFiniteSet(Holders(d))
      BY HoldersFinite DEF Holders
    <3>3. Cardinality(Holders(d)) = 0
      BY <3>1, <3>2 DEF DataCounts, One
    <3>4. Holders(d) = {}
      BY <3>2, <3>3, FS_EmptySet
    <3> QED
      BY <1>1, <3>1, <3>4 DEF Read, Holders, Pooled
  <2> QED
    BY <1>1, <2>1, <2>2 DEF TypeOK, LoopHolds, StreamsFollowed, Read
<1>2. CASE GetPacket
  <2>1. PICK p \in Packets : packetRef[p] = 0 /\ cur' = p
    BY <1>2 DEF GetPacket
  <2>2. holds[p] = {} /\ cur' # None
    BY <2>1 DEF Pooled
  <2> QED
    BY <1>2, <2>1, <2>2 DEF LoopHolds, StreamsFollowed, GetPacket
<1>3. CASE ParseMore
  BY <1>3 DEF LoopHolds, StreamsFollowed, ParseMore, Parsing, GoOn
<1>4. CASE ParsePacket
  BY <1>4 DEF LoopHolds, StreamsFollowed, ParsePacket, Parsing
<1>5. CASE ParseDiscarded
  <2>1. PICK more \in BOOLEAN : Discard(more) /\ GoOn(more)
    BY <1>5 DEF ParseDiscarded
  <2>2. cur' = cur /\ cur \in Packets /\ cur # None /\ holds'[cur] = {} /\ bound' = bound
    BY <1>5, <2>1 DEF TypeOK, ParseDiscarded, Parsing, Discard, Cleared
  <2>3. /\ loop' \in {"parse", "read"} /\ seen' = None
        /\ loop' = "parse" => data' = data
        /\ loop' = "read" => data' = None
    BY <2>1 DEF GoOn
  <2> QED
    BY <1>5, <2>2, <2>3 DEF LoopHolds, StreamsFollowed, ParseDiscarded, Parsing
<1>6. CASE ParseRefused \/ ReadEnds \/ HandleStops
  <2>1. Leave /\ cur' = cur /\ asm' = asm /\ closed' = closed
    BY <1>6 DEF ParseRefused, ReadEnds, HandleStops
  <2> QED
    BY <2>1 DEF LoopHolds, StreamsFollowed, Leave
<1>7. CASE HandleForgotten \/ HandleReleased \/ HandleAppend
  <2>1. GoOn(left) /\ cur' = None /\ UNCHANGED <<streamVars, asm>> /\ Handling
    BY <1>7 DEF HandleForgotten, HandleReleased, HandleAppend
  <2> QED
    BY <2>1 DEF TypeOK, LoopHolds, StreamsFollowed, GoOn, Handling
<1>8. CASE HandleNewFrame
  <2>1. GoOn(left) /\ cur' = None /\ UNCHANGED streamVars /\ Handling /\ seen \notin closed
    BY <1>8 DEF HandleNewFrame
  <2>2. LoopHolds'
    BY <2>1 DEF TypeOK, LoopHolds, GoOn, Handling
  <2>3. PICK f \in Frames : asm' = [asm EXCEPT ![seen] = f]
    BY <1>8 DEF HandleNewFrame
  <2>4. seen \in {bound} \cup closing
    BY <2>1 DEF LoopHolds, StreamsFollowed, Handling
  <2>5. seen' = None
    BY <2>1 DEF GoOn
  <2> QED
    BY <2>1, <2>2, <2>3, <2>4, <2>5 DEF TypeOK, StreamsFollowed
<1>9. CASE Exit
  BY <1>9 DEF LoopHolds, StreamsFollowed, Exit
<1>10. CASE Rebind
  BY <1>10 DEF TypeOK, LoopHolds, StreamsFollowed, Rebind
<1>11. CASE CloseStream
  BY <1>11 DEF TypeOK, LoopHolds, StreamsFollowed, CloseStream
<1>12. CASE ShareFrame \/ KeepPacket \/ ReleaseShare
  BY <1>12 DEF LoopHolds, StreamsFollowed, ShareFrame, KeepPacket, ReleaseShare
<1>13. CASE ReleasePacket \/ ReleaseFrame
  <2>1. /\ UNCHANGED <<loopVars, streamVars, asm>>
        /\ \E ps : holds' = Cleared(ps)
    BY <1>13 DEF ReleasePacket, ReleaseFrame, ReleasePackets
  <2>2. cur # None => holds'[cur] \subseteq holds[cur]
    BY <2>1 DEF TypeOK, Cleared
  <2> QED
    BY <2>1, <2>2 DEF LoopHolds, StreamsFollowed
<1> QED
  BY <1>1, <1>2, <1>3, <1>4, <1>5, <1>6, <1>7, <1>8, <1>9, <1>10, <1>11, <1>12, <1>13
     DEF Next

(* ------------------------- what packets relate to ----------------------- *)

\* Release empties what goes back to the pool, and nothing else.
LEMMA ReleaseClears ==
  ASSUME Inv, NEW ps, ReleasePackets(ps, {}) \/ ReleasePackets(ps, Rest(left)),
         NEW p \in Packets
  PROVE  /\ packetRef'[p] = packetRef[p] - One(p \in ps)
         /\ packetRef'[p] = 0 => holds'[p] = {}
         /\ packetRef'[p] # 0 => holds'[p] = holds[p]
<1>1. packetRef' = Fewer(ps) /\ holds' = Cleared(Last(ps))
  BY DEF ReleasePackets
<1>2. packetRef'[p] = packetRef[p] - One(p \in ps)
  BY <1>1 DEF Fewer
<1>3. packetRef[p] \in Int
  BY DEF Inv, TypeOK
<1>4. p \in Last(ps) <=> p \in ps /\ packetRef[p] = 1
  BY DEF Last
<1>5. holds'[p] = IF p \in Last(ps) THEN {} ELSE holds[p]
  BY <1>1 DEF Cleared
<1>6. packetRef[p] = 0 => holds[p] = {}
  BY DEF Inv, Pooled
<1>7. CASE p \in ps
  BY <1>2, <1>3, <1>4, <1>5, <1>6, <1>7, CountedOnce DEF One
<1>8. CASE p \notin ps
  BY <1>2, <1>3, <1>4, <1>5, <1>6, <1>8 DEF One
<1> QED
  BY <1>7, <1>8

LEMMA PooledNext ==
  ASSUME Inv, ~ReleasesAtStop, TypeOK', Next
  PROVE  Pooled'
<1> USE DEF Inv
<1>1. CASE Read \/ ReadEnds \/ Rebind \/ CloseStream \/ ShareFrame \/ ReleaseShare
  BY <1>1 DEF Pooled, Read, ReadEnds, Rebind, CloseStream, ShareFrame, ReleaseShare
<1>2. CASE GetPacket
  BY <1>2 DEF TypeOK, Pooled, GetPacket
<1>3. CASE ParseMore \/ ParsePacket
  <2>1. /\ cur \in Packets /\ cur # None /\ UNCHANGED <<cur, packetRef>>
        /\ holds' = [holds EXCEPT ![cur] = @ \cup {data}]
    BY <1>3 DEF TypeOK, ParseMore, ParsePacket, Parsing
  <2> QED
    BY <2>1 DEF TypeOK, Pooled
<1>4. CASE ParseDiscarded \/ ParseRefused
  <2>1. UNCHANGED <<cur, packetRef>> /\ holds' = Cleared({cur})
    BY <1>4 DEF ParseDiscarded, ParseRefused, Discard
  <2> QED
    BY <2>1 DEF Pooled, Cleared
<1>5. CASE HandleForgotten \/ HandleAppend \/ HandleNewFrame
  <2>1. cur' = None /\ UNCHANGED <<packetRef, holds>>
    BY <1>5 DEF HandleForgotten, HandleAppend, HandleNewFrame
  <2> QED
    BY <2>1 DEF Pooled
<1>6. CASE HandleStops
  BY <1>6, StopsUnreleased DEF Pooled
<1>7. CASE HandleReleased \/ Exit
  <2>1. cur' = None
    BY <1>7 DEF HandleReleased, Exit
  <2>2. PICK ps : ReleasePackets(ps, {}) \/ ReleasePackets(ps, Rest(left))
    BY <1>7 DEF HandleReleased, Exit
  <2> QED
    BY <2>1, <2>2, ReleaseClears DEF Pooled
<1>8. CASE KeepPacket
  <2>1. PICK f \in given : \E p \in content[f] \ kept :
                              packetRef' = [packetRef EXCEPT ![p] = @ + 1]
    BY <1>8 DEF KeepPacket
  <2>2. PICK p \in content[f] : packetRef' = [packetRef EXCEPT ![p] = @ + 1]
    BY <2>1
  <2>3. p \in Packets /\ InFrame(p) /\ UNCHANGED <<cur, holds>>
    BY <1>8, <2>2 DEF TypeOK, InFrame, KeepPacket
  <2>4. p # cur /\ packetRef[p] > 0
    BY <2>3, CountedOnce
  <2> QED
    BY <2>2, <2>3, <2>4 DEF TypeOK, Pooled
<1>9. CASE ReleasePacket
  <2>1. PICK p \in kept : ReleasePackets({p}, {}) /\ cur' = cur
    BY <1>9 DEF ReleasePacket
  <2>2. p # cur
    BY CountedOnce DEF TypeOK
  <2> QED
    BY <2>1, <2>2, ReleaseClears DEF TypeOK, Pooled, One
<1>10. CASE ReleaseFrame
  <2>1. PICK f \in given : ReleasePackets(content[f], {}) /\ cur' = cur
    BY <1>10 DEF ReleaseFrame
  <2>2. cur \notin content[f]
    BY DEF TypeOK, FrameUniform
  <2> QED
    BY <2>1, <2>2, ReleaseClears DEF TypeOK, Pooled, One
<1> QED
  BY <1>1, <1>2, <1>3, <1>4, <1>5, <1>6, <1>7, <1>8, <1>9, <1>10 DEF Next

LEMMA BackedNext ==
  ASSUME Inv, ~ReleasesAtStop, TypeOK', PacketCounts', Pooled', LoopHolds', Next
  PROVE  Backed'
<1> USE DEF Inv
\* Whoever is readable is counted.
<1>1. ASSUME NEW p \in Packets, p \in Readable'
      PROVE  packetRef'[p] # 0
  <2>1. packetRef'[p] = One(cur' = p) + One(InFrame(p)') + One(p \in kept') + One(p \in lost')
    BY DEF PacketCounts
  <2>2. InFrame(p)' \/ p \in kept' \/ p = cur'
    BY <1>1 DEF Readable
  <2> QED
    BY <2>1, <2>2 DEF One
<1>2. ASSUME UNCHANGED backing, Readable' \subseteq Readable,
             \A p \in Packets : packetRef'[p] # 0 => holds[p] \subseteq holds'[p]
      PROVE  \A p \in Readable' : backing'[p] \subseteq holds'[p]
  <2> SUFFICES ASSUME NEW p \in Readable' PROVE backing'[p] \subseteq holds'[p]
    OBVIOUS
  <2>1. p \in Packets
    BY DEF Readable
  <2> QED
    BY <1>1, <1>2, <2>1 DEF Backed
<1>3. CASE Read
  <2>1. Readable' = Readable
    BY <1>3 DEF Read, Readable, InFrame
  <2> QED
    BY <1>2, <1>3, <2>1 DEF Backed, Read
<1>4. CASE GetPacket
  <2>1. Readable' = Readable
    BY <1>4 DEF GetPacket, Readable, InFrame
  <2>2. PICK p \in Packets : backing' = [backing EXCEPT ![p] = {}]
    BY <1>4 DEF GetPacket
  <2> QED
    BY <1>4, <2>1, <2>2 DEF TypeOK, Backed, GetPacket, Readable
<1>5. CASE ParseMore
  <2>1. Readable' = Readable
    BY <1>5 DEF ParseMore, Parsing, GoOn, Readable, InFrame
  <2>2. /\ cur \in Packets /\ data \in Data
        /\ holds' = [holds EXCEPT ![cur] = @ \cup {data}]
    BY <1>5 DEF TypeOK, LoopHolds, ParseMore, Parsing
  <2>3. \A p \in Packets : holds[p] \subseteq holds'[p]
    BY <2>2 DEF TypeOK
  <2>4. cached' = cached \cup {data} /\ cur' = cur /\ cur # None /\ loop' = "read"
          /\ loop = "parse"
    BY <1>5 DEF ParseMore, Parsing, GoOn
  <2>5. cached' \subseteq holds'[cur]
    BY <2>2, <2>3, <2>4 DEF TypeOK, Backed
  <2> QED
    BY <1>2, <1>5, <2>1, <2>3, <2>4, <2>5 DEF Backed, ParseMore
<1>6. CASE ParsePacket
  <2>1. /\ cur \in Packets /\ data \in Data /\ cached' = {} /\ loop = "parse"
        /\ holds' = [holds EXCEPT ![cur] = @ \cup {data}]
        /\ backing' = [backing EXCEPT ![cur] = cached \cup {data}]
    BY <1>6 DEF TypeOK, LoopHolds, ParsePacket, Parsing
  <2>2. Readable' \subseteq Readable \cup {cur}
    BY <1>6 DEF ParsePacket, Readable, InFrame
  <2>3. cached \subseteq holds[cur]
    BY <2>1 DEF Backed
  <2>4. ASSUME NEW p \in Readable' PROVE backing'[p] \subseteq holds'[p]
    <3>1. p \in Packets
      BY DEF Readable
    <3>2. CASE p = cur
      BY <2>1, <2>3, <3>2 DEF TypeOK
    <3>3. CASE p # cur
      BY <2>1, <2>2, <3>1, <3>3 DEF TypeOK, Backed
    <3> QED
      BY <3>2, <3>3
  <2> QED
    BY <2>1, <2>4 DEF Backed
<1>7. CASE ParseDiscarded \/ ParseRefused
  <2>1. /\ Parsing /\ cur \in Packets /\ cached' = {} /\ holds' = Cleared({cur})
        /\ backing' = [backing EXCEPT ![cur] = {}]
    BY <1>7 DEF TypeOK, ParseDiscarded, ParseRefused, Discard, Parsing
  <2>2. Readable' = Readable
    BY <1>7 DEF ParseDiscarded, ParseRefused, Parsing, Leave, GoOn, Readable, InFrame
  <2>3. ASSUME NEW p \in Readable' PROVE backing'[p] \subseteq holds'[p]
    <3>1. p \in Packets
      BY DEF Readable
    <3>2. CASE p = cur
      BY <2>1, <3>2 DEF TypeOK
    <3>3. CASE p # cur
      BY <2>1, <2>2, <3>1, <3>3 DEF TypeOK, Backed, Cleared
    <3> QED
      BY <3>2, <3>3
  <2> QED
    BY <2>1, <2>3 DEF Backed
<1>8. CASE HandleForgotten \/ HandleStops \/ HandleReleased \/ HandleAppend \/ HandleNewFrame
  <2>1. loop = "handle" /\ cached = {} /\ cached' = {} /\ backing' = backing
    BY <1>8 DEF Backed, Handling, HandleForgotten, HandleStops, HandleReleased,
                HandleAppend, HandleNewFrame
  <2>2. Readable' \subseteq Readable
    <3>1. CASE HandleForgotten \/ HandleStops \/ HandleReleased
      BY <3>1 DEF Handling, HandleForgotten, HandleStops, HandleReleased, GoOn, Leave,
                  Readable, InFrame
    <3>2. CASE HandleAppend
      <4>1. content' = [content EXCEPT ![asm[seen]] = @ \cup {cur}] /\ kept' = kept /\ cur' = None
        BY <3>2 DEF HandleAppend
      <4> QED
        BY <2>1, <4>1 DEF TypeOK, Readable, InFrame
    <3>3. CASE HandleNewFrame
      <4>1. PICK f \in Frames : content' = [content EXCEPT ![f] = {cur}]
        BY <3>3 DEF HandleNewFrame
      <4>2. kept' = kept /\ cur' = None
        BY <3>3 DEF HandleNewFrame
      <4> QED
        BY <2>1, <4>1, <4>2 DEF TypeOK, Readable, InFrame
    <3> QED
      BY <1>8, <3>1, <3>2, <3>3
  <2>3. \A p \in Packets : packetRef'[p] # 0 => holds[p] \subseteq holds'[p]
    <3>1. CASE HandleReleased
      BY <3>1, ReleaseClears DEF HandleReleased
    <3>2. CASE HandleForgotten \/ HandleAppend \/ HandleNewFrame
      BY <3>2 DEF HandleForgotten, HandleAppend, HandleNewFrame
    <3>3. CASE HandleStops
      BY <3>3, StopsUnreleased
    <3> QED
      BY <1>8, <3>1, <3>2, <3>3
  <2> QED
    BY <1>2, <2>1, <2>2, <2>3 DEF Backed
<1>9. CASE ReadEnds \/ Rebind \/ CloseStream \/ ShareFrame \/ ReleaseShare
  <2>1. /\ UNCHANGED <<backing, holds, cached, cur>>
        /\ loop' = loop \/ loop' = "exit"
    BY <1>9 DEF ReadEnds, Leave, Rebind, CloseStream, ShareFrame, ReleaseShare
  <2>2. Readable' \subseteq Readable
    BY <1>9 DEF ReadEnds, Leave, Rebind, CloseStream, ShareFrame, ReleaseShare, Readable, InFrame
  <2> QED
    BY <1>2, <2>1, <2>2 DEF Backed
<1>10. CASE Exit
  <2>1. Readable' \subseteq Readable /\ backing' = backing /\ cached' = {}
    BY <1>10 DEF Exit, Readable, InFrame
  <2>2. \A p \in Packets : packetRef'[p] # 0 => holds[p] \subseteq holds'[p]
    BY <1>10, ReleaseClears DEF Exit
  <2> QED
    BY <1>2, <2>1, <2>2 DEF Backed
<1>11. CASE KeepPacket
  <2>1. Readable' \subseteq Readable
    BY <1>11 DEF TypeOK, KeepPacket, Readable, InFrame
  <2> QED
    BY <1>2, <1>11, <2>1 DEF Backed, KeepPacket
<1>12. CASE ReleasePacket \/ ReleaseFrame
  <2>1. Readable' \subseteq Readable
    <3>1. CASE ReleasePacket
      BY <3>1 DEF ReleasePacket, Readable, InFrame
    <3>2. CASE ReleaseFrame
      <4>1. PICK f \in given : content' = [content EXCEPT ![f] = {}]
        BY <3>2 DEF ReleaseFrame
      <4> QED
        BY <3>2, <4>1 DEF TypeOK, ReleaseFrame, Readable, InFrame
    <3> QED
      BY <1>12, <3>1, <3>2
  <2>2. \A p \in Packets : packetRef'[p] # 0 => holds[p] \subseteq holds'[p]
    BY <1>12, ReleaseClears DEF ReleasePacket, ReleaseFrame
  <2>3. cur # None => cur \in Packets /\ cur' = cur /\ packetRef'[cur] = 1
    BY <1>12 DEF TypeOK, Pooled, ReleasePacket, ReleaseFrame
  <2>4. UNCHANGED <<backing, loop, cached, cur>>
    BY <1>12 DEF ReleasePacket, ReleaseFrame
  <2>5. cur # None => holds[cur] \subseteq holds'[cur]
    BY <2>2, <2>3
  <2> QED
    BY <1>2, <2>1, <2>2, <2>4, <2>5 DEF Backed
<1> QED
  BY <1>3, <1>4, <1>5, <1>6, <1>7, <1>8, <1>9, <1>10, <1>11, <1>12 DEF Next

(* -------------------------------- frames -------------------------------- *)

LEMMA UniformNext ==
  ASSUME Inv, ~ReleasesAtStop, Next
  PROVE  FrameUniform'
<1> USE DEF Inv
<1>1. \A f \in Frames : \A p \in content[f] : p \in Packets /\ packetRef[p] > 0 /\ p # cur
  <2> SUFFICES ASSUME NEW f \in Frames, NEW p \in content[f]
               PROVE  p \in Packets /\ packetRef[p] > 0 /\ p # cur
    OBVIOUS
  <2>1. p \in Packets /\ InFrame(p)
    BY DEF TypeOK, InFrame
  <2> QED
    BY <2>1, CountedOnce
<1>2. ASSUME UNCHANGED <<content, key, frameKey>>, cur' = cur \/ cur' = None
      PROVE  FrameUniform'
  BY <1>1, <1>2 DEF FrameUniform
<1>3. CASE Read \/ ParseMore \/ ParseDiscarded \/ ParseRefused \/ HandleForgotten \/ HandleStops
             \/ HandleReleased \/ ReadEnds \/ Exit \/ Rebind \/ CloseStream \/ ShareFrame
             \/ KeepPacket \/ ReleasePacket \/ ReleaseShare
  <2>1. UNCHANGED <<content, key, frameKey>> /\ (cur' = cur \/ cur' = None)
    BY <1>3 DEF Read, ParseMore, ParseDiscarded, ParseRefused, HandleForgotten, HandleStops,
                HandleReleased, ReadEnds, Exit, Rebind, CloseStream, ShareFrame, KeepPacket,
                ReleasePacket, ReleaseShare
  <2> QED
    BY <1>2, <2>1
<1>4. CASE GetPacket
  <2>1. PICK p \in Packets : packetRef[p] = 0 /\ cur' = p
    BY <1>4 DEF GetPacket
  <2> QED
    BY <1>1, <1>4, <2>1 DEF FrameUniform, GetPacket
<1>5. CASE ParsePacket
  <2>1. PICK k \in Keys : key' = [key EXCEPT ![cur] = k]
    BY <1>5 DEF ParsePacket
  <2> QED
    BY <1>1, <1>5, <2>1 DEF TypeOK, FrameUniform, ParsePacket
<1>6. CASE HandleAppend
  <2>1. /\ asm[seen] \in Frames /\ cur \in Packets /\ frameKey[asm[seen]] = key[cur]
        /\ content' = [content EXCEPT ![asm[seen]] = @ \cup {cur}]
        /\ cur' = None /\ UNCHANGED <<key, frameKey>>
    BY <1>6 DEF TypeOK, LoopHolds, HandleAppend, Handling, Matches
  <2>2. \A f \in Frames : cur \notin content[f]
    BY <1>1
  <2>3. \A f \in Frames : content'[f] = IF f = asm[seen] THEN content[f] \cup {cur} ELSE content[f]
    BY <2>1 DEF TypeOK
  <2>4. \A f \in Frames : \A p \in content'[f] : key'[p] = frameKey'[f] /\ p # cur'
    BY <1>1, <2>1, <2>3 DEF FrameUniform
  <2>5. ASSUME NEW f \in Frames, NEW g \in Frames, f # g
        PROVE  content'[f] \cap content'[g] = {}
    <3>1. content[f] \cap content[g] = {}
      BY <2>5 DEF FrameUniform
    <3> QED
      BY <2>2, <2>3, <2>5, <3>1
  <2> QED
    BY <2>4, <2>5 DEF FrameUniform
<1>7. CASE HandleNewFrame
  <2>1. PICK g \in Frames : /\ frameRef[g] = 0
                            /\ frameKey' = [frameKey EXCEPT ![g] = key[cur]]
                            /\ content' = [content EXCEPT ![g] = {cur}]
    BY <1>7 DEF HandleNewFrame
  <2>2. cur \in Packets /\ cur' = None /\ key' = key
    BY <1>7 DEF TypeOK, LoopHolds, HandleNewFrame, Handling
  <2>3. \A f \in Frames : cur \notin content[f]
    BY <1>1
  <2>4. \A f \in Frames : /\ content'[f] = IF f = g THEN {cur} ELSE content[f]
                          /\ frameKey'[f] = IF f = g THEN key[cur] ELSE frameKey[f]
    BY <2>1 DEF TypeOK
  <2>5. \A f \in Frames : \A p \in content'[f] : key'[p] = frameKey'[f] /\ p # cur'
    BY <1>1, <2>2, <2>4 DEF FrameUniform
  <2>6. \A f, h \in Frames : f # h => content'[f] \cap content'[h] = {}
    BY <2>3, <2>4 DEF FrameUniform
  <2> QED
    BY <2>5, <2>6 DEF FrameUniform
<1>8. CASE ReleaseFrame
  <2>1. PICK g \in given : content' = [content EXCEPT ![g] = {}]
    BY <1>8 DEF ReleaseFrame
  <2>2. cur' = cur /\ UNCHANGED <<key, frameKey>>
    BY <1>8 DEF ReleaseFrame
  <2>3. \A f \in Frames : content'[f] \subseteq content[f]
    BY <2>1 DEF TypeOK
  <2> QED
    BY <2>2, <2>3 DEF FrameUniform
<1> QED
  BY <1>3, <1>4, <1>5, <1>6, <1>7, <1>8 DEF Next

LEMMA PlacesNext ==
  ASSUME Inv, ~ReleasesAtStop, Next
  PROVE  FramePlaces'
<1> USE DEF Inv
<1>1. ASSUME UNCHANGED <<frameRef, content, asm, given, closed>>
      PROVE  FramePlaces'
  BY <1>1 DEF FramePlaces
<1>2. CASE Read \/ GetPacket \/ ParseMore \/ ParsePacket \/ ParseDiscarded \/ ParseRefused
             \/ HandleForgotten \/ HandleStops \/ HandleReleased \/ ReadEnds \/ Exit
             \/ Rebind \/ KeepPacket \/ ReleasePacket
  <2>1. UNCHANGED <<frameRef, content, asm, given, closed>>
    BY <1>2 DEF Read, GetPacket, ParseMore, ParsePacket, ParseDiscarded, ParseRefused,
                HandleForgotten, HandleStops, HandleReleased, ReadEnds, Exit, Rebind,
                KeepPacket, ReleasePacket
  <2> QED
    BY <1>1, <2>1
<1>3. CASE HandleAppend
  <2>1. /\ seen \in Streams /\ asm[seen] \in Frames
        /\ content' = [content EXCEPT ![asm[seen]] = @ \cup {cur}]
        /\ UNCHANGED <<frameRef, asm, given, closed>>
    BY <1>3 DEF TypeOK, LoopHolds, HandleAppend, Handling, Matches
  <2>2. frameRef[asm[seen]] > 0
    BY <2>1 DEF FramePlaces
  <2> QED
    BY <2>1, <2>2 DEF TypeOK, FramePlaces
<1>4. CASE HandleNewFrame
  <2>1. PICK g \in Frames : /\ frameRef[g] = 0
                            /\ frameRef' = [frameRef EXCEPT ![g] = 1]
                            /\ content' = [content EXCEPT ![g] = {cur}]
                            /\ asm' = [asm EXCEPT ![seen] = g]
    BY <1>4 DEF HandleNewFrame
  <2>2. /\ seen \in Streams \ closed /\ closed' = closed
        /\ given' = given \cup ({asm[seen]} \ {None})
    BY <1>4 DEF TypeOK, LoopHolds, HandleNewFrame, Handling
  <2>3. g \notin given /\ \A s \in Streams : asm[s] # g
    BY <2>1 DEF FramePlaces
  <2>4. /\ \A s \in Streams : asm'[s] = IF s = seen THEN g ELSE asm[s]
        /\ \A f \in Frames : frameRef'[f] = IF f = g THEN 1 ELSE frameRef[f]
        /\ \A f \in Frames : content'[f] = IF f = g THEN {cur} ELSE content[f]
    BY <2>1, <2>2 DEF TypeOK
  <2>5. g # None /\ g # asm[seen]
    BY <2>2, <2>3 DEF TypeOK
  <2>6. \A s, t \in Streams : s # t /\ asm'[s] # None => asm'[s] # asm'[t]
    BY <2>3, <2>4 DEF FramePlaces
  <2>7. \A s \in Streams : asm'[s] # None => asm'[s] \notin given' /\ s \notin closed'
    BY <2>2, <2>3, <2>4, <2>5 DEF FramePlaces
  <2>8. ASSUME NEW f \in Frames
        PROVE  /\ frameRef'[f] = 0 => content'[f] = {}
               /\ (frameRef'[f] > 0) <=> (f \in given' \/ \E s \in Streams : asm'[s] = f)
    <3>1. CASE f = g
      BY <2>2, <2>4, <3>1
    <3>2. CASE f # g
      <4>1. (\E s \in Streams : asm'[s] = f) \/ f \in given' <=> (\E s \in Streams : asm[s] = f) \/ f \in given
        BY <2>2, <2>4, <3>2
      <4> QED
        BY <2>4, <3>2, <4>1 DEF FramePlaces
    <3> QED
      BY <3>1, <3>2
  <2> QED
    BY <2>6, <2>7, <2>8 DEF FramePlaces
<1>5. CASE CloseStream
  <2>1. PICK c \in closing : /\ closed' = closed \cup {c}
                             /\ asm' = [asm EXCEPT ![c] = None]
                             /\ given' = given \cup ({asm[c]} \ {None})
    BY <1>5 DEF CloseStream
  <2>2. UNCHANGED <<frameRef, content>> /\ c \in Streams
    BY <1>5 DEF TypeOK, CloseStream
  <2>3. \A s \in Streams : asm'[s] = IF s = c THEN None ELSE asm[s]
    BY <2>1, <2>2 DEF TypeOK
  <2>4. /\ \A s, t \in Streams : s # t /\ asm'[s] # None => asm'[s] # asm'[t]
        /\ \A s \in Streams : asm'[s] # None => asm'[s] \notin given' /\ s \notin closed'
    BY <2>1, <2>2, <2>3 DEF FramePlaces
  <2>5. \A f \in Frames : f \in given' \/ (\E s \in Streams : asm'[s] = f)
                           <=> f \in given \/ (\E s \in Streams : asm[s] = f)
    BY <2>1, <2>2, <2>3
  <2> QED
    BY <2>2, <2>4, <2>5 DEF FramePlaces
<1>6. CASE ShareFrame \/ ReleaseShare
  <2>1. PICK g \in given : \/ frameRef[g] = 1 /\ frameRef' = [frameRef EXCEPT ![g] = 2]
                           \/ frameRef[g] = 2 /\ frameRef' = [frameRef EXCEPT ![g] = 1]
    BY <1>6 DEF ShareFrame, ReleaseShare
  <2>2. UNCHANGED <<content, asm, given, closed>>
    BY <1>6 DEF ShareFrame, ReleaseShare
  <2>3. \A f \in Frames : frameRef'[f] \in Int /\ (frameRef'[f] > 0 <=> frameRef[f] > 0)
                           /\ (frameRef'[f] = 0 <=> frameRef[f] = 0)
    BY <2>1 DEF TypeOK
  <2> QED
    BY <2>2, <2>3 DEF FramePlaces
<1>7. CASE ReleaseFrame
  <2>1. PICK g \in given : /\ frameRef' = [frameRef EXCEPT ![g] = 0]
                           /\ given' = given \ {g}
                           /\ content' = [content EXCEPT ![g] = {}]
    BY <1>7 DEF ReleaseFrame
  <2>2. UNCHANGED <<asm, closed>> /\ g \in Frames
    BY <1>7 DEF TypeOK, ReleaseFrame
  <2>3. \A s \in Streams : asm[s] # g
    BY <2>2 DEF TypeOK, FramePlaces
  <2> QED
    BY <2>1, <2>2, <2>3 DEF TypeOK, FramePlaces
<1> QED
  BY <1>2, <1>3, <1>4, <1>5, <1>6, <1>7 DEF Next

(* ------------------------------- theorems ------------------------------- *)

LEMMA NextInv == ASSUME Inv, ~ReleasesAtStop, [Next]_vars PROVE Inv'
<1>1. CASE Next
  <2>1. TypeOK'
    BY <1>1, LoopTypes, HandleTypes, OthersTypes DEF Next
  <2>2. PacketCounts' /\ Pooled'
    BY <1>1, <2>1, PacketNext, PooledNext
  <2>3. LoopHolds' /\ StreamsFollowed'
    BY <1>1, LoopNext
  <2>4. DataCounts' /\ FrameUniform' /\ FramePlaces'
    BY <1>1, DataNext, UniformNext, PlacesNext
  <2>5. Backed'
    BY <1>1, <2>1, <2>2, <2>3, BackedNext
  <2> QED
    BY <2>1, <2>2, <2>3, <2>4, <2>5 DEF Inv
<1>2. CASE UNCHANGED vars
  <2>1. TypeOK' /\ LoopHolds' /\ Pooled' /\ StreamsFollowed'
    BY <1>2 DEF vars, Inv, TypeOK, LoopHolds, Pooled, StreamsFollowed
  <2>2. Backed' /\ PacketCounts'
    BY <1>2 DEF vars, Inv, Backed, Readable, PacketCounts, InFrame
  <2>3. \A d \in Data : Holders(d)' = Holders(d)
    BY <1>2 DEF vars, Holders
  <2>4. DataCounts'
    BY <1>2, <2>3 DEF vars, Inv, DataCounts
  <2>5. FrameUniform' /\ FramePlaces'
    BY <1>2 DEF vars, Inv, FrameUniform, FramePlaces
  <2> QED
    BY <2>1, <2>2, <2>4, <2>5 DEF Inv
<1> QED
  BY <1>1, <1>2

LEMMA Invariance == ASSUME ~ReleasesAtStop PROVE Spec => []Inv
<1>1. Inv /\ [Next]_vars => Inv'
  BY NextInv
<1> QED
  BY <1>1, InitInv, PTL DEF Spec

\* Types of all that the loop, the pools and the user have.
THEOREM TypeCorrect == ASSUME ~ReleasesAtStop PROVE Spec => []TypeOK
BY Invariance, PTL DEF Inv

\* Every reference to a packet or a chunk has one owner: nothing is released
\* too often, or too early (packet.go:66, tcp-channel.go:216-294).
THEOREM EveryReferenceOwned ==
  ASSUME ~ReleasesAtStop PROVE Spec => []Ownership
<1>1. Inv => Ownership
  BY DEF Inv, Ownership
<1> QED
  BY <1>1, Invariance, PTL

\* What somebody may read has not gone back to the pool, where the next read
\* from the connection would overwrite it.
THEOREM ReadableIsAlive == ASSUME ~ReleasesAtStop PROVE Spec => []BytesAlive
<1>1. Inv => BytesAlive
  <2> SUFFICES ASSUME Inv PROVE BytesAlive
    OBVIOUS
  <2>1. ASSUME NEW p \in Packets, NEW d \in holds[p] PROVE dataRef[d] > 0
    <3>1. d \in Data
      BY DEF Inv, TypeOK
    <3>2. IsFiniteSet(Holders(d)) /\ Cardinality(Holders(d)) \in Nat /\ Holders(d) # {}
      BY <2>1, HoldersFinite DEF Holders
    <3>3. Cardinality(Holders(d)) > 0
      BY <3>2, FS_EmptySet
    <3> QED
      BY <3>1, <3>2, <3>3 DEF Inv, DataCounts, One
  <2> QED
    BY <2>1 DEF Inv, TypeOK, Backed, Readable, BytesAlive
<1> QED
  BY <1>1, Invariance, PTL

\* The packets of a frame are its own, and of its timestamp and payload type;
\* a frame is in assembly by one stream that is not closed, with the user or
\* in the pool (frame-handler.go:48-81).
THEOREM FramesStayApart == ASSUME ~ReleasesAtStop PROVE Spec => []FramesApart
<1>1. Inv => FramesApart
  BY DEF Inv, FramesApart
<1> QED
  BY <1>1, Invariance, PTL

\* In the end all is back in the pools but what was lost on a closed stream.
THEOREM EndReturnsAll == ASSUME ~ReleasesAtStop PROVE Spec => []AllReturned
<1>1. Inv => AllReturned
  <2> SUFFICES ASSUME Inv, loop = "done", closing = {}, given = {}, kept = {}
               PROVE  /\ \A p \in Packets \ lost : packetRef[p] = 0
                      /\ \A f \in Frames : frameRef[f] = 0
                      /\ \A d \in Data : dataRef[d] > 0 => \E p \in lost : d \in holds[p]
    BY DEF AllReturned
  <2>1. cur = None /\ bound = None /\ data = None
    BY DEF Inv, LoopHolds
  <2>2. \A s \in Streams : asm[s] = None
    BY <2>1 DEF Inv, TypeOK, StreamsFollowed
  <2>3. \A f \in Frames : frameRef[f] = 0 /\ content[f] = {}
    BY <2>2 DEF Inv, TypeOK, FramePlaces
  <2>4. ASSUME NEW p \in Packets \ lost PROVE packetRef[p] = 0
    <3>1. ~InFrame(p) /\ cur # p
      BY <2>1, <2>3 DEF InFrame
    <3> QED
      BY <3>1 DEF Inv, PacketCounts, One
  <2>5. ASSUME NEW d \in Data, dataRef[d] > 0 PROVE \E p \in lost : d \in holds[p]
    <3>1. Cardinality(Holders(d)) # 0
      <4>1. dataRef[d] = Cardinality(Holders(d))
        <5>1. data # d
          BY <2>1, FlowAssumption DEF FlowAssumption
        <5>2. Cardinality(Holders(d)) \in Nat
          BY HoldersFinite, Packets \in SUBSET Packets DEF Holders
        <5> QED
          BY <5>1, <5>2 DEF Inv, DataCounts, One
      <4> QED
        BY <2>5, <4>1
    <3>2. PICK p \in Packets : d \in holds[p]
      BY <3>1, FS_EmptySet DEF Holders
    <3>3. packetRef[p] # 0
      BY <3>2 DEF Inv, Pooled
    <3> QED
      BY <2>4, <3>2, <3>3
  <2> QED
    BY <2>3, <2>4, <2>5
<1> QED
  BY <1>1, Invariance, PTL

\* Nothing is added to a frame the user has.
THEOREM GivenFramesAreFinal == ASSUME ~ReleasesAtStop PROVE Spec => GivenIsFinal
<1>1. Inv /\ [Next]_vars => [\A f \in given : content'[f] \subseteq content[f]]_vars
  <2> SUFFICES ASSUME Inv, Next, NEW f \in given PROVE content'[f] \subseteq content[f]
    OBVIOUS
  <2>1. f \in Frames /\ frameRef[f] # 0
    BY DEF Inv, TypeOK, FramePlaces
  <2>2. CASE UNCHANGED content
    BY <2>2
  <2>3. CASE HandleAppend
    <3>1. asm[seen] # f /\ asm[seen] \in Frames
      BY <2>3 DEF Inv, TypeOK, LoopHolds, FramePlaces, HandleAppend, Handling, Matches
    <3> QED
      BY <2>1, <2>3, <3>1 DEF Inv, TypeOK, HandleAppend
  <2>4. CASE HandleNewFrame
    BY <2>1, <2>4 DEF Inv, TypeOK, HandleNewFrame
  <2>5. CASE ReleaseFrame
    BY <2>1, <2>5 DEF Inv, TypeOK, ReleaseFrame
  <2> QED
    BY <2>2, <2>3, <2>4, <2>5
       DEF Next, Read, GetPacket, ParseMore, ParsePacket, ParseDiscarded, ParseRefused,
           HandleForgotten, HandleStops, HandleReleased, ReadEnds, Exit, Rebind, CloseStream,
           ShareFrame, KeepPacket, ReleasePacket, ReleaseShare
<1> QED
  BY <1>1, Invariance, PTL DEF Spec, GivenIsFinal
===============================================================================
