------------------------------ MODULE WireProofs ------------------------------
(* Proofs about layers built by any setters, and about frames that packets   *)
(* of any number and contents, with any times in any order, are added to.    *)
EXTENDS WireProps, TLAPS, SequenceTheorems, WellFoundedInduction

\* A frame has its fields, and its times are numbers in order.
Timed(f) == /\ DOMAIN f = {"packets", "timestamp", "payloadType", "start", "end", "retyped"}
            /\ f.start \in Int /\ f.end \in Int
            /\ f.start <= f.end

\* timeRangeExpand keeps times in order: a packet older than the last moves
\* the start back by at least as much as the end, whatever the guess adds.
LEMMA RangeInOrder ==
  ASSUME NEW start \in Int, NEW end \in Int, NEW cur \in Int, NEW n \in Nat,
         start <= end
  PROVE  LET range == TimeRangeExpand(start, end, cur, n)
         IN  range[1] \in Int /\ range[2] \in Int /\ range[1] <= range[2]
<1> DEFINE guess == IF n > 2 THEN (end - start) \div (n - 2) ELSE 0
           offset == cur - end - guess
<1>1. guess \in Int /\ guess >= 0
  <2>1. ASSUME NEW a \in Nat, NEW b \in Nat \ {0} PROVE a \div b \in Int /\ a \div b >= 0
    BY <2>1
  <2> QED
    BY <2>1
<1>2. start + offset \in Int /\ (cur < end => start + offset <= cur)
  BY <1>1
<1>3. TimeRangeExpand(start, end, cur, n) =
        IF start = 0 THEN <<cur, cur>>
        ELSE <<IF cur < end THEN start + offset ELSE start, cur>>
  BY DEF TimeRangeExpand, ZeroTime
<1> HIDE DEF offset, guess
<1> QED
  BY <1>2, <1>3

LEMMA AppendKeepsTimed ==
  ASSUME NEW f, NEW l, NEW t \in Int, Timed(f), Len(f.packets) \in Nat
  PROVE  Timed(AppendPacket(f, l, t))
<1> DEFINE n == Len(f.packets) + 1
           range == TimeRangeExpand(f.start, f.end, t, n)
<1>1. f.start \in Int /\ f.end \in Int /\ f.start <= f.end /\ n \in Nat
  BY DEF Timed
<1>2. range[1] \in Int /\ range[2] \in Int /\ range[1] <= range[2]
  <2> HIDE DEF n
  <2> QED
    BY <1>1, RangeInOrder
<1>3. CASE ~Belongs(f, l)
  BY <1>3 DEF AppendPacket
<1>4. CASE Belongs(f, l)
  <2> DEFINE g == AppendPacket(f, l, t)
  <2>1. DOMAIN g = DOMAIN f
    BY <1>4 DEF AppendPacket
  <2>2. g.start = range[1]
    BY <1>4 DEF AppendPacket, Timed
  <2>3. g.end = range[2]
    BY <1>4 DEF AppendPacket, Timed
  <2> QED
    BY <1>2, <2>1, <2>2, <2>3 DEF Timed
<1> QED
  BY <1>3, <1>4

\* Layers and frames have their fields, and packets are a sequence: which may
\* be of anything, so it is said of some set of packets.
IsLayer(l) == DOMAIN l = DOMAIN Fresh
Collected(f) == /\ \E S : f.packets \in Seq(S)
                /\ \A i \in DOMAIN f.packets : IsLayer(f.packets[i])
Uniform(f) == \A i \in DOMAIN f.packets :
                /\ f.packets[i].timestamp = f.timestamp
                /\ ~f.retyped => f.packets[i].payloadType = f.payloadType

LEMMA LayerFields == {"timestamp", "payloadType"} \subseteq DOMAIN Fresh
BY DEF Fresh

LEMMA EmptyIsFine == Timed(EmptyFrame) /\ Collected(EmptyFrame) /\ Uniform(EmptyFrame)
<1>1. EmptyFrame.packets = <<>> /\ <<>> \in Seq({})
  BY DEF EmptyFrame
<1> QED
  BY <1>1 DEF EmptyFrame, ZeroTime, Timed, Collected, Uniform

LEMMA LayersAreLayers == ASSUME NEW l \in Layers PROVE IsLayer(l)
BY WireAssumption DEF Layers, Build, IsLayer, IsConfig

LEMMA EditsAreLayers ==
  ASSUME IsLayer(draft), NEW l \in Edits(draft) PROVE IsLayer(l)
<1>1. ASSUME NEW s PROVE IsLayer(Stamp(draft, s))
  BY DEF IsLayer, Stamp
<1>2. ASSUME NEW t PROVE IsLayer(SetPayloadType(draft, t))
  BY DEF IsLayer, SetPayloadType
<1>3. ASSUME NEW w PROVE IsLayer(AddCSRC(draft, w))
  BY DEF IsLayer, AddCSRC
<1>4. ASSUME NEW ws PROVE IsLayer(SetCSRCList(draft, ws)) /\ IsLayer(AddCSRCList(draft, ws))
  BY DEF IsLayer, SetCSRCList, AddCSRCList
<1>5. ASSUME NEW ws PROVE /\ IsLayer(SetExtensionContents(draft, ws))
                          /\ IsLayer(AddExtensionContents(draft, ws))
  BY DEF IsLayer, SetExtensionContents, AddExtensionContents
<1>6. ASSUME NEW n PROVE IsLayer(SetPaddingLength(draft, n))
  BY DEF IsLayer, SetPaddingLength
<1>7. ASSUME NEW c PROVE IsLayer(SetContent(draft, c)) /\ IsLayer(AddContent(draft, c))
  BY DEF IsLayer, SetContent, AddContent
<1> QED
  BY <1>1, <1>2, <1>3, <1>4, <1>5, <1>6, <1>7, LayersAreLayers, Zenon DEF Edits

LEMMA AppendKeepsUniform ==
  ASSUME NEW f, NEW l, NEW t, Timed(f), Collected(f), Uniform(f), IsLayer(l)
  PROVE  Collected(AppendPacket(f, l, t)) /\ Uniform(AppendPacket(f, l, t))
<1> DEFINE g == AppendPacket(f, l, t)
<1>1. CASE ~Belongs(f, l)
  BY <1>1 DEF AppendPacket
<1>2. CASE Belongs(f, l)
  <2>1. /\ g.packets = Append(f.packets, l)
        /\ g.timestamp = IF f.packets = <<>> THEN l.timestamp ELSE f.timestamp
        /\ g.payloadType = IF f.packets = <<>> THEN l.payloadType ELSE f.payloadType
        /\ g.retyped = f.retyped
    BY <1>2 DEF AppendPacket, Timed
  <2>2. PICK S : f.packets \in Seq(S)
    BY DEF Collected
  <2>3. f.packets \in Seq(S \cup {l})
    BY <2>2
  <2> HIDE DEF g
  <2>4. g.packets \in Seq(S \cup {l})
    BY <2>1, <2>3
  <2>5. ASSUME NEW i \in DOMAIN g.packets
        PROVE  \/ i \in DOMAIN f.packets /\ f.packets # <<>> /\ g.packets[i] = f.packets[i]
               \/ g.packets[i] = l
    BY <2>1, <2>3, <2>5
  <2>6. Collected(g)
    BY <2>4, <2>5 DEF Collected
  <2>7. Uniform(g)
    BY <1>2, <2>1, <2>5 DEF Uniform, Belongs
  <2> QED
    BY <2>6, <2>7 DEF g
<1> QED
  BY <1>1, <1>2

LEMMA RetimeKeepsUniform ==
  ASSUME NEW f, NEW t, Timed(f), Collected(f), Uniform(f)
  PROVE  LET g == SetFrameTimestamp(f, t) IN Timed(g) /\ Collected(g) /\ Uniform(g)
<1> DEFINE g == SetFrameTimestamp(f, t)
           Renewed(l) == [l EXCEPT !.timestamp = t]
<1>1. PICK S : f.packets \in Seq(S)
  BY DEF Collected
<1>2. /\ DOMAIN g = DOMAIN f
      /\ g.start = f.start /\ g.end = f.end /\ g.retyped = f.retyped
      /\ g.payloadType = f.payloadType /\ g.timestamp = t
      /\ g.packets = [i \in DOMAIN f.packets |-> Renewed(f.packets[i])]
  BY DEF SetFrameTimestamp, Timed
<1>3. ASSUME NEW i \in DOMAIN f.packets
      PROVE  LET r == Renewed(f.packets[i])
             IN  /\ IsLayer(r) /\ r.timestamp = t
                 /\ r.payloadType = f.packets[i].payloadType
  BY <1>3, LayerFields DEF Collected, IsLayer
<1> HIDE DEF g, Renewed
<1>4. g.packets \in Seq({Renewed(f.packets[i]) : i \in DOMAIN f.packets})
  BY <1>1, <1>2
<1>5. DOMAIN g.packets = DOMAIN f.packets
  BY <1>2
<1>6. \A i \in DOMAIN f.packets : g.packets[i] = Renewed(f.packets[i])
  BY <1>2
<1>7. Timed(g)
  BY <1>2 DEF Timed
<1>8. Collected(g)
  BY <1>3, <1>4, <1>5, <1>6 DEF Collected
<1>9. Uniform(g)
  BY <1>2, <1>3, <1>5, <1>6 DEF Uniform
<1> QED
  BY <1>7, <1>8, <1>9 DEF g

LEMMA RetypeKeepsUniform ==
  ASSUME NEW f, NEW t, Timed(f), Collected(f), Uniform(f)
  PROVE  LET g == SetFramePayloadType(f, t) IN Timed(g) /\ Collected(g) /\ Uniform(g)
<1> DEFINE g == SetFramePayloadType(f, t)
<1>1. PICK S : f.packets \in Seq(S)
  BY DEF Collected
<1>2. /\ DOMAIN g = DOMAIN f
      /\ g.start = f.start /\ g.end = f.end /\ g.retyped = TRUE
      /\ g.timestamp = f.timestamp
      /\ g.packets = [i \in DOMAIN f.packets |-> SetPayloadType(f.packets[i], t)]
  BY DEF SetFramePayloadType, Timed
<1>3. ASSUME NEW i \in DOMAIN f.packets
      PROVE  LET r == SetPayloadType(f.packets[i], t)
             IN  IsLayer(r) /\ r.timestamp = f.packets[i].timestamp
  BY <1>3, LayerFields DEF Collected, IsLayer, SetPayloadType
<1> HIDE DEF g
<1>4. g.packets \in Seq({SetPayloadType(f.packets[i], t) : i \in DOMAIN f.packets})
  BY <1>1, <1>2
<1>5. DOMAIN g.packets = DOMAIN f.packets
  BY <1>2
<1>6. \A i \in DOMAIN f.packets : g.packets[i] = SetPayloadType(f.packets[i], t)
  BY <1>2
<1>7. Timed(g)
  BY <1>2 DEF Timed
<1>8. Collected(g)
  BY <1>3, <1>4, <1>5, <1>6 DEF Collected
<1>9. Uniform(g)
  BY <1>2, <1>3, <1>5, <1>6 DEF Uniform
<1> QED
  BY <1>7, <1>8, <1>9 DEF g

\* The writer counts from the number its next packet gets; the last one it
\* wrote under its own numbers was the one before.
WriterFields == {"frame", "size", "timestamp", "payloadType", "seq", "ssrc"}
Number == 0 .. UInt16 - 1
Follow(r) == /\ \E S : r \in Seq(S)
             /\ \A i \in 1 .. Len(r) - 1 : r[i + 1].seq = (r[i].seq + 1) % UInt16
ComesNext(r, v) == r # <<>> => v = (r[Len(r)].seq + 1) % UInt16
NumberedFrom(out, v) == \A i \in 1 .. Len(out) : out[i].seq = (v + i - 1) % UInt16
CountsOn(w, r) == w.seq = <<>> \/ \E v \in Number : w.seq = <<v>> /\ ComesNext(r, v)
Counting(w, r) == DOMAIN w = WriterFields /\ Follow(r) /\ CountsOn(w, r)

LEMMA Remainder ==
  ASSUME NEW M \in Nat \ {0}, NEW x \in Int
  PROVE  x % M \in 0 .. M - 1 /\ \E q \in Int : x = q * M + (x % M)
<1>1. x % M \in 0 .. M - 1 /\ x \div M \in Int /\ x = (x \div M) * M + (x % M)
  OBVIOUS
<1> QED
  BY <1>1

LEMMA SameRemainder ==
  ASSUME NEW M \in Nat \ {0}, NEW k \in Int, NEW c \in 0 .. M - 1, NEW d \in 0 .. M - 1,
         d - c = k * M
  PROVE  c = d
<1>1. CASE k >= 1
  <2>1. k * M >= M
    BY <1>1
  <2> QED
    BY <2>1
<1>2. CASE k <= -1
  <2>1. k * M <= -M
    BY <1>2
  <2> QED
    BY <2>1
<1>3. CASE k = 0
  BY <1>3
<1> QED
  BY <1>1, <1>2, <1>3

LEMMA NextRemainder ==
  ASSUME NEW M \in Nat \ {0}, NEW a \in Nat
  PROVE  ((a % M) + 1) % M = (a + 1) % M
<1> DEFINE r == a % M
           c == (r + 1) % M
           d == (a + 1) % M
<1>1. r \in 0 .. M - 1
  BY Remainder
<1>2. c \in 0 .. M - 1 /\ d \in 0 .. M - 1
  BY <1>1, Remainder
<1>3. PICK q \in Int : a = q * M + r
  <2>1. a \in Int
    OBVIOUS
  <2> QED
    BY <2>1, Remainder
<1>4. PICK q2 \in Int : r + 1 = q2 * M + c
  <2>1. r + 1 \in Int
    BY <1>1
  <2> QED
    BY <2>1, Remainder
<1>5. PICK q3 \in Int : a + 1 = q3 * M + d
  <2>1. a + 1 \in Int
    OBVIOUS
  <2> QED
    BY <2>1, Remainder
<1> HIDE DEF r, c, d
<1>6. d - c = (q + q2 - q3) * M /\ q + q2 - q3 \in Int
  BY <1>1, <1>2, <1>3, <1>4, <1>5
<1>7. c = d
  BY <1>2, <1>6, SameRemainder
<1> QED
  BY <1>7 DEF r, c, d

LEMMA Width == UInt16 \in Nat \ {0}
BY DEF UInt16

LEMMA NumbersAreNat == ASSUME NEW v \in Number PROVE v \in Nat
BY Width DEF Number

LEMMA NextNumber ==
  ASSUME NEW a \in Nat
  PROVE  a % UInt16 \in Number /\ ((a % UInt16) + 1) % UInt16 = (a + 1) % UInt16
<1>1. a \in Int
  OBVIOUS
<1>2. a % UInt16 \in 0 .. UInt16 - 1
  BY <1>1, Width, Remainder
<1>3. ((a % UInt16) + 1) % UInt16 = (a + 1) % UInt16
  BY Width, NextRemainder
<1> QED
  BY <1>2, <1>3 DEF Number

LEMMA SmallNumber == ASSUME NEW v \in Number PROVE v % UInt16 = v
<1>1. v \in Int
  BY NumbersAreNat
<1>2. PICK q \in Int : v = q * UInt16 + (v % UInt16)
  BY <1>1, Width, Remainder
<1>3. v % UInt16 \in 0 .. UInt16 - 1
  BY <1>1, Width, Remainder
<1> DEFINE r == v % UInt16
           m == q * UInt16
<1>4. m \in Int /\ v = m + r /\ r \in Int
  BY <1>2, <1>3, Width
<1> HIDE DEF r, m
<1>5. v - r = m
  BY <1>4
<1> QED
  BY <1>3, <1>5, Width, SameRemainder DEF Number, r, m

LEMMA StartsCounting ==
  /\ Follow(<<>>)
  /\ Counting(NewWriter(EmptyFrame), <<>>)
<1>1. <<>> \in Seq({})
  OBVIOUS
<1> QED
  BY <1>1 DEF Counting, Follow, CountsOn, NewWriter, WriterFields

\* A setter starts a new numbering, or leaves the number alone.
LEMMA OverrideCounts ==
  ASSUME Counting(writer, rewritten), NEW w \in Overrides(writer)
  PROVE  Counting(w, IF w.seq = writer.seq THEN rewritten ELSE <<>>)
<1>1. /\ DOMAIN w = WriterFields
      /\ w.seq = writer.seq \/ w.seq = <<>> \/ \E s \in Stamps : w.seq = <<s.seq>>
  <2>1. ASSUME NEW v
        PROVE  /\ DOMAIN [writer EXCEPT !.timestamp = v] = WriterFields
               /\ [writer EXCEPT !.timestamp = v].seq = writer.seq
               /\ DOMAIN [writer EXCEPT !.payloadType = v] = WriterFields
               /\ [writer EXCEPT !.payloadType = v].seq = writer.seq
               /\ DOMAIN [writer EXCEPT !.ssrc = v] = WriterFields
               /\ [writer EXCEPT !.ssrc = v].seq = writer.seq
               /\ DOMAIN [writer EXCEPT !.seq = v] = WriterFields
               /\ [writer EXCEPT !.seq = v].seq = v
    BY DEF Counting, WriterFields
  <2>2. CASE \E v : w = [writer EXCEPT !.timestamp = v] \/ w = [writer EXCEPT !.payloadType = v]
                    \/ w = [writer EXCEPT !.ssrc = v]
    BY <2>1, <2>2
  <2>3. CASE \E v \in {<<>>} \cup {<<s.seq>> : s \in Stamps} : w = [writer EXCEPT !.seq = v]
    BY <2>1, <2>3
  <2> QED
    BY <2>2, <2>3 DEF Overrides
<1>2. CASE w.seq = writer.seq
  BY <1>1, <1>2 DEF Counting, CountsOn
<1>3. CASE w.seq # writer.seq
  BY <1>1, <1>3, WireAssumption, StartsCounting DEF Counting, CountsOn, ComesNext, Number
<1> QED
  BY <1>2, <1>3

LEMMA Joined ==
  ASSUME NEW S, NEW r \in Seq(S), NEW out \in Seq(S)
  PROVE  /\ r \o out \in Seq(S)
         /\ Len(r) \in Nat /\ Len(r \o out) = Len(r) + Len(out)
         /\ \A i \in 1 .. Len(r) : (r \o out)[i] = r[i]
         /\ \A j \in 1 .. Len(out) : (r \o out)[Len(r) + j] = out[j]
OBVIOUS

\* Packets numbered from v on continue a sequence that v continues.
LEMMA JoinedFollow ==
  ASSUME NEW r, NEW v \in Number, NEW U, NEW out \in Seq(U), out # <<>>,
         Follow(r), ComesNext(r, v), NumberedFrom(out, v)
  PROVE  Follow(r \o out) /\ ComesNext(r \o out, (v + Len(out)) % UInt16)
<1> DEFINE all == r \o out
           k == Len(r)
           n == Len(out)
<1>0. n \in Nat \ {0} /\ \A i \in 1 .. n : out[i].seq = (v + i - 1) % UInt16
  BY DEF NumberedFrom
<1>1. PICK S : r \in Seq(S)
  BY DEF Follow
<1>2. r \in Seq(S \cup U) /\ out \in Seq(S \cup U)
  BY <1>1
<1>3. all \in Seq(S \cup U) /\ k \in Nat /\ Len(all) = k + n
  BY <1>2, Joined
<1>4. /\ \A i \in 1 .. k : all[i] = r[i]
      /\ \A j \in 1 .. n : all[k + j] = out[j]
  BY <1>2, Joined
<1>5. r # <<>> <=> k # 0
  BY <1>1
<1>6. \A i \in 1 .. k - 1 : r[i + 1].seq = (r[i].seq + 1) % UInt16
  BY DEF Follow
<1> HIDE DEF all, k, n
<1>7. ASSUME NEW j \in 1 .. n PROVE (out[j].seq + 1) % UInt16 = (v + j) % UInt16
  <2>1. v + j - 1 \in Nat /\ (v + j - 1) + 1 = v + j
    BY <1>0, NumbersAreNat
  <2>2. out[j].seq = (v + j - 1) % UInt16
    BY <1>0
  <2> QED
    BY <2>1, <2>2, NextNumber
<1>8. ASSUME NEW i \in 1 .. k + n - 1
      PROVE  all[i + 1].seq = (all[i].seq + 1) % UInt16
  <2>1. CASE i < k
    <3>1. i \in 1 .. k /\ i + 1 \in 1 .. k /\ i \in 1 .. k - 1
      BY <1>3, <2>1
    <3> QED
      BY <1>4, <1>6, <3>1
  <2>2. CASE i = k
    <3>1. v + 1 - 1 = v
      BY NumbersAreNat
    <3>2. out[1].seq = v
      BY <1>0, <3>1, SmallNumber
    <3>3. r # <<>> /\ all[i] = r[k] /\ all[i + 1] = out[1]
      BY <1>0, <1>3, <1>4, <1>5, <2>2
    <3> QED
      BY <3>2, <3>3 DEF k, ComesNext
  <2>3. CASE i > k
    <3>1. PICK j \in 1 .. n - 1 : i = k + j
      <4>1. i - k \in 1 .. n - 1 /\ i = k + (i - k)
        BY <1>0, <1>3, <2>3
      <4> QED
        BY <4>1
    <3>2. all[i] = out[j] /\ all[i + 1] = out[j + 1]
      <4>1. j \in 1 .. n /\ j + 1 \in 1 .. n /\ i + 1 = k + (j + 1)
        BY <1>0, <1>3, <3>1
      <4> QED
        BY <1>4, <3>1, <4>1
    <3>3. out[j + 1].seq = (v + j) % UInt16
      <4>1. j + 1 \in 1 .. n /\ v + (j + 1) - 1 = v + j
        BY <1>0, NumbersAreNat
      <4> QED
        BY <1>0, <4>1
    <3>4. (out[j].seq + 1) % UInt16 = (v + j) % UInt16
      <4>1. j \in 1 .. n
        BY <1>0, <3>1
      <4> QED
        BY <1>7, <4>1
    <3>5. out[j + 1].seq = (out[j].seq + 1) % UInt16
      BY <3>3, <3>4
    <3> QED
      BY <3>2, <3>5, Zenon
  <2> QED
    BY <1>0, <1>3, <2>1, <2>2, <2>3
<1>9. all[Len(all)] = out[n] /\ all # <<>>
  BY <1>0, <1>3, <1>4
<1>10. Follow(all)
  <2>1. \A i \in 1 .. Len(all) - 1 : all[i + 1].seq = (all[i].seq + 1) % UInt16
    <3>1. Len(all) - 1 = k + n - 1
      BY <1>0, <1>3
    <3> QED
      BY <1>8, <3>1, Zenon
  <2> QED
    BY <1>3, <2>1, Zenon DEF Follow
<1>11. (v + n) % UInt16 = (out[n].seq + 1) % UInt16
  BY <1>0, <1>7
<1> QED
  BY <1>9, <1>10, <1>11 DEF all, n, ComesNext

\* The packets that WriteTo makes of a frame are numbered from the writer's
\* number on, and the writer counts on behind them.
LEMMA WriteCounts ==
  ASSUME NEW w, NEW v \in Number, DOMAIN w = WriterFields, w.seq = <<v>>,
         Collected(w.frame)
  PROVE  LET out == [i \in DOMAIN w.frame.packets |-> ModifyPacket(w, i)]
         IN  /\ \E U : out \in Seq(U)
             /\ Len(out) = Len(w.frame.packets)
             /\ NumberedFrom(out, v)
             /\ AfterWrite(w).seq = <<(v + Len(out)) % UInt16>>
             /\ DOMAIN AfterWrite(w) = WriterFields
<1> DEFINE out == [i \in DOMAIN w.frame.packets |-> ModifyPacket(w, i)]
<1>1. PICK S : w.frame.packets \in Seq(S)
  BY DEF Collected
<1>2. DOMAIN w.frame.packets = 1 .. Len(w.frame.packets) /\ Len(w.frame.packets) \in Nat
  BY <1>1
<1>3. ASSUME NEW i \in DOMAIN w.frame.packets
      PROVE  ModifyPacket(w, i).seq = (v + i - 1) % UInt16
  <2> DEFINE l == w.frame.packets[i]
             typed == IF w.payloadType = <<>> THEN l ELSE SetPayloadType(l, w.payloadType[1])
  <2>1. DOMAIN typed = DOMAIN Fresh /\ "seq" \in DOMAIN Fresh
    BY DEF Collected, IsLayer, SetPayloadType, Fresh
  <2>2. w.seq # <<>> /\ w.seq[1] = v
    OBVIOUS
  <2> HIDE DEF typed
  <2>3. ModifyPacket(w, i).seq = IF w.seq = <<>> THEN typed.seq ELSE (w.seq[1] + i - 1) % UInt16
    BY <2>1 DEF ModifyPacket, typed
  <2> QED
    BY <2>2, <2>3
<1>4. out \in Seq({ModifyPacket(w, i) : i \in DOMAIN w.frame.packets})
  BY <1>2
<1>5. Len(out) = Len(w.frame.packets)
  BY <1>2
<1>6. NumberedFrom(out, v)
  BY <1>2, <1>3, <1>5 DEF NumberedFrom
<1>7. /\ AfterWrite(w).seq = <<(v + Len(w.frame.packets)) % UInt16>>
      /\ DOMAIN AfterWrite(w) = WriterFields
  BY DEF AfterWrite, WriterFields
<1> QED
  BY <1>4, <1>5, <1>6, <1>7

LEMMA WriteFrameCounts ==
  ASSUME Counting(writer, rewritten), Collected(frame), WriteFrame
  PROVE  Counting(writer', rewritten')
<1> DEFINE w == AskSize(SetFrame(writer, frame))
           out == [i \in DOMAIN frame.packets |-> ModifyPacket(w, i)]
<1>1. DOMAIN w = WriterFields /\ w.seq = writer.seq /\ w.frame = frame
  BY DEF Counting, WriterFields, AskSize, SetFrame
<1>2. /\ frame.packets # <<>>
      /\ writer' = [AfterWrite(w) EXCEPT !.frame = EmptyFrame]
      /\ rewritten' = IF w.seq = <<>> THEN rewritten ELSE rewritten \o out
  BY DEF WriteFrame
<1> HIDE DEF w
<1>3. CASE w.seq = <<>>
  <2>1. DOMAIN writer' = WriterFields /\ writer'.seq = <<>> /\ rewritten' = rewritten
    BY <1>1, <1>2, <1>3 DEF AfterWrite, WriterFields
  <2> QED
    BY <2>1 DEF Counting, CountsOn
<1>4. CASE w.seq # <<>>
  <2>1. PICK v \in Number : w.seq = <<v>> /\ ComesNext(rewritten, v)
    BY <1>1, <1>4 DEF Counting, CountsOn
  <2>2. /\ \E U : out \in Seq(U)
        /\ Len(out) = Len(frame.packets)
        /\ NumberedFrom(out, v)
        /\ AfterWrite(w).seq = <<(v + Len(out)) % UInt16>>
        /\ DOMAIN AfterWrite(w) = WriterFields
    BY <1>1, <2>1, WriteCounts
  <2> HIDE DEF out
  <2>3. Len(out) \in Nat \ {0}
    BY <1>2, <2>2 DEF Collected
  <2>4. /\ Follow(rewritten \o out)
        /\ ComesNext(rewritten \o out, (v + Len(out)) % UInt16)
    <3>1. PICK U : out \in Seq(U)
      BY <2>2
    <3>2. out # <<>>
      BY <2>3
    <3> QED
      BY <2>1, <2>2, <3>1, <3>2, JoinedFollow DEF Counting
  <2>5. (v + Len(out)) % UInt16 \in Number
    <3>1. v + Len(out) \in Nat
      BY <2>3, NumbersAreNat
    <3> QED
      BY <3>1, NextNumber
  <2>6. DOMAIN writer' = WriterFields /\ writer'.seq = <<(v + Len(out)) % UInt16>>
    BY <1>2, <2>2 DEF WriterFields
  <2>7. rewritten' = rewritten \o out
    BY <1>2, <1>4 DEF out
  <2> QED
    BY <2>4, <2>5, <2>6, <2>7 DEF Counting, CountsOn
<1> QED
  BY <1>3, <1>4

(* ------------------------------ induction ------------------------------- *)

LEMMA Least ==
  ASSUME NEW T, T \subseteq Nat, T # {}
  PROVE  \E m \in T : \A k \in T : m <= k
<1> DEFINE R == {ss \in Nat \X Nat : ss[1] < ss[2]}
<1>1. IsWellFoundedOn(R, Nat)
  BY NatLessThanWellFounded DEF OpToRel
<1>2. PICK m \in T : \A k \in T : <<k, m>> \notin R
  <2> HIDE DEF R
  <2> QED
    BY <1>1, WFMin
<1>3. \A k \in T : ~(k < m)
  BY <1>2
<1> QED
  BY <1>3

\* Induction, on a set in the place of a predicate.
LEMMA Induction ==
  ASSUME NEW T, 0 \in T, \A n \in Nat : n \in T => n + 1 \in T
  PROVE  Nat \subseteq T
<1> SUFFICES ASSUME Nat \ T # {} PROVE FALSE
  OBVIOUS
<1>1. PICK m \in Nat \ T : \A k \in Nat \ T : m <= k
  <2> DEFINE U == Nat \ T
  <2>1. U \subseteq Nat /\ U # {}
    OBVIOUS
  <2> HIDE DEF U
  <2>2. \E m \in U : \A k \in U : m <= k
    BY <2>1, Least
  <2> QED
    BY <2>2 DEF U
<1>2. m # 0
  OBVIOUS
<1>3. m - 1 \in Nat /\ m - 1 < m /\ m - 1 + 1 = m
  BY <1>2
<1>4. m - 1 \in T
  BY <1>1, <1>3
<1> QED
  BY <1>3, <1>4

(* ------------------------------- sequences ------------------------------ *)

\* A sequence, of whatever.
IsSeq(s) == \E S : s \in Seq(S)

LEMMA SeqsHaveLengths ==
  ASSUME NEW s, IsSeq(s)
  PROVE  Len(s) \in Nat /\ DOMAIN s = 1 .. Len(s) /\ (s = <<>> <=> Len(s) = 0)
BY DEF IsSeq

\* Concatenation, by a name of its own where only lengths or a recursion matter.
Cat(s, t) == s \o t

LEMMA CatLength ==
  ASSUME NEW s, NEW t, IsSeq(s), IsSeq(t)
  PROVE  IsSeq(Cat(s, t)) /\ Len(Cat(s, t)) = Len(s) + Len(t)
<1>1. PICK S : s \in Seq(S)
  BY DEF IsSeq
<1>2. PICK T : t \in Seq(T)
  BY DEF IsSeq
<1>3. s \in Seq(S \cup T) /\ t \in Seq(S \cup T)
  BY <1>1, <1>2
<1>4. Cat(s, t) \in Seq(S \cup T) /\ Len(Cat(s, t)) = Len(s) + Len(t)
  BY <1>3 DEF Cat
<1> QED
  BY <1>4 DEF IsSeq

\* The recursion of FlattenSeq has a solution.
LEMMA FlattenExists ==
  ASSUME NEW ss, IsSeq(ss)
  PROVE  \A m \in Nat : \E f : f = [i \in 1 .. m |-> IF i = 1 THEN ss[i] ELSE Cat(f[i - 1], ss[i])]
<1> DEFINE T == {m \in Nat : \E f : f = [i \in 1 .. m |->
                                IF i = 1 THEN ss[i] ELSE Cat(f[i - 1], ss[i])]}
<1>1. 0 \in T
  <2>1. <<>> = [i \in 1 .. 0 |-> IF i = 1 THEN ss[i] ELSE Cat(<<>>[i - 1], ss[i])]
    OBVIOUS
  <2> QED
    BY <2>1
<1>2. ASSUME NEW m \in Nat, m \in T PROVE m + 1 \in T
  <2>1. PICK f : f = [i \in 1 .. m |-> IF i = 1 THEN ss[i] ELSE Cat(f[i - 1], ss[i])]
    BY <1>2
  <2>2. PICK g : g = [i \in 1 .. m + 1 |-> IF i <= m THEN f[i]
                                          ELSE IF i = 1 THEN ss[i] ELSE Cat(f[i - 1], ss[i])]
    OBVIOUS
  <2>3. \A i \in 1 .. m : g[i] = f[i]
    BY <2>2
  <2>4. \A i \in 1 .. m + 1 : g[i] = IF i = 1 THEN ss[i] ELSE Cat(g[i - 1], ss[i])
    <3> SUFFICES ASSUME NEW i \in 1 .. m + 1
                 PROVE  g[i] = IF i = 1 THEN ss[i] ELSE Cat(g[i - 1], ss[i])
      OBVIOUS
    <3>1. i # 1 => i - 1 \in 1 .. m /\ g[i - 1] = f[i - 1]
      BY <2>3
    <3>2. CASE i <= m
      <4>1. i \in 1 .. m
        BY <3>2
      <4>2. g[i] = f[i] /\ f[i] = IF i = 1 THEN ss[i] ELSE Cat(f[i - 1], ss[i])
        BY <2>1, <2>3, <4>1
      <4> QED
        BY <3>1, <4>2
    <3>3. CASE ~(i <= m)
      <4>1. g[i] = IF i = 1 THEN ss[i] ELSE Cat(f[i - 1], ss[i])
        BY <2>2, <3>3
      <4> QED
        BY <3>1, <4>1
    <3> QED
      BY <3>2, <3>3
  <2>5. g = [i \in 1 .. m + 1 |-> g[i]]
    BY <2>2
  <2>6. g = [i \in 1 .. m + 1 |-> IF i = 1 THEN ss[i] ELSE Cat(g[i - 1], ss[i])]
    BY <2>4, <2>5
  <2>7. \E f1 : f1 = [i \in 1 .. m + 1 |-> IF i = 1 THEN ss[i] ELSE Cat(f1[i - 1], ss[i])]
    BY <2>6
  <2> QED
    BY <2>7
<1> HIDE DEF T
<1>3. Nat \subseteq T
  BY <1>1, <1>2, Induction
<1> QED
  BY <1>3 DEF T

LEMMA Flattened ==
  ASSUME NEW ss, IsSeq(ss), ss # <<>>
  PROVE  \E f : /\ FlattenSeq(ss) = f[Len(ss)]
                /\ f[1] = ss[1]
                /\ \A i \in 2 .. Len(ss) : f[i] = Cat(f[i - 1], ss[i])
<1>1. Len(ss) \in Nat \ {0}
  BY SeqsHaveLengths
<1> DEFINE n == Len(ss)
           F == CHOOSE f : f = [i \in 1 .. n |-> IF i = 1 THEN ss[i] ELSE Cat(f[i - 1], ss[i])]
<1>2. FlattenSeq(ss) = F[n]
  BY <1>1 DEF FlattenSeq, Cat
<1>3. \E f : f = [i \in 1 .. n |-> IF i = 1 THEN ss[i] ELSE Cat(f[i - 1], ss[i])]
  BY <1>1, FlattenExists
<1>4. F = [i \in 1 .. n |-> IF i = 1 THEN ss[i] ELSE Cat(F[i - 1], ss[i])]
  BY <1>3
<1> HIDE DEF F
<1>6. \A i \in 1 .. n : F[i] = IF i = 1 THEN ss[i] ELSE Cat(F[i - 1], ss[i])
  BY <1>4
<1>5. F[1] = ss[1] /\ \A i \in 2 .. n : F[i] = Cat(F[i - 1], ss[i])
  <2> HIDE DEF n
  <2>1. n \in Nat \ {0}
    BY <1>1 DEF n
  <2> QED
    BY <2>1, <1>6
<1> QED
  BY <1>2, <1>5

LEMMA SumExists ==
  ASSUME NEW ns
  PROVE  \A m \in Nat : \E f : f = [i \in 0 .. m |-> IF i = 0 THEN 0 ELSE f[i - 1] + ns[i]]
<1> DEFINE T == {m \in Nat : \E f : f = [i \in 0 .. m |->
                                IF i = 0 THEN 0 ELSE f[i - 1] + ns[i]]}
<1>1. 0 \in T
  <2>1. PICK f : f = [i \in 0 .. 0 |-> 0]
    OBVIOUS
  <2>2. f = [i \in 0 .. 0 |-> IF i = 0 THEN 0 ELSE f[i - 1] + ns[i]]
    BY <2>1
  <2> QED
    BY <2>2
<1>2. ASSUME NEW m \in Nat, m \in T PROVE m + 1 \in T
  <2>1. PICK f : f = [i \in 0 .. m |-> IF i = 0 THEN 0 ELSE f[i - 1] + ns[i]]
    BY <1>2
  <2>2. PICK g : g = [i \in 0 .. m + 1 |-> IF i <= m THEN f[i] ELSE f[i - 1] + ns[i]]
    OBVIOUS
  <2>3. \A i \in 0 .. m : g[i] = f[i]
    BY <2>2
  <2>4. \A i \in 0 .. m + 1 : g[i] = IF i = 0 THEN 0 ELSE g[i - 1] + ns[i]
    <3> SUFFICES ASSUME NEW i \in 0 .. m + 1
                 PROVE  g[i] = IF i = 0 THEN 0 ELSE g[i - 1] + ns[i]
      OBVIOUS
    <3>1. i # 0 => i - 1 \in 0 .. m /\ g[i - 1] = f[i - 1]
      BY <2>3
    <3>2. CASE i <= m
      <4>1. i \in 0 .. m
        BY <3>2
      <4>2. g[i] = f[i] /\ f[i] = IF i = 0 THEN 0 ELSE f[i - 1] + ns[i]
        BY <2>1, <2>3, <4>1
      <4> QED
        BY <3>1, <4>2
    <3>3. CASE ~(i <= m)
      <4>1. g[i] = f[i - 1] + ns[i] /\ i # 0
        BY <2>2, <3>3
      <4> QED
        BY <3>1, <4>1
    <3> QED
      BY <3>2, <3>3
  <2>5. g = [i \in 0 .. m + 1 |-> g[i]]
    BY <2>2
  <2>6. g = [i \in 0 .. m + 1 |-> IF i = 0 THEN 0 ELSE g[i - 1] + ns[i]]
    BY <2>4, <2>5
  <2> QED
    BY <2>6
<1> HIDE DEF T
<1>3. Nat \subseteq T
  BY <1>1, <1>2, Induction
<1> QED
  BY <1>3 DEF T

LEMMA Summed ==
  ASSUME NEW ns, Len(ns) \in Nat
  PROVE  \E f : /\ SumOf(ns) = f[Len(ns)]
                /\ f[0] = 0
                /\ \A i \in 1 .. Len(ns) : f[i] = f[i - 1] + ns[i]
<1> DEFINE n == Len(ns)
           F == CHOOSE f : f = [i \in 0 .. n |-> IF i = 0 THEN 0 ELSE f[i - 1] + ns[i]]
<1>2. SumOf(ns) = F[n]
  BY DEF SumOf
<1>3. \E f : f = [i \in 0 .. n |-> IF i = 0 THEN 0 ELSE f[i - 1] + ns[i]]
  BY SumExists
<1>4. F = [i \in 0 .. n |-> IF i = 0 THEN 0 ELSE F[i - 1] + ns[i]]
  BY <1>3
<1> HIDE DEF F
<1>5. F[0] = 0 /\ \A i \in 1 .. n : F[i] = F[i - 1] + ns[i]
  BY <1>4
<1> QED
  BY <1>2, <1>5

\* As long as the parts together.
LEMMA FlattenLength ==
  ASSUME NEW ss, IsSeq(ss), \A i \in DOMAIN ss : IsSeq(ss[i]),
         NEW ns, Len(ns) = Len(ss), \A i \in 1 .. Len(ss) : ns[i] = Len(ss[i])
  PROVE  IsSeq(FlattenSeq(ss)) /\ Len(FlattenSeq(ss)) = SumOf(ns)
<1> DEFINE n == Len(ss)
<1>1. n \in Nat /\ DOMAIN ss = 1 .. n
  BY SeqsHaveLengths
<1>2. PICK g : /\ SumOf(ns) = g[n] /\ g[0] = 0
               /\ \A i \in 1 .. n : g[i] = g[i - 1] + ns[i]
  BY <1>1, Summed
<1>3. CASE ss = <<>>
  <2>1. n = 0 /\ FlattenSeq(ss) = ss
    BY <1>3 DEF FlattenSeq
  <2> QED
    BY <1>2, <2>1
<1>4. CASE ss # <<>>
  <2>1. PICK f : /\ FlattenSeq(ss) = f[n]
                 /\ f[1] = ss[1]
                 /\ \A i \in 2 .. n : f[i] = Cat(f[i - 1], ss[i])
    BY <1>4, Flattened, Zenon
  <2> DEFINE T == {m \in Nat : m \in 1 .. n => IsSeq(f[m]) /\ Len(f[m]) = g[m]}
  <2> HIDE DEF n
  <2>2. 0 \in T
    OBVIOUS
  <2>3. ASSUME NEW m \in Nat, m \in T PROVE m + 1 \in T
    <3> SUFFICES ASSUME m + 1 \in 1 .. n PROVE IsSeq(f[m + 1]) /\ Len(f[m + 1]) = g[m + 1]
      OBVIOUS
    <3>1. /\ IsSeq(ss[m + 1]) /\ ns[m + 1] = Len(ss[m + 1]) /\ Len(ss[m + 1]) \in Nat
          /\ g[m + 1] = g[m] + ns[m + 1]
      <4>1. m + 1 - 1 = m /\ IsSeq(ss[m + 1]) /\ ns[m + 1] = Len(ss[m + 1])
        BY <1>1 DEF n
      <4>2. g[m + 1] = g[m + 1 - 1] + ns[m + 1]
        BY <1>2
      <4> QED
        BY <4>1, <4>2, SeqsHaveLengths
    <3>2. CASE m = 0
      BY <1>2, <2>1, <3>1, <3>2
    <3>3. CASE m # 0
      <4>1. m \in 1 .. n /\ m + 1 \in 2 .. n /\ m + 1 - 1 = m
        BY <1>1, <3>3
      <4>2. IsSeq(f[m]) /\ Len(f[m]) = g[m]
        BY <2>3, <4>1
      <4>3. f[m + 1] = Cat(f[m], ss[m + 1])
        BY <2>1, <4>1
      <4>4. IsSeq(Cat(f[m], ss[m + 1])) /\ Len(Cat(f[m], ss[m + 1])) = Len(f[m]) + Len(ss[m + 1])
        BY <3>1, <4>2, CatLength
      <4> QED
        BY <3>1, <4>2, <4>3, <4>4
    <3> QED
      BY <3>2, <3>3
  <2> HIDE DEF T
  <2>4. n \in T
    BY <1>1, <2>2, <2>3, Induction DEF n
  <2>5. n \in 1 .. n
    BY <1>1, <1>4, SeqsHaveLengths DEF n
  <2> QED
    BY <1>2, <2>1, <2>4, <2>5 DEF T
<1> QED
  BY <1>3, <1>4

LEMMA SumOfSame ==
  ASSUME NEW n \in Nat, NEW ns, Len(ns) = n, \A i \in 1 .. n : ns[i] = 4
  PROVE  SumOf(ns) = 4 * n
<1>1. PICK g : /\ SumOf(ns) = g[n] /\ g[0] = 0
               /\ \A i \in 1 .. n : g[i] = g[i - 1] + ns[i]
  BY Summed
<1> DEFINE T == {m \in Nat : m \in 0 .. n => g[m] = 4 * m}
<1>2. 0 \in T
  BY <1>1
<1>3. ASSUME NEW m \in Nat, m \in T PROVE m + 1 \in T
  <2> SUFFICES ASSUME m + 1 \in 0 .. n PROVE g[m + 1] = 4 * (m + 1)
    OBVIOUS
  <2>1. m \in 0 .. n /\ m + 1 \in 1 .. n /\ m + 1 - 1 = m
    OBVIOUS
  <2>2. g[m + 1] = g[m] + 4 /\ g[m] = 4 * m
    BY <1>1, <1>3, <2>1
  <2> QED
    BY <2>2
<1> HIDE DEF T
<1>4. n \in T
  BY <1>2, <1>3, Induction
<1> QED
  BY <1>1, <1>4 DEF T

(* ----------------------------- what is written -------------------------- *)

LEMMA WordsLength ==
  ASSUME NEW ws, IsWordList(ws)
  PROVE  IsSeq(FlattenSeq(ws)) /\ Len(FlattenSeq(ws)) = 4 * Len(ws)
<1>1. ws \in Seq(Seq(Byte)) /\ \A i \in DOMAIN ws : ws[i] \in Seq(Byte) /\ Len(ws[i]) = 4
  BY DEF IsWordList, IsWord
<1>2. IsSeq(ws) /\ Len(ws) \in Nat /\ DOMAIN ws = 1 .. Len(ws)
  BY <1>1 DEF IsSeq
<1>3. \A i \in DOMAIN ws : IsSeq(ws[i])
  BY <1>1 DEF IsSeq
<1>4. PICK ns : ns = [i \in 1 .. Len(ws) |-> 4]
  OBVIOUS
<1>7. Len(ns) = Len(ws) /\ \A i \in 1 .. Len(ws) : ns[i] = 4
  BY <1>2, <1>4
<1>5. Len(ns) = Len(ws) /\ \A i \in 1 .. Len(ws) : ns[i] = 4 /\ ns[i] = Len(ws[i])
  BY <1>1, <1>2, <1>7
<1>6. IsSeq(FlattenSeq(ws)) /\ Len(FlattenSeq(ws)) = SumOf(ns)
  BY <1>2, <1>3, <1>5, FlattenLength
<1> QED
  BY <1>2, <1>5, <1>6, SumOfSame

\* The recursion of Padding has a solution.
LEMMA PaddingExists ==
  ASSUME NEW n
  PROVE  \A m \in Nat : \E f : f = [r \in 1 .. m |->
            IF r <= WriteBufLen THEN Zeros(r - 1) \o <<n>>
            ELSE Cat(Zeros(WriteBufLen), f[r - WriteBufLen])]
<1> DEFINE First(r) == Zeros(r - 1) \o <<n>>
           T == {m \in Nat : \E f : f = [r \in 1 .. m |->
                   IF r <= WriteBufLen THEN First(r)
                   ELSE Cat(Zeros(WriteBufLen), f[r - WriteBufLen])]}
<1> USE DEF WriteBufLen
<1> HIDE DEF First
<1>1. 0 \in T
  <2>1. <<>> = [r \in 1 .. 0 |-> IF r <= WriteBufLen THEN First(r)
                   ELSE Cat(Zeros(WriteBufLen), <<>>[r - WriteBufLen])]
    OBVIOUS
  <2> QED
    BY <2>1
<1>2. ASSUME NEW m \in Nat, m \in T PROVE m + 1 \in T
  <2>1. PICK f : f = [r \in 1 .. m |-> IF r <= WriteBufLen THEN First(r)
                        ELSE Cat(Zeros(WriteBufLen), f[r - WriteBufLen])]
    BY <1>2
  <2>2. PICK g : g = [r \in 1 .. m + 1 |-> IF r <= m THEN f[r]
                        ELSE IF r <= WriteBufLen THEN First(r)
                        ELSE Cat(Zeros(WriteBufLen), f[r - WriteBufLen])]
    OBVIOUS
  <2>3. \A r \in 1 .. m : g[r] = f[r]
    BY <2>2
  <2>4. \A r \in 1 .. m + 1 : g[r] = IF r <= WriteBufLen THEN First(r)
                        ELSE Cat(Zeros(WriteBufLen), g[r - WriteBufLen])
    <3> SUFFICES ASSUME NEW r \in 1 .. m + 1
                 PROVE  g[r] = IF r <= WriteBufLen THEN First(r)
                               ELSE Cat(Zeros(WriteBufLen), g[r - WriteBufLen])
      OBVIOUS
    <3>1. r > WriteBufLen => r - WriteBufLen \in 1 .. m
                             /\ g[r - WriteBufLen] = f[r - WriteBufLen]
      BY <2>3
    <3>2. CASE r <= m
      <4>1. r \in 1 .. m
        BY <3>2
      <4>2. g[r] = f[r] /\ f[r] = IF r <= WriteBufLen THEN First(r)
                                  ELSE Cat(Zeros(WriteBufLen), f[r - WriteBufLen])
        BY <2>1, <2>3, <4>1
      <4> QED
        BY <3>1, <4>2
    <3>3. CASE ~(r <= m)
      <4>1. g[r] = IF r <= WriteBufLen THEN First(r)
                   ELSE Cat(Zeros(WriteBufLen), f[r - WriteBufLen])
        BY <2>2, <3>3
      <4> QED
        BY <3>1, <4>1
    <3> QED
      BY <3>2, <3>3
  <2>5. g = [r \in 1 .. m + 1 |-> g[r]]
    BY <2>2
  <2>6. g = [r \in 1 .. m + 1 |-> IF r <= WriteBufLen THEN First(r)
                        ELSE Cat(Zeros(WriteBufLen), g[r - WriteBufLen])]
    BY <2>4, <2>5
  <2>7. \E f1 : f1 = [r \in 1 .. m + 1 |-> IF r <= WriteBufLen THEN First(r)
                        ELSE Cat(Zeros(WriteBufLen), f1[r - WriteBufLen])]
    BY <2>6
  <2> QED
    BY <2>7
<1> HIDE DEF T
<1>3. Nat \subseteq T
  BY <1>1, <1>2, Induction
<1> QED
  BY <1>3 DEF T, First

LEMMA ZerosLength == ASSUME NEW n \in Nat PROVE IsSeq(Zeros(n)) /\ Len(Zeros(n)) = n
<1>1. Zeros(n) \in Seq({0}) /\ Len(Zeros(n)) = n
  BY DEF Zeros
<1> QED
  BY <1>1 DEF IsSeq

LEMMA ShortAreSeqs ==
  ASSUME NEW a, NEW b
  PROVE  /\ IsSeq(<<a>>) /\ Len(<<a>>) = 1
         /\ IsSeq(<<a, b>>) /\ Len(<<a, b>>) = 2
         /\ IsSeq(<<>>) /\ Len(<<>>) = 0
<1>1. <<a>> \in Seq({a}) /\ <<a, b>> \in Seq({a, b}) /\ <<>> \in Seq({a})
  OBVIOUS
<1> QED
  BY <1>1 DEF IsSeq

LEMMA Put16Length == ASSUME NEW n PROVE IsSeq(Put16(n)) /\ Len(Put16(n)) = 2
<1> DEFINE a == (n \div 256) % 256
           b == n % 256
<1>1. Put16(n) = <<a, b>>
  BY DEF Put16
<1> HIDE DEF a, b
<1>2. IsSeq(<<a, b>>) /\ Len(<<a, b>>) = 2
  BY ShortAreSeqs
<1> QED
  BY <1>1, <1>2

\* The padding is as long as its last byte says, in however many pieces it
\* goes out.
LEMMA PaddingLength ==
  ASSUME NEW n \in 1 .. UInt8 - 1
  PROVE  IsSeq(Padding(n)) /\ Len(Padding(n)) = n
<1> DEFINE F == CHOOSE f : f = [r \in 1 .. UInt8 |->
                   IF r <= WriteBufLen THEN Zeros(r - 1) \o <<n>>
                   ELSE Cat(Zeros(WriteBufLen), f[r - WriteBufLen])]
<1>1. Padding(n) = F[n]
  BY DEF Padding, Cat
<1>2. \E f : f = [r \in 1 .. UInt8 |->
                   IF r <= WriteBufLen THEN Zeros(r - 1) \o <<n>>
                   ELSE Cat(Zeros(WriteBufLen), f[r - WriteBufLen])]
  <2>1. UInt8 \in Nat
    BY DEF UInt8
  <2> QED
    BY <2>1, PaddingExists
<1>3. F = [r \in 1 .. UInt8 |->
             IF r <= WriteBufLen THEN Zeros(r - 1) \o <<n>>
             ELSE Cat(Zeros(WriteBufLen), F[r - WriteBufLen])]
  BY <1>2
<1> HIDE DEF F
<1>4. \A r \in 1 .. UInt8 : F[r] = IF r <= WriteBufLen THEN Cat(Zeros(r - 1), <<n>>)
                                   ELSE Cat(Zeros(WriteBufLen), F[r - WriteBufLen])
  BY <1>3 DEF Cat
<1> DEFINE U == {r \in 1 .. UInt8 : ~(IsSeq(F[r]) /\ Len(F[r]) = r)}
<1>5. U = {}
  <2> SUFFICES ASSUME U # {} PROVE FALSE
    OBVIOUS
  <2>0. UInt8 = 256
    BY DEF UInt8
  <2>1. U \subseteq Nat
    <3>1. U \subseteq 1 .. UInt8
      OBVIOUS
    <3> HIDE DEF U
    <3>2. 1 .. UInt8 \subseteq Nat
      BY <2>0
    <3> QED
      BY <3>1, <3>2
  <2>2. PICK m \in U : \A k \in U : m <= k
    <3> HIDE DEF U
    <3> QED
      BY <2>1, Least
  <2>3. /\ m \in 1 .. UInt8 /\ ~(IsSeq(F[m]) /\ Len(F[m]) = m)
        /\ WriteBufLen = 16 /\ UInt8 = 256
    BY DEF WriteBufLen, UInt8
  <2>4. CASE m <= WriteBufLen
    <3>1. F[m] = Cat(Zeros(m - 1), <<n>>) /\ m - 1 \in Nat
      <4>1. F[m] = Cat(Zeros(m - 1), <<n>>)
        BY <1>4, <2>3, <2>4
      <4>2. m - 1 \in Nat
        BY <2>3
      <4> QED
        BY <4>1, <4>2
    <3>2. /\ IsSeq(Zeros(m - 1)) /\ Len(Zeros(m - 1)) = m - 1
          /\ IsSeq(<<n>>) /\ Len(<<n>>) = 1
      BY <3>1, ZerosLength, ShortAreSeqs
    <3> DEFINE last == <<n>>
    <3> HIDE DEF last
    <3>3. /\ IsSeq(Cat(Zeros(m - 1), last))
          /\ Len(Cat(Zeros(m - 1), last)) = m - 1 + 1
      BY <3>2, CatLength DEF last
    <3>4. F[m] = Cat(Zeros(m - 1), last) /\ m - 1 + 1 = m
      BY <2>3, <3>1 DEF last
    <3> QED
      BY <2>3, <3>3, <3>4
  <2>5. CASE ~(m <= WriteBufLen)
    <3>1. /\ F[m] = Cat(Zeros(WriteBufLen), F[m - WriteBufLen])
          /\ m - WriteBufLen \in 1 .. UInt8 /\ m - WriteBufLen < m
      <4>1. m - WriteBufLen \in 1 .. UInt8 /\ m - WriteBufLen < m
        BY <2>3, <2>5
      <4> QED
        BY <1>4, <2>3, <2>5, <4>1
    <3>2. IsSeq(F[m - WriteBufLen]) /\ Len(F[m - WriteBufLen]) = m - WriteBufLen
      BY <2>2, <2>3, <3>1
    <3>3. /\ IsSeq(Cat(Zeros(WriteBufLen), F[m - WriteBufLen]))
          /\ Len(Cat(Zeros(WriteBufLen), F[m - WriteBufLen]))
               = WriteBufLen + (m - WriteBufLen)
      <4>1. WriteBufLen \in Nat
        BY DEF WriteBufLen
      <4> QED
        BY <3>2, <4>1, ZerosLength, CatLength
    <3> QED
      BY <2>3, <3>1, <3>3 DEF WriteBufLen
  <2> QED
    BY <2>4, <2>5
<1>6. n \in 1 .. UInt8
  BY DEF UInt8
<1> QED
  BY <1>1, <1>5, <1>6

\* What the setters keep to of a layer, and of the frame's packets.
Sized(l) ==
  /\ DOMAIN l = DOMAIN Fresh
  /\ IsWord(l.timestamp) /\ IsWord(l.ssrc)
  /\ l.profile \in Seq(Byte) /\ Len(l.profile) = 2
  /\ IsWordList(l.csrcList) /\ Len(l.csrcList) <= MaxCSRC
  /\ IsWordList(l.extContents) /\ Len(l.extContents) < UInt16
  /\ l.paddingLength \in Byte
  /\ l.payload \in Seq(Seq(Byte))

LEMMA PayloadIsSeq == ASSUME NEW l, Sized(l) PROVE IsSeq(PayloadOf(l))
<1>1. IsSeq(l.payload) /\ \A i \in DOMAIN l.payload : IsSeq(l.payload[i])
  BY DEF Sized, IsSeq
<1>2. PICK ns : ns = [i \in 1 .. Len(l.payload) |-> Len(l.payload[i])]
  OBVIOUS
<1>3. Len(ns) = Len(l.payload) /\ \A i \in 1 .. Len(l.payload) : ns[i] = Len(l.payload[i])
  BY <1>1, <1>2, SeqsHaveLengths
<1> QED
  BY <1>1, <1>3, FlattenLength DEF PayloadOf

\* Header, CSRC list, extension, payload and padding are as long as Size says.
LEMMA WriteToLength ==
  ASSUME NEW l, Sized(l), Counted(l)
  PROVE  IsSeq(WriteTo(l)) /\ Len(WriteTo(l)) = Size(l)
<1> DEFINE first == <<FirstByte(l), Flag(l.marker, 128) + l.payloadType>>
           csrcs == FlattenSeq(l.csrcList)
           ext == IF l.extension
                  THEN l.profile \o Put16(Len(l.extContents) % UInt16)
                         \o FlattenSeq(Cap(l.extContents, Len(l.extContents) % UInt16))
                  ELSE <<>>
           pad == IF l.padding /\ l.paddingLength > 0 THEN Padding(l.paddingLength) ELSE <<>>
<1>1. IsSeq(first) /\ Len(first) = 2
  BY ShortAreSeqs
<1>2. IsSeq(Put16(l.seq)) /\ Len(Put16(l.seq)) = 2
  BY ShortAreSeqs DEF Put16
<1>3. /\ IsSeq(l.timestamp) /\ Len(l.timestamp) = 4 /\ IsSeq(l.ssrc) /\ Len(l.ssrc) = 4
  BY DEF Sized, IsWord, IsSeq
<1>4. IsSeq(csrcs) /\ Len(csrcs) = 4 * Len(l.csrcList) /\ Len(l.csrcList) \in Nat
  <2>1. Len(l.csrcList) \in Nat
    BY DEF Sized, IsWordList
  <2> QED
    BY <2>1, WordsLength DEF Sized
<1>5. /\ IsSeq(ext)
      /\ Len(ext) = IF l.extension THEN 4 + 4 * Len(l.extContents) ELSE 0
      /\ Len(l.extContents) \in Nat
  <2>0. l.extContents \in Seq(Seq(Byte)) /\ Len(l.extContents) < UInt16
    BY DEF Sized, IsWordList
  <2>1. l.extContents \in Seq(Seq(Byte)) /\ Len(l.extContents) \in 0 .. UInt16 - 1
    BY <2>0, Width
  <2>2. Len(l.extContents) % UInt16 = Len(l.extContents)
    BY <2>1, SmallNumber DEF Number
  <2>3. Cap(l.extContents, Len(l.extContents)) = l.extContents
    BY <2>1 DEF Cap
  <2>4. /\ IsSeq(FlattenSeq(l.extContents))
        /\ Len(FlattenSeq(l.extContents)) = 4 * Len(l.extContents)
    BY WordsLength DEF Sized
  <2>5. IsSeq(l.profile) /\ Len(l.profile) = 2
    BY DEF Sized, IsSeq
  <2> DEFINE body == FlattenSeq(l.extContents)
             size == Put16(Len(l.extContents))
  <2>6. IsSeq(size) /\ Len(size) = 2
    BY ShortAreSeqs DEF Put16
  <2>7. ext = IF l.extension THEN Cat(Cat(l.profile, size), body) ELSE <<>>
    BY <2>2, <2>3 DEF Cat
  <2>11. IsSeq(body) /\ Len(body) = 4 * Len(l.extContents)
    BY <2>4
  <2> HIDE DEF size, body, ext
  <2>14. IsSeq(Cat(l.profile, size)) /\ Len(Cat(l.profile, size)) = Len(l.profile) + Len(size)
    BY <2>5, <2>6, CatLength
  <2>8. IsSeq(Cat(l.profile, size)) /\ Len(Cat(l.profile, size)) = 4
    BY <2>5, <2>6, <2>14
  <2>9. /\ IsSeq(Cat(Cat(l.profile, size), body))
        /\ Len(Cat(Cat(l.profile, size), body)) = 4 + 4 * Len(l.extContents)
    BY <2>8, <2>11, CatLength
  <2>10. Len(l.extContents) \in Nat
    BY <2>1
  <2>12. CASE l.extension
    BY <2>7, <2>9, <2>10, <2>12
  <2>13. CASE ~l.extension
    BY <2>7, <2>10, <2>13, ShortAreSeqs
  <2> QED
    BY <2>12, <2>13
<1>6. IsSeq(PayloadOf(l)) /\ Len(PayloadOf(l)) = l.payloadSize /\ l.payloadSize \in Nat
  BY PayloadIsSeq, SeqsHaveLengths DEF Counted
<1>7. /\ IsSeq(pad) /\ Len(pad) = IF l.padding THEN l.paddingLength ELSE 0
      /\ l.paddingLength \in Nat
  <2>0. l.paddingLength \in 0 .. UInt8 - 1 /\ UInt8 = 256
    BY DEF Sized, Byte, UInt8
  <2>1. l.paddingLength \in Nat
    BY <2>0
  <2>2. l.paddingLength > 0 => l.paddingLength \in 1 .. UInt8 - 1
    BY <2>0
  <2>3. CASE l.padding /\ l.paddingLength > 0
    BY <2>1, <2>2, <2>3, PaddingLength
  <2>4. CASE ~(l.padding /\ l.paddingLength > 0)
    <3>1. pad = <<>> /\ (l.padding => l.paddingLength = 0)
      BY <2>1, <2>4
    <3> HIDE DEF pad
    <3> QED
      BY <2>1, <3>1, ShortAreSeqs
  <2> QED
    BY <2>3, <2>4
<1>8. WriteTo(l) = first \o Put16(l.seq) \o l.timestamp \o l.ssrc \o csrcs \o ext
                     \o PayloadOf(l) \o pad
  BY DEF WriteTo
<1>9. Size(l) = MinHeader + 4 * Len(l.csrcList)
                  + (IF l.extension THEN 4 + 4 * Len(l.extContents) ELSE 0)
                  + l.payloadSize + (IF l.padding THEN l.paddingLength ELSE 0)
  BY DEF Size
<1> HIDE DEF first, csrcs, ext, pad
<1> DEFINE a == Cat(first, Put16(l.seq))
           b == Cat(a, l.timestamp)
           c == Cat(b, l.ssrc)
           d == Cat(c, csrcs)
           e == Cat(d, ext)
           f == Cat(e, PayloadOf(l))
<1>10. IsSeq(a) /\ Len(a) = Len(first) + Len(Put16(l.seq))
  BY <1>1, <1>2, CatLength
<1> HIDE DEF a
<1>11. IsSeq(b) /\ Len(b) = Len(a) + Len(l.timestamp)
  BY <1>3, <1>10, CatLength
<1> HIDE DEF b
<1>18. IsSeq(c) /\ Len(c) = Len(b) + Len(l.ssrc)
  BY <1>3, <1>11, CatLength
<1>12. IsSeq(c) /\ Len(c) = MinHeader
  BY <1>1, <1>2, <1>3, <1>10, <1>11, <1>18 DEF MinHeader
<1> HIDE DEF c
<1>13. IsSeq(d) /\ Len(d) = MinHeader + 4 * Len(l.csrcList)
  BY <1>4, <1>12, CatLength
<1> HIDE DEF d
<1>14. IsSeq(e) /\ Len(e) = Len(d) + Len(ext)
  BY <1>5, <1>13, CatLength
<1> HIDE DEF e
<1>15. IsSeq(f) /\ Len(f) = Len(e) + l.payloadSize
  BY <1>6, <1>14, CatLength
<1> HIDE DEF f
<1>16. IsSeq(Cat(f, pad)) /\ Len(Cat(f, pad)) = Len(f) + Len(pad)
  BY <1>7, <1>15, CatLength
<1>17. WriteTo(l) = Cat(f, pad)
  BY <1>8 DEF a, b, c, d, e, f, Cat
<1> QED
  BY <1>5, <1>7, <1>9, <1>13, <1>14, <1>15, <1>16, <1>17

(* ----------------------------- the setters ------------------------------ *)

\* The fields of a layer, for the prover to find them in a record changed.
LEMMA Fields ==
  DOMAIN Fresh = {"version", "padding", "extension", "marker", "payloadType", "seq",
                  "timestamp", "ssrc", "csrcList", "profile", "extContents",
                  "paddingLength", "payload", "payloadSize"}
BY DEF Fresh

LEMMA WordListsAreSeqs == ASSUME NEW ws, IsWordList(ws) PROVE Len(ws) \in Nat
BY DEF IsWordList

LEMMA JoinedWords ==
  ASSUME NEW a, NEW b, IsWordList(a), IsWordList(b)
  PROVE  IsWordList(a \o b) /\ Len(a \o b) = Len(a) + Len(b)
<1>1. /\ a \in Seq(Seq(Byte)) /\ b \in Seq(Seq(Byte))
      /\ \A i \in 1 .. Len(a) : IsWord(a[i])
      /\ \A i \in 1 .. Len(b) : IsWord(b[i])
  BY DEF IsWordList
<1>2. a \o b \in Seq(Seq(Byte)) /\ Len(a \o b) = Len(a) + Len(b)
  BY <1>1
<1>3. ASSUME NEW i \in 1 .. Len(a) + Len(b) PROVE IsWord((a \o b)[i])
  <2>1. CASE i <= Len(a)
    BY <1>1, <2>1
  <2>2. CASE i > Len(a)
    <3>1. i - Len(a) \in 1 .. Len(b) /\ (a \o b)[i] = b[i - Len(a)]
      BY <1>1, <2>2
    <3> QED
      BY <1>1, <3>1
  <2> QED
    BY <1>1, <2>1, <2>2
<1>4. DOMAIN (a \o b) = 1 .. Len(a) + Len(b)
  BY <1>2
<1> QED
  BY <1>2, <1>3, <1>4 DEF IsWordList

LEMMA CappedWords ==
  ASSUME NEW ws, IsWordList(ws), NEW n \in Nat
  PROVE  IsWordList(Cap(ws, n)) /\ Len(Cap(ws, n)) <= n
<1>1. ws \in Seq(Seq(Byte)) /\ Len(ws) \in Nat /\ \A i \in 1 .. Len(ws) : IsWord(ws[i])
  BY DEF IsWordList
<1>2. CASE ~(Len(ws) > n)
  BY <1>1, <1>2 DEF Cap
<1>3. CASE Len(ws) > n
  <2> DEFINE s == SubSeq(ws, 1, n)
  <2>1. s \in Seq(Seq(Byte)) /\ Len(s) = n /\ \A i \in 1 .. n : s[i] = ws[i]
    BY <1>1, <1>3
  <2> HIDE DEF s
  <2>2. DOMAIN s = 1 .. n /\ \A i \in 1 .. n : IsWord(s[i])
    <3>1. \A i \in 1 .. n : i \in 1 .. Len(ws)
      BY <1>1, <1>3
    <3>2. DOMAIN s = 1 .. n
      BY <2>1
    <3> QED
      BY <1>1, <2>1, <3>1, <3>2
  <2>3. Cap(ws, n) = s
    BY <1>3 DEF Cap, s
  <2> QED
    BY <2>1, <2>2, <2>3 DEF IsWordList
<1> QED
  BY <1>2, <1>3

\* What the setters of the payload's and the header's numbers leave alone.
SameShape(l, m) ==
  /\ DOMAIN m = DOMAIN Fresh
  /\ m.csrcList = l.csrcList
  /\ m.extension = l.extension /\ m.profile = l.profile /\ m.extContents = l.extContents
  /\ m.padding = l.padding /\ m.paddingLength = l.paddingLength
  /\ m.payload = l.payload /\ m.payloadSize = l.payloadSize

LEMMA ShapeDecides ==
  ASSUME NEW l, NEW m, Sized(l), SameShape(l, m), IsWord(m.timestamp), IsWord(m.ssrc)
  PROVE  Sized(m) /\ Size(m) = Size(l) /\ (Counted(l) => Counted(m))
BY DEF Sized, SameShape, Size, Counted, PayloadOf

LEMMA ZeroWord == IsWord(Zeros(4)) /\ Zeros(2) \in Seq(Byte) /\ Len(Zeros(2)) = 2
<1>1. 0 \in Byte
  BY DEF Byte, UInt8
<1> QED
  BY <1>1 DEF IsWord, Zeros

LEMMA NoWords == IsWordList(<<>>) /\ Len(<<>>) = 0 /\ <<>> \in Seq(Seq(Byte))
BY DEF IsWordList

LEMMA LayersAreSized == ASSUME NEW l \in Layers PROVE Sized(l)
<1>1. Sized(Fresh)
  <2>1. /\ Fresh.timestamp = Zeros(4) /\ Fresh.ssrc = Zeros(4) /\ Fresh.csrcList = <<>>
        /\ Fresh.profile = Zeros(2) /\ Fresh.extContents = <<>>
        /\ Fresh.paddingLength = 0 /\ Fresh.payload = <<>>
    BY DEF Fresh
  <2>2. 0 \in Byte /\ 0 <= MaxCSRC /\ 0 < UInt16
    BY DEF Byte, UInt8, UInt16, MaxCSRC
  <2> QED
    BY <2>1, <2>2, ZeroWord, NoWords DEF Sized
<1>2. ASSUME NEW c \in Configs PROVE Sized(Build(c))
  <2>1. IsConfig(c)
    BY WireAssumption
  <2> DEFINE b == Build(c)
  <2>2. /\ DOMAIN b = DOMAIN Fresh
        /\ b.timestamp = c.timestamp /\ b.ssrc = c.ssrc /\ b.profile = c.profile
        /\ b.csrcList = c.csrcList /\ b.extContents = c.extContents
        /\ b.paddingLength = c.paddingLength /\ b.payload = c.payload
    BY <2>1, Fields DEF Build, IsConfig
  <2> HIDE DEF b
  <2>3. Sized(b)
    BY <2>1, <2>2 DEF IsConfig, Sized
  <2> QED
    BY <2>3 DEF b
<1> QED
  BY <1>1, <1>2 DEF Layers

\* The setters cut what a header has no room for.
LEMMA EditsAreSized ==
  ASSUME Sized(draft), NEW l \in Edits(draft)
  PROVE  Sized(l)
<1> DEFINE d == draft
<1>0. /\ DOMAIN d = DOMAIN Fresh
      /\ IsWordList(d.csrcList) /\ Len(d.csrcList) \in Nat /\ Len(d.csrcList) <= MaxCSRC
      /\ IsWordList(d.extContents) /\ Len(d.extContents) \in Nat /\ Len(d.extContents) < UInt16
      /\ d.payload \in Seq(Seq(Byte))
      /\ IsWord(d.timestamp) /\ IsWord(d.ssrc)
  BY WordListsAreSeqs DEF Sized
<1>9. MaxCSRC = 15 /\ UInt16 = 65536
  BY DEF MaxCSRC, UInt16
<1>1. ASSUME NEW s \in Stamps PROVE Sized(Stamp(d, s))
  <2>1. SameShape(d, Stamp(d, s))
    BY <1>0, Fields DEF SameShape, Stamp
  <2>2. Stamp(d, s).timestamp = s.timestamp /\ Stamp(d, s).ssrc = s.ssrc
    BY <1>0, Fields DEF Stamp
  <2> QED
    BY <2>1, <2>2, WireAssumption, ShapeDecides
<1>2. ASSUME NEW t PROVE Sized(SetPayloadType(d, t))
  <2>1. /\ SameShape(d, SetPayloadType(d, t))
        /\ SetPayloadType(d, t).timestamp = d.timestamp /\ SetPayloadType(d, t).ssrc = d.ssrc
    BY <1>0, Fields DEF SameShape, SetPayloadType
  <2> QED
    BY <1>0, <2>1, ShapeDecides
<1>3. ASSUME NEW ws, IsWordList(ws), Len(ws) <= MaxCSRC
      PROVE  Sized([d EXCEPT !.csrcList = ws])
  BY <1>0, <1>3, Fields DEF Sized
<1>4. ASSUME NEW ws, IsWordList(ws), Len(ws) < UInt16
      PROVE  Sized([d EXCEPT !.extContents = ws])
  BY <1>0, <1>4, Fields DEF Sized
<1>5. ASSUME NEW ws \in WordLists
      PROVE  /\ Sized(SetCSRCList(d, ws)) /\ Sized(AddCSRCList(d, ws))
             /\ ws # <<>> => Sized(AddCSRC(d, ws[1]))
  <2>0. IsWordList(ws)
    BY WireAssumption
  <2>1. Sized(SetCSRCList(d, ws))
    <3>1. IsWordList(Cap(ws, MaxCSRC)) /\ Len(Cap(ws, MaxCSRC)) <= MaxCSRC
      BY <1>9, <2>0, CappedWords
    <3> QED
      BY <1>3, <3>1 DEF SetCSRCList
  <2>2. Sized(AddCSRCList(d, ws))
    <3> DEFINE room == MaxCSRC - Len(d.csrcList)
               more == Cap(ws, room)
    <3>1. room \in Nat
      BY <1>0, <1>9
    <3> HIDE DEF room
    <3>2. IsWordList(more) /\ Len(more) <= room /\ Len(more) \in Nat
      BY <2>0, <3>1, CappedWords, WordListsAreSeqs
    <3> HIDE DEF more
    <3>3. IsWordList(d.csrcList \o more) /\ Len(d.csrcList \o more) = Len(d.csrcList) + Len(more)
      BY <1>0, <3>2, JoinedWords
    <3> DEFINE all == d.csrcList \o more
    <3> HIDE DEF all
    <3>4. IsWordList(all) /\ Len(all) = Len(d.csrcList) + Len(more)
      BY <3>3 DEF all
    <3>5. Len(all) <= MaxCSRC
      BY <1>0, <1>9, <3>2, <3>4 DEF room
    <3>6. AddCSRCList(d, ws) = [d EXCEPT !.csrcList = all]
      BY DEF AddCSRCList, all, more, room
    <3> QED
      BY <1>3, <3>4, <3>5, <3>6
  <2>3. ASSUME ws # <<>> PROVE Sized(AddCSRC(d, ws[1]))
    <3> DEFINE w == <<ws[1]>>
               all == d.csrcList \o w
    <3>1. IsWordList(w) /\ Len(w) = 1
      BY <2>0, <2>3 DEF IsWordList
    <3>2. Append(d.csrcList, ws[1]) = all
      BY <1>0 DEF IsWordList
    <3> HIDE DEF w
    <3>3. IsWordList(all) /\ Len(all) = Len(d.csrcList) + Len(w)
      BY <1>0, <3>1, JoinedWords
    <3>4. AddCSRC(d, ws[1]) = IF Len(d.csrcList) < MaxCSRC THEN [d EXCEPT !.csrcList = all] ELSE d
      BY <3>2 DEF AddCSRC
    <3> HIDE DEF all
    <3>5. Len(d.csrcList) < MaxCSRC => Len(all) <= MaxCSRC
      BY <1>0, <1>9, <3>1, <3>3
    <3> QED
      BY <1>3, <3>3, <3>4, <3>5
  <2> QED
    BY <2>1, <2>2, <2>3
<1>6. ASSUME NEW ws \in WordLists
      PROVE  Sized(SetExtensionContents(d, ws)) /\ Sized(AddExtensionContents(d, ws))
  <2>0. IsWordList(ws) /\ Len(ws) \in Nat
    BY WireAssumption, WordListsAreSeqs
  <2>1. Sized(SetExtensionContents(d, ws))
    <3> DEFINE kept == IF Len(ws) >= UInt16 THEN Cap(ws, 15) ELSE ws
    <3>1. IsWordList(Cap(ws, 15)) /\ Len(Cap(ws, 15)) <= 15 /\ Len(Cap(ws, 15)) \in Nat
      BY <2>0, CappedWords, WordListsAreSeqs
    <3>2. IsWordList(kept) /\ Len(kept) < UInt16
      BY <1>9, <2>0, <3>1
    <3>3. SetExtensionContents(d, ws) = [d EXCEPT !.extContents = kept]
      BY DEF SetExtensionContents
    <3> HIDE DEF kept
    <3> QED
      BY <1>4, <3>2, <3>3
  <2>2. Sized(AddExtensionContents(d, ws))
    <3> DEFINE room == UInt16 - 1 - Len(d.extContents)
               more == Cap(ws, room)
    <3>1. room \in Nat
      BY <1>0, <1>9
    <3> HIDE DEF room
    <3>2. IsWordList(more) /\ Len(more) <= room /\ Len(more) \in Nat
      BY <2>0, <3>1, CappedWords, WordListsAreSeqs
    <3> HIDE DEF more
    <3> DEFINE all == d.extContents \o more
    <3>3. IsWordList(all) /\ Len(all) = Len(d.extContents) + Len(more)
      BY <1>0, <3>2, JoinedWords
    <3>6. AddExtensionContents(d, ws) = [d EXCEPT !.extContents = all]
      BY DEF AddExtensionContents, more, room
    <3> HIDE DEF all
    <3>5. Len(all) < UInt16
      BY <1>0, <1>9, <3>2, <3>3 DEF room
    <3> QED
      BY <1>4, <3>3, <3>5, <3>6
  <2> QED
    BY <2>1, <2>2
<1>7. ASSUME NEW n \in Paddings PROVE Sized(SetPaddingLength(d, n))
  BY <1>0, Fields, WireAssumption DEF Sized, SetPaddingLength
<1>8. ASSUME NEW c \in Contents PROVE Sized(SetContent(d, c)) /\ Sized(AddContent(d, c))
  <2>1. c \in Seq(Byte)
    BY WireAssumption
  <2>2. <<c>> \in Seq(Seq(Byte)) /\ Append(d.payload, c) \in Seq(Seq(Byte))
    BY <1>0, <2>1
  <2>3. ASSUME NEW p \in Seq(Seq(Byte)), NEW n
        PROVE  Sized([d EXCEPT !.payload = p, !.payloadSize = n])
    BY <1>0, <2>3, Fields DEF Sized
  <2> QED
    BY <2>2, <2>3 DEF SetContent, AddContent
<1> QED
  BY <1>1, <1>2, <1>5, <1>6, <1>7, <1>8, LayersAreSized, Zenon DEF Edits

(* ------------------------ frames and their writer ----------------------- *)

\* The packets of a frame are sized, and know the size of their payload; the
\* numbers its writer gives them fit their places.
Filled(f) == \A i \in DOMAIN f.packets : Sized(f.packets[i]) /\ Counted(f.packets[i])
Writable(w) == /\ w.timestamp = <<>> \/ \E v : w.timestamp = <<v>> /\ IsWord(v)
               /\ w.ssrc = <<>> \/ \E v : w.ssrc = <<v>> /\ IsWord(v)

LEMMA AppendKeepsFilled ==
  ASSUME NEW f, NEW l, NEW t, Timed(f), Collected(f), Filled(f), Sized(l), Counted(l)
  PROVE  Filled(AppendPacket(f, l, t))
<1> DEFINE g == AppendPacket(f, l, t)
<1>1. CASE ~Belongs(f, l)
  BY <1>1 DEF AppendPacket
<1>2. CASE Belongs(f, l)
  <2>1. g.packets = Append(f.packets, l)
    BY <1>2 DEF AppendPacket, Timed
  <2>2. PICK S : f.packets \in Seq(S)
    BY DEF Collected
  <2>3. f.packets \in Seq(S \cup {l})
    BY <2>2
  <2> HIDE DEF g
  <2>4. ASSUME NEW i \in DOMAIN g.packets
        PROVE  \/ i \in DOMAIN f.packets /\ g.packets[i] = f.packets[i]
               \/ g.packets[i] = l
    BY <2>1, <2>3, <2>4
  <2>5. Filled(g)
    BY <2>4 DEF Filled
  <2> QED
    BY <2>5 DEF g
<1> QED
  BY <1>1, <1>2

LEMMA RetimeKeepsFilled ==
  ASSUME NEW f, NEW t, Timed(f), Filled(f), IsWord(t)
  PROVE  Filled(SetFrameTimestamp(f, t))
<1> DEFINE g == SetFrameTimestamp(f, t)
           Renewed(l) == [l EXCEPT !.timestamp = t]
<1>1. g.packets = [i \in DOMAIN f.packets |-> Renewed(f.packets[i])]
  BY DEF SetFrameTimestamp, Timed
<1>2. ASSUME NEW i \in DOMAIN f.packets
      PROVE  Sized(Renewed(f.packets[i])) /\ Counted(Renewed(f.packets[i]))
  <2> DEFINE l == f.packets[i]
             m == Renewed(l)
  <2>1. Sized(l) /\ Counted(l)
    BY DEF Filled
  <2> HIDE DEF l
  <2>2. SameShape(l, m) /\ m.timestamp = t /\ m.ssrc = l.ssrc
    BY <2>1, Fields DEF SameShape, Sized
  <2> HIDE DEF m
  <2>3. IsWord(m.timestamp) /\ IsWord(m.ssrc)
    BY <2>1, <2>2 DEF Sized
  <2> QED
    BY <2>1, <2>2, <2>3, ShapeDecides DEF m, l
<1> HIDE DEF g, Renewed
<1>3. DOMAIN g.packets = DOMAIN f.packets
      /\ \A i \in DOMAIN f.packets : g.packets[i] = Renewed(f.packets[i])
  BY <1>1
<1>4. Filled(g)
  BY <1>2, <1>3 DEF Filled
<1> QED
  BY <1>4 DEF g

LEMMA RetypeKeepsFilled ==
  ASSUME NEW f, NEW t, Timed(f), Filled(f)
  PROVE  Filled(SetFramePayloadType(f, t))
<1> DEFINE g == SetFramePayloadType(f, t)
<1>1. g.packets = [i \in DOMAIN f.packets |-> SetPayloadType(f.packets[i], t)]
  BY DEF SetFramePayloadType, Timed
<1>2. ASSUME NEW i \in DOMAIN f.packets
      PROVE  /\ Sized(SetPayloadType(f.packets[i], t))
             /\ Counted(SetPayloadType(f.packets[i], t))
  <2> DEFINE l == f.packets[i]
             m == SetPayloadType(l, t)
  <2>1. Sized(l) /\ Counted(l)
    BY DEF Filled
  <2> HIDE DEF l
  <2>2. SameShape(l, m) /\ m.timestamp = l.timestamp /\ m.ssrc = l.ssrc
    BY <2>1, Fields DEF SameShape, Sized, SetPayloadType
  <2> HIDE DEF m
  <2>3. IsWord(m.timestamp) /\ IsWord(m.ssrc)
    BY <2>1, <2>2 DEF Sized
  <2> QED
    BY <2>1, <2>2, <2>3, ShapeDecides DEF m, l
<1> HIDE DEF g
<1>3. DOMAIN g.packets = DOMAIN f.packets
      /\ \A i \in DOMAIN f.packets : g.packets[i] = SetPayloadType(f.packets[i], t)
  BY <1>1
<1>4. Filled(g)
  BY <1>2, <1>3 DEF Filled
<1> QED
  BY <1>4 DEF g

LEMMA StartsWritable == Filled(EmptyFrame) /\ Writable(NewWriter(EmptyFrame))
BY DEF Filled, Writable, EmptyFrame, NewWriter

LEMMA OverrideWritable ==
  ASSUME DOMAIN writer = WriterFields, Writable(writer), NEW w \in Overrides(writer)
  PROVE  Writable(w)
<1>1. ASSUME NEW v
      PROVE  /\ [writer EXCEPT !.timestamp = v].timestamp = v
             /\ [writer EXCEPT !.timestamp = v].ssrc = writer.ssrc
             /\ [writer EXCEPT !.payloadType = v].timestamp = writer.timestamp
             /\ [writer EXCEPT !.payloadType = v].ssrc = writer.ssrc
             /\ [writer EXCEPT !.seq = v].timestamp = writer.timestamp
             /\ [writer EXCEPT !.seq = v].ssrc = writer.ssrc
             /\ [writer EXCEPT !.ssrc = v].timestamp = writer.timestamp
             /\ [writer EXCEPT !.ssrc = v].ssrc = v
  BY DEF WriterFields
<1>2. CASE \E v \in {<<>>} \cup {<<s.timestamp>> : s \in Stamps} : w = [writer EXCEPT !.timestamp = v]
  BY <1>1, <1>2, WireAssumption DEF Writable
<1>3. CASE \E v \in {<<>>} \cup {<<s.ssrc>> : s \in Stamps} : w = [writer EXCEPT !.ssrc = v]
  BY <1>1, <1>3, WireAssumption DEF Writable
<1>4. CASE \E v : w = [writer EXCEPT !.payloadType = v] \/ w = [writer EXCEPT !.seq = v]
  <2>1. PICK v : w = [writer EXCEPT !.payloadType = v] \/ w = [writer EXCEPT !.seq = v]
    BY <1>4
  <2>2. w.timestamp = writer.timestamp /\ w.ssrc = writer.ssrc
    BY <2>1, DOMAIN writer = WriterFields DEF WriterFields
  <2> QED
    BY <2>2 DEF Writable
<1> QED
  BY <1>2, <1>3, <1>4 DEF Overrides

LEMMA WriteWritable ==
  ASSUME DOMAIN writer = WriterFields, Writable(writer), WriteFrame
  PROVE  Writable(writer')
<1> DEFINE w == AskSize(SetFrame(writer, frame))
<1>1. DOMAIN w = WriterFields /\ w.timestamp = writer.timestamp /\ w.ssrc = writer.ssrc
  BY DEF WriterFields, AskSize, SetFrame
<1>2. writer' = [AfterWrite(w) EXCEPT !.frame = EmptyFrame]
  BY DEF WriteFrame
<1> HIDE DEF w
<1>3. writer'.timestamp = w.timestamp /\ writer'.ssrc = w.ssrc
  BY <1>1, <1>2 DEF AfterWrite, WriterFields
<1> QED
  BY <1>1, <1>3 DEF Writable

\* modifyPacket changes nothing that the size of a packet depends on.
LEMMA ModifiedSize ==
  ASSUME NEW w, Filled(w.frame), Writable(w), NEW i \in DOMAIN w.frame.packets
  PROVE  LET m == ModifyPacket(w, i)
         IN  IsSeq(WriteTo(m)) /\ Len(WriteTo(m)) = Size(w.frame.packets[i])
<1> DEFINE l == w.frame.packets[i]
           typed == IF w.payloadType = <<>> THEN l ELSE SetPayloadType(l, w.payloadType[1])
           m == ModifyPacket(w, i)
           at == IF w.timestamp = <<>> THEN typed.timestamp ELSE w.timestamp[1]
           by == IF w.ssrc = <<>> THEN typed.ssrc ELSE w.ssrc[1]
           number == IF w.seq = <<>> THEN typed.seq ELSE (w.seq[1] + i - 1) % UInt16
<1>1. Sized(l) /\ Counted(l)
  BY DEF Filled
<1>2. SameShape(l, typed) /\ typed.timestamp = l.timestamp /\ typed.ssrc = l.ssrc
  <2> HIDE DEF l
  <2> QED
    BY <1>1, Fields DEF SameShape, Sized, SetPayloadType
<1>3. m = [typed EXCEPT !.timestamp = at, !.seq = number, !.ssrc = by]
  BY DEF ModifyPacket
<1>4. IsWord(at) /\ IsWord(by)
  <2> HIDE DEF typed, l
  <2> QED
    BY <1>1, <1>2 DEF Sized, Writable
<1> HIDE DEF l, typed, m, at, by, number
<1>5. SameShape(typed, m) /\ m.timestamp = at /\ m.ssrc = by
  BY <1>2, <1>3, Fields DEF SameShape
<1>6. SameShape(l, m) /\ IsWord(m.timestamp) /\ IsWord(m.ssrc)
  BY <1>2, <1>4, <1>5 DEF SameShape
<1>7. Sized(m) /\ Counted(m) /\ Size(m) = Size(l)
  BY <1>1, <1>6, ShapeDecides
<1>8. IsSeq(WriteTo(m)) /\ Len(WriteTo(m)) = Size(m)
  BY <1>7, WriteToLength
<1> QED
  BY <1>7, <1>8 DEF l, m

\* A writer writes a frame's packets, each behind two bytes of its length.
LEMMA FrameLength ==
  ASSUME NEW w, Collected(w.frame), Filled(w.frame), Writable(w), w.size = 0
  PROVE  FrameSize(w) = Len(FrameBytes(w))
<1> DEFINE ps == w.frame.packets
           Part(i) == Framed(Size(ModifyPacket(w, i)) % UInt16, WriteTo(ModifyPacket(w, i)))
           parts == [i \in DOMAIN ps |-> Part(i)]
           ns == [i \in DOMAIN ps |-> Size(ps[i]) + 2]
<1>1. DOMAIN ps = 1 .. Len(ps) /\ Len(ps) \in Nat
  BY DEF Collected
<1>2. ASSUME NEW i \in DOMAIN ps PROVE IsSeq(Part(i)) /\ Len(Part(i)) = Size(ps[i]) + 2
  <2> DEFINE m == ModifyPacket(w, i)
             size == Put16(Size(m) % UInt16)
             bytes == WriteTo(m)
  <2>1. IsSeq(bytes) /\ Len(bytes) = Size(ps[i])
    BY ModifiedSize
  <2>2. IsSeq(size) /\ Len(size) = 2
    BY Put16Length
  <2>3. Part(i) = Cat(size, bytes)
    BY DEF Framed, Cat
  <2>4. Len(bytes) \in Nat
    BY <2>1, SeqsHaveLengths
  <2> HIDE DEF size, bytes, Part, ps
  <2>5. IsSeq(Cat(size, bytes)) /\ Len(Cat(size, bytes)) = Len(size) + Len(bytes)
    BY <2>1, <2>2, CatLength
  <2> QED
    BY <2>1, <2>2, <2>3, <2>4, <2>5
<1>3. FrameSize(w) = SumOf(ns)
  BY DEF FrameSize
<1>4. FrameBytes(w) = FlattenSeq(parts)
  BY DEF FrameBytes
<1> HIDE DEF ps, Part
<1>5. IsSeq(parts) /\ Len(parts) = Len(ps) /\ Len(ns) = Len(ps)
  <2>1. parts \in Seq({Part(i) : i \in DOMAIN ps}) /\ Len(parts) = Len(ps)
    BY <1>1
  <2>2. Len(ns) = Len(ps)
    BY <1>1
  <2> QED
    BY <2>1, <2>2 DEF IsSeq
<1>6. /\ \A i \in DOMAIN parts : IsSeq(parts[i])
      /\ \A i \in 1 .. Len(parts) : ns[i] = Len(parts[i])
  BY <1>1, <1>2, <1>5
<1>7. Len(FlattenSeq(parts)) = SumOf(ns)
  <2> HIDE DEF parts, ns
  <2>1. Len(ns) = Len(parts)
    BY <1>5
  <2> QED
    BY <1>5, <1>6, <2>1, FlattenLength
<1> QED
  BY <1>3, <1>4, <1>7

LEMMA PayloadLength ==
  ASSUME NEW f, Collected(f), Filled(f)
  PROVE  PayloadSize(f) = Len(PayloadBytes(f))
<1> DEFINE ps == f.packets
           parts == [i \in DOMAIN ps |-> PayloadOf(ps[i])]
           ns == [i \in DOMAIN ps |-> ps[i].payloadSize]
<1>1. DOMAIN ps = 1 .. Len(ps) /\ Len(ps) \in Nat
  BY DEF Collected
<1>2. ASSUME NEW i \in DOMAIN ps
      PROVE  IsSeq(PayloadOf(ps[i])) /\ Len(PayloadOf(ps[i])) = ps[i].payloadSize
  BY PayloadIsSeq DEF Filled, Counted
<1>3. PayloadSize(f) = SumOf(ns)
  BY DEF PayloadSize
<1>4. PayloadBytes(f) = FlattenSeq(parts)
  BY DEF PayloadBytes
<1> HIDE DEF ps
<1>5. IsSeq(parts) /\ Len(parts) = Len(ps) /\ Len(ns) = Len(ps)
  <2>1. parts \in Seq({PayloadOf(ps[i]) : i \in DOMAIN ps}) /\ Len(parts) = Len(ps)
    BY <1>1
  <2>2. Len(ns) = Len(ps)
    BY <1>1
  <2> QED
    BY <2>1, <2>2 DEF IsSeq
<1>6. /\ \A i \in DOMAIN parts : IsSeq(parts[i])
      /\ \A i \in 1 .. Len(parts) : ns[i] = Len(parts[i])
  BY <1>1, <1>2, <1>5
<1>7. Len(FlattenSeq(parts)) = SumOf(ns)
  <2> HIDE DEF parts, ns
  <2>1. Len(ns) = Len(parts)
    BY <1>5
  <2> QED
    BY <1>5, <1>6, <2>1, FlattenLength
<1> QED
  BY <1>3, <1>4, <1>7

(* ------------------------------ invariant ------------------------------- *)

Inv == /\ IsLayer(draft) /\ Timed(frame) /\ Collected(frame) /\ Uniform(frame)
       /\ Counting(writer, rewritten)

LEMMA NextInv == Inv /\ [Next]_vars => Inv'
<1> SUFFICES ASSUME Inv, [Next]_vars PROVE Inv'
  OBVIOUS
<1>1. CASE Edit
  BY <1>1, EditsAreLayers DEF Inv, Edit
<1>8. CASE Override
  BY <1>8, OverrideCounts DEF Inv, Override
<1>2. CASE Collect
  <2>1. PICK t \in Times : frame' = AppendPacket(frame, draft, t)
    BY <1>2 DEF Collect
  <2>2. t \in Int /\ Len(frame.packets) \in Nat
    BY WireAssumption DEF Inv, Collected
  <2> QED
    BY <1>2, <2>1, <2>2, AppendKeepsTimed, AppendKeepsUniform DEF Inv, Collect
<1>3. CASE Retime
  BY <1>3, RetimeKeepsUniform DEF Inv, Retime
<1>4. CASE Retype
  BY <1>4, RetypeKeepsUniform DEF Inv, Retype
<1>5. CASE WriteFrame
  BY <1>5, EmptyIsFine, WriteFrameCounts DEF Inv, WriteFrame
<1>6. CASE EndSending
  BY <1>6, EmptyIsFine, StartsCounting DEF Inv, EndSending, IsLayer
<1>7. CASE UNCHANGED <<draft, frame, writer, rewritten>>
  BY <1>7 DEF Inv
<1> QED
  BY <1>1, <1>2, <1>3, <1>4, <1>5, <1>6, <1>7, <1>8
     DEF Next, vars, sendVars, WriteDraft, PeerJunk, ReadChunk, ParseChunk,
         ReadFile, EndOfStream

LEMMA Invariance == Spec => []Inv
<1>1. Init => Inv
  BY LayersAreLayers, EmptyIsFine, StartsCounting DEF Init, Inv
<1> QED
  BY <1>1, NextInv, PTL DEF Spec

\* What sizes depend on: layers that setters made, packets that know the size
\* of their payload, and a writer whose numbers fit.
Sizes == Sized(draft) /\ Filled(frame) /\ Writable(writer)

LEMMA NextSizes == Inv /\ Sizes /\ [Next]_vars => Sizes'
<1> SUFFICES ASSUME Inv, Sizes, [Next]_vars PROVE Sizes'
  OBVIOUS
<1>1. CASE Edit
  BY <1>1, EditsAreSized DEF Sizes, Edit
<1>2. CASE Override
  BY <1>2, OverrideWritable DEF Inv, Sizes, Counting, Override
<1>3. CASE Collect
  BY <1>3, AppendKeepsFilled DEF Inv, Sizes, Collect
<1>4. CASE Retime
  BY <1>4, RetimeKeepsFilled, WireAssumption DEF Inv, Sizes, Retime
<1>5. CASE Retype
  BY <1>5, RetypeKeepsFilled DEF Inv, Sizes, Retype
<1>6. CASE WriteFrame
  BY <1>6, StartsWritable, WriteWritable DEF Inv, Sizes, Counting, WriteFrame
<1>7. CASE EndSending
  <2>1. Sized(Fresh)
    BY LayersAreSized DEF Layers
  <2> QED
    BY <1>7, <2>1, StartsWritable DEF Sizes, EndSending
<1>8. CASE UNCHANGED <<draft, frame, writer>>
  BY <1>8 DEF Sizes
<1> QED
  BY <1>1, <1>2, <1>3, <1>4, <1>5, <1>6, <1>7, <1>8
     DEF Next, vars, sendVars, WriteDraft, PeerJunk, ReadChunk, ParseChunk,
         ReadFile, EndOfStream

LEMMA SizesInvariant == Spec => []Sizes
<1>1. Init => Sizes
  BY LayersAreSized, StartsWritable DEF Init, Sizes
<1> QED
  BY <1>1, NextSizes, Invariance, PTL DEF Spec

\* IncomingFrame.Append keeps the times of a frame in order, whatever the
\* number of its packets and the order they come in (timeRangeExpand).
THEOREM FrameTimesInOrder == Spec => []FrameTimesOrdered
<1>1. Inv => FrameTimesOrdered
  BY DEF Inv, Timed, FrameTimesOrdered
<1> QED
  BY <1>1, Invariance, PTL

\* All packets of a frame carry its timestamp and payload type, whatever is
\* appended, refused and set (IncomingFrame.Append, SetTimestamp).
THEOREM FramesAreUniform == Spec => []FrameIsUniform
<1>1. Inv => FrameIsUniform
  BY DEF Inv, Uniform, FrameIsUniform
<1> QED
  BY <1>1, Invariance, PTL

\* A writer given a sequence number numbers packets one after the other,
\* across frames and past 65535 (FullFrameWriter.modifyPacket).
THEOREM NumbersAreConsecutive == Spec => []NumbersFollow
<1>1. Inv => NumbersFollow
  BY DEF Inv, Counting, Follow, NumbersFollow
<1> QED
  BY <1>1, Invariance, PTL

\* Size is what WriteTo writes, for every layer that BuildIncomingLayer and the
\* setters can make, with any words, any padding in however many pieces and any
\* number of chunks (layer.go, combinedLayer.Size), once its payload's size is
\* known; so are the sizes of both frame writers for frames of any number of
\* such packets, whatever header fields the writer overrides.
THEOREM SizesAreWritten == Spec => []SizeIsWritten
<1>1. Inv /\ Sizes => SizeIsWritten
  <2> SUFFICES ASSUME Inv, Sizes PROVE SizeIsWritten
    OBVIOUS
  <2>1. Counted(draft) => Size(draft) = Len(WriteTo(draft))
    BY WriteToLength DEF Sizes
  <2> DEFINE w == SetFrame(writer, frame)
  <2>2. w.frame = frame /\ w.size = 0 /\ w.timestamp = writer.timestamp /\ w.ssrc = writer.ssrc
    BY DEF Inv, Counting, WriterFields, SetFrame
  <2> HIDE DEF w
  <2>3. FrameSize(w) = Len(FrameBytes(w))
    BY <2>2, FrameLength DEF Inv, Sizes, Writable
  <2>4. PayloadSize(frame) = Len(PayloadBytes(frame))
    BY PayloadLength DEF Inv, Sizes
  <2> QED
    BY <2>1, <2>3, <2>4 DEF SizeIsWritten, w
<1> QED
  BY <1>1, Invariance, SizesInvariant, PTL
===============================================================================
