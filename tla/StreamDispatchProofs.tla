------------------------- MODULE StreamDispatchProofs -------------------------
(* Proofs about the packets a stream accepts, the losses it reports and the *)
(* errors it is ended for, for any addresses, sources, users, number of     *)
(* packets, width of the sequence numbers (2^16 in the code) and limits of  *)
(* the chooser.                                                             *)
EXTENDS StreamDispatchProps, FiniteSetTheorems, SequenceTheorems,
        WellFoundedInduction, TLAPS

USE DispatchAssumption DEF streamVars, forceVars

PacketType == [addr : Addrs, ssrc : SSRCs, n : Int]
Busy == {"compareAddr", "ssrc", "compareSSRC", "count"}

(* ------------------------- the inductive invariant ---------------------- *)

Types ==
  /\ pc \in Busy \cup {"idle", "remove", "panicked"}
  /\ addr \in Addrs \cup {NoAddr} /\ ssrc \in SSRCs \cup {NoSSRC}
  /\ isInit \in BOOLEAN /\ closed \in BOOLEAN /\ touched \in BOOLEAN
  /\ losses \in Int /\ accepted \in Seq(PacketType)
  /\ pc \in Busy => packet \in PacketType
  /\ closed => pc = "idle"

\* Past a comparison the packet has what the stream has, unless a user has
\* set it since, and so have those accepted.
Source ==
  ~touched => /\ pc \in {"ssrc", "compareSSRC", "count"} => addr = packet.addr
              /\ pc = "count" => ssrc = packet.ssrc
              /\ \A i \in DOMAIN accepted : accepted[i].addr = addr /\ accepted[i].ssrc = ssrc

\* Past a comparison the packet has what the stream had at some time.
Latched ==
  /\ pc \in Busy => addr \in addrsInForce
  /\ pc \in {"ssrc", "compareSSRC", "count"} => packet.addr \in addrsInForce
  /\ pc \in {"compareSSRC", "count"} => ssrc \in ssrcsInForce
  /\ pc = "count" => packet.ssrc \in ssrcsInForce

\* The last number is remembered, and the sum is right but for multiples.
Numbered ==
  /\ accepted = <<>> => losses = 0 /\ (closed \/ ~isInit)
  /\ accepted # <<>> => /\ isInit /\ seq = SeqOf(accepted[Len(accepted)])
                        /\ \E k \in Int : losses - Skipped = k * W

Inv == Types /\ Source /\ Latched /\ Numbered

LEMMA InitInv == Init => Inv
<1> SUFFICES ASSUME Init PROVE Inv
  OBVIOUS
<1>1. Types
  <2>1. /\ addr \in Addrs \cup {NoAddr} /\ ssrc \in SSRCs \cup {NoSSRC}
        /\ losses = 0 /\ accepted = <<>> /\ pc = "idle"
    BY DEF Init
  <2>2. isInit \in BOOLEAN /\ closed \in BOOLEAN /\ touched \in BOOLEAN
    BY DEF Init
  <2>3. pc \notin Busy
    BY <2>1 DEF Busy
  <2>4. accepted \in Seq(PacketType)
    BY <2>1
  <2> QED
    BY <2>1, <2>2, <2>3, <2>4 DEF Types
<1> QED
  BY <1>1 DEF Init, Inv, Source, Latched, Numbered, Busy

(* ---------------------------- sequence numbers -------------------------- *)

LEMMA Remainder ==
  ASSUME NEW x \in Int
  PROVE  /\ x % W \in 0 .. W - 1
         /\ \E k \in Int : x % W = x + k * W
<1>1. x % W \in 0 .. W - 1 /\ x \div W \in Int /\ x = (x \div W) * W + (x % W)
  OBVIOUS
<1>2. x % W = x + (-(x \div W)) * W
  BY <1>1
<1> QED
  BY <1>1, <1>2

LEMMA MultiplesLeaveNothing ==
  ASSUME NEW k \in Int
  PROVE  (k * W) % W = 0
<1> DEFINE q == (k * W) \div W
           r == (k * W) % W
<1>1. q \in Int /\ r \in 0 .. W - 1 /\ k * W = q * W + r
  OBVIOUS
<1>2. r = (k - q) * W /\ k - q \in Int
  BY <1>1
<1>3. CASE k - q <= 0
  BY <1>1, <1>2, <1>3
<1>4. CASE k - q >= 1
  BY <1>1, <1>2, <1>4
<1> QED
  BY <1>1, <1>3, <1>4

LEMMA SeqOfType == \A p \in PacketType : SeqOf(p) \in 0 .. W - 1
<1> SUFFICES ASSUME NEW p \in PacketType PROVE SeqOf(p) \in 0 .. W - 1
  OBVIOUS
<1>1. FirstSeq + p.n \in Int
  BY DEF PacketType
<1> QED
  BY <1>1, Remainder DEF SeqOf

\* The loss reported is one less than the difference, but for a multiple.
LEMMA ReportedType ==
  ASSUME isInit, seq \in Int, packet \in PacketType
  PROVE  /\ Reported \in 0 .. W - 1
         /\ \E k \in Int : Reported = SeqOf(packet) - seq - 1 + k * W
<1>1. SeqOf(packet) - seq \in Int
  BY SeqOfType
<1>2. PICK i \in Int : Diff = SeqOf(packet) - seq + i * W
  BY <1>1, Remainder DEF Diff
<1>3. Diff \in Int
  BY <1>1, Remainder DEF Diff
<1>4. CASE Diff = 1
  <2>1. Reported = 0 /\ SeqOf(packet) - seq - 1 + i * W = 0
    BY <1>1, <1>2, <1>4 DEF Reported
  <2>2. Reported = SeqOf(packet) - seq - 1 + i * W /\ Reported \in 0 .. W - 1
    BY <2>1
  <2> QED
    BY <2>2
<1>5. CASE Diff # 1
  <2>1. Diff - 1 \in Int /\ Reported = (Diff - 1) % W
    BY <1>3, <1>5 DEF Reported
  <2>2. PICK j \in Int : Reported = Diff - 1 + j * W
    BY <2>1, Remainder
  <2>3. Reported = SeqOf(packet) - seq - 1 + (i + j) * W /\ i + j \in Int
    BY <1>1, <1>2, <2>2
  <2>4. Reported \in 0 .. W - 1
    BY <2>1, Remainder
  <2> QED
    BY <2>3, <2>4
<1> QED
  BY <1>4, <1>5

\* Two numbers of the same remainder, less than the width apart from zero.
LEMMA SameRemainder ==
  ASSUME NEW x \in 0 .. W - 1, NEW y \in 0 .. W - 1, NEW k \in Int, x = y + k * W
  PROVE  x = y
<1>1. CASE k >= 1
  BY <1>1
<1>2. CASE k <= -1
  BY <1>2
<1>3. CASE k = 0
  BY <1>3
<1> QED
  BY <1>1, <1>2, <1>3

LEMMA AcceptExact == ASSUME Inv, LossesExact, Accept PROVE LossesExact'
<1>1. /\ packet \in PacketType /\ isInit \in BOOLEAN /\ ~closed
      /\ accepted \in Seq(PacketType) /\ losses \in Int
      /\ accepted' = Append(accepted, packet) /\ losses' = losses + Reported
  BY DEF Inv, Types, Busy, Accept
<1>2. /\ Len(accepted') = Len(accepted) + 1 /\ Len(accepted) \in Nat
      /\ accepted'[Len(accepted')] = packet /\ packet.n \in Int
      /\ \A i \in 1 .. Len(accepted) : accepted'[i] = accepted[i]
  BY <1>1 DEF PacketType
<1>3. CASE accepted = <<>>
  <2>1. losses' = 0
    BY <1>1, <1>3 DEF Inv, Numbered, Reported
  <2> QED
    BY <1>2, <1>3, <2>1 DEF LossesExact
<1>4. CASE accepted # <<>>
  <2> DEFINE last == accepted[Len(accepted)]
  <2>1. /\ Len(accepted) > 0 /\ last \in PacketType /\ accepted[1] \in PacketType
        /\ isInit /\ seq = SeqOf(last)
    BY <1>1, <1>4 DEF Inv, Numbered
  <2>2. last.n \in Int /\ accepted[1].n \in Int /\ seq \in Int
    BY <2>1, SeqOfType DEF PacketType
  <2> SUFFICES ASSUME InOrder'
               PROVE  losses' = packet.n - accepted[1].n - Len(accepted)
    BY <1>2, <2>1 DEF LossesExact
  <2>3. InOrder
    <3> SUFFICES ASSUME NEW i \in 1 .. Len(accepted) - 1
                 PROVE  /\ accepted[i].addr = Me /\ accepted[i + 1].addr = Me
                        /\ accepted[i].ssrc = MySSRC /\ accepted[i + 1].ssrc = MySSRC
                        /\ accepted[i + 1].n - accepted[i].n \in 1 .. W
      BY DEF InOrder
    <3>1. /\ i \in 1 .. Len(accepted') - 1 /\ accepted'[i] = accepted[i]
          /\ accepted'[i + 1] = accepted[i + 1]
      BY <1>2
    <3>2. /\ accepted'[i].addr = Me /\ accepted'[i + 1].addr = Me
          /\ accepted'[i].ssrc = MySSRC /\ accepted'[i + 1].ssrc = MySSRC
          /\ accepted'[i + 1].n - accepted'[i].n \in 1 .. W
      BY <3>1 DEF InOrder
    <3> QED
      BY <3>1, <3>2
  <2>4. losses = last.n - accepted[1].n - (Len(accepted) - 1)
    BY <1>4, <2>3 DEF LossesExact
  <2>5. packet.n - last.n \in 1 .. W
    <3>1. Len(accepted) \in 1 .. Len(accepted') - 1
      BY <1>2, <2>1
    <3>2. accepted'[Len(accepted) + 1].n - accepted'[Len(accepted)].n \in 1 .. W
      BY <3>1 DEF InOrder
    <3> QED
      BY <1>2, <2>1, <3>2
  <2>13. packet \in PacketType /\ seq \in Int
    BY <1>1, <2>2
  <2>14. isInit
    BY <2>1
  <2>6. PICK k \in Int : Reported = SeqOf(packet) - seq - 1 + k * W
    BY <2>13, <2>14, ReportedType
  <2>12. FirstSeq + packet.n \in Int /\ FirstSeq + last.n \in Int /\ FirstSeq \in Int
    BY <1>2, <2>2
  <2>7. PICK u \in Int : SeqOf(packet) = FirstSeq + packet.n + u * W
    BY <2>12, Remainder DEF SeqOf
  <2>8. PICK v \in Int : seq = FirstSeq + last.n + v * W
    BY <2>1, <2>12, Remainder DEF SeqOf
  <2>9. Reported = (packet.n - last.n - 1) + (k + u - v) * W
    <3> DEFINE a == k * W  b == u * W  c == v * W
    <3>1. a \in Int /\ b \in Int /\ c \in Int /\ (k + u - v) * W = a + b - c
      OBVIOUS
    <3>2. /\ Reported = SeqOf(packet) - seq - 1 + a /\ SeqOf(packet) = FirstSeq + packet.n + b
          /\ seq = FirstSeq + last.n + c
      BY <2>6, <2>7, <2>8
    <3> HIDE DEF a, b, c, last
    <3> DEFINE m == packet.n  n == last.n
    <3>4. m \in Int /\ n \in Int /\ FirstSeq \in Int
      BY <1>2, <2>2, <2>12
    <3>5. Reported = FirstSeq + m + b - (FirstSeq + n + c) - 1 + a
      BY <3>1, <3>2, <3>4
    <3> HIDE DEF m, n
    <3>6. Reported = (m - n - 1) + (a + b - c)
      BY <3>1, <3>4, <3>5
    <3>3. Reported = (packet.n - last.n - 1) + (a + b - c)
      BY <3>6 DEF m, n
    <3> QED
      BY <3>1, <3>3
  <2>15. Reported \in 0 .. W - 1
    BY <2>13, <2>14, ReportedType
  <2>10. Reported \in 0 .. W - 1 /\ packet.n - last.n - 1 \in 0 .. W - 1
    BY <1>2, <2>2, <2>5, <2>15
  <2>11. Reported = packet.n - last.n - 1
    BY <2>9, <2>10, SameRemainder
  <2> HIDE DEF last
  <2> QED
    BY <1>1, <1>2, <2>2, <2>4, <2>11
<1> QED
  BY <1>3, <1>4

LEMMA AcceptNumbered == ASSUME Inv, Accept PROVE Numbered'
<1>1. /\ pc = "count" /\ ~closed /\ packet \in PacketType
      /\ accepted \in Seq(PacketType) /\ losses \in Int
  BY DEF Inv, Types, Busy, Accept
<1>2. /\ accepted' = Append(accepted, packet) /\ isInit' = TRUE
      /\ seq' = SeqOf(packet) /\ losses' = losses + Reported
  BY DEF Accept
<1>3. /\ accepted' # <<>> /\ Len(accepted') = Len(accepted) + 1
      /\ accepted'[Len(accepted')] = packet
      /\ Len(accepted) \in Nat
  BY <1>1, <1>2
<1>4. CASE accepted = <<>>
  <2>1. losses = 0 /\ ~isInit
    BY <1>1, <1>4 DEF Inv, Numbered
  <2>2. losses' = 0
    BY <1>2, <2>1 DEF Reported
  <2>3. Skipped' = 0
    <3>1. Len(accepted') = 1 /\ accepted'[1] = packet
      BY <1>1, <1>2, <1>3, <1>4
    <3>2. Skipped' = SeqOf(packet) - SeqOf(packet) - (1 - 1)
      BY <3>1 DEF Skipped, SeqOf
    <3> QED
      BY <1>1, <3>2, SeqOfType
  <2>4. losses' - Skipped' = 0 * W /\ 0 \in Int
    BY <2>2, <2>3
  <2>5. \E k \in Int : losses' - Skipped' = k * W
    BY <2>4
  <2>6. seq' = SeqOf(accepted'[Len(accepted')])
    BY <1>2, <1>3
  <2> QED
    BY <1>2, <1>3, <2>5, <2>6 DEF Numbered, SeqOf
<1>5. CASE accepted # <<>>
  <2>1. PICK k \in Int : losses - Skipped = k * W
    BY <1>5 DEF Inv, Numbered
  <2>2. isInit /\ seq = SeqOf(accepted[Len(accepted)]) /\ seq \in 0 .. W - 1
    BY <1>1, <1>3, <1>5, SeqOfType DEF Inv, Numbered
  <2>3. SeqOf(packet) \in 0 .. W - 1
    BY <1>1, SeqOfType
  <2>5. packet \in PacketType /\ seq \in Int
    BY <1>1, <2>2
  <2>6. isInit
    BY <2>2
  <2>4. PICK j \in Int : Reported = SeqOf(packet) - seq - 1 + j * W
    BY <2>5, <2>6, ReportedType
  <2>8. accepted'[1] = accepted[1] /\ accepted[1] \in PacketType
    BY <1>1, <1>2, <1>3, <1>5
  <2>9. /\ Skipped = seq - SeqOf(accepted[1]) - (Len(accepted) - 1)
        /\ Skipped' = SeqOf(packet) - SeqOf(accepted[1]) - Len(accepted)
        /\ SeqOf(accepted[1]) \in Int
    BY <1>1, <1>3, <2>2, <2>3, <2>8, SeqOfType DEF Skipped, SeqOf
  <2>10. losses' - Skipped' = k * W + j * W
    <3> DEFINE a == k * W  c == j * W
    <3>1. a \in Int /\ c \in Int
      OBVIOUS
    <3>2. losses - Skipped = a /\ Reported = SeqOf(packet) - seq - 1 + c
      BY <2>1, <2>4
    <3> HIDE DEF a, c
    <3>3. losses' = losses + Reported /\ losses \in Int /\ Skipped \in Int /\ seq \in Int
            /\ SeqOf(packet) \in Int
      BY <1>1, <1>2, <1>3, <2>2, <2>3, <2>9
    <3>4. losses' = Skipped + a + (SeqOf(packet) - seq) - 1 + c
      BY <3>1, <3>2, <3>3
    <3>5. Skipped' = Skipped + (SeqOf(packet) - seq) - 1
      BY <1>3, <2>9, <3>3
    <3>6. losses' - Skipped' = a + c
      BY <3>1, <3>3, <3>4, <3>5
    <3> QED
      BY <3>6 DEF a, c
  <2>11. k * W + j * W = (k + j) * W /\ k + j \in Int
    OBVIOUS
  <2>13. \E n \in Int : losses' - Skipped' = n * W
    BY <2>10, <2>11
  <2>14. seq' = SeqOf(accepted'[Len(accepted')])
    BY <1>2, <1>3
  <2> QED
    BY <1>2, <1>3, <2>13, <2>14 DEF Numbered, SeqOf
<1> QED
  BY <1>4, <1>5

(* --------------------------------- steps -------------------------------- *)

LEMMA HandleInv ==
  ASSUME Inv, HandlePacket \/ CompareAddr \/ LatchSSRC \/ CompareSSRC
  PROVE  Inv'
<1> USE DEF Inv
<1>1. Numbered'
  <2>1. UNCHANGED <<accepted, losses, closed, isInit, seq>>
    BY DEF HandlePacket, CompareAddr, LatchSSRC, CompareSSRC
  <2> QED
    BY <2>1 DEF Numbered, Skipped, SeqOf
<1>2. Mine \cup Others \subseteq PacketType
  BY DEF Mine, Others, PacketType
<1>3. CASE HandlePacket
  <2>1. /\ packet' \in PacketType /\ pc = "idle" /\ pc' \in {"ssrc", "compareAddr"}
        /\ addr' = IF addr = NoAddr THEN packet'.addr ELSE addr
        /\ pc' = "ssrc" <=> addr = NoAddr
        /\ addrsInForce' = {addr'} /\ ssrcsInForce' = {ssrc}
        /\ UNCHANGED <<ssrc, isInit, closed, accepted, losses, touched>> /\ ~closed
    BY <1>2, <1>3 DEF HandlePacket, Receiving
  <2>2. Types'
    BY <2>1 DEF Types, Busy, PacketType
  <2>5. addr = NoAddr /\ ~touched => accepted = <<>>
    <3> SUFFICES ASSUME addr = NoAddr, ~touched, accepted # <<>> PROVE FALSE
      OBVIOUS
    <3>1. 1 \in DOMAIN accepted /\ accepted[1] \in PacketType
      BY DEF Types
    <3> QED
      BY <3>1 DEF Source, PacketType
  <2>3. Source'
    <3> SUFFICES ASSUME ~touched PROVE Source'
      BY <2>1 DEF Source
    <3>1. CASE addr = NoAddr
      BY <2>1, <2>5, <3>1 DEF Types, Source
    <3>2. CASE addr # NoAddr
      BY <2>1, <3>2 DEF Types, Source
    <3> QED
      BY <3>1, <3>2
  <2>4. Latched'
    BY <2>1 DEF Latched, Busy
  <2> QED
    BY <1>1, <2>2, <2>3, <2>4
<1>4. CASE CompareAddr
  BY <1>1, <1>4 DEF CompareAddr, Done, Types, Source, Latched, Busy
<1>5. CASE LatchSSRC
  <2>1. /\ pc = "ssrc" /\ packet \in PacketType /\ pc' \in {"count", "compareSSRC"}
        /\ ssrc' = IF ssrc = NoSSRC THEN packet.ssrc ELSE ssrc
        /\ pc' = "count" <=> ssrc = NoSSRC
        /\ ssrcsInForce' = ssrcsInForce \cup {ssrc'}
        /\ UNCHANGED <<packet, addr, isInit, closed, accepted, losses, touched, addrsInForce>>
    BY <1>5 DEF LatchSSRC, Types, Busy
  <2>2. Types'
    BY <2>1 DEF Types, Busy, PacketType
  <2>5. ssrc = NoSSRC /\ ~touched => accepted = <<>>
    <3> SUFFICES ASSUME ssrc = NoSSRC, ~touched, accepted # <<>> PROVE FALSE
      OBVIOUS
    <3>1. 1 \in DOMAIN accepted /\ accepted[1] \in PacketType
      BY DEF Types
    <3> QED
      BY <3>1 DEF Source, PacketType
  <2>3. Source'
    <3> SUFFICES ASSUME ~touched PROVE Source'
      BY <2>1 DEF Source
    <3>1. CASE ssrc = NoSSRC
      BY <2>1, <2>5, <3>1 DEF Types, Source
    <3>2. CASE ssrc # NoSSRC
      BY <2>1, <3>2 DEF Types, Source
    <3> QED
      BY <3>1, <3>2
  <2>4. Latched'
    BY <2>1 DEF Latched, Busy
  <2> QED
    BY <1>1, <2>2, <2>3, <2>4
<1>6. CASE CompareSSRC
  BY <1>1, <1>6 DEF CompareSSRC, Done, Types, Source, Latched, Busy
<1> QED
  BY <1>3, <1>4, <1>5, <1>6

LEMMA OthersInv ==
  ASSUME Inv, Tick \/ Accept \/ ParseError \/ CloseStream \/ SetRemoteAddr \/ SetSSRC \/ Reuse
  PROVE  Inv'
<1> USE DEF Inv
<1>1. ASSUME UNCHANGED <<accepted, losses, closed, isInit, seq>>
      PROVE  Numbered'
  BY <1>1 DEF Numbered, Skipped, SeqOf
<1>2. CASE Tick
  BY <1>1, <1>2 DEF Tick, Types, Source, Latched, Busy
<1>3. CASE Accept
  <2>1. /\ pc = "count" /\ packet \in PacketType /\ pc' = "idle" /\ isInit' = TRUE
        /\ accepted' = Append(accepted, packet) /\ losses' = losses + Reported
        /\ UNCHANGED <<addr, ssrc, closed, touched>>
    BY <1>3 DEF Accept, Done, Types, Busy
  <2>2. SeqOf(packet) \in Int
    BY <2>1, SeqOfType
  <2>3. Reported \in Int
    <3>1. CASE isInit
      <4>1. accepted # <<>>
        BY <2>1, <3>1 DEF Types, Numbered
      <4>2. accepted[Len(accepted)] \in PacketType
        BY <4>1 DEF Types
      <4>3. seq \in Int
        BY <4>1, <4>2, SeqOfType DEF Numbered
      <4>4. Diff \in Int
        BY <2>2, <4>3, Remainder DEF Diff
      <4> QED
        BY <4>4, Remainder DEF Reported
    <3>2. CASE ~isInit
      BY <3>2 DEF Reported
    <3> QED
      BY <3>1, <3>2 DEF Types
  <2>4. Types'
    BY <2>1, <2>3 DEF Types, Busy
  <2>5. Source'
    BY <2>1 DEF Types, Source
  <2>6. Latched'
    BY <2>1 DEF Latched, Busy
  <2> QED
    BY <1>3, <2>4, <2>5, <2>6, AcceptNumbered
<1>4. CASE ParseError
  <2>1. /\ pc = "idle" /\ pc' \in {"idle", "remove"} /\ ~closed
        /\ UNCHANGED <<packet, streamVars, forceVars>>
    BY <1>4 DEF ParseError, Receiving
  <2> QED
    BY <1>1, <2>1 DEF Types, Source, Latched, Busy
<1>5. CASE CloseStream
  <2>1. /\ closed' = TRUE /\ pc' = "idle" /\ accepted' = <<>> /\ losses' = 0
        /\ UNCHANGED <<packet, addr, ssrc, isInit, seq, touched, forceVars>>
    BY <1>5 DEF CloseStream
  <2> QED
    BY <2>1 DEF Types, Source, Latched, Numbered, Busy
<1>6. CASE SetRemoteAddr
  <2>1. /\ addr' \in Addrs \cup {NoAddr} /\ touched' = TRUE
        /\ pc # "idle" => addrsInForce' = addrsInForce \cup {addr'}
        /\ UNCHANGED <<pc, packet, ssrc, isInit, seq, closed, accepted, losses, ssrcsInForce>>
    BY <1>6 DEF SetRemoteAddr
  <2> QED
    BY <1>1, <2>1 DEF Types, Source, Latched, Busy
<1>7. CASE SetSSRC
  <2>1. /\ ssrc' \in SSRCs \cup {NoSSRC} /\ touched' = TRUE
        /\ pc # "idle" => ssrcsInForce' = ssrcsInForce \cup {ssrc'}
        /\ UNCHANGED <<pc, packet, addr, isInit, seq, closed, accepted, losses, addrsInForce>>
    BY <1>7 DEF SetSSRC
  <2> QED
    BY <1>1, <2>1 DEF Types, Source, Latched, Busy
<1>8. CASE Reuse
  <2>1. /\ addr' = NoAddr /\ ssrc' = NoSSRC /\ isInit' = FALSE /\ closed' = FALSE
        /\ accepted' = <<>> /\ losses' = 0 /\ touched' = FALSE
        /\ pc' = pc /\ pc = "idle"
    BY <1>8 DEF Reuse, NewStream, Types
  <2>2. Types'
    <3>1. pc' \notin Busy /\ accepted' \in Seq(PacketType)
      BY <2>1 DEF Busy
    <3>2. isInit' \in BOOLEAN /\ closed' \in BOOLEAN /\ touched' \in BOOLEAN /\ ~closed'
      BY <2>1
    <3>3. /\ pc' = "idle" /\ losses' \in Int
          /\ addr' \in Addrs \cup {NoAddr} /\ ssrc' \in SSRCs \cup {NoSSRC}
      BY <2>1
    <3> QED
      BY <3>1, <3>2, <3>3 DEF Types
  <2>3. Source' /\ Latched'
    BY <2>1 DEF Source, Latched, Busy
  <2>4. Numbered'
    BY <2>1 DEF Numbered
  <2> QED
    BY <2>2, <2>3, <2>4
<1> QED
  BY <1>2, <1>3, <1>4, <1>5, <1>6, <1>7, <1>8

LEMMA NextInv == Inv /\ [Next]_vars => Inv'
<1> SUFFICES ASSUME Inv, [Next]_vars PROVE Inv'
  OBVIOUS
<1>1. CASE Next
  BY <1>1, HandleInv, OthersInv DEF Next
<1>2. CASE UNCHANGED vars
  BY <1>2 DEF vars, Inv, Types, Source, Latched, Numbered, Skipped, SeqOf
<1> QED
  BY <1>1, <1>2

LEMMA Invariance == Spec => []Inv
  BY InitInv, NextInv, PTL DEF Spec

(* ------------------------------- theorems ------------------------------- *)

\* While no user sets them, one address and one source are heard
\* (stream.go:211-229).
THEOREM HearsOneSource == Spec => []OneSource
<1>1. Inv => OneSource
  BY DEF Inv, Source, OneSource
<1> QED
  BY <1>1, Invariance, PTL

\* A packet that reaches the handler had the stream's address and SSRC at some
\* time during the call, whatever users set meanwhile.
THEOREM AcceptsWhatIsInForce == Spec => InForce
<1>1. Inv /\ [Next]_vars => [accepted' # accepted /\ accepted' # <<>> =>
                               packet.addr \in addrsInForce /\ packet.ssrc \in ssrcsInForce]_vars
  <2> SUFFICES ASSUME Inv, Next, accepted' # accepted, accepted' # <<>>
               PROVE  packet.addr \in addrsInForce /\ packet.ssrc \in ssrcsInForce
    OBVIOUS
  <2>1. Accept
    BY DEF Next, Tick, HandlePacket, CompareAddr, LatchSSRC, CompareSSRC, ParseError,
           CloseStream, SetRemoteAddr, SetSSRC, Reuse, NewStream
  <2> QED
    BY <2>1 DEF Inv, Latched, Accept
<1> QED
  BY <1>1, Invariance, PTL DEF Spec, InForce

\* The losses reported sum up to the numbers skipped, modulo the width
\* (stream.go:230-239).
THEOREM LossesSumUp == Spec => []LossesAddUp
<1>1. Inv => LossesAddUp
  BY MultiplesLeaveNothing DEF Inv, Numbered, LossesAddUp
<1> QED
  BY <1>1, Invariance, PTL

\* Where the network only loses packets, fewer than the width at a time, the
\* losses reported are exactly those (stream.go:234).
THEOREM LossesAreExact == Spec => []LossesExact
<1>1. Init => LossesExact
  BY DEF Init, LossesExact
<1>2. Inv /\ LossesExact /\ [Next]_vars => LossesExact'
  <2> SUFFICES ASSUME Inv, LossesExact, [Next]_vars PROVE LossesExact'
    OBVIOUS
  <2>1. CASE Accept
    BY <2>1, AcceptExact
  <2>2. CASE UNCHANGED <<accepted, losses>>
    BY <2>2 DEF LossesExact, InOrder
  <2>3. CASE CloseStream \/ Reuse
    BY <2>3 DEF LossesExact, CloseStream, Reuse, NewStream
  <2> QED
    BY <2>1, <2>2, <2>3
       DEF Next, vars, Tick, HandlePacket, CompareAddr, LatchSSRC, CompareSSRC, ParseError,
           SetRemoteAddr, SetSSRC
<1> QED
  BY <1>1, <1>2, Invariance, PTL DEF Spec

\* Together: what the stream reports as lost can be relied on
\* (stream.go:230-239).
THEOREM LossesAreTrue == Spec => []LossesTrue
<1>1. LossesAddUp /\ LossesExact => LossesTrue
  BY DEF LossesTrue
<1> QED
  BY <1>1, LossesSumUp, LossesAreExact, PTL
(* ------------------------------ the chooser ----------------------------- *)

LEMMA Least ==
  ASSUME NEW T, T \subseteq Nat, T # {}
  PROVE  \E m \in T : \A k \in T : m <= k
<1> DEFINE R == {ss \in Nat \X Nat : ss[1] < ss[2]}
<1>1. IsWellFoundedOn(R, Nat)
  BY NatLessThanWellFounded DEF OpToRel
<1>2. PICK m \in T : \A k \in T : <<k, m>> \notin R
  <2> HIDE DEF R
  <2> QED
    BY <1>1, WFMin
<1>3. \A k \in T : ~(k < m)
  BY <1>2
<1> QED
  BY <1>3

\* Of times in order, what RecentOnly leaves out are those older than a second.
LEMMA RecentIsSuffix ==
  ASSUME NEW q \in Seq(Nat), NEW now \in Nat,
         \A i, j \in 1 .. Len(q) : i <= j => q[i] <= q[j]
  PROVE  \E d \in 0 .. Len(q) :
            /\ RecentOnly(q, now) = SubSeq(q, d + 1, Len(q))
            /\ \A k \in 1 .. d : now - q[k] > Second
            /\ \A k \in d + 1 .. Len(q) : now - q[k] <= Second
<1> DEFINE R == {k \in 1 .. Len(q) : now - q[k] <= Second}
           old == {i \in 0 .. Len(q) : \A j \in 1 .. i : now - q[j] > Second}
<1>0. Len(q) \in Nat /\ Second \in Nat /\ \A k \in 1 .. Len(q) : q[k] \in Nat
  BY ChooserAssumption
<1>1. \E d \in 0 .. Len(q) : /\ \A k \in 1 .. d : now - q[k] > Second
                             /\ \A k \in d + 1 .. Len(q) : now - q[k] <= Second
  <2>1. CASE R = {}
    <3>1. \A k \in 1 .. Len(q) : now - q[k] > Second
      BY <1>0, <2>1
    <3>2. Len(q) \in 0 .. Len(q) /\ \A k \in Len(q) + 1 .. Len(q) : now - q[k] <= Second
      BY <1>0
    <3> QED
      BY <3>1, <3>2
  <2>2. CASE R # {}
    <3>0. R \subseteq Nat
      BY <1>0
    <3>1. PICK m \in R : \A k \in R : m <= k
      <4> HIDE DEF R
      <4> QED
        BY <2>2, <3>0, Least
    <3>2. m - 1 \in 0 .. Len(q) /\ m \in 1 .. Len(q) /\ now - q[m] <= Second
      BY <1>0, <3>1
    <3>3. \A k \in 1 .. m - 1 : now - q[k] > Second
      BY <1>0, <3>1
    <3>4. \A k \in m .. Len(q) : now - q[k] <= Second
      BY <1>0, <3>2
    <3>5. m - 1 + 1 = m
      BY <3>2
    <3> QED
      BY <3>2, <3>3, <3>4, <3>5
  <2> QED
    BY <2>1, <2>2
<1>2. PICK d \in 0 .. Len(q) : /\ \A k \in 1 .. d : now - q[k] > Second
                               /\ \A k \in d + 1 .. Len(q) : now - q[k] <= Second
  BY <1>1
<1>3. old = 0 .. d
  <2>1. ASSUME NEW i \in old, i > d PROVE FALSE
    <3>1. d + 1 \in 1 .. i /\ d + 1 \in d + 1 .. Len(q) /\ q[d + 1] \in Nat
      BY <1>0, <2>1
    <3> QED
      BY <1>0, <1>2, <3>1
  <2>2. 0 .. d \subseteq old
    BY <1>0, <1>2
  <2>3. old \subseteq 0 .. d
    BY <1>0, <2>1
  <2> QED
    BY <2>2, <2>3
<1>4. Cardinality(old) = d + 1
  <2>1. d \in Int /\ ~(0 > d) /\ d - 0 + 1 = d + 1
    BY <1>0
  <2>2. Cardinality(0 .. d) = d + 1
    BY <2>1, FS_Interval
  <2> QED
    BY <1>3, <2>2
<1>5. RecentOnly(q, now) = SubSeq(q, d + 1, Len(q))
  BY <1>4 DEF RecentOnly
<1> QED
  BY <1>2, <1>5

CallType == [what : {"success", "error"}, at : Nat, keep : BOOLEAN]
IsError(i) == calls[i].what = "error"

\* The calls are in the order of time.
Recorded ==
  /\ clock \in Nat /\ calls \in Seq(CallType)
  /\ chooser \in [times : Seq(Nat), row : Nat]
  /\ Len(chooser.times) <= SecMaxErr
  /\ \A i, j \in DOMAIN calls : i <= j => calls[i].at <= calls[j].at
  /\ \A i \in DOMAIN calls : calls[i].at <= clock

\* The last calls, as many as the chooser counts in a row, are errors, and no
\* more than those.
RowCounted ==
  /\ chooser.row <= Len(calls)
  /\ \A i \in Len(calls) - chooser.row + 1 .. Len(calls) : IsError(i)
  /\ chooser.row < Len(calls) => ~IsError(Len(calls) - chooser.row)

\* The times in the queue are those of errors, in the order of the calls, and
\* an error that is not in the queue is older than a second.
Remembers(g) ==
  /\ g \in [1 .. Len(chooser.times) -> DOMAIN calls]
  /\ \A k, l \in 1 .. Len(chooser.times) : k < l => g[k] < g[l]
  /\ \A k \in 1 .. Len(chooser.times) :
        IsError(g[k]) /\ calls[g[k]].at = chooser.times[k]
  /\ \A i \in DOMAIN calls :
        IsError(i) /\ (\A k \in 1 .. Len(chooser.times) : g[k] # i)
           => clock - calls[i].at > Second

\* A chooser that has ended its stream is asked no more.
Followed ==
  pc # "remove" => /\ \A i \in DOMAIN calls : calls[i].keep
                   /\ RowCounted
                   /\ \E g : Remembers(g)

Policy == Recorded /\ Followed /\ ChooserExact

LEMMA InitPolicy == Init => Policy
<1> SUFFICES ASSUME Init PROVE Policy
  OBVIOUS
<1>1. clock = 0 /\ calls = <<>> /\ chooser = [times |-> <<>>, row |-> 0]
  BY DEF Init, NewChooser
<1>2. Recorded
  BY <1>1, ChooserAssumption DEF Recorded
<1>3. Remembers(<<>>)
  BY <1>1 DEF Remembers
<1>4. Followed
  BY <1>1, <1>3 DEF Followed, RowCounted
<1> QED
  BY <1>1, <1>2, <1>4 DEF Policy, ChooserExact

\* What the chooser has answered is judged by the calls up to it.
LEMMA JudgedByThePast ==
  ASSUME calls \in Seq(CallType), ChooserExact, NEW c \in CallType,
         calls' = Append(calls, c), NEW i, i = Len(calls) + 1,
         c.what = "error" => (c.keep <=> /\ Cardinality(Row(i)') <= MaxSerializedErr
                                         /\ Cardinality(KeptBefore(i)') < SecMaxErr)
  PROVE  ChooserExact'
<1> SUFFICES ASSUME NEW m \in DOMAIN calls', calls'[m].what = "error"
             PROVE  calls'[m].keep <=> /\ Cardinality(Row(m)') <= MaxSerializedErr
                                       /\ Cardinality(KeptBefore(m)') < SecMaxErr
  BY DEF ChooserExact
<1>1. /\ Len(calls) \in Nat /\ DOMAIN calls = 1 .. Len(calls) /\ DOMAIN calls' = 1 .. i
      /\ calls'[i] = c /\ \A k \in 1 .. Len(calls) : calls'[k] = calls[k]
  OBVIOUS
<1>2. CASE m = i
  BY <1>1, <1>2
<1>3. CASE m # i
  <2>1. m \in DOMAIN calls /\ calls'[m] = calls[m] /\ m \in Nat
    BY <1>1, <1>3
  <2>2. Row(m)' = Row(m)
    BY <1>1, <2>1 DEF Row
  <2>3. KeptBefore(m)' = KeptBefore(m)
    BY <1>1, <2>1 DEF KeptBefore
  <2> QED
    BY <2>1, <2>2, <2>3 DEF ChooserExact
<1> QED
  BY <1>2, <1>3

LEMMA RowOfTheNext ==
  ASSUME Recorded, RowCounted, NEW c \in CallType, c.what = "error",
         calls' = Append(calls, c), NEW i, i = Len(calls) + 1
  PROVE  Cardinality(Row(i)') = chooser.row + 1
<1>1. /\ Len(calls) \in Nat /\ calls'[i] = c /\ \A k \in 1 .. Len(calls) : calls'[k] = calls[k]
      /\ chooser.row \in Nat /\ chooser.row <= Len(calls)
  BY DEF Recorded, RowCounted
<1>2. ASSUME NEW j \in i - chooser.row .. i PROVE j \in Row(i)'
  <2>1. \A k \in j .. i : calls'[k].what = "error"
    BY <1>1 DEF RowCounted, IsError
  <2>2. j \in 1 .. i
    BY <1>1
  <2> QED
    BY <2>1, <2>2 DEF Row
<1>3. ASSUME NEW j \in Row(i)' PROVE j \in i - chooser.row .. i
  <2>1. j \in 1 .. i /\ \A k \in j .. i : calls'[k].what = "error"
    BY DEF Row
  <2>2. ASSUME j < i - chooser.row PROVE FALSE
    <3>1. /\ Len(calls) - chooser.row \in j .. i /\ Len(calls) - chooser.row \in 1 .. Len(calls)
          /\ chooser.row < Len(calls)
      BY <1>1, <2>1, <2>2
    <3> QED
      BY <1>1, <2>1, <3>1 DEF RowCounted, IsError
  <2> QED
    BY <1>1, <2>1, <2>2
<1>4. Row(i)' = i - chooser.row .. i
  BY <1>2, <1>3
<1>5. /\ i - chooser.row \in Int /\ i \in Int /\ ~(i - chooser.row > i)
      /\ i - (i - chooser.row) + 1 = chooser.row + 1
  BY <1>1
<1>6. Cardinality(i - chooser.row .. i) = chooser.row + 1
  BY <1>5, FS_Interval
<1> QED
  BY <1>4, <1>6

LEMMA KeptOfTheNext ==
  ASSUME Recorded, \A k \in DOMAIN calls : calls[k].keep, NEW g, Remembers(g),
         NEW c \in CallType, c.at = clock,
         calls' = Append(calls, c), NEW i, i = Len(calls) + 1,
         NEW d \in 0 .. Len(chooser.times),
         \A k \in 1 .. d : clock - chooser.times[k] > Second,
         \A k \in d + 1 .. Len(chooser.times) : clock - chooser.times[k] <= Second
  PROVE  Cardinality(KeptBefore(i)') = Len(chooser.times) - d
<1> DEFINE n == Len(chooser.times)
           K == KeptBefore(i)'
           f == [k \in d + 1 .. n |-> g[k]]
<1>1. /\ Len(calls) \in Nat /\ DOMAIN calls = 1 .. Len(calls) /\ calls'[i] = c /\ i \in Nat
      /\ \A k \in 1 .. Len(calls) : calls'[k] = calls[k]
      /\ n \in Nat /\ d \in Nat /\ d <= n
  BY DEF Recorded
<1>2. K = {j \in 1 .. Len(calls) : IsError(j) /\ clock - calls[j].at <= Second}
  BY <1>1 DEF KeptBefore, IsError
<1>3. \A k \in d + 1 .. n : k \in 1 .. n /\ g[k] \in K
  <2> SUFFICES ASSUME NEW k \in d + 1 .. n PROVE k \in 1 .. n /\ g[k] \in K
    OBVIOUS
  <2>1. k \in 1 .. n
    BY <1>1
  <2>2. /\ g[k] \in 1 .. Len(calls) /\ IsError(g[k])
        /\ calls[g[k]].at = chooser.times[k]
    BY <1>1, <2>1 DEF Remembers
  <2> QED
    BY <1>2, <2>1, <2>2
<1>4. \A j \in K : \E k \in d + 1 .. n : g[k] = j
  <2> SUFFICES ASSUME NEW j \in K PROVE \E k \in d + 1 .. n : g[k] = j
    OBVIOUS
  <2>1. j \in DOMAIN calls /\ IsError(j) /\ clock - calls[j].at <= Second
    BY <1>1, <1>2
  <2>2. calls[j].at \in Nat /\ clock \in Nat /\ Second \in Nat
    <3>1. calls[j] \in CallType /\ clock \in Nat
      BY <2>1 DEF Recorded
    <3> QED
      BY <3>1, ChooserAssumption DEF CallType
  <2>3. PICK k \in 1 .. n : g[k] = j
    BY <2>1, <2>2 DEF Remembers
  <2>4. calls[j].at = chooser.times[k]
    BY <2>3 DEF Remembers
  <2>5. k \notin 1 .. d
    BY <2>1, <2>2, <2>4
  <2> QED
    BY <1>1, <2>3, <2>5
<1>5. \A k, l \in d + 1 .. n : k # l => g[k] # g[l]
  <2> SUFFICES ASSUME NEW k \in d + 1 .. n, NEW l \in d + 1 .. n, k < l PROVE g[k] # g[l]
    BY <1>1
  <2>1. g[k] < g[l] /\ g[k] \in Int
    BY <1>1, <1>3 DEF Remembers
  <2> QED
    BY <2>1, <1>1, <1>3 DEF Remembers
<1> HIDE DEF K
<1>6. f \in Bijection(d + 1 .. n, K)
  BY <1>3, <1>4, <1>5 DEF Bijection, Injection, Surjection, IsInjective
<1>7. ExistsBijection(d + 1 .. n, K)
  BY <1>6 DEF ExistsBijection
<1>8. d + 1 \in Int /\ n \in Int /\ (IF d + 1 > n THEN 0 ELSE n - (d + 1) + 1) = n - d
  BY <1>1
<1>9. IsFiniteSet(d + 1 .. n) /\ Cardinality(d + 1 .. n) = n - d
  BY <1>8, FS_Interval
<1>10. Cardinality(K) = n - d
  BY <1>7, <1>9, FS_Bijection
<1> QED
  BY <1>10 DEF K

\* A success: the row ends, the queue stays.
LEMMA AcceptPolicy == ASSUME Policy, Accept PROVE Policy'
<1> DEFINE c == [what |-> "success", at |-> clock, keep |-> TRUE]
           i == Len(calls) + 1
<1>1. /\ pc = "count" /\ pc' = "idle" /\ UNCHANGED clock
      /\ calls' = Append(calls, c)
      /\ chooser' = [chooser EXCEPT !.row = 0]
  BY DEF Accept, Done, Told, OnSuccess
<1>2. /\ Recorded /\ Followed /\ ChooserExact
      /\ calls \in Seq(CallType) /\ clock \in Nat
      /\ chooser \in [times : Seq(Nat), row : Nat]
  BY DEF Policy, Recorded
<1>3. c \in CallType /\ c.what # "error" /\ c.keep
  BY <1>2 DEF CallType
<1>4. /\ Len(calls) \in Nat /\ DOMAIN calls = 1 .. Len(calls) /\ DOMAIN calls' = 1 .. i
      /\ calls' \in Seq(CallType)
      /\ calls'[i] = c /\ \A k \in 1 .. Len(calls) : calls'[k] = calls[k]
      /\ Len(calls') = i
  <2> HIDE DEF c
  <2> QED
    BY <1>1, <1>2, <1>3
<1>5. chooser'.times = chooser.times /\ chooser'.row = 0
      /\ chooser' \in [times : Seq(Nat), row : Nat]
  BY <1>1, <1>2
<1>6. ChooserExact'
  <2> HIDE DEF c
  <2> QED
    BY <1>1, <1>2, <1>3, JudgedByThePast
<1>7. Recorded'
  BY <1>1, <1>2, <1>4, <1>5 DEF Recorded
<1>8. (\A k \in DOMAIN calls : calls[k].keep) /\ \E g : Remembers(g)
  BY <1>1, <1>2 DEF Followed
<1>9. PICK g : Remembers(g)
  BY <1>8
<1>10. Remembers(g)'
  <2>0. \A k \in 1 .. Len(chooser.times) : g[k] \in DOMAIN calls
    BY <1>9 DEF Remembers
  <2>1. \A k \in 1 .. Len(chooser.times) : g[k] \in 1 .. Len(calls) /\ g[k] \in 1 .. i
    BY <1>4, <2>0
  <2>2. g \in [1 .. Len(chooser'.times) -> DOMAIN calls']
    BY <1>4, <1>5, <1>9, <2>1 DEF Remembers
  <2>3. \A k \in 1 .. Len(chooser'.times) :
           calls'[g[k]].what = "error" /\ calls'[g[k]].at = chooser'.times[k]
    BY <1>4, <1>5, <1>9, <2>1 DEF Remembers, IsError
  <2>4. ASSUME NEW k \in DOMAIN calls', calls'[k].what = "error",
               \A l \in 1 .. Len(chooser'.times) : g[l] # k
        PROVE  clock' - calls'[k].at > Second
    <3>1. k \in 1 .. Len(calls)
      BY <1>3, <1>4, <2>4
    <3> QED
      BY <1>1, <1>4, <1>5, <1>9, <2>4, <3>1 DEF Remembers, IsError
  <2>5. \A k, l \in 1 .. Len(chooser'.times) : k < l => g[k] < g[l]
    BY <1>5, <1>9 DEF Remembers
  <2> QED
    BY <2>2, <2>3, <2>4, <2>5 DEF Remembers, IsError
<1>11. RowCounted'
  BY <1>3, <1>4, <1>5 DEF RowCounted, IsError
<1>12. \A k \in DOMAIN calls' : calls'[k].keep
  BY <1>3, <1>4, <1>8
<1> QED
  BY <1>6, <1>7, <1>10, <1>11, <1>12 DEF Policy, Followed

\* An error that is put to the chooser.
Asked == LET r == OnError(chooser, clock)
         IN  /\ pc = "idle"
             /\ chooser' = r.chooser
             /\ Told("error", r.keep)
             /\ pc' = IF r.keep THEN "idle" ELSE "remove"
             /\ UNCHANGED clock

LEMMA AskedPolicy == ASSUME Policy, Asked PROVE Policy'
<1> DEFINE r == OnError(chooser, clock)
           c == [what |-> "error", at |-> clock, keep |-> r.keep]
           n == Len(chooser.times)
<1>1. PICK i : i = Len(calls) + 1
  OBVIOUS
<1>2. /\ Recorded /\ ChooserExact
      /\ calls \in Seq(CallType) /\ clock \in Nat
      /\ chooser.times \in Seq(Nat) /\ chooser.row \in Nat
      /\ n \in Nat /\ n <= SecMaxErr /\ \A k \in 1 .. n : chooser.times[k] \in Nat
  BY DEF Policy, Recorded
<1>20. chooser = [times |-> chooser.times, row |-> chooser.row]
  BY DEF Policy, Recorded
<1>3. (\A k \in DOMAIN calls : calls[k].keep) /\ RowCounted /\ \E g : Remembers(g)
  BY DEF Policy, Followed, Asked
<1>4. PICK g : Remembers(g)
  BY <1>3
<1>5. \A k, l \in 1 .. n : k <= l => chooser.times[k] <= chooser.times[l]
  <2> SUFFICES ASSUME NEW k \in 1 .. n, NEW l \in 1 .. n, k <= l
               PROVE  chooser.times[k] <= chooser.times[l]
    OBVIOUS
  <2>1. /\ g[k] \in DOMAIN calls /\ g[l] \in DOMAIN calls
        /\ calls[g[k]].at = chooser.times[k] /\ calls[g[l]].at = chooser.times[l]
        /\ k < l => g[k] < g[l]
    BY <1>4 DEF Remembers
  <2>2. g[k] \in Int /\ g[l] \in Int /\ k \in Int /\ l \in Int
    BY <1>2, <2>1
  <2>3. g[k] <= g[l]
    <3>1. CASE k = l
      BY <2>2, <3>1
    <3>2. CASE k < l
      BY <2>1, <2>2, <3>2
    <3> QED
      BY <2>2, <3>1, <3>2
  <2> QED
    BY <1>2, <2>1, <2>3 DEF Recorded
<1>6. PICK d \in 0 .. n :
         /\ RecentOnly(chooser.times, clock) = SubSeq(chooser.times, d + 1, n)
         /\ \A k \in 1 .. d : clock - chooser.times[k] > Second
         /\ \A k \in d + 1 .. n : clock - chooser.times[k] <= Second
  BY <1>2, <1>5, RecentIsSuffix
<1> DEFINE q == SubSeq(chooser.times, d + 1, n)
<1>21. /\ n \in Nat /\ d \in Nat /\ d <= n /\ n <= SecMaxErr /\ SecMaxErr \in Nat
       /\ chooser.row \in Nat /\ MaxSerializedErr \in Nat /\ Second \in Nat
  BY <1>2, ChooserAssumption
<1>7. /\ q \in Seq(Nat) /\ Len(q) = n - d
      /\ \A k \in 1 .. n - d : q[k] = chooser.times[k + d]
  <2>1. /\ \A k \in d + 1 .. n : chooser.times[k] \in Nat
        /\ d + 1 \in Int /\ n \in Int /\ d \in Nat
    BY <1>2
  <2>2. /\ q \in Seq(Nat) /\ Len(q) = IF d + 1 <= n THEN n - (d + 1) + 1 ELSE 0
        /\ \A k \in 1 .. n - (d + 1) + 1 : q[k] = chooser.times[d + 1 + k - 1]
    BY <2>1, SubSeqProperties
  <2>3. /\ n - (d + 1) + 1 = n - d /\ \A k \in 1 .. n - d : d + 1 + k - 1 = k + d
        /\ ~(d + 1 <= n) => n - d = 0
    BY <2>1
  <2> QED
    BY <2>2, <2>3, <1>21
<1>22. q \in Seq(Nat) /\ Len(q) = n - d
  BY <1>7
<1>23. chooser.times \in Seq(Nat) /\ Len(chooser.times) <= SecMaxErr /\ clock \in Nat
  BY <1>2
<1>8. Pruned(chooser, clock) = [times |-> q, row |-> chooser.row + 1]
  BY <1>6 DEF Pruned
<1> HIDE DEF q
\* The answer, and what becomes of the chooser.
<1>9. /\ r.keep <=> chooser.row + 1 <= MaxSerializedErr /\ n - d < SecMaxErr
      /\ r.chooser \in [times : Seq(Nat), row : Nat]
      /\ Len(r.chooser.times) <= SecMaxErr
      /\ r.keep => r.chooser = [times |-> Append(q, clock), row |-> chooser.row + 1]
      /\ r.keep \in BOOLEAN
  <2>0. n - d <= SecMaxErr /\ n - d \in Nat
    BY <1>21
  <2>1. CASE chooser.row + 1 > MaxSerializedErr
    <3>1. r = [chooser |-> [times |-> chooser.times, row |-> chooser.row + 1], keep |-> FALSE]
      BY <1>2, <1>20, <2>1 DEF OnError
    <3>2. chooser.row + 1 \in Nat /\ ~(chooser.row + 1 <= MaxSerializedErr)
      BY <1>21, <2>1
    <3> HIDE DEF r
    <3>3. ~r.keep /\ r.chooser = [times |-> chooser.times, row |-> chooser.row + 1]
          /\ r.keep \in BOOLEAN
      BY <3>1
    <3> HIDE DEF n
    <3> QED
      BY <1>23, <3>2, <3>3
  <2>2. CASE ~(chooser.row + 1 > MaxSerializedErr) /\ n - d = SecMaxErr
    <3>1. r = [chooser |-> [times |-> q, row |-> chooser.row + 1], keep |-> FALSE]
      BY <1>22, <1>8, <2>2 DEF OnError
    <3> QED
      BY <1>21, <1>22, <2>0, <2>2, <3>1
  <2>3. CASE ~(chooser.row + 1 > MaxSerializedErr) /\ n - d # SecMaxErr
    <3> DEFINE p == Pruned(chooser, clock)
    <3>4. p = [times |-> q, row |-> chooser.row + 1] /\ Len(q) # SecMaxErr
      BY <1>22, <1>8, <2>3
    <3>0. /\ Len(p.times) # SecMaxErr
          /\ [p EXCEPT !.times = Append(@, clock)]
               = [times |-> Append(q, clock), row |-> chooser.row + 1]
      <4> HIDE DEF p, n
      <4>1. p.times = q /\ p.row = chooser.row + 1 /\ DOMAIN p = {"times", "row"}
        BY <3>4
      <4> DEFINE t == Append(q, clock)
      <4> HIDE DEF t
      <4>2. [p EXCEPT !.times = t] = [times |-> t, row |-> chooser.row + 1]
        BY <3>4
      <4> QED
        BY <3>4, <4>1, <4>2 DEF t
    <3>1. r = [chooser |-> [times |-> Append(q, clock), row |-> chooser.row + 1],
               keep |-> TRUE]
      <4> HIDE DEF p
      <4>1. r = IF chooser.row + 1 > MaxSerializedErr
                THEN [chooser |-> [chooser EXCEPT !.row = @ + 1], keep |-> FALSE]
                ELSE IF Len(p.times) = SecMaxErr THEN [chooser |-> p, keep |-> FALSE]
                ELSE [chooser |-> [p EXCEPT !.times = Append(@, clock)], keep |-> TRUE]
        BY DEF OnError, p
      <4> QED
        BY <2>3, <3>0, <4>1
    <3>2. Append(q, clock) \in Seq(Nat) /\ Len(Append(q, clock)) = n - d + 1
      <4> HIDE DEF n
      <4> QED
        BY <1>21, <1>22, <1>23
    <3>3. n - d + 1 <= SecMaxErr /\ chooser.row + 1 \in Nat
      BY <1>21, <2>0, <2>3
    <3> QED
      BY <1>21, <2>0, <2>3, <3>1, <3>2, <3>3
  <2> QED
    BY <2>1, <2>2, <2>3
<1>10. /\ chooser' = r.chooser /\ calls' = Append(calls, c) /\ UNCHANGED clock
       /\ pc' # "remove" => r.keep
  BY DEF Asked, Told
<1> HIDE DEF r
<1>11. c \in CallType /\ c.what = "error" /\ c.at = clock /\ c.keep = r.keep
  BY <1>2, <1>9 DEF CallType
<1> HIDE DEF c
<1>12. /\ Len(calls) \in Nat /\ DOMAIN calls = 1 .. Len(calls) /\ DOMAIN calls' = 1 .. i
       /\ calls' \in Seq(CallType) /\ Len(calls') = i
       /\ calls'[i] = c /\ \A k \in 1 .. Len(calls) : calls'[k] = calls[k]
  BY <1>1, <1>2, <1>10, <1>11
<1>13. ChooserExact'
  <2>1. Cardinality(Row(i)') = chooser.row + 1
    BY <1>1, <1>2, <1>3, <1>10, <1>11, RowOfTheNext
  <2>2. Cardinality(KeptBefore(i)') = n - d
    BY <1>1, <1>2, <1>3, <1>4, <1>6, <1>10, <1>11, KeptOfTheNext
  <2> QED
    BY <1>1, <1>2, <1>9, <1>10, <1>11, <2>1, <2>2, JudgedByThePast
<1>14. Recorded'
  <2>1. /\ clock' \in Nat /\ calls' \in Seq(CallType)
        /\ chooser' \in [times : Seq(Nat), row : Nat] /\ Len(chooser'.times) <= SecMaxErr
    BY <1>2, <1>9, <1>10, <1>12
  <2>2. \A k \in DOMAIN calls' : calls'[k].at <= clock'
    BY <1>2, <1>10, <1>11, <1>12 DEF Recorded
  <2>3. \A k, l \in DOMAIN calls' : k <= l => calls'[k].at <= calls'[l].at
    BY <1>1, <1>2, <1>11, <1>12 DEF Recorded
  <2> QED
    BY <2>1, <2>2, <2>3 DEF Recorded
<1>15. Followed'
  <2> SUFFICES ASSUME r.keep
               PROVE  /\ \A k \in DOMAIN calls' : calls'[k].keep
                      /\ RowCounted' /\ \E h : Remembers(h)'
    BY <1>10 DEF Followed
  <2>1. \A k \in DOMAIN calls' : calls'[k].keep
    <3> SUFFICES ASSUME NEW k \in 1 .. i PROVE calls'[k].keep
      BY <1>12
    <3>1. k = i \/ k \in 1 .. Len(calls)
      BY <1>1, <1>12
    <3> QED
      BY <1>3, <1>11, <1>12, <3>1
  <2>2. chooser'.row = chooser.row + 1 /\ chooser'.times = Append(q, clock)
    BY <1>9, <1>10
  <2>3. RowCounted'
    <3>1. /\ chooser.row <= Len(calls)
          /\ \A k \in Len(calls) - chooser.row + 1 .. Len(calls) : calls[k].what = "error"
          /\ chooser.row < Len(calls) => calls[Len(calls) - chooser.row].what # "error"
      BY <1>3 DEF RowCounted, IsError
    <3>2. /\ i - (chooser.row + 1) = Len(calls) - chooser.row
          /\ chooser.row + 1 <= i
      BY <1>1, <1>12, <1>21, <3>1
    <3>3. \A k \in Len(calls) - chooser.row + 1 .. i : calls'[k].what = "error"
      <4> SUFFICES ASSUME NEW k \in Len(calls) - chooser.row + 1 .. i
                   PROVE  calls'[k].what = "error"
        OBVIOUS
      <4>1. \/ k = i
            \/ k \in 1 .. Len(calls) /\ k \in Len(calls) - chooser.row + 1 .. Len(calls)
        <5>1. /\ Len(calls) \in Nat /\ chooser.row \in Nat /\ chooser.row <= Len(calls)
              /\ i = Len(calls) + 1
          BY <1>1, <1>12, <1>21, <3>1
        <5> QED
          BY <5>1
      <4> QED
        BY <1>11, <1>12, <3>1, <4>1
    <3>4. chooser.row + 1 < i => calls'[Len(calls) - chooser.row].what # "error"
      BY <1>1, <1>12, <1>21, <3>1
    <3> QED
      BY <1>12, <2>2, <3>2, <3>3, <3>4 DEF RowCounted, IsError
  <2> DEFINE m == n - d + 1
  <2>13. PICK h : h = [k \in 1 .. m |-> IF k = m THEN i ELSE g[k + d]]
    OBVIOUS
  <2>4. /\ Len(chooser'.times) = m /\ chooser'.times[m] = clock /\ m \in Nat /\ d \in Nat
        /\ \A k \in 1 .. n - d : chooser'.times[k] = chooser.times[k + d]
    <3>1. Len(chooser'.times) = Len(q) + 1 /\ chooser'.times[Len(q) + 1] = clock
          /\ \A k \in 1 .. Len(q) : chooser'.times[k] = q[k]
      <4>1. q \in Seq(Nat) /\ clock \in Nat
        BY <1>22, <1>23
      <4> QED
        BY <2>2, <4>1
    <3>2. Len(q) = n - d /\ \A k \in 1 .. n - d : q[k] = chooser.times[k + d]
      BY <1>7
    <3> HIDE DEF n
    <3>3. \A k \in 1 .. n - d : chooser'.times[k] = chooser.times[k + d]
      BY <3>1, <3>2
    <3> QED
      BY <1>21, <3>1, <3>2, <3>3
  <2>5. h[m] = i /\ \A k \in 1 .. n - d : k + d \in 1 .. n /\ h[k] = g[k + d]
    <3> HIDE DEF n
    <3> QED
      BY <1>21, <2>13
  <2>6. \A k \in 1 .. n : g[k] \in 1 .. Len(calls) /\ IsError(g[k])
                          /\ calls[g[k]].at = chooser.times[k]
    BY <1>12, <1>4 DEF Remembers
  <2> HIDE DEF n
  <2>7. h \in [1 .. m -> DOMAIN calls']
    <3> SUFFICES ASSUME NEW k \in 1 .. m PROVE h[k] \in 1 .. i
      BY <1>12, <2>13
    <3>1. CASE k = m
      BY <1>1, <1>12, <2>5, <3>1
    <3>2. CASE k # m
      <4>1. k \in 1 .. n - d
        BY <1>21, <3>2
      <4>2. g[k + d] \in 1 .. Len(calls) /\ h[k] = g[k + d]
        BY <2>5, <2>6, <4>1
      <4> QED
        BY <1>1, <1>12, <4>2
    <3> QED
      BY <3>1, <3>2
  <2>8. \A k \in 1 .. m : k = m \/ k \in 1 .. n - d
    BY <1>21
  <2> HIDE DEF m
  <2>9. \A k, l \in 1 .. m : k < l => h[k] < h[l]
    <3> SUFFICES ASSUME NEW k \in 1 .. m, NEW l \in 1 .. m, k < l PROVE h[k] < h[l]
      OBVIOUS
    <3>1. k \in 1 .. n - d
      BY <2>4, <2>8
    <3>2. h[k] = g[k + d] /\ k + d \in 1 .. n /\ g[k + d] \in 1 .. Len(calls)
      BY <2>5, <2>6, <3>1
    <3>3. CASE l = m
      BY <1>1, <1>12, <2>5, <3>2, <3>3
    <3>4. CASE l # m
      <4>1. h[l] = g[l + d] /\ l + d \in 1 .. n
        BY <2>5, <2>8, <3>4
      <4>2. k + d < l + d
        BY <1>21, <2>4
      <4> QED
        BY <1>4, <3>2, <4>1, <4>2 DEF Remembers, n
    <3> QED
      BY <3>3, <3>4
  <2>10. \A k \in 1 .. m : calls'[h[k]].what = "error" /\ calls'[h[k]].at = chooser'.times[k]
    <3> SUFFICES ASSUME NEW k \in 1 .. m
                 PROVE  calls'[h[k]].what = "error" /\ calls'[h[k]].at = chooser'.times[k]
      OBVIOUS
    <3>1. CASE k = m
      BY <1>11, <1>12, <2>4, <2>5, <3>1
    <3>2. CASE k # m
      <4>1. k \in 1 .. n - d /\ k + d \in 1 .. n /\ h[k] = g[k + d]
        BY <2>5, <2>8, <3>2
      <4>2. /\ g[k + d] \in 1 .. Len(calls) /\ IsError(g[k + d])
            /\ calls[g[k + d]].at = chooser.times[k + d]
        BY <2>6, <4>1
      <4>3. chooser'.times[k] = chooser.times[k + d]
        BY <2>4, <4>1
      <4> QED
        BY <1>12, <4>1, <4>2, <4>3 DEF IsError
    <3> QED
      BY <3>1, <3>2
  <2>11. ASSUME NEW j \in DOMAIN calls', calls'[j].what = "error",
                \A k \in 1 .. m : h[k] # j
         PROVE  clock' - calls'[j].at > Second
    <3>1. j \in 1 .. Len(calls) /\ calls'[j] = calls[j] /\ IsError(j)
      <4>1. j # i /\ j \in 1 .. i
        <5>1. m \in 1 .. m
          BY <1>21 DEF m
        <5> QED
          BY <1>12, <2>5, <2>11, <5>1
      <4>2. j \in 1 .. Len(calls)
        BY <1>1, <1>12, <4>1
      <4> QED
        BY <1>12, <2>11, <4>2 DEF IsError
    <3>2. \A k \in d + 1 .. n : g[k] # j
      <4> SUFFICES ASSUME NEW k \in d + 1 .. n PROVE g[k] # j
        OBVIOUS
      <4>1. k - d \in 1 .. n - d /\ k - d \in 1 .. m /\ k - d + d = k
        BY <1>21 DEF m
      <4> QED
        BY <2>5, <2>11, <4>1
    <3>3. CASE \E k \in 1 .. d : g[k] = j
      <4>1. PICK k \in 1 .. d : g[k] = j
        BY <3>3
      <4>2. k \in 1 .. n
        BY <1>21
      <4>3. calls[j].at = chooser.times[k] /\ clock - chooser.times[k] > Second
        BY <1>6, <2>6, <4>1, <4>2
      <4> QED
        BY <1>10, <3>1, <4>3
    <3>4. CASE \A k \in 1 .. d : g[k] # j
      <4>1. \A k \in 1 .. n : g[k] # j
        BY <1>21, <3>2, <3>4
      <4> QED
        BY <1>4, <1>10, <1>12, <3>1, <4>1 DEF Remembers, n
    <3> QED
      BY <3>3, <3>4
  <2>12. Remembers(h)'
    <3>1. Len(chooser'.times) = m
      BY <2>4
    <3>2. h \in [1 .. Len(chooser'.times) -> DOMAIN calls']
      BY <2>7, <3>1
    <3>3. \A k, l \in 1 .. Len(chooser'.times) : k < l => h[k] < h[l]
      BY <2>9, <3>1
    <3>4. \A k \in 1 .. Len(chooser'.times) :
             calls'[h[k]].what = "error" /\ calls'[h[k]].at = chooser'.times[k]
      BY <2>10, <3>1
    <3>5. \A j \in DOMAIN calls' :
             calls'[j].what = "error" /\ (\A k \in 1 .. Len(chooser'.times) : h[k] # j)
               => clock' - calls'[j].at > Second
      BY <2>11, <3>1
    <3> QED
      BY <3>2, <3>3, <3>4, <3>5 DEF Remembers, IsError
  <2> QED
    BY <2>1, <2>3, <2>12
<1> QED
  BY <1>13, <1>14, <1>15 DEF Policy

LEMMA NextPolicy == Policy /\ [Next]_vars => Policy'
<1> SUFFICES ASSUME Policy, [Next]_vars PROVE Policy'
  OBVIOUS
<1>1. ASSUME UNCHANGED <<clock, calls, chooser>>, pc' = "remove" => pc = "remove",
             pc = "remove" => pc' = "remove"
      PROVE  Policy'
  <2>1. UNCHANGED <<ChooserExact, Recorded, RowCounted>>
    BY <1>1 DEF ChooserExact, Row, KeptBefore, Recorded, RowCounted, IsError
  <2>2. ASSUME NEW g, Remembers(g) PROVE Remembers(g)'
    BY <1>1, <2>2 DEF Remembers, IsError
  <2> QED
    BY <1>1, <2>1, <2>2 DEF Policy, Followed
<1>2. CASE Tick
  <2>1. /\ clock' = clock + 1 /\ UNCHANGED <<pc, calls, chooser>>
        /\ clock \in Nat /\ calls \in Seq(CallType) /\ Second \in Nat
    BY <1>2, ChooserAssumption DEF Tick, Policy, Recorded
  <2>2. UNCHANGED <<ChooserExact, RowCounted>>
    BY <2>1 DEF ChooserExact, Row, KeptBefore, RowCounted, IsError
  <2>3. \A i \in DOMAIN calls : calls[i].at \in Nat
    <3>1. \A i \in DOMAIN calls : calls[i] \in CallType
      BY <2>1
    <3> QED
      BY <3>1 DEF CallType
  <2>4. Recorded'
    BY <2>1, <2>3 DEF Policy, Recorded
  <2>5. ASSUME NEW g, Remembers(g) PROVE Remembers(g)'
    BY <2>1, <2>3, <2>5 DEF Remembers, IsError
  <2> QED
    BY <2>1, <2>2, <2>4, <2>5 DEF Policy, Followed
<1>3. CASE Accept
  BY <1>3, AcceptPolicy
<1>4. CASE ParseError
  <2>1. CASE Asked
    BY <2>1, AskedPolicy
  <2>2. CASE pc' = "remove" /\ UNCHANGED <<clock, calls, chooser>>
    <3>1. UNCHANGED <<ChooserExact, Recorded>>
      BY <2>2 DEF ChooserExact, Row, KeptBefore, Recorded
    <3> QED
      BY <2>2, <3>1 DEF Policy, Followed
  <2> QED
    BY <1>4, <2>1, <2>2 DEF ParseError, Receiving, Asked
<1>5. CASE CloseStream
  <2>1. /\ calls' = <<>> /\ chooser' = [chooser EXCEPT !.times = <<>>, !.row = 0]
        /\ UNCHANGED clock /\ clock \in Nat /\ SecMaxErr \in Nat
        /\ chooser \in [times : Seq(Nat), row : Nat]
    BY <1>5, ChooserAssumption DEF CloseStream, Reset, Policy, Recorded
  <2>2. chooser' = [times |-> <<>>, row |-> 0]
    BY <2>1
  <2>3. /\ DOMAIN calls' = {} /\ Len(calls') = 0 /\ calls' \in Seq(CallType)
        /\ chooser' \in [times : Seq(Nat), row : Nat]
        /\ Len(chooser'.times) = 0 /\ chooser'.row = 0
    <3>1. <<>> \in Seq(Nat) /\ <<>> \in Seq(CallType)
      BY EmptySeq
    <3>2. [times |-> <<>>, row |-> 0] \in [times : Seq(Nat), row : Nat]
      BY <3>1
    <3>3. DOMAIN calls' = {} /\ Len(calls') = 0
      BY <2>1
    <3> QED
      BY <2>1, <2>2, <3>1, <3>2, <3>3
  <2>5. Recorded' /\ RowCounted' /\ ChooserExact'
    BY <2>1, <2>3 DEF Recorded, RowCounted, ChooserExact
  <2>4. Remembers(<<>>)'
    BY <2>1, <2>2 DEF Remembers
  <2> QED
    BY <2>1, <2>3, <2>4, <2>5 DEF Policy, Followed
<1>6. CASE HandlePacket \/ CompareAddr \/ LatchSSRC \/ CompareSSRC
  BY <1>1, <1>6 DEF HandlePacket, CompareAddr, LatchSSRC, CompareSSRC, Receiving, Done
<1>7. CASE SetRemoteAddr \/ SetSSRC \/ Reuse
  BY <1>1, <1>7 DEF SetRemoteAddr, SetSSRC, Reuse
<1>8. CASE UNCHANGED vars
  BY <1>1, <1>8 DEF vars
<1> QED
  BY <1>2, <1>3, <1>4, <1>5, <1>6, <1>7, <1>8 DEF Next

\* The chooser ends a stream at the first error too many in a row or within a
\* second, and at no other (keep-chooser.go:46-66): counted from the calls.
THEOREM ChooserIsExact == Spec => []ChooserExact
<1>1. Policy => ChooserExact
  BY DEF Policy
<1> QED
  BY <1>1, InitPolicy, NextPolicy, PTL DEF Spec
===============================================================================
