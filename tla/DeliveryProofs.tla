-------------------------- MODULE DeliveryProofs --------------------------
(***************************************************************************)
(* What is sent arrives, for every layer, every frame, everything the peer *)
(* puts between them and every way of cutting the stream into chunks: the  *)
(* parser and the reader implement Delivery, and leave nothing behind.     *)
(* First sequences and chunks, then parsing by the bytes alone, writing    *)
(* and parsing back, and the receiver in step with the stream.             *)
(***************************************************************************)
EXTENDS WireProofs

(* --------------------------- pieces of sequences ------------------------- *)

\* What SubSeq, Drop and Cap take, within the sequence or past its end.
LEMMA Taken ==
  ASSUME NEW S, NEW s \in Seq(S), NEW n \in Nat
  PROVE  /\ Cap(s, n) \in Seq(S)
         /\ Len(Cap(s, n)) = IF Len(s) > n THEN n ELSE Len(s)
         /\ \A i \in 1 .. Len(Cap(s, n)) : Cap(s, n)[i] = s[i]
BY DEF Cap

\* What is left of a sequence behind some of it, or past its end.
LEMMA Dropped ==
  ASSUME NEW S, NEW s \in Seq(S), NEW n \in Nat
  PROVE  /\ Drop(s, n) \in Seq(S)
         /\ Len(Drop(s, n)) = IF Len(s) > n THEN Len(s) - n ELSE 0
         /\ \A i \in 1 .. Len(Drop(s, n)) : Drop(s, n)[i] = s[n + i]
<1>1. /\ n + 1 \in Int /\ Len(s) \in Int /\ \A i \in n + 1 .. Len(s) : s[i] \in S
  OBVIOUS
<1> DEFINE d == SubSeq(s, n + 1, Len(s))
<1>2. /\ d \in Seq(S)
      /\ Len(d) = IF n + 1 <= Len(s) THEN Len(s) - (n + 1) + 1 ELSE 0
      /\ \A i \in 1 .. Len(s) - (n + 1) + 1 : d[i] = s[n + 1 + i - 1]
  BY <1>1, SubSeqProperties
<1> HIDE DEF d
<1>3. ASSUME NEW i \in 1 .. Len(d) PROVE d[i] = s[n + i]
  <2>1. i \in 1 .. Len(s) - (n + 1) + 1 /\ n + 1 + i - 1 = n + i
    BY <1>1, <1>2
  <2> QED
    BY <1>2, <2>1
<1> QED
  BY <1>1, <1>2, <1>3 DEF Drop, d

\* Dropping twice is dropping both at once.
LEMMA DropOfDrop ==
  ASSUME NEW S, NEW s \in Seq(S), NEW m \in Nat, NEW n \in Nat
  PROVE  Drop(Drop(s, m), n) = Drop(s, m + n)
<1> DEFINE d == Drop(s, m)
           e == Drop(d, n)
           f == Drop(s, m + n)
<1>1. /\ d \in Seq(S) /\ Len(d) = IF Len(s) > m THEN Len(s) - m ELSE 0
      /\ \A i \in 1 .. Len(d) : d[i] = s[m + i]
  BY Dropped
<1>2. /\ e \in Seq(S) /\ Len(e) = IF Len(d) > n THEN Len(d) - n ELSE 0
      /\ \A i \in 1 .. Len(e) : e[i] = d[n + i]
  BY <1>1, Dropped
<1>3. /\ f \in Seq(S) /\ Len(f) = IF Len(s) > m + n THEN Len(s) - (m + n) ELSE 0
      /\ \A i \in 1 .. Len(f) : f[i] = s[m + n + i]
  BY Dropped
<1>4. Len(s) \in Nat
  OBVIOUS
<1> HIDE DEF d, e, f
<1>5. Len(e) = Len(f)
  BY <1>1, <1>2, <1>3, <1>4
<1>6. ASSUME NEW i \in 1 .. Len(e) PROVE e[i] = f[i]
  <2>1. n + i \in 1 .. Len(d) /\ m + (n + i) = m + n + i /\ i \in 1 .. Len(f)
    BY <1>1, <1>2, <1>4, <1>5
  <2>2. e[i] = d[n + i] /\ d[n + i] = s[m + (n + i)] /\ f[i] = s[m + n + i]
    BY <1>1, <1>2, <1>3, <2>1
  <2> QED
    BY <2>1, <2>2
<1> QED
  BY <1>2, <1>3, <1>5, <1>6, SeqEqual DEF d, e, f

\* Of what is left, the first bytes are those of the whole further on.
LEMMA TakenOfDropped ==
  ASSUME NEW S, NEW s \in Seq(S), NEW m \in Nat, NEW j \in Nat \ {0}, NEW n \in Nat,
         m + n <= Len(s)
  PROVE  SubSeq(Drop(s, m), j, n) = SubSeq(s, m + j, m + n)
<1> DEFINE d == Drop(s, m)
           e == SubSeq(d, j, n)
           f == SubSeq(s, m + j, m + n)
<1>1. /\ d \in Seq(S) /\ Len(d) = Len(s) - m
      /\ \A i \in 1 .. Len(d) : d[i] = s[m + i]
  BY Dropped
<1>4. Len(s) \in Nat
  OBVIOUS
<1>2. /\ e \in Seq(S) /\ Len(e) = IF j <= n THEN n - j + 1 ELSE 0
      /\ \A i \in 1 .. n - j + 1 : e[i] = d[j + i - 1]
  <2> HIDE DEF d
  <2>1. \A i \in j .. n : d[i] \in S
    BY <1>1, <1>4
  <2> QED
    BY <2>1, SubSeqProperties
<1>3. /\ f \in Seq(S) /\ Len(f) = IF m + j <= m + n THEN m + n - (m + j) + 1 ELSE 0
      /\ \A i \in 1 .. m + n - (m + j) + 1 : f[i] = s[m + j + i - 1]
  <2>1. \A i \in m + j .. m + n : s[i] \in S
    BY <1>4
  <2> QED
    BY <2>1, SubSeqProperties
<1> HIDE DEF d, e, f
<1>5. Len(e) = Len(f)
  BY <1>1, <1>2, <1>3, <1>4
<1>6. ASSUME NEW i \in 1 .. Len(e) PROVE e[i] = f[i]
  <2>1. /\ i \in 1 .. n - j + 1 /\ i \in 1 .. m + n - (m + j) + 1
        /\ j + i - 1 \in 1 .. Len(d) /\ m + (j + i - 1) = m + j + i - 1
    BY <1>1, <1>2, <1>4
  <2>2. e[i] = d[j + i - 1] /\ d[j + i - 1] = s[m + (j + i - 1)] /\ f[i] = s[m + j + i - 1]
    BY <1>1, <1>2, <1>3, <2>1
  <2> QED
    BY <2>1, <2>2
<1> QED
  BY <1>2, <1>3, <1>5, <1>6, SeqEqual DEF d, e, f

\* Dropping from, and cutting off, two sequences one after the other.
LEMMA DropOfJoin ==
  ASSUME NEW S, NEW s \in Seq(S), NEW t \in Seq(S), NEW n \in Nat
  PROVE  Drop(s \o t, n) = IF n <= Len(s) THEN Drop(s, n) \o t ELSE Drop(t, n - Len(s))
<1> DEFINE a == s \o t
           l == Drop(a, n)
<1>0. Len(s) \in Nat /\ Len(t) \in Nat
  OBVIOUS
<1>1. /\ a \in Seq(S) /\ Len(a) = Len(s) + Len(t)
      /\ \A i \in 1 .. Len(s) + Len(t) : a[i] = IF i <= Len(s) THEN s[i] ELSE t[i - Len(s)]
  BY ConcatProperties
<1> HIDE DEF a
<1>2. /\ l \in Seq(S) /\ Len(l) = IF Len(a) > n THEN Len(a) - n ELSE 0
      /\ \A i \in 1 .. Len(l) : l[i] = a[n + i]
  BY <1>1, Dropped
<1> HIDE DEF l
<1>3. CASE n <= Len(s)
  <2> DEFINE d == Drop(s, n)
             r == d \o t
  <2>1. /\ d \in Seq(S) /\ Len(d) = Len(s) - n /\ \A i \in 1 .. Len(d) : d[i] = s[n + i]
    BY <1>0, <1>3, Dropped
  <2> HIDE DEF d
  <2>2. /\ r \in Seq(S) /\ Len(r) = Len(d) + Len(t)
        /\ \A i \in 1 .. Len(d) + Len(t) : r[i] = IF i <= Len(d) THEN d[i] ELSE t[i - Len(d)]
    BY <2>1, ConcatProperties
  <2> HIDE DEF r
  <2>3. Len(l) = Len(r)
    BY <1>0, <1>1, <1>2, <1>3, <2>1, <2>2
  <2>4. ASSUME NEW i \in 1 .. Len(l) PROVE l[i] = r[i]
    <3>1. /\ l[i] = a[n + i] /\ n + i \in 1 .. Len(s) + Len(t) /\ i \in 1 .. Len(d) + Len(t)
          /\ n + i <= Len(s) <=> i <= Len(d)
          /\ n + i - Len(s) = i - Len(d)
          /\ i <= Len(d) => i \in 1 .. Len(d)
      BY <1>0, <1>1, <1>2, <1>3, <2>1
    <3>5. n + i \in 1 .. Len(s) + Len(t)
      BY <3>1
    <3>2. a[n + i] = IF n + i <= Len(s) THEN s[n + i] ELSE t[n + i - Len(s)]
      BY <1>1, <3>5
    <3>3. r[i] = IF i <= Len(d) THEN d[i] ELSE t[i - Len(d)]
      BY <2>2, <3>1
    <3>4. i <= Len(d) => d[i] = s[n + i]
      BY <2>1, <3>1
    <3> QED
      BY <3>1, <3>2, <3>3, <3>4
  <2>5. l = r
    BY <1>2, <2>2, <2>3, <2>4, SeqEqual
  <2> QED
    BY <1>3, <2>5 DEF l, a, r, d
<1>4. CASE ~(n <= Len(s))
  <2> DEFINE k == n - Len(s)
             r == Drop(t, k)
  <2>0. k \in Nat /\ n = Len(s) + k
    BY <1>0, <1>4
  <2> HIDE DEF k
  <2>1. /\ r \in Seq(S) /\ Len(r) = IF Len(t) > k THEN Len(t) - k ELSE 0
        /\ \A i \in 1 .. Len(r) : r[i] = t[k + i]
    BY <2>0, Dropped
  <2> HIDE DEF r
  <2>3. Len(l) = Len(r)
    BY <1>0, <1>1, <1>2, <1>4, <2>0, <2>1
  <2>4. ASSUME NEW i \in 1 .. Len(l) PROVE l[i] = r[i]
    <3>1. /\ l[i] = a[n + i] /\ n + i \in 1 .. Len(s) + Len(t)
          /\ ~(n + i <= Len(s)) /\ n + i - Len(s) = k + i /\ i \in 1 .. Len(r)
      BY <1>0, <1>1, <1>2, <1>4, <2>0, <2>1, <2>3
    <3>2. a[n + i] = IF n + i <= Len(s) THEN s[n + i] ELSE t[n + i - Len(s)]
      BY <1>1, <3>1
    <3>3. l[i] = t[k + i] /\ r[i] = t[k + i]
      BY <2>1, <3>1, <3>2
    <3> QED
      BY <3>3
  <2>5. l = r
    BY <1>2, <2>1, <2>3, <2>4, SeqEqual
  <2> QED
    BY <1>4, <2>5 DEF l, a, r, k
<1> QED
  BY <1>3, <1>4

AtMost(x, n) == IF x > n THEN n ELSE x

CapsFit(x, y, n, ll, lb, lc) ==
  /\ ll = lb + lc /\ ll \in Nat /\ lb \in Nat /\ lc \in Nat
  /\ \A i \in 1 .. ll : IF i <= x THEN i \in 1 .. lb
                       ELSE ~(i <= lb) /\ i - lb = i - x /\ i - lb \in 1 .. lc

\* The lengths of what is cut off two sequences, in numbers alone.
LEMMA CapNumbers ==
  ASSUME NEW x \in Nat, NEW y \in Nat, NEW n \in Nat
  PROVE  CapsFit(x, y, n, AtMost(x + y, n), AtMost(x, n),
                 AtMost(y, IF n <= x THEN 0 ELSE n - x))
BY DEF AtMost, CapsFit

\* What is cut off two sequences in a row is cut off the first, then the second.
LEMMA CapOfJoin ==
  ASSUME NEW S, NEW s \in Seq(S), NEW t \in Seq(S), NEW n \in Nat
  PROVE  Cap(s \o t, n) = Cap(s, n) \o Cap(t, IF n <= Len(s) THEN 0 ELSE n - Len(s))
<1> DEFINE a == s \o t
           l == Cap(a, n)
           k == IF n <= Len(s) THEN 0 ELSE n - Len(s)
           b == Cap(s, n)
           c == Cap(t, k)
           r == b \o c
<1>0. Len(s) \in Nat /\ Len(t) \in Nat /\ k \in Nat
  OBVIOUS
<1>5. (n <= Len(s) => k = 0) /\ (~(n <= Len(s)) => k = n - Len(s))
  OBVIOUS
<1>1. /\ a \in Seq(S) /\ Len(a) = Len(s) + Len(t)
      /\ \A i \in 1 .. Len(s) + Len(t) : a[i] = IF i <= Len(s) THEN s[i] ELSE t[i - Len(s)]
  BY ConcatProperties
<1> HIDE DEF a, k
<1>2. /\ l \in Seq(S) /\ Len(l) = IF Len(a) > n THEN n ELSE Len(a)
      /\ \A i \in 1 .. Len(l) : l[i] = a[i]
  BY <1>1, Taken
<1>3. /\ b \in Seq(S) /\ Len(b) = IF Len(s) > n THEN n ELSE Len(s)
      /\ \A i \in 1 .. Len(b) : b[i] = s[i]
  BY Taken
<1>4. /\ c \in Seq(S) /\ Len(c) = IF Len(t) > k THEN k ELSE Len(t)
      /\ \A i \in 1 .. Len(c) : c[i] = t[i]
  BY <1>0, Taken
<1> HIDE DEF l, b, c
<1>6. /\ r \in Seq(S) /\ Len(r) = Len(b) + Len(c)
      /\ \A i \in 1 .. Len(b) + Len(c) : r[i] = IF i <= Len(b) THEN b[i] ELSE c[i - Len(b)]
  <2>1. b \in Seq(S) /\ c \in Seq(S)
    BY <1>3, <1>4
  <2> QED
    BY <2>1, ConcatProperties
<1> HIDE DEF r
<1>10. /\ Len(a) = Len(s) + Len(t)
       /\ Len(l) = IF Len(a) > n THEN n ELSE Len(a)
       /\ Len(b) = IF Len(s) > n THEN n ELSE Len(s)
       /\ Len(c) = IF Len(t) > k THEN k ELSE Len(t)
       /\ Len(r) = Len(b) + Len(c)
  BY <1>1, <1>2, <1>3, <1>4, <1>6
<1>7. /\ Len(l) = Len(r) /\ Len(l) \in Nat /\ Len(b) \in Nat /\ Len(c) \in Nat
      /\ \A i \in 1 .. Len(l) : IF i <= Len(s) THEN i \in 1 .. Len(b)
                                ELSE /\ ~(i <= Len(b)) /\ i - Len(b) = i - Len(s)
                                     /\ i - Len(b) \in 1 .. Len(c)
  <2>1. /\ Len(l) = AtMost(Len(s) + Len(t), n) /\ Len(b) = AtMost(Len(s), n)
        /\ Len(c) = AtMost(Len(t), IF n <= Len(s) THEN 0 ELSE n - Len(s))
    BY <1>10 DEF k, AtMost
  <2>2. CapsFit(Len(s), Len(t), n, AtMost(Len(s) + Len(t), n), AtMost(Len(s), n),
                AtMost(Len(t), IF n <= Len(s) THEN 0 ELSE n - Len(s)))
    BY <1>0, CapNumbers
  <2>3. CapsFit(Len(s), Len(t), n, Len(l), Len(b), Len(c))
    BY <2>1, <2>2
  <2> QED
    BY <1>10, <2>3 DEF CapsFit
<1>8. ASSUME NEW i \in 1 .. Len(l) PROVE l[i] = r[i]
  <2>1. l[i] = a[i]
    BY <1>2
  <2>2. i \in 1 .. Len(a) /\ i \in 1 .. Len(r)
    BY <1>0, <1>7, <1>10
  <2>3. a[i] = IF i <= Len(s) THEN s[i] ELSE t[i - Len(s)]
    BY <1>1, <2>2
  <2>4. r[i] = IF i <= Len(b) THEN b[i] ELSE c[i - Len(b)]
    BY <1>6, <2>2
  <2>5. CASE i <= Len(s)
    <3>1. i \in 1 .. Len(b) /\ i <= Len(b)
      BY <1>7, <2>5
    <3>2. b[i] = s[i]
      BY <1>3, <3>1
    <3> QED
      BY <2>1, <2>3, <2>4, <2>5, <3>1, <3>2
  <2>6. CASE ~(i <= Len(s))
    <3>1. ~(i <= Len(b)) /\ i - Len(b) = i - Len(s) /\ i - Len(b) \in 1 .. Len(c)
      BY <1>7, <2>6
    <3>2. c[i - Len(b)] = t[i - Len(b)]
      BY <1>4, <3>1
    <3> QED
      BY <2>1, <2>3, <2>4, <2>6, <3>1, <3>2
  <2> QED
    BY <2>5, <2>6
<1>9. l = r
  BY <1>2, <1>6, <1>7, <1>8, SeqEqual
<1> QED
  BY <1>9 DEF l, a, r, b, c, k

\* Induction over sequences, on a set in the place of a predicate.
LEMMA SequenceInduction ==
  ASSUME NEW S, NEW T, <<>> \in T,
         \A s \in Seq(S), e \in S : s \in T => Append(s, e) \in T
  PROVE  Seq(S) \subseteq T
<1> DEFINE U == {n \in Nat : \A s \in Seq(S) : Len(s) = n => s \in T}
<1>1. 0 \in U
  <2>1. \A s \in Seq(S) : Len(s) = 0 => s = <<>>
    OBVIOUS
  <2> QED
    BY <2>1
<1>2. ASSUME NEW n \in Nat, n \in U PROVE n + 1 \in U
  <2> SUFFICES ASSUME NEW s \in Seq(S), Len(s) = n + 1 PROVE s \in T
    OBVIOUS
  <2>1. s # <<>>
    OBVIOUS
  <2>2. PICK r \in Seq(S), e \in S : s = Append(r, e)
    BY <2>1, SequenceEmptyOrAppend
  <2>3. Len(r) = n
    BY <2>2, AppendProperties
  <2>4. r \in T
    BY <1>2, <2>3
  <2> QED
    BY <2>2, <2>4
<1> HIDE DEF U
<1>3. Nat \subseteq U
  BY <1>1, <1>2, Induction
<1>4. \A s \in Seq(S) : Len(s) \in U
  BY <1>3
<1> QED
  BY <1>4 DEF U

\* Flattening a sequence of chunks, chunk by chunk.
LEMMA FlattenNone == FlattenSeq(<<>>) = <<>>
BY DEF FlattenSeq

\* One chunk more.
LEMMA FlattenAppend ==
  ASSUME NEW S, NEW ss \in Seq(Seq(S)), NEW s \in Seq(S)
  PROVE  FlattenSeq(Append(ss, s)) = FlattenSeq(ss) \o s
<1> DEFINE all == Append(ss, s)
           n == Len(ss)
<1>1. /\ all \in Seq(Seq(S)) /\ all # <<>> /\ Len(all) = n + 1
      /\ \A i \in 1 .. n : all[i] = ss[i]
      /\ all[n + 1] = s
  BY AppendProperties
<1>2. IsSeq(all) /\ IsSeq(ss) /\ n \in Nat
  BY <1>1 DEF IsSeq
<1> HIDE DEF all
<1>3. PICK f : /\ FlattenSeq(all) = f[Len(all)]
               /\ f[1] = all[1]
               /\ \A i \in 2 .. Len(all) : f[i] = Cat(f[i - 1], all[i])
  BY <1>1, <1>2, Flattened
<1>4. CASE ss = <<>>
  <2>1. n = 0 /\ FlattenSeq(ss) = <<>>
    BY <1>4, FlattenNone
  <2>2. FlattenSeq(all) = s
    BY <1>1, <1>3, <2>1
  <2> QED
    BY <2>1, <2>2 DEF all
<1>5. CASE ss # <<>>
  <2>1. PICK g : /\ FlattenSeq(ss) = g[n]
                 /\ g[1] = ss[1]
                 /\ \A i \in 2 .. n : g[i] = Cat(g[i - 1], ss[i])
    BY <1>2, <1>5, Flattened
  <2>2. n # 0
    BY <1>2, <1>5, SeqsHaveLengths
  <2> HIDE DEF n
  <2> DEFINE T == {m \in Nat : m \in 1 .. n => f[m] = g[m]}
  <2>3. 0 \in T
    OBVIOUS
  <2>4. ASSUME NEW m \in Nat, m \in T PROVE m + 1 \in T
    <3> SUFFICES ASSUME m + 1 \in 1 .. n PROVE f[m + 1] = g[m + 1]
      OBVIOUS
    <3>1. CASE m = 0
      BY <1>1, <1>2, <1>3, <2>1, <2>2, <3>1
    <3>2. CASE m # 0
      <4>1. m \in 1 .. n /\ m + 1 \in 2 .. n /\ m + 1 \in 2 .. Len(all) /\ m + 1 - 1 = m
        BY <1>1, <1>2, <3>2
      <4>2. f[m + 1] = Cat(f[m], all[m + 1]) /\ g[m + 1] = Cat(g[m], ss[m + 1])
        BY <1>3, <2>1, <4>1
      <4> QED
        BY <1>1, <2>4, <4>1, <4>2
    <3> QED
      BY <3>1, <3>2
  <2> HIDE DEF T
  <2>5. n \in T
    BY <1>2, <2>3, <2>4, Induction
  <2>6. f[n] = FlattenSeq(ss)
    BY <1>2, <2>1, <2>2, <2>5 DEF T
  <2>7. n + 1 \in 2 .. Len(all) /\ n + 1 - 1 = n
    BY <1>1, <1>2, <2>2
  <2>8. FlattenSeq(all) = Cat(f[n], s)
    <3>1. FlattenSeq(all) = f[n + 1]
      BY <1>1, <1>3
    <3>2. \A i \in 2 .. Len(all) : f[i] = Cat(f[i - 1], all[i])
      BY <1>3
    <3>3. f[n + 1] = Cat(f[n], all[n + 1])
      BY <1>2, <2>7, <3>2
    <3> QED
      BY <1>1, <3>1, <3>3
  <2> QED
    BY <2>6, <2>8 DEF Cat, all
<1> QED
  BY <1>4, <1>5

\* Chunks of bytes are bytes together.
LEMMA FlattenType ==
  ASSUME NEW S PROVE \A ss \in Seq(Seq(S)) : FlattenSeq(ss) \in Seq(S)
<1> DEFINE T == {ss \in Seq(Seq(S)) : FlattenSeq(ss) \in Seq(S)}
<1>1. <<>> \in T
  <2>1. <<>> \in Seq(Seq(S)) /\ <<>> \in Seq(S)
    OBVIOUS
  <2> QED
    BY <2>1, FlattenNone, Zenon
<1>2. ASSUME NEW ss \in Seq(Seq(S)), NEW s \in Seq(S), ss \in T PROVE Append(ss, s) \in T
  <2>1. FlattenSeq(Append(ss, s)) = FlattenSeq(ss) \o s
    BY FlattenAppend
  <2>2. FlattenSeq(ss) \in Seq(S)
    BY <1>2
  <2>3. FlattenSeq(ss) \o s \in Seq(S)
    BY <2>2
  <2>4. Append(ss, s) \in Seq(Seq(S))
    BY AppendProperties
  <2> QED
    BY <2>1, <2>3, <2>4, Zenon
<1> HIDE DEF T
<1>3. Seq(Seq(S)) \subseteq T
  BY <1>1, <1>2, SequenceInduction
<1> QED
  BY <1>3 DEF T

\* An item appended to the second of two is appended to both.
LEMMA AppendToJoin ==
  ASSUME NEW S, NEW a \in Seq(S), NEW b \in Seq(S), NEW e \in S
  PROVE  a \o Append(b, e) = Append(a \o b, e)
<1>1. Append(b, e) = b \o <<e>> /\ <<e>> \in Seq(S)
  BY AppendIsConcat
<1>2. a \o b \in Seq(S)
  OBVIOUS
<1>3. Append(a \o b, e) = (a \o b) \o <<e>>
  BY <1>2, AppendIsConcat
<1>4. (a \o b) \o <<e>> = a \o (b \o <<e>>)
  BY <1>1, ConcatAssociative
<1> QED
  BY <1>1, <1>3, <1>4

\* Chunks and more chunks.
LEMMA FlattenJoin ==
  ASSUME NEW S, NEW a \in Seq(Seq(S))
  PROVE  \A b \in Seq(Seq(S)) : FlattenSeq(a \o b) = FlattenSeq(a) \o FlattenSeq(b)
<1> DEFINE T == {b \in Seq(Seq(S)) : FlattenSeq(a \o b) = FlattenSeq(a) \o FlattenSeq(b)}
<1>0. FlattenSeq(a) \in Seq(S)
  BY FlattenType
<1>1. <<>> \in T
  BY <1>0, FlattenNone
<1>2. ASSUME NEW b \in Seq(Seq(S)), NEW s \in Seq(S), b \in T PROVE Append(b, s) \in T
  <2>1. a \o Append(b, s) = Append(a \o b, s) /\ a \o b \in Seq(Seq(S))
    BY AppendToJoin
  <2>2. FlattenSeq(a \o Append(b, s)) = FlattenSeq(a \o b) \o s
    BY <2>1, FlattenAppend
  <2>3. FlattenSeq(a \o b) = FlattenSeq(a) \o FlattenSeq(b)
    BY <1>2
  <2>4. FlattenSeq(Append(b, s)) = FlattenSeq(b) \o s /\ FlattenSeq(b) \in Seq(S)
    BY FlattenAppend, FlattenType
  <2>5. (FlattenSeq(a) \o FlattenSeq(b)) \o s = FlattenSeq(a) \o (FlattenSeq(b) \o s)
    BY <1>0, <2>4, ConcatAssociative
  <2>6. Append(b, s) \in Seq(Seq(S))
    BY AppendProperties
  <2>7. FlattenSeq(a \o Append(b, s)) = FlattenSeq(a) \o FlattenSeq(Append(b, s))
    BY <2>2, <2>3, <2>4, <2>5, Zenon
  <2> QED
    BY <2>6, <2>7, Zenon
<1> HIDE DEF T
<1>3. Seq(Seq(S)) \subseteq T
  BY <1>1, <1>2, SequenceInduction
<1> QED
  BY <1>3 DEF T

\* Cutting chunks is cutting what they are together.
LEMMA BeforeAppend ==
  ASSUME NEW S, NEW cs \in Seq(Seq(S)), NEW c \in Seq(S), NEW i \in 1 .. Len(cs) + 1
  PROVE  Before(Append(cs, c), i) = IF i <= Len(cs) THEN Before(cs, i) ELSE Total(cs)
<1> DEFINE all == Append(cs, c)
           t == SubSeq(all, 1, i - 1)
           u == SubSeq(cs, 1, i - 1)
<1>0. Len(cs) \in Nat /\ i - 1 \in 0 .. Len(cs) /\ i - 1 \in Int
  OBVIOUS
<1>1. /\ all \in Seq(Seq(S)) /\ Len(all) = Len(cs) + 1
      /\ \A j \in 1 .. Len(cs) : all[j] = cs[j]
  BY AppendProperties
<1> HIDE DEF all
<1>2. /\ t \in Seq(Seq(S)) /\ Len(t) = i - 1 /\ \A j \in 1 .. i - 1 : t[j] = all[j]
  BY <1>0, <1>1
<1>3. /\ u \in Seq(Seq(S)) /\ Len(u) = i - 1 /\ \A j \in 1 .. i - 1 : u[j] = cs[j]
  BY <1>0
<1> HIDE DEF t, u
<1>4. t = u
  <2>1. ASSUME NEW j \in 1 .. Len(t) PROVE t[j] = u[j]
    <3>1. j \in 1 .. i - 1 /\ j \in 1 .. Len(cs)
      BY <1>0, <1>2
    <3> QED
      BY <1>1, <1>2, <1>3, <3>1
  <2> QED
    BY <1>2, <1>3, <2>1, SeqEqual
<1>5. i > Len(cs) => u = cs
  <2>1. i > Len(cs) => i - 1 = Len(cs)
    BY <1>0
  <2>2. SubSeq(cs, 1, Len(cs)) = cs
    BY SubSeqFull
  <2> QED
    BY <2>1, <2>2 DEF u
<1>6. Before(all, i) = Total(t) /\ Before(cs, i) = Total(u)
  BY DEF Before, t, u
<1> QED
  BY <1>0, <1>4, <1>5, <1>6 DEF all

\* Dropping bytes from chunks with one more at the end.
LEMMA CutFromAppend ==
  ASSUME NEW S, NEW cs \in Seq(Seq(S)), NEW c \in Seq(S), NEW n \in Nat,
         CutFrom(cs, n) \in Seq(Seq(S)), Len(CutFrom(cs, n)) = Len(cs)
  PROVE  CutFrom(Append(cs, c), n) =
           Append(CutFrom(cs, n), IF n <= Total(cs) THEN c
                                  ELSE SubSeq(c, n - Total(cs) + 1, Len(c)))
<1> DEFINE all == Append(cs, c)
           l == CutFrom(all, n)
           d == CutFrom(cs, n)
           e == IF n <= Total(cs) THEN c ELSE SubSeq(c, n - Total(cs) + 1, Len(c))
           r == Append(d, e)
<1>0. Len(cs) \in Nat /\ DOMAIN cs = 1 .. Len(cs)
  OBVIOUS
<1>1. /\ all \in Seq(Seq(S)) /\ Len(all) = Len(cs) + 1 /\ DOMAIN all = 1 .. Len(cs) + 1
      /\ \A j \in 1 .. Len(cs) : all[j] = cs[j]
      /\ all[Len(cs) + 1] = c
  BY AppendProperties
<1>2. \A i \in 1 .. Len(cs) + 1 :
        Before(all, i) = IF i <= Len(cs) THEN Before(cs, i) ELSE Total(cs)
  BY BeforeAppend
<1> HIDE DEF all
<1>3. l = [i \in 1 .. Len(cs) + 1 |->
             IF n <= Before(all, i) THEN all[i]
             ELSE SubSeq(all[i], n - Before(all, i) + 1, Len(all[i]))]
  BY <1>1 DEF CutFrom
<1>4. d = [i \in 1 .. Len(cs) |->
             IF n <= Before(cs, i) THEN cs[i]
             ELSE SubSeq(cs[i], n - Before(cs, i) + 1, Len(cs[i]))]
  BY <1>0 DEF CutFrom
<1>8. d \in Seq(Seq(S)) /\ Len(d) = Len(cs)
  OBVIOUS
<1> HIDE DEF l, d, e
<1>5. r = [i \in 1 .. Len(cs) + 1 |-> IF i <= Len(cs) THEN d[i] ELSE e]
  <2>1. d \in Seq(Seq(S) \cup {e}) /\ e \in Seq(S) \cup {e}
    BY <1>8
  <2>2. /\ r \in Seq(Seq(S) \cup {e}) /\ Len(r) = Len(cs) + 1
        /\ \A i \in 1 .. Len(cs) : r[i] = d[i]
        /\ r[Len(cs) + 1] = e
    BY <1>8, <2>1, AppendProperties
  <2> HIDE DEF r
  <2>3. r = [i \in 1 .. Len(cs) + 1 |-> r[i]]
    BY <2>2
  <2>4. ASSUME NEW i \in 1 .. Len(cs) + 1 PROVE r[i] = IF i <= Len(cs) THEN d[i] ELSE e
    BY <1>0, <2>2
  <2> QED
    BY <2>3, <2>4
<1>6. ASSUME NEW i \in 1 .. Len(cs) + 1 PROVE l[i] = IF i <= Len(cs) THEN d[i] ELSE e
  <2>1. CASE i <= Len(cs)
    <3>1. i \in 1 .. Len(cs) /\ all[i] = cs[i] /\ Before(all, i) = Before(cs, i)
      BY <1>0, <1>1, <1>2, <2>1
    <3> QED
      BY <1>3, <1>4, <2>1, <3>1
  <2>2. CASE ~(i <= Len(cs))
    <3>1. i = Len(cs) + 1
      BY <1>0, <2>2
    <3>2. all[i] = c /\ Before(all, i) = Total(cs)
      BY <1>1, <1>2, <2>2, <3>1
    <3>3. l[i] = IF n <= Before(all, i) THEN all[i]
                 ELSE SubSeq(all[i], n - Before(all, i) + 1, Len(all[i]))
      BY <1>3
    <3> QED
      BY <2>2, <3>2, <3>3 DEF e
  <2> QED
    BY <2>1, <2>2
<1>7. l = r
  BY <1>3, <1>5, <1>6
<1> QED
  BY <1>7 DEF l, all, d, e

\* Dropping bytes from chunks drops them from their bytes (CutFrom).
LEMMA CutFromFlat ==
  ASSUME NEW S, NEW n \in Nat
  PROVE  \A cs \in Seq(Seq(S)) : /\ CutFrom(cs, n) \in Seq(Seq(S))
                                 /\ FlattenSeq(CutFrom(cs, n)) = Drop(FlattenSeq(cs), n)
<1> DEFINE Good(cs) == /\ CutFrom(cs, n) \in Seq(Seq(S))
                       /\ Len(CutFrom(cs, n)) = Len(cs)
                       /\ FlattenSeq(CutFrom(cs, n)) = Drop(FlattenSeq(cs), n)
           T == {cs \in Seq(Seq(S)) : Good(cs)}
<1>1. <<>> \in T
  <2>1. CutFrom(<<>>, n) = <<>>
    BY DEF CutFrom
  <2>2. Drop(<<>>, n) = <<>>
    BY DEF Drop
  <2> QED
    <3>1. <<>> \in Seq(Seq(S)) /\ Len(<<>>) = 0
      OBVIOUS
    <3> QED
      BY <2>1, <2>2, <3>1, FlattenNone, Zenon
<1>2. ASSUME NEW cs \in Seq(Seq(S)), NEW c \in Seq(S), cs \in T PROVE Append(cs, c) \in T
  <2> DEFINE F == FlattenSeq(cs)
             d == CutFrom(cs, n)
             e == IF n <= Total(cs) THEN c ELSE SubSeq(c, n - Total(cs) + 1, Len(c))
  <2>1. d \in Seq(Seq(S)) /\ Len(d) = Len(cs) /\ FlattenSeq(d) = Drop(F, n)
    BY <1>2
  <2>2. F \in Seq(S) /\ FlattenSeq(Append(cs, c)) = F \o c
    BY FlattenType, FlattenAppend
  <2>3. CutFrom(Append(cs, c), n) = Append(d, e)
    BY <2>1, CutFromAppend
  <2>4. Total(cs) = Len(F) /\ Len(F) \in Nat
    BY <2>2 DEF Total
  <2> HIDE DEF F, d
  <2>5. e = IF n <= Len(F) THEN c ELSE Drop(c, n - Len(F))
    BY <2>4 DEF Drop
  <2>6. e \in Seq(S)
    <3>1. CASE n <= Len(F)
      BY <2>5, <3>1
    <3>2. CASE ~(n <= Len(F))
      <4>1. n - Len(F) \in Nat
        BY <2>4, <3>2
      <4> QED
        BY <2>5, <3>2, <4>1, Dropped
    <3> QED
      BY <3>1, <3>2
  <2> HIDE DEF e
  <2>7. Append(d, e) \in Seq(Seq(S)) /\ Len(Append(d, e)) = Len(Append(cs, c))
    BY <2>1, <2>6
  <2>8. FlattenSeq(Append(d, e)) = Drop(F, n) \o e
    BY <2>1, <2>6, FlattenAppend
  <2>9. Drop(F, n) \o e = Drop(F \o c, n)
    <3>1. Drop(F \o c, n) = IF n <= Len(F) THEN Drop(F, n) \o c ELSE Drop(c, n - Len(F))
      BY <2>2, DropOfJoin
    <3>2. CASE n <= Len(F)
      BY <2>5, <3>1, <3>2
    <3>3. CASE ~(n <= Len(F))
      <4>1. Drop(F, n) \in Seq(S) /\ Len(Drop(F, n)) = 0
        BY <2>2, <2>4, <3>3, Dropped
      <4>2. Drop(F, n) = <<>>
        BY <4>1
      <4> QED
        BY <2>5, <2>6, <3>1, <3>3, <4>2
    <3> QED
      BY <3>2, <3>3
  <2>10. Append(cs, c) \in Seq(Seq(S))
    BY AppendProperties
  <2> QED
    BY <2>2, <2>3, <2>7, <2>8, <2>9, <2>10, Zenon
<1> HIDE DEF T
<1>3. Seq(Seq(S)) \subseteq T
  BY <1>1, <1>2, SequenceInduction
<1> QED
  BY <1>3 DEF T

\* Keeping the first bytes of chunks with one more at the end.
LEMMA CutToAppend ==
  ASSUME NEW S, NEW cs \in Seq(Seq(S)), NEW c \in Seq(S), NEW n \in Nat,
         CutTo(cs, n) \in Seq(Seq(S)), Len(CutTo(cs, n)) = Len(cs)
  PROVE  CutTo(Append(cs, c), n) =
           Append(CutTo(cs, n), Cap(c, IF n <= Total(cs) THEN 0 ELSE n - Total(cs)))
<1> DEFINE all == Append(cs, c)
           l == CutTo(all, n)
           d == CutTo(cs, n)
           e == Cap(c, IF n <= Total(cs) THEN 0 ELSE n - Total(cs))
           r == Append(d, e)
<1>0. Len(cs) \in Nat /\ DOMAIN cs = 1 .. Len(cs)
  OBVIOUS
<1>1. /\ all \in Seq(Seq(S)) /\ Len(all) = Len(cs) + 1 /\ DOMAIN all = 1 .. Len(cs) + 1
      /\ \A j \in 1 .. Len(cs) : all[j] = cs[j]
      /\ all[Len(cs) + 1] = c
  BY AppendProperties
<1>2. \A i \in 1 .. Len(cs) + 1 :
        Before(all, i) = IF i <= Len(cs) THEN Before(cs, i) ELSE Total(cs)
  BY BeforeAppend
<1> HIDE DEF all
<1>3. l = [i \in 1 .. Len(cs) + 1 |->
             Cap(all[i], IF n <= Before(all, i) THEN 0 ELSE n - Before(all, i))]
  BY <1>1 DEF CutTo
<1>4. d = [i \in 1 .. Len(cs) |->
             Cap(cs[i], IF n <= Before(cs, i) THEN 0 ELSE n - Before(cs, i))]
  BY <1>0 DEF CutTo
<1>8. d \in Seq(Seq(S)) /\ Len(d) = Len(cs)
  OBVIOUS
<1> HIDE DEF l, d, e
<1>5. r = [i \in 1 .. Len(cs) + 1 |-> IF i <= Len(cs) THEN d[i] ELSE e]
  <2>1. d \in Seq(Seq(S) \cup {e}) /\ e \in Seq(S) \cup {e}
    BY <1>8
  <2>2. /\ r \in Seq(Seq(S) \cup {e}) /\ Len(r) = Len(cs) + 1
        /\ \A i \in 1 .. Len(cs) : r[i] = d[i]
        /\ r[Len(cs) + 1] = e
    BY <1>8, <2>1, AppendProperties
  <2> HIDE DEF r
  <2>3. r = [i \in 1 .. Len(cs) + 1 |-> r[i]]
    BY <2>2
  <2>4. ASSUME NEW i \in 1 .. Len(cs) + 1 PROVE r[i] = IF i <= Len(cs) THEN d[i] ELSE e
    BY <1>0, <2>2
  <2> QED
    BY <2>3, <2>4
<1>6. ASSUME NEW i \in 1 .. Len(cs) + 1 PROVE l[i] = IF i <= Len(cs) THEN d[i] ELSE e
  <2>1. CASE i <= Len(cs)
    <3>1. i \in 1 .. Len(cs) /\ all[i] = cs[i] /\ Before(all, i) = Before(cs, i)
      BY <1>0, <1>1, <1>2, <2>1
    <3> QED
      BY <1>3, <1>4, <2>1, <3>1
  <2>2. CASE ~(i <= Len(cs))
    <3>1. i = Len(cs) + 1
      BY <1>0, <2>2
    <3>2. all[i] = c /\ Before(all, i) = Total(cs)
      BY <1>1, <1>2, <2>2, <3>1
    <3>3. l[i] = Cap(all[i], IF n <= Before(all, i) THEN 0 ELSE n - Before(all, i))
      BY <1>3
    <3> QED
      BY <2>2, <3>2, <3>3 DEF e
  <2> QED
    BY <2>1, <2>2
<1>7. l = r
  BY <1>3, <1>5, <1>6
<1> QED
  BY <1>7 DEF l, all, d, e

\* Keeping the first bytes of chunks keeps those of their bytes (CutTo).
LEMMA CutToFlat ==
  ASSUME NEW S, NEW n \in Nat
  PROVE  \A cs \in Seq(Seq(S)) : /\ CutTo(cs, n) \in Seq(Seq(S))
                                 /\ FlattenSeq(CutTo(cs, n)) = Cap(FlattenSeq(cs), n)
<1> DEFINE Good(cs) == /\ CutTo(cs, n) \in Seq(Seq(S))
                       /\ Len(CutTo(cs, n)) = Len(cs)
                       /\ FlattenSeq(CutTo(cs, n)) = Cap(FlattenSeq(cs), n)
           T == {cs \in Seq(Seq(S)) : Good(cs)}
<1>1. <<>> \in T
  <2>1. CutTo(<<>>, n) = <<>>
    BY DEF CutTo
  <2>2. Cap(<<>>, n) = <<>>
    BY DEF Cap
  <2> QED
    <3>1. <<>> \in Seq(Seq(S)) /\ Len(<<>>) = 0
      OBVIOUS
    <3> QED
      BY <2>1, <2>2, <3>1, FlattenNone, Zenon
<1>2. ASSUME NEW cs \in Seq(Seq(S)), NEW c \in Seq(S), cs \in T PROVE Append(cs, c) \in T
  <2> DEFINE F == FlattenSeq(cs)
             d == CutTo(cs, n)
             k == IF n <= Len(F) THEN 0 ELSE n - Len(F)
             e == Cap(c, k)
  <2>1. d \in Seq(Seq(S)) /\ Len(d) = Len(cs) /\ FlattenSeq(d) = Cap(F, n)
    BY <1>2
  <2>2. F \in Seq(S) /\ FlattenSeq(Append(cs, c)) = F \o c
    BY FlattenType, FlattenAppend
  <2>4. Total(cs) = Len(F) /\ Len(F) \in Nat
    BY <2>2 DEF Total
  <2>3. CutTo(Append(cs, c), n) = Append(d, e)
    BY <2>1, <2>4, CutToAppend
  <2> HIDE DEF F, d
  <2>5. k \in Nat
    BY <2>4
  <2>9. Cap(F \o c, n) = Cap(F, n) \o e
    BY <2>2, CapOfJoin
  <2>6. e \in Seq(S)
    BY <2>5, Taken
  <2> HIDE DEF e
  <2>7. Append(d, e) \in Seq(Seq(S)) /\ Len(Append(d, e)) = Len(Append(cs, c))
    BY <2>1, <2>6
  <2>8. FlattenSeq(Append(d, e)) = Cap(F, n) \o e
    BY <2>1, <2>6, FlattenAppend
  <2>10. Append(cs, c) \in Seq(Seq(S))
    BY AppendProperties
  <2> QED
    BY <2>2, <2>3, <2>7, <2>8, <2>9, <2>10, Zenon
<1> HIDE DEF T
<1>3. Seq(Seq(S)) \subseteq T
  BY <1>1, <1>2, SequenceInduction
<1> QED
  BY <1>3 DEF T

(* ----------------------------- what is parsed --------------------------- *)

\* Quotient and remainder are those a number was made of.
LEMMA Division ==
  ASSUME NEW M \in Nat \ {0}, NEW q \in Int, NEW r \in 0 .. M - 1
  PROVE  (q * M + r) % M = r /\ (q * M + r) \div M = q
<1> DEFINE x == q * M + r
           p == x \div M
           s == x % M
<1>1. x \in Int
  OBVIOUS
<1> HIDE DEF x
<1>2. s \in 0 .. M - 1 /\ p \in Int /\ x = p * M + s
  BY <1>1
<1> HIDE DEF p, s
<1>3. q * M + r = p * M + s
  BY <1>2 DEF x
<1>4. s - r = (q - p) * M /\ q - p \in Int
  BY <1>2, <1>3
<1>5. s = r
  BY <1>2, <1>4, SameRemainder
<1>6. (q - p) * M = 0
  BY <1>2, <1>4, <1>5
<1>7. q - p = 0
  BY <1>4, <1>6
<1> QED
  BY <1>2, <1>5, <1>7 DEF x, p, s

\* A number below the divisor is its own remainder.
LEMMA Small ==
  ASSUME NEW M \in Nat \ {0}, NEW r \in 0 .. M - 1
  PROVE  r % M = r /\ r \div M = 0
<1>1. 0 * M + r = r
  OBVIOUS
<1> QED
  BY <1>1, Division

\* UnmarshalChunks goes through its stages until one fails.
LEMMA Stages ==
  ASSUME NEW l, NEW cs
  PROVE  LET n == Total(cs)
             base == ParseBaseHeader(l, cs, n)
             csrc == ParseCSRC(base, CSRCCountOf(Slice(cs, 1)))
             ext == ParseExtension(csrc, n)
             pad == ParsePadding(ext, cs, n)
         IN  UnmarshalChunks(l, cs) =
               IF n < MinHeader THEN Stage(l, cs, MinHeader, "PacketSizeNotEnough")
               ELSE IF base.err # NoError THEN base
               ELSE IF csrc.err # NoError THEN csrc
               ELSE IF ext.err # NoError THEN ext
               ELSE IF pad.err # NoError THEN pad
               ELSE ParsePayload(pad, n)
BY DEF UnmarshalChunks, Then

StageFields == {"layer", "rest", "min", "err"}
IsStage(r) == DOMAIN r = StageFields /\ IsLayer(r.layer)

\* What the stage of the fixed header sets, in terms of its bytes.
LEMMA BaseFields ==
  ASSUME NEW l, NEW cs, NEW n, IsLayer(l)
  PROVE  LET b == Slice(cs, MinHeader)
             r == ParseBaseHeader(l, cs, n)
             h == r.layer
         IN  /\ IsStage(r)
             /\ r.err = IF b[1] \div 64 # 2 THEN "InvalidVersion"
                        ELSE IF n < r.min THEN "PacketSizeNotEnough" ELSE NoError
             /\ b[1] \div 64 = 2 =>
                  /\ r.rest = CutFrom(cs, MinHeader)
                  /\ r.min = MinHeader + 4 * CSRCCountOf(b) + Flag(h.extension, 4) + Flag(h.padding, 1)
                  /\ h.version = 2
                  /\ h.padding = ((b[1] \div 32) % 2 = 1)
                  /\ h.extension = ((b[1] \div 16) % 2 = 1)
                  /\ h.marker = (b[2] >= 128) /\ h.payloadType = b[2] % 128
                  /\ h.seq = Get16(SubSeq(b, 3, 4))
                  /\ h.timestamp = SubSeq(b, 5, 8) /\ h.ssrc = SubSeq(b, 9, 12)
BY Fields DEF ParseBaseHeader, IsLayer, Stage, IsStage, StageFields, Enough

\* The fields a stage leaves alone.
BaseAlike(h, g) ==
  /\ IsLayer(g)
  /\ g.version = h.version /\ g.padding = h.padding /\ g.extension = h.extension
  /\ g.marker = h.marker /\ g.payloadType = h.payloadType /\ g.seq = h.seq
  /\ g.timestamp = h.timestamp /\ g.ssrc = h.ssrc

\* What the stage of the CSRC list sets.
LEMMA CSRCFields ==
  ASSUME NEW r, NEW count, IsStage(r)
  PROVE  LET size == (4 * count) % UInt8
             s == ParseCSRC(r, count)
         IN  /\ IsStage(s) /\ BaseAlike(r.layer, s.layer)
             /\ s.err = r.err /\ s.min = r.min
             /\ s.rest = CutFrom(r.rest, size)
             /\ s.layer.csrcList = Words(Slice(r.rest, size))
BY Fields DEF ParseCSRC, IsLayer, IsStage, StageFields, BaseAlike

\* What the stage of the extension sets, and when it fails.
LEMMA ExtensionFields ==
  ASSUME NEW r, NEW n, IsStage(r)
  PROVE  LET s == ParseExtension(r, n)
             b == Slice(r.rest, 4)
             count == Get16(SubSeq(b, 3, 4))
             body == CutFrom(r.rest, 4)
         IN  /\ IsStage(s) /\ BaseAlike(r.layer, s.layer)
             /\ s.layer.csrcList = r.layer.csrcList
             /\ ~r.layer.extension => s = r
             /\ r.layer.extension =>
                  /\ s.min = r.min + 4 * count
                  /\ s.err = IF n < s.min THEN "PacketSizeNotEnough" ELSE NoError
                  /\ ~(n < s.min) =>
                       /\ s.rest = CutFrom(body, (4 * count) % UInt16)
                       /\ s.layer.profile = SubSeq(b, 1, 2)
                       /\ s.layer.extContents = Words(Slice(body, (4 * count) % UInt16))
<1>1. CASE ~r.layer.extension
  BY <1>1 DEF ParseExtension, IsStage, BaseAlike
<1>2. CASE r.layer.extension
  BY <1>2, Fields DEF ParseExtension, IsLayer, IsStage, StageFields, BaseAlike, Stage, Enough
<1> QED
  BY <1>1, <1>2

\* The fields the last stages leave alone.
HeadAlike(h, g) ==
  /\ BaseAlike(h, g)
  /\ g.csrcList = h.csrcList /\ g.profile = h.profile /\ g.extContents = h.extContents

\* What the stage of the padding sets, and when it fails.
LEMMA PaddingFields ==
  ASSUME NEW r, NEW cs, NEW n, IsStage(r)
  PROVE  LET s == ParsePadding(r, cs, n)
             k == FlattenSeq(cs)[n]
         IN  /\ IsStage(s) /\ HeadAlike(r.layer, s.layer) /\ s.rest = r.rest
             /\ ~r.layer.padding => s = r
             /\ r.layer.padding =>
                  /\ k = 0 => s.err = "ZeroPaddingLength"
                  /\ k # 0 => /\ s.min = r.min + k - 1
                              /\ s.err = IF n < s.min THEN "PacketSizeNotEnough" ELSE NoError
                  /\ s.layer.paddingLength = k
<1>1. CASE ~r.layer.padding
  BY <1>1 DEF ParsePadding, IsStage, HeadAlike, BaseAlike
<1>2. CASE r.layer.padding
  BY <1>2, Fields DEF ParsePadding, IsLayer, IsStage, StageFields, HeadAlike, BaseAlike, Stage, Enough
<1> QED
  BY <1>1, <1>2

\* What the stage of the payload sets.
LEMMA PayloadFields ==
  ASSUME NEW r, NEW n, IsStage(r)
  PROVE  LET s == ParsePayload(r, n)
         IN  /\ IsStage(s) /\ HeadAlike(r.layer, s.layer) /\ s.err = r.err
             /\ s.layer.paddingLength = r.layer.paddingLength
             /\ s.layer.payload = CutTo(r.rest, n - r.min)
BY Fields DEF ParsePayload, IsLayer, IsStage, StageFields, HeadAlike, BaseAlike

\* Where the parts of a packet are, in its bytes in one piece.
HasPadding(b) == (b[1] \div 32) % 2 = 1
HasExtension(b) == (b[1] \div 16) % 2 = 1
CSRCEnd(b) == MinHeader + 4 * CSRCCountOf(b)
ExtCount(b) == Get16(SubSeq(b, CSRCEnd(b) + 3, CSRCEnd(b) + 4))
HeaderEnd(b) == CSRCEnd(b) + (IF HasExtension(b) THEN 4 + 4 * ExtCount(b) ELSE 0)
LeastSize(b) == CSRCEnd(b) + Flag(HasExtension(b), 4) + Flag(HasPadding(b), 1)
PaddingAt(b) == IF HasPadding(b) THEN b[Len(b)] ELSE 0

ErrOf(b) ==
  IF Len(b) < MinHeader THEN "PacketSizeNotEnough"
  ELSE IF b[1] \div 64 # 2 THEN "InvalidVersion"
  ELSE IF Len(b) < LeastSize(b) THEN "PacketSizeNotEnough"
  ELSE IF HasExtension(b) /\ Len(b) < HeaderEnd(b) + Flag(HasPadding(b), 1)
  THEN "PacketSizeNotEnough"
  ELSE IF HasPadding(b) /\ b[Len(b)] = 0 THEN "ZeroPaddingLength"
  ELSE IF HasPadding(b) /\ Len(b) < HeaderEnd(b) + b[Len(b)] THEN "PacketSizeNotEnough"
  ELSE NoError

ShowsBase(m, b) ==
  /\ IsLayer(m)
  /\ m.version = 2
  /\ m.padding = HasPadding(b)
  /\ m.extension = HasExtension(b)
  /\ m.marker = (b[2] >= 128) /\ m.payloadType = b[2] % 128
  /\ m.seq = Get16(SubSeq(b, 3, 4))
  /\ m.timestamp = SubSeq(b, 5, 8) /\ m.ssrc = SubSeq(b, 9, 12)

ShowsWords(m, b) ==
  /\ m.csrcList = Words(SubSeq(b, MinHeader + 1, CSRCEnd(b)))
  /\ HasExtension(b) =>
       /\ m.profile = SubSeq(b, CSRCEnd(b) + 1, CSRCEnd(b) + 2)
       /\ m.extContents = Words(SubSeq(b, CSRCEnd(b) + 5, HeaderEnd(b)))

\* What a layer shows that the bytes were parsed into.
Shows(m, b) ==
  /\ ShowsBase(m, b)
  /\ ShowsWords(m, b)
  /\ PayloadOf(m) = SubSeq(b, HeaderEnd(b) + 1, Len(b) - PaddingAt(b))
  /\ HasPadding(b) => m.paddingLength = b[Len(b)]

\* Chunks that hold what is left behind the first bytes.
Remains(cs, b, k) == cs \in Seq(Seq(Byte)) /\ FlattenSeq(cs) = Drop(b, k)

\* With b left behind k bytes, reading and dropping chunks is by place in b.
LEMMA Cuts ==
  ASSUME NEW b \in Seq(Byte), NEW k \in Nat, NEW m \in Nat, k + m <= Len(b),
         NEW cs, Remains(cs, b, k)
  PROVE  /\ Slice(cs, m) = SubSeq(b, k + 1, k + m)
         /\ Remains(CutFrom(cs, m), b, k + m)
         /\ FlattenSeq(CutTo(cs, m)) = SubSeq(b, k + 1, k + m)
<1>1. cs \in Seq(Seq(Byte)) /\ FlattenSeq(cs) = Drop(b, k)
  BY DEF Remains
<1>2. SubSeq(Drop(b, k), 1, m) = SubSeq(b, k + 1, k + m)
  BY TakenOfDropped
<1>3. Drop(b, k) \in Seq(Byte) /\ Len(Drop(b, k)) = Len(b) - k
  BY Dropped
<1>4. Slice(cs, m) = SubSeq(b, k + 1, k + m)
  BY <1>1, <1>2 DEF Slice
<1>5. /\ CutFrom(cs, m) \in Seq(Seq(Byte))
      /\ FlattenSeq(CutFrom(cs, m)) = Drop(Drop(b, k), m)
  BY <1>1, CutFromFlat
<1>6. Drop(Drop(b, k), m) = Drop(b, k + m)
  BY DropOfDrop
<1>7. FlattenSeq(CutTo(cs, m)) = Cap(Drop(b, k), m)
  BY <1>1, CutToFlat
<1>8. Cap(Drop(b, k), m) = SubSeq(Drop(b, k), 1, m)
  <2> DEFINE d == Drop(b, k)
  <2>1. d \in Seq(Byte) /\ Len(d) >= m /\ Len(d) \in Nat
    BY <1>3
  <2> HIDE DEF d
  <2>2. SubSeq(d, 1, Len(d)) = d
    BY <2>1, SubSeqFull
  <2>3. Cap(d, m) = SubSeq(d, 1, m)
    <3>1. CASE Len(d) > m
      BY <3>1 DEF Cap
    <3>2. CASE ~(Len(d) > m)
      <4>1. Len(d) = m
        BY <2>1, <3>2
      <4> QED
        BY <2>2, <3>2, <4>1 DEF Cap
    <3> QED
      BY <3>1, <3>2
  <2> QED
    BY <2>3 DEF d
<1> QED
  BY <1>2, <1>4, <1>5, <1>6, <1>7, <1>8 DEF Remains

\* An item of a sequence of bytes is a number below 256.
LEMMA Bytes ==
  ASSUME NEW b \in Seq(Byte), NEW i \in 1 .. Len(b)
  PROVE  b[i] \in 0 .. 255
<1>1. b[i] \in Byte
  BY ElementOfSeq
<1> QED
  BY <1>1 DEF Byte, UInt8

\* The first byte counts fifteen CSRC words at most.
LEMMA CountIsSmall ==
  ASSUME NEW b \in Seq(Byte), b # <<>>
  PROVE  CSRCCountOf(b) \in 0 .. 15 /\ CSRCEnd(b) \in MinHeader .. MinHeader + 60
<1>1. b[1] \in 0 .. 255
  <2>1. 1 \in 1 .. Len(b)
    OBVIOUS
  <2> QED
    BY <2>1, Bytes
<1>2. b[1] % 16 \in 0 .. 15
  <2>1. ASSUME NEW x \in 0 .. 255 PROVE x % 16 \in 0 .. 15
    OBVIOUS
  <2> QED
    BY <1>1, <2>1
<1>3. CSRCCountOf(b) \in 0 .. 15
  BY <1>2 DEF CSRCCountOf
<1>4. ASSUME NEW x \in 0 .. 15 PROVE MinHeader + 4 * x \in MinHeader .. MinHeader + 60
  BY DEF MinHeader
<1> QED
  BY <1>3, <1>4 DEF CSRCEnd

\* Two bytes as a number.
LEMMA Get16IsNat ==
  ASSUME NEW b \in Seq(Byte), NEW i \in Nat, i + 2 <= Len(b)
  PROVE  Get16(SubSeq(b, i + 1, i + 2)) = b[i + 1] * 256 + b[i + 2]
         /\ Get16(SubSeq(b, i + 1, i + 2)) \in Nat
<1> DEFINE t == SubSeq(b, i + 1, i + 2)
<1>1. b[i + 1] \in 0 .. 255 /\ b[i + 2] \in 0 .. 255
  BY Bytes
<1>2. t[1] = b[i + 1] /\ t[2] = b[i + 2]
  BY <1>1
<1> HIDE DEF t
<1>3. Get16(t) = b[i + 1] * 256 + b[i + 2]
  BY <1>2 DEF Get16
<1>4. ASSUME NEW x \in 0 .. 255, NEW y \in 0 .. 255 PROVE x * 256 + y \in Nat
  OBVIOUS
<1> QED
  BY <1>1, <1>3, <1>4 DEF t

\* The count of the extension is a number.
LEMMA ExtCountIsNat ==
  ASSUME NEW b \in Seq(Byte), b # <<>>, CSRCEnd(b) + 4 <= Len(b)
  PROVE  ExtCount(b) \in Nat
<1>1. CSRCEnd(b) \in Nat
  <2>1. CSRCEnd(b) \in MinHeader .. MinHeader + 60
    BY CountIsSmall
  <2>2. ASSUME NEW x \in MinHeader .. MinHeader + 60 PROVE x \in Nat
    BY DEF MinHeader
  <2> QED
    BY <2>1, <2>2
<1>2. CSRCEnd(b) + 2 \in Nat /\ CSRCEnd(b) + 2 + 2 = CSRCEnd(b) + 4
      /\ CSRCEnd(b) + 2 + 1 = CSRCEnd(b) + 3
  BY <1>1
<1> QED
  BY <1>2, Get16IsNat DEF ExtCount

\* The first stage, of bytes in whatever chunks.
LEMMA BaseShows ==
  ASSUME NEW l, IsLayer(l), NEW b \in Seq(Byte), Len(b) >= MinHeader,
         NEW cs, Remains(cs, b, 0)
  PROVE  LET r == ParseBaseHeader(l, cs, Len(b))
         IN  /\ IsStage(r)
             /\ r.err = IF b[1] \div 64 # 2 THEN "InvalidVersion"
                        ELSE IF Len(b) < LeastSize(b) THEN "PacketSizeNotEnough" ELSE NoError
             /\ b[1] \div 64 = 2 =>
                  /\ Remains(r.rest, b, MinHeader)
                  /\ r.min = LeastSize(b) /\ ShowsBase(r.layer, b)
<1> DEFINE r == ParseBaseHeader(l, cs, Len(b))
           h == r.layer
           s == Slice(cs, MinHeader)
<1>0. MinHeader = 12 /\ MinHeader \in Nat /\ Len(b) \in Nat
  BY DEF MinHeader
<1>1. s = SubSeq(b, 1, 12) /\ Remains(CutFrom(cs, MinHeader), b, MinHeader)
  <2>1. 0 + MinHeader <= Len(b) /\ 0 + 1 = 1 /\ 0 + MinHeader = 12 /\ 0 \in Nat
    BY <1>0
  <2>2. s = SubSeq(b, 0 + 1, 0 + MinHeader) /\ Remains(CutFrom(cs, MinHeader), b, 0 + MinHeader)
    BY <1>0, <2>1, Cuts
  <2> QED
    BY <1>0, <2>1, <2>2
<1>2. s[1] = b[1] /\ s[2] = b[2]
  BY <1>0, <1>1
<1>3. /\ SubSeq(s, 3, 4) = SubSeq(b, 3, 4)
      /\ SubSeq(s, 5, 8) = SubSeq(b, 5, 8)
      /\ SubSeq(s, 9, 12) = SubSeq(b, 9, 12)
  <2>1. ASSUME NEW m \in 1 .. 12, NEW n \in 1 .. 12
        PROVE  SubSeq(SubSeq(b, 1, 12), m, n) = SubSeq(b, m, n)
    <3>1. 1 \in 1 .. Len(b) /\ 12 \in 1 .. Len(b) /\ m \in 1 .. 12 - 1 + 1 /\ n \in 1 .. 12 - 1 + 1
      BY <1>0
    <3>2. SubSeq(SubSeq(b, 1, 12), m, n) = SubSeq(b, 1 + m - 1, 1 + n - 1)
      BY <3>1, SubSeqOfSubSeq
    <3>3. 1 + m - 1 = m /\ 1 + n - 1 = n
      OBVIOUS
    <3> QED
      BY <3>2, <3>3
  <2> QED
    BY <1>1, <2>1
<1>4. CSRCCountOf(s) = CSRCCountOf(b)
  BY <1>2 DEF CSRCCountOf
<1>5. /\ IsStage(r)
      /\ r.err = IF s[1] \div 64 # 2 THEN "InvalidVersion"
                 ELSE IF Len(b) < r.min THEN "PacketSizeNotEnough" ELSE NoError
      /\ s[1] \div 64 = 2 =>
           /\ r.rest = CutFrom(cs, MinHeader)
           /\ r.min = MinHeader + 4 * CSRCCountOf(s) + Flag(h.extension, 4) + Flag(h.padding, 1)
           /\ h.version = 2
           /\ h.padding = ((s[1] \div 32) % 2 = 1)
           /\ h.extension = ((s[1] \div 16) % 2 = 1)
           /\ h.marker = (s[2] >= 128) /\ h.payloadType = s[2] % 128
           /\ h.seq = Get16(SubSeq(s, 3, 4))
           /\ h.timestamp = SubSeq(s, 5, 8) /\ h.ssrc = SubSeq(s, 9, 12)
  BY BaseFields
<1> HIDE DEF r, s
<1>6. CASE b[1] \div 64 = 2
  <2>1. /\ h.padding = HasPadding(b) /\ h.extension = HasExtension(b)
        /\ h.version = 2
        /\ h.marker = (b[2] >= 128) /\ h.payloadType = b[2] % 128
    BY <1>2, <1>5, <1>6 DEF HasPadding, HasExtension
  <2>2. r.min = LeastSize(b)
    BY <1>2, <1>4, <1>5, <1>6, <2>1 DEF LeastSize, CSRCEnd
  <2>3. ShowsBase(h, b)
    BY <1>2, <1>3, <1>5, <1>6, <2>1 DEF ShowsBase, IsStage
  <2> QED
    BY <1>1, <1>2, <1>5, <1>6, <2>2, <2>3 DEF r
<1>7. CASE b[1] \div 64 # 2
  BY <1>2, <1>5, <1>7 DEF r
<1> QED
  BY <1>6, <1>7

\* The numbers of a packet that is as long as its first byte asks for.
LEMMA Places ==
  ASSUME NEW b \in Seq(Byte), Len(b) >= MinHeader
  PROVE  /\ MinHeader = 12 /\ Len(b) \in Nat /\ b # <<>>
         /\ CSRCCountOf(b) \in 0 .. 15 /\ CSRCEnd(b) \in Nat /\ CSRCEnd(b) >= 12
         /\ CSRCEnd(b) = 12 + 4 * CSRCCountOf(b)
         /\ Len(b) >= LeastSize(b) => CSRCEnd(b) <= Len(b)
         /\ Len(b) >= LeastSize(b) /\ HasExtension(b) =>
              /\ CSRCEnd(b) + 4 <= Len(b) /\ ExtCount(b) \in Nat
         /\ Len(b) >= LeastSize(b) => HeaderEnd(b) \in Nat /\ HeaderEnd(b) >= CSRCEnd(b)
         /\ b[Len(b)] \in 0 .. 255
<1>1. MinHeader = 12 /\ Len(b) \in Nat /\ b # <<>>
  BY DEF MinHeader
<1>2. CSRCCountOf(b) \in 0 .. 15 /\ CSRCEnd(b) \in MinHeader .. MinHeader + 60
  BY <1>1, CountIsSmall
<1>3. CSRCEnd(b) \in Nat /\ CSRCEnd(b) >= 12
  <2>1. ASSUME NEW x \in MinHeader .. MinHeader + 60 PROVE x \in Nat /\ x >= 12
    BY DEF MinHeader
  <2> QED
    BY <1>2, <2>1
<1>4. /\ LeastSize(b) >= CSRCEnd(b)
      /\ HasExtension(b) => LeastSize(b) >= CSRCEnd(b) + 4
      /\ LeastSize(b) \in Nat
  <2> DEFINE c == CSRCEnd(b)
  <2>1. c \in Nat
    BY <1>3
  <2>2. LeastSize(b) = c + (IF HasExtension(b) THEN 4 ELSE 0) + (IF HasPadding(b) THEN 1 ELSE 0)
    BY DEF LeastSize, Flag
  <2> HIDE DEF c
  <2>3. /\ LeastSize(b) >= c
        /\ HasExtension(b) => LeastSize(b) >= c + 4
        /\ LeastSize(b) \in Nat
    BY <2>1, <2>2
  <2> QED
    BY <2>3 DEF c
<1>5. ASSUME Len(b) >= LeastSize(b), HasExtension(b)
      PROVE  CSRCEnd(b) + 4 <= Len(b) /\ ExtCount(b) \in Nat
  <2>1. CSRCEnd(b) + 4 <= Len(b)
    BY <1>1, <1>3, <1>4, <1>5
  <2> QED
    BY <1>1, <2>1, ExtCountIsNat
<1>6. ASSUME Len(b) >= LeastSize(b)
      PROVE  HeaderEnd(b) \in Nat /\ HeaderEnd(b) >= CSRCEnd(b)
  <2>1. CASE HasExtension(b)
    <3>1. ExtCount(b) \in Nat
      BY <1>5, <1>6, <2>1
    <3>2. HeaderEnd(b) = CSRCEnd(b) + (4 + 4 * ExtCount(b))
      BY <2>1 DEF HeaderEnd
    <3> QED
      BY <1>3, <3>1, <3>2
  <2>2. CASE ~HasExtension(b)
    <3>1. HeaderEnd(b) = CSRCEnd(b) + 0
      BY <2>2 DEF HeaderEnd
    <3> QED
      BY <1>3, <3>1
  <2> QED
    BY <2>1, <2>2
<1>7. b[Len(b)] \in 0 .. 255
  <2>1. Len(b) \in 1 .. Len(b)
    BY <1>1
  <2> QED
    BY <2>1, Bytes
<1>8. CSRCEnd(b) = 12 + 4 * CSRCCountOf(b)
  BY <1>1 DEF CSRCEnd
<1>9. Len(b) >= LeastSize(b) => CSRCEnd(b) <= Len(b)
  BY <1>1, <1>3, <1>4
<1> QED
  BY <1>1, <1>2, <1>3, <1>5, <1>6, <1>7, <1>8, <1>9

\* Numbers of sixteen bits.
LEMMA BelowUInt16 ==
  ASSUME NEW x \in Nat, x < UInt16 PROVE x \in 0 .. UInt16 - 1 /\ UInt16 \in Nat \ {0}
BY Width

\* A stage that leaves the fixed header alone leaves it as it shows.
LEMMA StillBase ==
  ASSUME NEW h, NEW g, NEW b, BaseAlike(h, g), ShowsBase(h, b)
  PROVE  ShowsBase(g, b)
BY DEF BaseAlike, ShowsBase

\* The second stage, of bytes in whatever chunks.
LEMMA CSRCShows ==
  ASSUME NEW b \in Seq(Byte), Len(b) >= MinHeader, Len(b) >= LeastSize(b),
         NEW cs, Remains(cs, b, 0),
         NEW r, IsStage(r), r.err = NoError, r.min = LeastSize(b),
         Remains(r.rest, b, MinHeader), ShowsBase(r.layer, b)
  PROVE  LET s == ParseCSRC(r, CSRCCountOf(Slice(cs, 1)))
         IN  /\ IsStage(s) /\ s.err = NoError /\ s.min = LeastSize(b)
             /\ Remains(s.rest, b, CSRCEnd(b)) /\ ShowsBase(s.layer, b)
             /\ s.layer.csrcList = Words(SubSeq(b, MinHeader + 1, CSRCEnd(b)))
<1> DEFINE count == CSRCCountOf(b)
           s == ParseCSRC(r, count)
<1>1. CSRCCountOf(Slice(cs, 1)) = count
  <2>1. 0 + 1 <= Len(b) /\ 0 \in Nat /\ 1 \in Nat /\ 0 + 1 = 1
    BY Places
  <2>2. Slice(cs, 1) = SubSeq(b, 0 + 1, 0 + 1)
    BY <2>1, Cuts
  <2>3. SubSeq(b, 1, 1)[1] = b[1]
    BY <2>1
  <2> QED
    BY <2>1, <2>2, <2>3 DEF CSRCCountOf
<1>2. (4 * count) % UInt8 = 4 * count /\ 4 * count \in Nat
  <2>1. count \in 0 .. 15
    BY Places
  <2> HIDE DEF count
  <2>2. 4 * count \in 0 .. UInt8 - 1 /\ UInt8 \in Nat \ {0} /\ 4 * count \in Nat
    BY <2>1 DEF UInt8
  <2> QED
    BY <2>2, Small
<1>3. MinHeader + 4 * count = CSRCEnd(b) /\ CSRCEnd(b) <= Len(b) /\ MinHeader \in Nat
  BY Places
<1>4. /\ Slice(r.rest, 4 * count) = SubSeq(b, MinHeader + 1, CSRCEnd(b))
      /\ Remains(CutFrom(r.rest, 4 * count), b, CSRCEnd(b))
  <2> HIDE DEF count
  <2>1. /\ Slice(r.rest, 4 * count) = SubSeq(b, MinHeader + 1, MinHeader + 4 * count)
        /\ Remains(CutFrom(r.rest, 4 * count), b, MinHeader + 4 * count)
    BY <1>2, <1>3, Cuts
  <2> QED
    BY <1>3, <2>1
<1>5. /\ IsStage(s) /\ BaseAlike(r.layer, s.layer)
      /\ s.err = r.err /\ s.min = r.min
      /\ s.rest = CutFrom(r.rest, 4 * count)
      /\ s.layer.csrcList = Words(Slice(r.rest, 4 * count))
  BY <1>2, CSRCFields
<1> HIDE DEF s, count
<1>6. ShowsBase(s.layer, b)
  BY <1>5, StillBase
<1> QED
  BY <1>1, <1>4, <1>5, <1>6 DEF s

\* The third stage: the extension, if there is one.
LEMMA ExtensionShows ==
  ASSUME NEW b \in Seq(Byte), Len(b) >= MinHeader, Len(b) >= LeastSize(b), Len(b) < UInt16,
         NEW r, IsStage(r), r.err = NoError, r.min = LeastSize(b),
         Remains(r.rest, b, CSRCEnd(b)), ShowsBase(r.layer, b),
         r.layer.csrcList = Words(SubSeq(b, MinHeader + 1, CSRCEnd(b)))
  PROVE  LET s == ParseExtension(r, Len(b))
             min == HeaderEnd(b) + Flag(HasPadding(b), 1)
         IN  /\ IsStage(s) /\ ShowsBase(s.layer, b)
             /\ s.err = IF HasExtension(b) /\ Len(b) < min THEN "PacketSizeNotEnough" ELSE NoError
             /\ s.err = NoError => /\ s.min = min /\ min <= Len(b)
                                   /\ Remains(s.rest, b, HeaderEnd(b)) /\ ShowsWords(s.layer, b)
<1> DEFINE n == Len(b)
           e == CSRCEnd(b)
           s == ParseExtension(r, n)
           min == HeaderEnd(b) + Flag(HasPadding(b), 1)
           t == Slice(r.rest, 4)
           count == Get16(SubSeq(t, 3, 4))
           body == CutFrom(r.rest, 4)
           pad == Flag(HasPadding(b), 1)
<1>0. /\ MinHeader = 12 /\ n \in Nat /\ e \in Nat /\ e >= 12 /\ e <= n
      /\ HeaderEnd(b) \in Nat /\ HeaderEnd(b) >= e /\ pad \in {0, 1}
      /\ r.layer.extension = HasExtension(b)
  BY Places DEF ShowsBase, Flag
<1>1. /\ IsStage(s) /\ BaseAlike(r.layer, s.layer)
      /\ s.layer.csrcList = r.layer.csrcList
      /\ ~r.layer.extension => s = r
      /\ r.layer.extension =>
           /\ s.min = r.min + 4 * count
           /\ s.err = IF n < s.min THEN "PacketSizeNotEnough" ELSE NoError
           /\ ~(n < s.min) =>
                /\ s.rest = CutFrom(body, (4 * count) % UInt16)
                /\ s.layer.profile = SubSeq(t, 1, 2)
                /\ s.layer.extContents = Words(Slice(body, (4 * count) % UInt16))
  BY ExtensionFields
<1>2. ShowsBase(s.layer, b)
  BY <1>1, StillBase
<1>3. CASE ~HasExtension(b)
  <2>1. s = r /\ HeaderEnd(b) = e + 0 /\ LeastSize(b) = e + 0 + pad
    BY <1>0, <1>1, <1>3 DEF HeaderEnd, LeastSize, Flag
  <2>2. HeaderEnd(b) = e /\ LeastSize(b) = min /\ min <= n
    <3> HIDE DEF n, e, pad
    <3>1. HeaderEnd(b) = e /\ LeastSize(b) = e + pad
      BY <1>0, <2>1
    <3> QED
      BY <3>1 DEF pad, n
  <2>3. ShowsWords(s.layer, b)
    BY <1>3, <2>1 DEF ShowsWords
  <2> QED
    BY <1>1, <1>2, <1>3, <2>1, <2>2, <2>3
<1>4. CASE HasExtension(b)
  <2>1. e + 4 <= n /\ ExtCount(b) \in Nat
    BY <1>4, Places
  <2>2. t = SubSeq(b, e + 1, e + 4) /\ Remains(body, b, e + 4)
    <3>1. e \in Nat /\ 4 \in Nat /\ e + 4 <= Len(b) /\ Remains(r.rest, b, e)
      BY <1>0, <2>1
    <3> HIDE DEF e
    <3> QED
      BY <3>1, Cuts
  <2>3. SubSeq(t, 3, 4) = SubSeq(b, e + 3, e + 4) /\ SubSeq(t, 1, 2) = SubSeq(b, e + 1, e + 2)
    <3> HIDE DEF e, n, t
    <3>1. /\ e + 1 \in 1 .. n /\ e + 4 \in 1 .. n
          /\ (e + 4) - (e + 1) + 1 = 4
          /\ e + 1 + 3 - 1 = e + 3 /\ e + 1 + 4 - 1 = e + 4
          /\ e + 1 + 1 - 1 = e + 1 /\ e + 1 + 2 - 1 = e + 2
      BY <1>0, <2>1
    <3>2. ASSUME NEW i \in 1 .. 4, NEW j \in 1 .. 4
          PROVE  SubSeq(SubSeq(b, e + 1, e + 4), i, j) = SubSeq(b, e + 1 + i - 1, e + 1 + j - 1)
      <4>1. e + 1 \in 1 .. Len(b) /\ e + 4 \in 1 .. Len(b)
        BY <3>1 DEF n
      <4>2. i \in 1 .. (e + 4) - (e + 1) + 1 /\ j \in 1 .. (e + 4) - (e + 1) + 1
        BY <3>1
      <4> DEFINE p == e + 1
                 q == e + 4
      <4> HIDE DEF p, q
      <4>4. p \in 1 .. Len(b) /\ q \in 1 .. Len(b)
        BY <4>1 DEF p, q
      <4>5. i \in 1 .. q - p + 1 /\ j \in 1 .. q - p + 1
        BY <4>2 DEF p, q
      <4>3. SubSeq(SubSeq(b, p, q), i, j) = SubSeq(b, p + i - 1, p + j - 1)
        BY <4>4, <4>5, SubSeqOfSubSeq
      <4> QED
        BY <4>3 DEF p, q
    <3>3. /\ SubSeq(t, 3, 4) = SubSeq(b, e + 1 + 3 - 1, e + 1 + 4 - 1)
          /\ SubSeq(t, 1, 2) = SubSeq(b, e + 1 + 1 - 1, e + 1 + 2 - 1)
      <4>1. 1 \in 1 .. 4 /\ 2 \in 1 .. 4 /\ 3 \in 1 .. 4 /\ 4 \in 1 .. 4
        OBVIOUS
      <4> QED
        BY <2>2, <3>2, <4>1, Zenon
    <3> QED
      BY <3>1, <3>3
  <2>4. count = ExtCount(b)
    BY <2>3 DEF ExtCount
  <2>5. LeastSize(b) = e + 4 + pad /\ HeaderEnd(b) = e + (4 + 4 * ExtCount(b))
    BY <1>4 DEF LeastSize, Flag, HeaderEnd
  <2> DEFINE k == 4 * ExtCount(b)
  <2>6. k \in Nat /\ HeaderEnd(b) = e + 4 + k /\ LeastSize(b) + k = HeaderEnd(b) + pad
    <3>1. k \in Nat
      BY <2>1
    <3> HIDE DEF e, pad
    <3>2. LeastSize(b) = e + 4 + pad /\ HeaderEnd(b) = e + (4 + k)
      BY <2>5 DEF e, pad
    <3> HIDE DEF k
    <3> QED
      BY <1>0, <3>1, <3>2
  <2>7. s.min = min
    BY <1>0, <1>1, <1>4, <2>4, <2>6
  <2> HIDE DEF s, n, t, count, body
  <2>8. s.err = IF n < min THEN "PacketSizeNotEnough" ELSE NoError
    BY <1>0, <1>1, <1>4, <2>7
  <2>9. ASSUME ~(n < min)
        PROVE  Remains(s.rest, b, HeaderEnd(b)) /\ ShowsWords(s.layer, b) /\ min <= n
    <3>1. e + 4 + k <= n /\ k < UInt16 /\ min <= n
      <4> HIDE DEF e, k
      <4>1. n < UInt16
        BY DEF n
      <4>3. HeaderEnd(b) + pad <= n
        BY <1>0, <2>9
      <4>2. HeaderEnd(b) + pad <= n /\ HeaderEnd(b) = e + 4 + k
        BY <2>6, <4>3 DEF k
      <4> HIDE DEF pad
      <4> QED
        BY <1>0, <2>6, <4>1, <4>2 DEF UInt16, pad
    <3>2. (4 * count) % UInt16 = k
      <4>1. k \in 0 .. UInt16 - 1 /\ UInt16 \in Nat \ {0}
        <5>1. k \in Nat /\ k < UInt16
          BY <2>6, <3>1
        <5> QED
          BY <5>1, BelowUInt16
      <4> HIDE DEF k
      <4>2. k % UInt16 = k
        BY <4>1, Small
      <4> QED
        BY <2>4, <4>2 DEF k
    <3>3. /\ Slice(body, k) = SubSeq(b, e + 4 + 1, e + 4 + k)
          /\ Remains(CutFrom(body, k), b, e + 4 + k)
      <4> HIDE DEF k, e
      <4>1. e + 4 \in Nat /\ k \in Nat /\ e + 4 + k <= Len(b)
        BY <1>0, <2>6, <3>1 DEF n, k
      <4> QED
        BY <2>2, <4>1, Cuts DEF n
    <3>4. /\ s.rest = CutFrom(body, k)
          /\ s.layer.profile = SubSeq(t, 1, 2)
          /\ s.layer.extContents = Words(Slice(body, k))
      BY <1>0, <1>1, <1>4, <2>7, <2>9, <3>2
    <3>5. e + 4 + 1 = e + 5
      BY <1>0
    <3>6. ShowsWords(s.layer, b)
      BY <1>1, <2>3, <2>6, <3>3, <3>4, <3>5 DEF ShowsWords
    <3> QED
      BY <2>6, <3>1, <3>3, <3>4, <3>6
  <2> QED
    BY <1>1, <1>2, <1>4, <2>7, <2>8, <2>9 DEF s, n, NoError
<1> QED
  BY <1>3, <1>4

\* Dropping nothing.
LEMMA DropNone == ASSUME NEW S, NEW s \in Seq(S) PROVE Drop(s, 0) = s
<1>1. 0 + 1 = 1
  OBVIOUS
<1> QED
  BY <1>1, SubSeqFull DEF Drop

\* The fourth stage: the padding, by the last byte of all.
LEMMA PaddingShows ==
  ASSUME NEW b \in Seq(Byte), Len(b) >= MinHeader, Len(b) >= LeastSize(b),
         NEW cs, FlattenSeq(cs) = b,
         NEW r, IsStage(r), r.err = NoError, r.min = HeaderEnd(b) + Flag(HasPadding(b), 1),
         r.min <= Len(b), ShowsBase(r.layer, b), ShowsWords(r.layer, b)
  PROVE  LET s == ParsePadding(r, cs, Len(b))
         IN  /\ IsStage(s) /\ ShowsBase(s.layer, b) /\ ShowsWords(s.layer, b)
             /\ s.rest = r.rest
             /\ s.err = IF HasPadding(b) /\ b[Len(b)] = 0 THEN "ZeroPaddingLength"
                        ELSE IF HasPadding(b) /\ Len(b) < HeaderEnd(b) + b[Len(b)]
                        THEN "PacketSizeNotEnough" ELSE NoError
             /\ s.err = NoError => /\ s.min = HeaderEnd(b) + PaddingAt(b) /\ s.min <= Len(b)
                                   /\ HasPadding(b) => s.layer.paddingLength = b[Len(b)]
<1> DEFINE n == Len(b)
           s == ParsePadding(r, cs, n)
           e == HeaderEnd(b)
           k == b[n]
<1>0. n \in Nat /\ e \in Nat /\ k \in 0 .. 255 /\ r.layer.padding = HasPadding(b)
  BY Places DEF ShowsBase
<1>1. /\ IsStage(s) /\ HeadAlike(r.layer, s.layer) /\ s.rest = r.rest
      /\ ~HasPadding(b) => s = r
      /\ HasPadding(b) =>
           /\ k = 0 => s.err = "ZeroPaddingLength"
           /\ k # 0 => /\ s.min = r.min + k - 1
                       /\ s.err = IF n < s.min THEN "PacketSizeNotEnough" ELSE NoError
           /\ s.layer.paddingLength = k
  BY <1>0, PaddingFields
<1> HIDE DEF s
<1>2. ShowsBase(s.layer, b) /\ ShowsWords(s.layer, b)
  <2>1. BaseAlike(r.layer, s.layer)
    BY <1>1 DEF HeadAlike
  <2>2. ShowsBase(s.layer, b)
    BY <2>1, StillBase
  <2>3. ShowsWords(s.layer, b)
    BY <1>1 DEF HeadAlike, ShowsWords
  <2> QED
    BY <2>2, <2>3
<1>3. CASE ~HasPadding(b)
  <2>1. s = r /\ r.min = e + 0 /\ PaddingAt(b) = 0
    BY <1>1, <1>3 DEF Flag, PaddingAt
  <2> QED
    BY <1>1, <1>2, <1>3, <2>1 DEF s
<1>4. CASE HasPadding(b)
  <2>1. r.min = e + 1 /\ PaddingAt(b) = k
    BY <1>4 DEF Flag, PaddingAt
  <2>2. CASE k = 0
    <3>1. s.err = "ZeroPaddingLength"
      BY <1>1, <1>4, <2>2
    <3> QED
      BY <1>1, <1>2, <1>4, <2>2, <3>1 DEF s, NoError
  <2>3. CASE k # 0
    <3>1. s.min = r.min + k - 1 /\ s.err = IF n < s.min THEN "PacketSizeNotEnough" ELSE NoError
      BY <1>1, <1>4, <2>3
    <3>2. s.min = e + k
      <4> HIDE DEF e, k
      <4>1. e + 1 + k - 1 = e + k
        BY <1>0
      <4> QED
        BY <2>1, <3>1, <4>1
    <3>3. s.err = IF n < e + k THEN "PacketSizeNotEnough" ELSE NoError
      BY <3>1, <3>2
    <3>4. s.err = NoError => s.min <= n
      <4>1. "PacketSizeNotEnough" # NoError
        BY DEF NoError
      <4> HIDE DEF e, k, n
      <4>2. e + k \in Int
        BY <1>0
      <4> QED
        BY <1>0, <3>2, <3>3, <4>1, <4>2
    <3>5. s.layer.paddingLength = k
      BY <1>1, <1>4
    <3> QED
      BY <1>1, <1>2, <1>4, <2>1, <2>3, <3>2, <3>3, <3>4, <3>5 DEF s
  <2> QED
    BY <2>2, <2>3
<1> QED
  BY <1>3, <1>4

\* The last stage: the payload is what is between.
LEMMA PayloadShows ==
  ASSUME NEW b \in Seq(Byte), Len(b) >= MinHeader, Len(b) >= LeastSize(b),
         NEW r, IsStage(r), r.err = NoError, r.min = HeaderEnd(b) + PaddingAt(b),
         r.min <= Len(b), ShowsBase(r.layer, b), ShowsWords(r.layer, b),
         HasPadding(b) => r.layer.paddingLength = b[Len(b)],
         Remains(r.rest, b, HeaderEnd(b))
  PROVE  LET s == ParsePayload(r, Len(b))
         IN  IsStage(s) /\ s.err = NoError /\ Shows(s.layer, b)
<1> DEFINE n == Len(b)
           s == ParsePayload(r, n)
           e == HeaderEnd(b)
           k == PaddingAt(b)
           m == n - r.min
<1>0. n \in Nat /\ e \in Nat /\ k \in Nat
  <2>1. n \in Nat /\ e \in Nat /\ b[n] \in 0 .. 255
    BY Places
  <2>2. k = b[n] \/ k = 0
    BY DEF PaddingAt
  <2>3. b[n] \in Nat
    <3>1. ASSUME NEW x \in 0 .. 255 PROVE x \in Nat
      OBVIOUS
    <3> QED
      BY <2>1, <3>1
  <2>4. 0 \in Nat
    OBVIOUS
  <2> HIDE DEF k, e, n
  <2> QED
    BY <2>1, <2>2, <2>3, <2>4, Zenon
<1>1. /\ IsStage(s) /\ HeadAlike(r.layer, s.layer) /\ s.err = r.err
      /\ s.layer.paddingLength = r.layer.paddingLength
      /\ s.layer.payload = CutTo(r.rest, m)
  BY PayloadFields
<1>2. m \in Nat /\ e + m = n - k /\ e + m <= n
  <2>1. r.min = e + k /\ e + k <= n
    OBVIOUS
  <2> HIDE DEF e, k, n
  <2> QED
    BY <1>0, <2>1
<1>3. PayloadOf(s.layer) = SubSeq(b, e + 1, n - k)
  <2>1. Remains(r.rest, b, e) /\ e + m <= Len(b)
    BY <1>2
  <2>2. FlattenSeq(CutTo(r.rest, m)) = SubSeq(b, e + 1, e + m)
    <3> HIDE DEF e, m
    <3> QED
      BY <1>0, <1>2, <2>1, Cuts
  <2> QED
    BY <1>1, <1>2, <2>2 DEF PayloadOf
<1>4. ShowsBase(s.layer, b) /\ ShowsWords(s.layer, b)
  <2>1. BaseAlike(r.layer, s.layer)
    BY <1>1 DEF HeadAlike
  <2>2. ShowsBase(s.layer, b)
    BY <2>1, StillBase
  <2>3. ShowsWords(s.layer, b)
    BY <1>1 DEF HeadAlike, ShowsWords
  <2> QED
    BY <2>2, <2>3
<1> HIDE DEF s
<1>5. Shows(s.layer, b)
  BY <1>1, <1>3, <1>4 DEF Shows
<1> QED
  BY <1>1, <1>5 DEF s

\* UnmarshalChunks fails as the bytes alone decide, and otherwise leaves the layer
\* showing them: neither the chunks nor what the layer was matter.
LEMMA Unmarshalled ==
  ASSUME NEW l, IsLayer(l), NEW b \in Seq(Byte), Len(b) < UInt16,
         NEW cs \in Seq(Seq(Byte)), FlattenSeq(cs) = b
  PROVE  LET r == UnmarshalChunks(l, cs)
         IN  /\ IsLayer(r.layer)
             /\ r.err = ErrOf(b)
             /\ r.err = NoError => Shows(r.layer, b)
<1> DEFINE n == Len(b)
           base == ParseBaseHeader(l, cs, n)
           csrc == ParseCSRC(base, CSRCCountOf(Slice(cs, 1)))
           ext == ParseExtension(csrc, n)
           pad == ParsePadding(ext, cs, n)
           last == ParsePayload(pad, n)
           r == UnmarshalChunks(l, cs)
<1>1. r = IF n < MinHeader THEN Stage(l, cs, MinHeader, "PacketSizeNotEnough")
          ELSE IF base.err # NoError THEN base
          ELSE IF csrc.err # NoError THEN csrc
          ELSE IF ext.err # NoError THEN ext
          ELSE IF pad.err # NoError THEN pad
          ELSE last
  <2>1. Total(cs) = n
    BY DEF Total
  <2> QED
    BY <2>1, Stages
<1>2. n \in Nat /\ MinHeader \in Nat
  BY DEF MinHeader
<1>3. "PacketSizeNotEnough" # NoError /\ "InvalidVersion" # NoError /\ "ZeroPaddingLength" # NoError
  BY DEF NoError
<1>4. CASE n < MinHeader
  <2>1. r = Stage(l, cs, MinHeader, "PacketSizeNotEnough")
    BY <1>1, <1>4
  <2>2. r.layer = l /\ r.err = "PacketSizeNotEnough"
    BY <2>1 DEF Stage
  <2>3. ErrOf(b) = "PacketSizeNotEnough"
    BY <1>4 DEF ErrOf
  <2> QED
    BY <1>3, <2>2, <2>3
<1>5. CASE ~(n < MinHeader)
  <2>1. n >= MinHeader
    BY <1>2, <1>5
  <2>2. Remains(cs, b, 0)
    BY DropNone DEF Remains
  <2>3. /\ IsStage(base)
        /\ base.err = IF b[1] \div 64 # 2 THEN "InvalidVersion"
                      ELSE IF n < LeastSize(b) THEN "PacketSizeNotEnough" ELSE NoError
        /\ b[1] \div 64 = 2 =>
             /\ Remains(base.rest, b, MinHeader)
             /\ base.min = LeastSize(b) /\ ShowsBase(base.layer, b)
    BY <2>1, <2>2, BaseShows
  <2>4. LeastSize(b) \in Nat
    <3>1. CSRCEnd(b) \in Nat
      BY <2>1, Places
    <3> DEFINE c == CSRCEnd(b)
    <3> HIDE DEF c
    <3> QED
      BY <3>1 DEF LeastSize, Flag, c
  <2>5. CASE base.err # NoError
    <3>1. r = base
      BY <1>1, <1>5, <2>5
    <3>2. base.err = ErrOf(b)
      BY <1>5, <2>3, <2>5 DEF ErrOf
    <3> HIDE DEF base, r
    <3> QED
      BY <2>3, <2>5, <3>1, <3>2 DEF IsStage, r
  <2>6. CASE base.err = NoError
    <3>0. b[1] \div 64 = 2 /\ ~(n < LeastSize(b))
      BY <1>3, <2>3, <2>6
    <3>1. n >= LeastSize(b)
      BY <1>2, <2>4, <3>0
    <3>2. /\ IsStage(csrc) /\ csrc.err = NoError /\ csrc.min = LeastSize(b)
          /\ Remains(csrc.rest, b, CSRCEnd(b)) /\ ShowsBase(csrc.layer, b)
          /\ csrc.layer.csrcList = Words(SubSeq(b, MinHeader + 1, CSRCEnd(b)))
      <4>1. /\ IsStage(base) /\ base.err = NoError /\ base.min = LeastSize(b)
            /\ Remains(base.rest, b, MinHeader) /\ ShowsBase(base.layer, b)
        BY <2>3, <2>6, <3>0
      <4> HIDE DEF base
      <4> QED
        BY <2>1, <2>2, <3>1, <4>1, CSRCShows
    <3> DEFINE min == HeaderEnd(b) + Flag(HasPadding(b), 1)
    <3>3. /\ IsStage(ext) /\ ShowsBase(ext.layer, b)
          /\ ext.err = IF HasExtension(b) /\ n < min THEN "PacketSizeNotEnough" ELSE NoError
          /\ ext.err = NoError => /\ ext.min = min /\ min <= n
                                  /\ Remains(ext.rest, b, HeaderEnd(b)) /\ ShowsWords(ext.layer, b)
      <4> HIDE DEF csrc
      <4> QED
        BY <2>1, <3>1, <3>2, ExtensionShows
    <3>4. CASE ext.err # NoError
      <4>1. r = ext
        BY <1>1, <1>5, <2>6, <3>2, <3>4
      <4>2. ext.err = ErrOf(b)
        BY <1>5, <3>0, <3>3, <3>4 DEF ErrOf
      <4> HIDE DEF ext, r
      <4> QED
        BY <3>3, <3>4, <4>1, <4>2 DEF IsStage, r
    <3>5. CASE ext.err = NoError
      <4>0. ~(HasExtension(b) /\ n < min)
        BY <1>3, <3>3, <3>5
      <4>1. /\ IsStage(pad) /\ ShowsBase(pad.layer, b) /\ ShowsWords(pad.layer, b)
            /\ pad.rest = ext.rest
            /\ pad.err = IF HasPadding(b) /\ b[n] = 0 THEN "ZeroPaddingLength"
                         ELSE IF HasPadding(b) /\ n < HeaderEnd(b) + b[n]
                         THEN "PacketSizeNotEnough" ELSE NoError
            /\ pad.err = NoError => /\ pad.min = HeaderEnd(b) + PaddingAt(b) /\ pad.min <= n
                                    /\ HasPadding(b) => pad.layer.paddingLength = b[n]
        <5>1. /\ IsStage(ext) /\ ext.err = NoError /\ ext.min = min /\ ext.min <= n
              /\ ShowsBase(ext.layer, b) /\ ShowsWords(ext.layer, b)
          BY <3>3, <3>5
        <5> HIDE DEF ext
        <5> QED
          BY <2>1, <3>1, <5>1, PaddingShows
      <4>2. pad.err = ErrOf(b)
        BY <1>5, <3>0, <4>0, <4>1 DEF ErrOf
      <4>3. CASE pad.err # NoError
        <5>1. r = pad
          BY <1>1, <1>5, <2>6, <3>2, <3>5, <4>3
        <5> HIDE DEF pad, r
        <5> QED
          BY <4>1, <4>2, <4>3, <5>1 DEF IsStage, r
      <4>4. CASE pad.err = NoError
        <5>1. r = last
          BY <1>1, <1>5, <2>6, <3>2, <3>5, <4>4
        <5>2. /\ pad.min = HeaderEnd(b) + PaddingAt(b) /\ pad.min <= Len(b)
              /\ HasPadding(b) => pad.layer.paddingLength = b[Len(b)]
              /\ Remains(pad.rest, b, HeaderEnd(b))
          BY <3>3, <3>5, <4>1, <4>4
        <5>3. IsStage(last) /\ last.err = NoError /\ Shows(last.layer, b)
          <6> HIDE DEF pad
          <6> QED
            BY <2>1, <3>1, <4>1, <4>4, <5>2, PayloadShows
        <5> HIDE DEF last, r, pad
        <5> QED
          BY <4>2, <4>4, <5>1, <5>3 DEF IsStage, r
      <4> QED
        BY <4>3, <4>4
    <3> QED
      BY <3>4, <3>5
  <2> QED
    BY <2>5, <2>6
<1> QED
  BY <1>4, <1>5

(* ---------------------------- what is written ------------------------- *)

\* Bytes that begin with others.
Starts(s, b) == Len(s) <= Len(b) /\ \A i \in 1 .. Len(s) : b[i] = s[i]

\* Two sequences one after the other.
LEMMA CatType ==
  ASSUME NEW S, NEW s \in Seq(S), NEW t \in Seq(S)
  PROVE  Cat(s, t) \in Seq(S) /\ Len(Cat(s, t)) = Len(s) + Len(t)
BY DEF Cat

\* If b starts with s and t, it starts with s and t comes next.
LEMMA StartsPiece ==
  ASSUME NEW S, NEW b \in Seq(S), NEW s \in Seq(S), NEW t \in Seq(S), Starts(Cat(s, t), b)
  PROVE  /\ Starts(s, b) /\ SubSeq(b, Len(s) + 1, Len(s) + Len(t)) = t
         /\ Len(s) + Len(t) <= Len(b)
<1> DEFINE a == Cat(s, t)
           p == SubSeq(b, Len(s) + 1, Len(s) + Len(t))
<1>0. Len(s) \in Nat /\ Len(t) \in Nat /\ Len(b) \in Nat
  OBVIOUS
<1>1. /\ a \in Seq(S) /\ Len(a) = Len(s) + Len(t)
      /\ \A i \in 1 .. Len(s) + Len(t) : a[i] = IF i <= Len(s) THEN s[i] ELSE t[i - Len(s)]
  BY ConcatProperties DEF Cat
<1>2. Len(a) <= Len(b) /\ \A i \in 1 .. Len(a) : b[i] = a[i]
  BY DEF Starts
<1> HIDE DEF a
<1>3. Len(s) + Len(t) <= Len(b)
  BY <1>1, <1>2
<1>4. Starts(s, b)
  <2>1. Len(s) <= Len(b)
    BY <1>0, <1>3
  <2>2. ASSUME NEW i \in 1 .. Len(s) PROVE b[i] = s[i]
    <3>1. i \in 1 .. Len(s) + Len(t) /\ i <= Len(s)
      BY <1>0
    <3> QED
      BY <1>1, <1>2, <3>1
  <2> QED
    BY <2>1, <2>2 DEF Starts
<1>5. p \in Seq(S) /\ Len(p) = Len(t) /\ \A i \in 1 .. Len(t) : p[i] = t[i]
  <2> DEFINE m == Len(s)
             n == Len(t)
  <2>0. m \in Nat /\ n \in Nat /\ m + n <= Len(b)
    BY <1>0, <1>3
  <2>1. \A i \in m + 1 .. m + n : b[i] \in S
    <3>1. ASSUME NEW i \in m + 1 .. m + n PROVE i \in 1 .. Len(b)
      BY <1>0, <2>0
    <3> QED
      BY <3>1, ElementOfSeq
  <2> HIDE DEF m, n
  <2>2. m + 1 \in Int /\ m + n \in Int
    BY <2>0
  <2> DEFINE x == m + 1
             y == m + n
  <2>6. x \in Int /\ y \in Int /\ (\A i \in x .. y : b[i] \in S)
    BY <2>1, <2>2
  <2> HIDE DEF x, y
  <2>7. /\ SubSeq(b, x, y) \in Seq(S)
        /\ Len(SubSeq(b, x, y)) = IF x <= y THEN y - x + 1 ELSE 0
        /\ \A i \in 1 .. y - x + 1 : SubSeq(b, x, y)[i] = b[x + i - 1]
    BY <2>6, SubSeqProperties
  <2>3. /\ SubSeq(b, m + 1, m + n) \in Seq(S)
        /\ Len(SubSeq(b, m + 1, m + n)) = IF m + 1 <= m + n THEN (m + n) - (m + 1) + 1 ELSE 0
        /\ \A i \in 1 .. (m + n) - (m + 1) + 1 : SubSeq(b, m + 1, m + n)[i] = b[m + 1 + i - 1]
    BY <2>7, Zenon DEF x, y
  <2>4. (m + n) - (m + 1) + 1 = n /\ (IF m + 1 <= m + n THEN n ELSE 0) = n
    BY <2>0
  <2>5. ASSUME NEW i \in 1 .. n PROVE SubSeq(b, m + 1, m + n)[i] = t[i]
    <3>1. m + 1 + i - 1 = m + i /\ m + i \in 1 .. m + n /\ ~(m + i <= m) /\ m + i - m = i
      BY <2>0
    <3>2. SubSeq(b, m + 1, m + n)[i] = b[m + i]
      BY <2>3, <2>4, <3>1
    <3>3. b[m + i] = a[m + i]
      BY <1>1, <1>2, <3>1 DEF m, n
    <3>4. a[m + i] = t[i]
      BY <1>1, <3>1 DEF m, n
    <3> QED
      BY <3>2, <3>3, <3>4
  <2> QED
    BY <2>3, <2>4, <2>5 DEF m, n
<1> HIDE DEF p
<1>6. p = t
  BY <1>5, SeqEqual
<1> QED
  BY <1>3, <1>4, <1>6 DEF p

\* A sequence starts with itself.
LEMMA StartsItself == ASSUME NEW S, NEW b \in Seq(S) PROVE Starts(b, b)
BY DEF Starts

Word == {w \in Seq(Byte) : Len(w) = 4}

\* Words written one after the other are read as they were.
LEMMA WordsOfFlat == \A ws \in Seq(Word) : Words(FlattenSeq(ws)) = ws
<1> DEFINE T == {ws \in Seq(Word) : Words(FlattenSeq(ws)) = ws}
<1>1. <<>> \in T
  <2>1. <<>> \in Seq(Word) /\ Len(<<>>) = 0
    OBVIOUS
  <2>2. Words(<<>>) = <<>>
    <3>1. 0 \div 4 = 0
      OBVIOUS
    <3>2. Words(<<>>) = [i \in 1 .. 0 |-> SubSeq(<<>>, 4 * i - 3, 4 * i)]
      BY <3>1 DEF Words
    <3> QED
      BY <3>2
  <2> QED
    BY <2>1, <2>2, FlattenNone, Zenon
<1>2. ASSUME NEW ws \in Seq(Word), NEW w \in Word, ws \in T PROVE Append(ws, w) \in T
  <2> DEFINE f == FlattenSeq(ws)
             k == Len(ws)
             all == Append(ws, w)
             b == Cat(f, w)
  <2>0. k \in Nat /\ w \in Seq(Byte) /\ Len(w) = 4 /\ ws \in Seq(Seq(Byte))
    <3>1. Word \subseteq Seq(Byte)
      BY DEF Word
    <3>2. ws \in Seq(Seq(Byte))
      BY <3>1, SeqMonotonic
    <3> QED
      BY <3>2 DEF Word
  <2>1. f \in Seq(Byte) /\ Len(f) = 4 * k
    <3>1. IsWordList(ws)
      <4>1. ASSUME NEW i \in DOMAIN ws PROVE IsWord(ws[i])
        BY DEF Word, IsWord
      <4> QED
        BY <2>0, <4>1 DEF IsWordList
    <3> QED
      BY <2>0, <3>1, FlattenType, WordsLength
  <2>2. FlattenSeq(all) = b
    BY <2>0, FlattenAppend DEF Cat
  <2>3. Words(f) = ws
    BY <1>2
  <2>4. all \in Seq(Word) /\ Len(all) = k + 1 /\ all[k + 1] = w
        /\ \A i \in 1 .. k : all[i] = ws[i]
    BY AppendProperties
  <2> HIDE DEF f, all, k
  <2>5. b \in Seq(Byte) /\ Len(b) = 4 * k + 4
    BY <2>0, <2>1, CatType
  <2>6. SubSeq(b, 4 * k + 1, 4 * k + 4) = w
    <3>1. Starts(Cat(f, w), b)
      BY <2>5, StartsItself
    <3> HIDE DEF b
    <3>2. SubSeq(b, Len(f) + 1, Len(f) + Len(w)) = w
      <4>1. b \in Seq(Byte) /\ f \in Seq(Byte) /\ w \in Seq(Byte)
        BY <2>0, <2>1, <2>5
      <4> QED
        BY <3>1, <4>1, StartsPiece
    <3> QED
      BY <2>0, <2>1, <3>2
  <2>7. ASSUME NEW i \in 1 .. k PROVE SubSeq(b, 4 * i - 3, 4 * i) = ws[i]
    <3>1. 4 * i - 3 \in 1 .. 4 * k /\ 4 * i \in 1 .. 4 * k
      BY <2>0
    <3>2. SubSeq(b, 4 * i - 3, 4 * i) = SubSeq(f, 4 * i - 3, 4 * i)
      BY <2>0, <2>1, <3>1, SubSeqOfConcat1 DEF Cat
    <3>3. Len(f) \div 4 = k
      <4>1. k * 4 + 0 = 4 * k /\ 0 \in 0 .. 4 - 1 /\ 4 \in Nat \ {0} /\ k \in Int
        BY <2>0
      <4>2. (k * 4 + 0) \div 4 = k
        BY <4>1, Division
      <4> QED
        BY <2>1, <4>1, <4>2
    <3>4. Words(f)[i] = SubSeq(f, 4 * i - 3, 4 * i)
      BY <3>3 DEF Words
    <3> QED
      BY <2>3, <3>2, <3>4
  <2>8. Len(b) \div 4 = k + 1
    <3>1. (k + 1) * 4 + 0 = 4 * k + 4 /\ 0 \in 0 .. 4 - 1 /\ 4 \in Nat \ {0} /\ k + 1 \in Int
      BY <2>0
    <3>2. ((k + 1) * 4 + 0) \div 4 = k + 1
      BY <3>1, Division
    <3> QED
      BY <2>5, <3>1, <3>2
  <2> HIDE DEF b
  <2>9. Words(b) = [i \in 1 .. k + 1 |-> SubSeq(b, 4 * i - 3, 4 * i)]
    BY <2>8 DEF Words
  <2>10. ASSUME NEW i \in 1 .. k + 1 PROVE SubSeq(b, 4 * i - 3, 4 * i) = all[i]
    <3>1. CASE i \in 1 .. k
      BY <2>4, <2>7, <3>1
    <3>2. CASE i = k + 1
      <4>1. 4 * i - 3 = 4 * k + 1 /\ 4 * i = 4 * k + 4
        BY <2>0, <3>2
      <4> QED
        BY <2>4, <2>6, <3>2, <4>1
    <3> QED
      BY <2>0, <3>1, <3>2
  <2>11. all = [i \in 1 .. k + 1 |-> all[i]]
    BY <2>4
  <2>12. Words(b) = all
    BY <2>9, <2>10, <2>11, Zenon
  <2>13. all \in T
    BY <2>2, <2>4, <2>12
  <2> QED
    BY <2>13 DEF all
<1> HIDE DEF T
<1>3. Seq(Word) \subseteq T
  BY <1>1, <1>2, SequenceInduction
<1> QED
  BY <1>3 DEF T

\* A number written in two bytes is read as it was.
LEMMA Put16AndBack ==
  ASSUME NEW n \in 0 .. UInt16 - 1
  PROVE  Put16(n) \in Seq(Byte) /\ Len(Put16(n)) = 2 /\ Get16(Put16(n)) = n
<1> DEFINE q == n \div 256
           r == n % 256
           s == q % 256
<1>1. n \in Nat /\ n < 65536
  BY DEF UInt16
<1>2. q \in Int /\ r \in 0 .. 255 /\ n = 256 * q + r
  BY <1>1
<1>3. q \in 0 .. 255
  <2> HIDE DEF q, r
  <2> QED
    BY <1>1, <1>2
<1>4. s = q
  BY <1>3, Small
<1>5. Put16(n) = <<q, r>>
  BY <1>4 DEF Put16
<1>6. q \in Byte /\ r \in Byte
  BY <1>2, <1>3 DEF Byte, UInt8
<1>7. q * 256 + r = n
  <2> HIDE DEF q, r
  <2> QED
    BY <1>1, <1>2, <1>3
<1> HIDE DEF q, r
<1> QED
  BY <1>5, <1>6, <1>7 DEF Get16

\* The last item of two sequences is that of the second.
LEMMA CatLast ==
  ASSUME NEW S, NEW s \in Seq(S), NEW t \in Seq(S), t # <<>>
  PROVE  Cat(s, t)[Len(s) + Len(t)] = t[Len(t)]
<1>1. Len(s) \in Nat /\ Len(t) \in Nat \ {0}
  OBVIOUS
<1>2. Len(s) + Len(t) \in 1 .. Len(s) + Len(t) /\ ~(Len(s) + Len(t) <= Len(s))
      /\ Len(s) + Len(t) - Len(s) = Len(t)
  BY <1>1
<1> QED
  BY <1>2, ConcatProperties DEF Cat

\* Padding is as long as its last byte says.
LEMMA PaddingBytes ==
  ASSUME NEW n \in 1 .. UInt8 - 1
  PROVE  Padding(n) \in Seq(Byte) /\ Len(Padding(n)) = n /\ Padding(n)[n] = n
<1> DEFINE F == CHOOSE f : f = [r \in 1 .. UInt8 |->
                   IF r <= WriteBufLen THEN Zeros(r - 1) \o <<n>>
                   ELSE Cat(Zeros(WriteBufLen), f[r - WriteBufLen])]
           Good(r) == F[r] \in Seq(Byte) /\ Len(F[r]) = r /\ F[r][r] = n
<1>0. UInt8 = 256 /\ WriteBufLen = 16 /\ n \in Byte /\ 0 \in Byte
  BY DEF UInt8, WriteBufLen, Byte
<1>1. Padding(n) = F[n]
  BY DEF Padding, Cat
<1>2. \E f : f = [r \in 1 .. UInt8 |->
                   IF r <= WriteBufLen THEN Zeros(r - 1) \o <<n>>
                   ELSE Cat(Zeros(WriteBufLen), f[r - WriteBufLen])]
  <2>1. UInt8 \in Nat
    BY <1>0
  <2> QED
    BY <2>1, PaddingExists
<1>3. F = [r \in 1 .. UInt8 |->
             IF r <= WriteBufLen THEN Zeros(r - 1) \o <<n>>
             ELSE Cat(Zeros(WriteBufLen), F[r - WriteBufLen])]
  BY <1>2
<1> HIDE DEF F
<1>4. \A r \in 1 .. UInt8 : F[r] = IF r <= WriteBufLen THEN Cat(Zeros(r - 1), <<n>>)
                                   ELSE Cat(Zeros(WriteBufLen), F[r - WriteBufLen])
  BY <1>3 DEF Cat
<1>5. ASSUME NEW k \in Nat PROVE Zeros(k) \in Seq(Byte) /\ Len(Zeros(k)) = k
  BY <1>0 DEF Zeros
<1> DEFINE U == {r \in 1 .. UInt8 : ~Good(r)}
<1>6. ASSUME NEW m \in 1 .. UInt8, \A k \in 1 .. UInt8 : k < m => Good(k) PROVE Good(m)
  <2>1. CASE m <= WriteBufLen
    <3> DEFINE last == <<n>>
               zeros == Zeros(m - 1)
    <3>1. F[m] = Cat(zeros, last) /\ m - 1 \in Nat /\ m \in Nat
      <4>1. F[m] = Cat(zeros, last)
        BY <1>4, <2>1
      <4>2. m - 1 \in Nat /\ m \in Nat
        BY <1>0
      <4> QED
        BY <4>1, <4>2
    <3>2. zeros \in Seq(Byte) /\ Len(zeros) = m - 1
      BY <1>5, <3>1
    <3>3. last \in Seq(Byte) /\ Len(last) = 1 /\ last[1] = n /\ last # <<>>
      BY <1>0
    <3> HIDE DEF last, zeros
    <3>4. Cat(zeros, last) \in Seq(Byte) /\ Len(Cat(zeros, last)) = m - 1 + 1
      BY <3>2, <3>3, CatType
    <3>5. Cat(zeros, last)[m - 1 + 1] = n
      BY <3>2, <3>3, CatLast
    <3>6. m - 1 + 1 = m
      BY <3>1
    <3> QED
      BY <3>1, <3>4, <3>5, <3>6
  <2>2. CASE ~(m <= WriteBufLen)
    <3> DEFINE zeros == Zeros(WriteBufLen)
               k == m - WriteBufLen
               rest == F[k]
    <3>1. k \in 1 .. UInt8 /\ k < m /\ WriteBufLen + k = m /\ WriteBufLen \in Nat /\ k \in Nat \ {0}
      BY <1>0, <2>2
    <3>2. F[m] = Cat(zeros, rest)
      BY <1>4, <2>2
    <3>3. rest \in Seq(Byte) /\ Len(rest) = k /\ rest[k] = n
      BY <1>6, <3>1
    <3>4. zeros \in Seq(Byte) /\ Len(zeros) = WriteBufLen
      BY <1>5, <3>1
    <3> HIDE DEF zeros, rest, k
    <3>5. rest # <<>>
      BY <3>1, <3>3
    <3>6. Cat(zeros, rest) \in Seq(Byte) /\ Len(Cat(zeros, rest)) = WriteBufLen + k
      BY <3>3, <3>4, CatType
    <3>7. Cat(zeros, rest)[WriteBufLen + k] = n
      BY <3>3, <3>4, <3>5, CatLast
    <3> QED
      BY <3>1, <3>2, <3>6, <3>7
  <2> QED
    BY <2>1, <2>2
<1>7. U = {}
  <2> SUFFICES ASSUME U # {} PROVE FALSE
    OBVIOUS
  <2>1. U \subseteq Nat
    <3>1. U \subseteq 1 .. UInt8
      OBVIOUS
    <3>2. 1 .. UInt8 \subseteq Nat
      BY <1>0
    <3> HIDE DEF U
    <3> QED
      BY <3>1, <3>2
  <2>2. PICK m \in U : \A k \in U : m <= k
    <3> HIDE DEF U
    <3> QED
      BY <2>1, Least
  <2>3. m \in 1 .. UInt8 /\ ~Good(m)
    OBVIOUS
  <2>4. ASSUME NEW k \in 1 .. UInt8, k < m PROVE Good(k)
    <3>1. k \notin U
      <4>1. k \in Nat /\ m \in Nat
        BY <1>0, <2>3
      <4> HIDE DEF U
      <4> QED
        BY <2>2, <2>4, <4>1
    <3> HIDE DEF Good
    <3> QED
      BY <3>1
  <2> HIDE DEF Good, U
  <2> QED
    BY <1>6, <2>3, <2>4
<1>8. n \in 1 .. UInt8 /\ n \notin U
  <2>1. n \in 1 .. UInt8
    BY DEF UInt8
  <2> HIDE DEF U
  <2> QED
    BY <1>7, <2>1
<1>9. Good(n)
  <2> HIDE DEF Good
  <2> QED
    BY <1>8
<1> QED
  BY <1>1, <1>9

\* The first byte, taken apart again.
Apart(f, p, x, c) == /\ f \in Byte /\ f \div 64 = 2 /\ f % 16 = c
                     /\ ((f \div 32) % 2 = 1) = p
                     /\ ((f \div 16) % 2 = 1) = x

\* The parts of the first byte are read as they were written.
LEMMA FirstByteAndBack ==
  ASSUME NEW p \in BOOLEAN, NEW x \in BOOLEAN, NEW c \in 0 .. MaxCSRC
  PROVE  Apart(64 * 2 + Flag(p, 32) + Flag(x, 16) + (c % 16), p, x, c)
<1> DEFINE f == 64 * 2 + Flag(p, 32) + Flag(x, 16) + (c % 16)
<1> SUFFICES Apart(f, p, x, c)
  OBVIOUS
<1>1. c \in 0 .. 15 /\ c % 16 = c
  <2>1. c \in 0 .. 16 - 1 /\ 16 \in Nat \ {0}
    BY DEF MaxCSRC
  <2> QED
    BY <2>1, Small
<1>2. ASSUME NEW y \in 0 .. 15
      PROVE  /\ (128 + 32 + 16 + y) \div 64 = 2 /\ (128 + 32 + 16 + y) % 16 = y
             /\ (128 + 32 + 16 + y) \div 32 = 5 /\ (128 + 32 + 16 + y) \div 16 = 11
             /\ (128 + 32 + y) \div 64 = 2 /\ (128 + 32 + y) % 16 = y
             /\ (128 + 32 + y) \div 32 = 5 /\ (128 + 32 + y) \div 16 = 10
             /\ (128 + 16 + y) \div 64 = 2 /\ (128 + 16 + y) % 16 = y
             /\ (128 + 16 + y) \div 32 = 4 /\ (128 + 16 + y) \div 16 = 9
             /\ (128 + y) \div 64 = 2 /\ (128 + y) % 16 = y
             /\ (128 + y) \div 32 = 4 /\ (128 + y) \div 16 = 8
  OBVIOUS
<1>3. 5 % 2 = 1 /\ 4 % 2 = 0 /\ 11 % 2 = 1 /\ 10 % 2 = 0 /\ 9 % 2 = 1 /\ 8 % 2 = 0
  OBVIOUS
<1>4. CASE p /\ x
  <2>1. f = 128 + 32 + 16 + c
    BY <1>1, <1>4 DEF Flag
  <2>2. f \in Byte
    BY <1>1, <2>1 DEF Byte, UInt8
  <2> HIDE DEF f
  <2>3. f \div 64 = 2 /\ f % 16 = c /\ f \div 32 = 5 /\ f \div 16 = 11
    BY <1>1, <1>2, <2>1
  <2>4. ((f \div 32) % 2 = 1 <=> p) /\ ((f \div 16) % 2 = 1 <=> x)
    BY <1>3, <1>4, <2>3
  <2>5. (((f \div 32) % 2 = 1) = p) /\ (((f \div 16) % 2 = 1) = x)
    BY <2>4, Zenon
  <2> QED
    BY <2>2, <2>3, <2>5 DEF Apart
<1>5. CASE p /\ ~x
  <2>1. f = 128 + 32 + c
    BY <1>1, <1>5 DEF Flag
  <2>2. f \in Byte
    BY <1>1, <2>1 DEF Byte, UInt8
  <2> HIDE DEF f
  <2>3. f \div 64 = 2 /\ f % 16 = c /\ f \div 32 = 5 /\ f \div 16 = 10
    BY <1>1, <1>2, <2>1
  <2>4. ((f \div 32) % 2 = 1 <=> p) /\ ((f \div 16) % 2 = 1 <=> x)
    BY <1>3, <1>5, <2>3
  <2>5. (((f \div 32) % 2 = 1) = p) /\ (((f \div 16) % 2 = 1) = x)
    BY <2>4, Zenon
  <2> QED
    BY <2>2, <2>3, <2>5 DEF Apart
<1>6. CASE ~p /\ x
  <2>1. f = 128 + 16 + c
    BY <1>1, <1>6 DEF Flag
  <2>2. f \in Byte
    BY <1>1, <2>1 DEF Byte, UInt8
  <2> HIDE DEF f
  <2>3. f \div 64 = 2 /\ f % 16 = c /\ f \div 32 = 4 /\ f \div 16 = 9
    BY <1>1, <1>2, <2>1
  <2>4. ((f \div 32) % 2 = 1 <=> p) /\ ((f \div 16) % 2 = 1 <=> x)
    BY <1>3, <1>6, <2>3
  <2>5. (((f \div 32) % 2 = 1) = p) /\ (((f \div 16) % 2 = 1) = x)
    BY <2>4, Zenon
  <2> QED
    BY <2>2, <2>3, <2>5 DEF Apart
<1>7. CASE ~p /\ ~x
  <2>1. f = 128 + c
    BY <1>1, <1>7 DEF Flag
  <2>2. f \in Byte
    BY <1>1, <2>1 DEF Byte, UInt8
  <2> HIDE DEF f
  <2>3. f \div 64 = 2 /\ f % 16 = c /\ f \div 32 = 4 /\ f \div 16 = 8
    BY <1>1, <1>2, <2>1
  <2>4. ((f \div 32) % 2 = 1 <=> p) /\ ((f \div 16) % 2 = 1 <=> x)
    BY <1>3, <1>7, <2>3
  <2>5. (((f \div 32) % 2 = 1) = p) /\ (((f \div 16) % 2 = 1) = x)
    BY <2>4, Zenon
  <2> QED
    BY <2>2, <2>3, <2>5 DEF Apart
<1> QED
  BY <1>4, <1>5, <1>6, <1>7 DEF Apart

\* Three sequences in a row.
LEMMA CatAssociative ==
  ASSUME NEW S, NEW s \in Seq(S), NEW t \in Seq(S), NEW u \in Seq(S)
  PROVE  Cat(s, Cat(t, u)) = Cat(Cat(s, t), u)
BY ConcatAssociative DEF Cat

\* Bytes that hold others, behind the first k.
Holds(b, k, t) == SubSeq(b, k + 1, k + Len(t)) = t

\* As StartsPiece, in the form Holds.
LEMMA StartsHolds ==
  ASSUME NEW S, NEW b \in Seq(S), NEW s \in Seq(S), NEW t \in Seq(S), Starts(Cat(s, t), b)
  PROVE  Starts(s, b) /\ Holds(b, Len(s), t)
BY StartsPiece DEF Holds

\* The parts of bytes put together, where they begin and end.
HeadIs(b, A, B, C, K) ==
  /\ b[1] = A[1] /\ b[2] = A[2] /\ SubSeq(b, 3, 4) = B
  /\ SubSeq(b, 5, 8) = C /\ SubSeq(b, 9, 12) = K

\* Where the pieces of the fixed header are.
LEMMA HeadPieces ==
  ASSUME NEW S, NEW b \in Seq(S), NEW A \in Seq(S), NEW B \in Seq(S),
         NEW C \in Seq(S), NEW K \in Seq(S),
         Len(A) = 2, Len(B) = 2, Len(C) = 4, Len(K) = 4,
         Starts(Cat(Cat(Cat(A, B), C), K), b)
  PROVE  HeadIs(b, A, B, C, K)
<1> DEFINE p == Cat(A, B)
           q == Cat(p, C)
<1>1. p \in Seq(S) /\ Len(p) = Len(A) + Len(B)
  BY CatType, Zenon
<1>4. Starts(Cat(q, K), b)
  OBVIOUS
<1> HIDE DEF p
<1>2. q \in Seq(S) /\ Len(q) = Len(p) + Len(C)
  BY <1>1, CatType, Zenon
<1> HIDE DEF q
<1>5. Starts(q, b) /\ Holds(b, Len(q), K)
  BY <1>2, <1>4, StartsHolds
<1>6. Starts(Cat(p, C), b)
  BY <1>5 DEF q
<1>7. Starts(p, b) /\ Holds(b, Len(p), C)
  BY <1>1, <1>6, StartsHolds
<1>8. Starts(Cat(A, B), b)
  BY <1>7 DEF p
<1>9. Starts(A, b) /\ Holds(b, Len(A), B)
  BY <1>8, StartsHolds
<1>10. Len(p) = 4 /\ Len(q) = 8
  BY <1>1, <1>2
<1>11. SubSeq(b, 8 + 1, 8 + 4) = K /\ SubSeq(b, 4 + 1, 4 + 4) = C /\ SubSeq(b, 2 + 1, 2 + 2) = B
  BY <1>5, <1>7, <1>9, <1>10 DEF Holds
<1>12. b[1] = A[1] /\ b[2] = A[2]
  BY <1>9 DEF Starts
<1>13. SubSeq(b, 9, 12) = K /\ SubSeq(b, 5, 8) = C /\ SubSeq(b, 3, 4) = B
  BY <1>11
<1> QED
  BY <1>12, <1>13 DEF HeadIs

\* The parts of an extension, of which the first two have two bytes.
ExtensionIs(b, k, P, Q, R) ==
  /\ SubSeq(b, k + 1, k + 2) = P /\ SubSeq(b, k + 3, k + 4) = Q
  /\ SubSeq(b, k + 5, k + 4 + Len(R)) = R

\* Where the pieces of the extension are.
LEMMA ThreePieces ==
  ASSUME NEW S, NEW b \in Seq(S), NEW s \in Seq(S),
         NEW P \in Seq(S), NEW Q \in Seq(S), NEW R \in Seq(S), NEW k \in Nat,
         Len(s) = k, Len(P) = 2, Len(Q) = 2,
         Starts(Cat(s, Cat(Cat(P, Q), R)), b)
  PROVE  ExtensionIs(b, k, P, Q, R)
<1> DEFINE p == Cat(s, P)
           q == Cat(p, Q)
<1>1. Cat(P, Q) \in Seq(S) /\ p \in Seq(S) /\ Len(p) = Len(s) + Len(P)
  BY CatType, Zenon
<1>2. Cat(s, Cat(Cat(P, Q), R)) = Cat(Cat(s, Cat(P, Q)), R)
  BY <1>1, CatAssociative
<1>3. Cat(s, Cat(P, Q)) = q
  BY CatAssociative
<1>4. Starts(Cat(q, R), b)
  BY <1>2, <1>3
<1> HIDE DEF p
<1>5. q \in Seq(S) /\ Len(q) = Len(p) + Len(Q)
  BY <1>1, CatType, Zenon
<1> HIDE DEF q
<1>6. Starts(q, b) /\ Holds(b, Len(q), R)
  BY <1>4, <1>5, StartsHolds
<1>7. Starts(Cat(p, Q), b)
  BY <1>6 DEF q
<1>8. Starts(p, b) /\ Holds(b, Len(p), Q)
  BY <1>1, <1>7, StartsHolds
<1>9. Starts(Cat(s, P), b)
  BY <1>8 DEF p
<1>10. Holds(b, Len(s), P)
  BY <1>9, StartsHolds
<1>11. Len(p) = k + 2 /\ Len(q) = k + 4
  BY <1>1, <1>5
<1>12. SubSeq(b, k + 1, k + 2) = P
  BY <1>10 DEF Holds
<1>13. SubSeq(b, k + 2 + 1, k + 2 + 2) = Q
  BY <1>8, <1>11 DEF Holds
<1>14. SubSeq(b, k + 4 + 1, k + 4 + Len(R)) = R
  BY <1>6, <1>11 DEF Holds
<1>15. k + 2 + 1 = k + 3 /\ k + 2 + 2 = k + 4 /\ k + 4 + 1 = k + 5
  OBVIOUS
<1>16. SubSeq(b, k + 3, k + 4) = Q
  BY <1>13, <1>15
<1>17. SubSeq(b, k + 5, k + 4 + Len(R)) = R
  BY <1>14, <1>15
<1> QED
  BY <1>12, <1>16, <1>17 DEF ExtensionIs

\* A header p with what follows it.
BodyIs(b, p, E, F, G, H, n) ==
  /\ Len(b) = n + Len(G) + Len(H)
  /\ Starts(p, b) /\ Starts(Cat(Cat(p, E), F), b)
  /\ Holds(b, Len(p), E) /\ Holds(b, n, G)
  /\ H # <<>> => b[Len(b)] = H[Len(H)]

\* Where the words, the extension, the payload and the padding are.
LEMMA BodyPieces ==
  ASSUME NEW S, NEW p \in Seq(S), NEW E \in Seq(S), NEW F \in Seq(S), NEW G \in Seq(S),
         NEW H \in Seq(S)
  PROVE  LET b == Cat(Cat(Cat(Cat(p, E), F), G), H)
         IN  b \in Seq(S) /\ BodyIs(b, p, E, F, G, H, Len(p) + Len(E) + Len(F))
<1> DEFINE q == Cat(p, E)
           r == Cat(q, F)
           s == Cat(r, G)
           b == Cat(s, H)
           m == Len(p) + Len(E)
           n == m + Len(F)
<1>1. q \in Seq(S) /\ Len(q) = m
  BY CatType
<1> HIDE DEF q
<1>2. r \in Seq(S) /\ Len(r) = Len(q) + Len(F)
  BY <1>1, CatType
<1> HIDE DEF r
<1>3. s \in Seq(S) /\ Len(s) = Len(r) + Len(G)
  BY <1>2, CatType
<1> HIDE DEF s
<1>4. b \in Seq(S) /\ Len(b) = Len(s) + Len(H)
  BY <1>3, CatType
<1>5. Starts(Cat(s, H), b)
  BY <1>4, StartsItself
<1>6. H # <<>> => b[Len(b)] = H[Len(H)]
  BY <1>3, <1>4, CatLast
<1> HIDE DEF b
<1>7. Starts(s, b)
  BY <1>3, <1>4, <1>5, StartsHolds
<1>8. Starts(Cat(r, G), b)
  BY <1>7 DEF s
<1>9. Starts(r, b) /\ Holds(b, Len(r), G)
  BY <1>2, <1>4, <1>8, StartsHolds
<1>10. Starts(Cat(q, F), b)
  BY <1>9 DEF r
<1>11. Starts(q, b)
  BY <1>1, <1>4, <1>10, StartsHolds
<1>12. Starts(Cat(p, E), b)
  BY <1>11 DEF q
<1>13. Starts(p, b) /\ Holds(b, Len(p), E)
  BY <1>4, <1>12, StartsHolds
<1>14. Len(r) = n /\ Len(b) = n + Len(G) + Len(H)
  BY <1>1, <1>2, <1>3, <1>4
<1>15. BodyIs(b, p, E, F, G, H, n)
  BY <1>6, <1>9, <1>10, <1>13, <1>14 DEF BodyIs, q
<1> QED
  BY <1>4, <1>15 DEF b, s, r, q

\* What the setters keep to besides: fields that fit their bits.
Typed(l) ==
  /\ l.version = 2
  /\ l.padding \in BOOLEAN /\ l.extension \in BOOLEAN /\ l.marker \in BOOLEAN
  /\ l.payloadType \in 0 .. 127
  /\ l.seq \in 0 .. UInt16 - 1

\* The parts WriteTo writes.
FirstTwo(l) == <<FirstByte(l), Flag(l.marker, 128) + l.payloadType>>
ExtOf(l) ==
  IF l.extension
  THEN Cat(Cat(l.profile, Put16(Len(l.extContents))), FlattenSeq(l.extContents))
  ELSE <<>>
PadOf(l) == IF l.padding /\ l.paddingLength > 0 THEN Padding(l.paddingLength) ELSE <<>>

\* A list of words in bytes, and back.
LEMMA FlatWords ==
  ASSUME NEW ws, IsWordList(ws)
  PROVE  /\ FlattenSeq(ws) \in Seq(Byte) /\ Len(FlattenSeq(ws)) = 4 * Len(ws)
         /\ Words(FlattenSeq(ws)) = ws /\ Len(ws) \in Nat
<1>1. ws \in Seq(Seq(Byte)) /\ Len(ws) \in Nat
  BY DEF IsWordList
<1>2. ws \in Seq(Word)
  <2>1. ASSUME NEW i \in 1 .. Len(ws) PROVE ws[i] \in Word
    BY <1>1 DEF IsWordList, IsWord, Word
  <2> QED
    BY <1>1, <2>1
<1> QED
  BY <1>1, <1>2, FlattenType, WordsLength, WordsOfFlat

\* Marker and payload type are read as they were written.
LEMMA SecondByte ==
  ASSUME NEW m \in BOOLEAN, NEW t \in 0 .. 127
  PROVE  LET s == Flag(m, 128) + t
         IN  s \in Byte /\ (s >= 128) = m /\ s % 128 = t
<1> DEFINE s == Flag(m, 128) + t
<1>1. (128 + t) % 128 = t /\ (0 + t) % 128 = t
  OBVIOUS
<1>2. CASE m
  <2>1. s = 128 + t
    BY <1>2 DEF Flag
  <2>2. 128 + t \in 0 .. 255 /\ 128 + t >= 128
    OBVIOUS
  <2>3. s \in Byte /\ s >= 128 /\ s % 128 = t
    BY <1>1, <2>1, <2>2 DEF Byte, UInt8
  <2> HIDE DEF s
  <2>4. (s >= 128) = m
    BY <1>2, <2>3, Zenon
  <2> QED
    BY <2>3, <2>4 DEF s
<1>3. CASE ~m
  <2>1. s = 0 + t
    BY <1>3 DEF Flag
  <2>2. 0 + t \in 0 .. 255 /\ ~(0 + t >= 128)
    OBVIOUS
  <2>3. s \in Byte /\ ~(s >= 128) /\ s % 128 = t
    BY <1>1, <2>1, <2>2 DEF Byte, UInt8
  <2> HIDE DEF s
  <2>5. m = FALSE /\ (s >= 128) = FALSE
    BY <1>3, <2>3
  <2>4. (s >= 128) = m
    BY <2>5
  <2> QED
    BY <2>3, <2>4 DEF s
<1> QED
  BY <1>2, <1>3

\* The first two bytes of a layer, and what is read from them.
LEMMA FirstTwoBytes ==
  ASSUME NEW l, Sized(l), Typed(l)
  PROVE  /\ FirstTwo(l) \in Seq(Byte) /\ Len(FirstTwo(l)) = 2
         /\ Apart(FirstTwo(l)[1], l.padding, l.extension, Len(l.csrcList))
         /\ (FirstTwo(l)[2] >= 128) = l.marker /\ FirstTwo(l)[2] % 128 = l.payloadType
<1> DEFINE f == FirstByte(l)
           s == Flag(l.marker, 128) + l.payloadType
<1>1. Len(l.csrcList) \in 0 .. MaxCSRC
  <2>1. IsWordList(l.csrcList) /\ Len(l.csrcList) <= MaxCSRC /\ MaxCSRC = 15
    BY DEF Sized, MaxCSRC
  <2> DEFINE c == Len(l.csrcList)
  <2>2. c \in Nat /\ c <= MaxCSRC
    BY <2>1, FlatWords
  <2> HIDE DEF c
  <2>3. c \in 0 .. MaxCSRC
    BY <2>1, <2>2
  <2> QED
    BY <2>3 DEF c
<1>2. Apart(f, l.padding, l.extension, Len(l.csrcList))
  <2>1. f = 64 * 2 + Flag(l.padding, 32) + Flag(l.extension, 16) + (Len(l.csrcList) % 16)
    BY DEF FirstByte, Typed
  <2>2. l.padding \in BOOLEAN /\ l.extension \in BOOLEAN
    BY DEF Typed
  <2> HIDE DEF f
  <2> QED
    BY <1>1, <2>1, <2>2, FirstByteAndBack
<1>3. s \in Byte /\ (s >= 128) = l.marker /\ s % 128 = l.payloadType
  <2>1. l.marker \in BOOLEAN /\ l.payloadType \in 0 .. 127
    BY DEF Typed
  <2> QED
    BY <2>1, SecondByte
<1>4. f \in Byte
  BY <1>2 DEF Apart
<1>5. FirstTwo(l) = <<f, s>>
  BY DEF FirstTwo
<1> HIDE DEF f, s
<1>6. /\ FirstTwo(l) \in Seq(Byte) /\ Len(FirstTwo(l)) = 2
      /\ FirstTwo(l)[1] = f /\ FirstTwo(l)[2] = s
  BY <1>3, <1>4, <1>5
<1> QED
  BY <1>2, <1>3, <1>6

\* How many bytes the extension of a layer takes.
LEMMA ExtensionBytes ==
  ASSUME NEW l, Sized(l), Typed(l)
  PROVE  /\ ExtOf(l) \in Seq(Byte)
         /\ Len(ExtOf(l)) = IF l.extension THEN 4 + 4 * Len(l.extContents) ELSE 0
         /\ Len(l.extContents) \in 0 .. UInt16 - 1
<1>1. /\ l.profile \in Seq(Byte) /\ Len(l.profile) = 2
      /\ IsWordList(l.extContents) /\ Len(l.extContents) < UInt16
  BY DEF Sized
<1> DEFINE n == Len(l.extContents)
           size == Put16(n)
           body == FlattenSeq(l.extContents)
           start == Cat(l.profile, size)
<1>2. n \in Nat /\ body \in Seq(Byte) /\ Len(body) = 4 * n
  BY <1>1, FlatWords
<1>3. n \in 0 .. UInt16 - 1
  <2>1. n < UInt16
    BY <1>1
  <2> HIDE DEF n
  <2> QED
    BY <1>2, <2>1, BelowUInt16
<1>4. size \in Seq(Byte) /\ Len(size) = 2
  <2> HIDE DEF n
  <2> QED
    BY <1>3, Put16AndBack
<1>5. ExtOf(l) = IF l.extension THEN Cat(start, body) ELSE <<>>
  BY DEF ExtOf
<1> HIDE DEF n, size, body
<1>6. start \in Seq(Byte) /\ Len(start) = Len(l.profile) + Len(size)
  BY <1>1, <1>4, CatType
<1> HIDE DEF start
<1>7. Cat(start, body) \in Seq(Byte) /\ Len(Cat(start, body)) = Len(start) + Len(body)
  BY <1>2, <1>6, CatType
<1>8. Len(Cat(start, body)) = 4 + 4 * n
  BY <1>1, <1>2, <1>4, <1>6, <1>7
<1>9. <<>> \in Seq(Byte) /\ Len(<<>>) = 0
  OBVIOUS
<1> QED
  BY <1>3, <1>5, <1>7, <1>8, <1>9 DEF n

\* How many bytes the padding of a layer takes, and its last one.
LEMMA PaddingOut ==
  ASSUME NEW l, Sized(l), Typed(l)
  PROVE  /\ PadOf(l) \in Seq(Byte) /\ l.paddingLength \in 0 .. 255
         /\ Len(PadOf(l)) = IF l.padding THEN l.paddingLength ELSE 0
         /\ l.padding /\ l.paddingLength > 0 =>
              PadOf(l) # <<>> /\ PadOf(l)[Len(PadOf(l))] = l.paddingLength
<1> DEFINE n == l.paddingLength
<1>1. n \in 0 .. 255 /\ UInt8 = 256
  BY DEF Sized, Byte, UInt8
<1>2. CASE l.padding /\ n > 0
  <2>1. n \in 1 .. UInt8 - 1
    BY <1>1, <1>2
  <2>2. PadOf(l) = Padding(n)
    BY <1>2 DEF PadOf
  <2> HIDE DEF n
  <2>3. Padding(n) \in Seq(Byte) /\ Len(Padding(n)) = n /\ Padding(n)[n] = n
    BY <2>1, PaddingBytes
  <2>4. Padding(n) # <<>>
    BY <1>2, <2>1, <2>3
  <2> QED
    BY <1>1, <1>2, <2>2, <2>3, <2>4 DEF n
<1>3. CASE ~(l.padding /\ n > 0)
  <2>3. PadOf(l) = <<>>
    BY <1>3 DEF PadOf
  <2>4. ~(n > 0) => n = 0
    <3> HIDE DEF n
    <3> QED
      BY <1>1
  <2>1. PadOf(l) = <<>> /\ (l.padding => n = 0)
    BY <1>3, <2>3, <2>4, Zenon
  <2>2. <<>> \in Seq(Byte) /\ Len(<<>>) = 0
    OBVIOUS
  <2> QED
    BY <1>1, <1>3, <2>1, <2>2
<1> QED
  BY <1>2, <1>3

\* WriteTo by its parts.
LEMMA WrittenAs ==
  ASSUME NEW l, Sized(l), Typed(l)
  PROVE  WriteTo(l) = Cat(Cat(Cat(Cat(
                        Cat(Cat(Cat(FirstTwo(l), Put16(l.seq)), l.timestamp), l.ssrc),
                        FlattenSeq(l.csrcList)), ExtOf(l)), PayloadOf(l)), PadOf(l))
<1> DEFINE n == Len(l.extContents)
<1>1. n \in 0 .. UInt16 - 1
  BY ExtensionBytes
<1>2. n % UInt16 = n
  BY <1>1, Width, Small
<1>3. Cap(l.extContents, n) = l.extContents
  <2>1. n \in Nat
    BY <1>1, Width
  <2>2. ~(n > n)
    <3> HIDE DEF n
    <3> QED
      BY <2>1
  <2> QED
    BY <2>2 DEF Cap
<1>4. ExtOf(l) = IF l.extension
                 THEN l.profile \o Put16(n % UInt16)
                        \o FlattenSeq(Cap(l.extContents, n % UInt16))
                 ELSE <<>>
  BY <1>2, <1>3 DEF ExtOf, Cat
<1> QED
  BY <1>4 DEF WriteTo, FirstTwo, PadOf, Cat

\* Where the parts of what is written are.
LEMMA WrittenPlaces ==
  ASSUME NEW l, Sized(l), Typed(l)
  PROVE  LET b == WriteTo(l)
             c == 4 * Len(l.csrcList)
             e == Len(ExtOf(l))
             g == Len(PayloadOf(l))
             h == Len(PadOf(l))
         IN  /\ b \in Seq(Byte) /\ Len(b) = 12 + c + e + g + h
             /\ c \in Nat /\ e \in Nat /\ g \in Nat /\ h \in Nat
             /\ b[1] = FirstTwo(l)[1] /\ b[2] = FirstTwo(l)[2]
             /\ SubSeq(b, 3, 4) = Put16(l.seq)
             /\ SubSeq(b, 5, 8) = l.timestamp /\ SubSeq(b, 9, 12) = l.ssrc
             /\ SubSeq(b, 13, 12 + c) = FlattenSeq(l.csrcList)
             /\ SubSeq(b, 12 + c + e + 1, 12 + c + e + g) = PayloadOf(l)
             /\ PadOf(l) # <<>> => b[Len(b)] = PadOf(l)[Len(PadOf(l))]
             /\ l.extension =>
                  /\ SubSeq(b, 12 + c + 1, 12 + c + 2) = l.profile
                  /\ SubSeq(b, 12 + c + 3, 12 + c + 4) = Put16(Len(l.extContents))
                  /\ SubSeq(b, 12 + c + 5, 12 + c + e) = FlattenSeq(l.extContents)
<1> DEFINE A == FirstTwo(l)
           B == Put16(l.seq)
           C == l.timestamp
           K == l.ssrc
           E == FlattenSeq(l.csrcList)
           F == ExtOf(l)
           G == PayloadOf(l)
           H == PadOf(l)
           p == Cat(Cat(Cat(A, B), C), K)
           b == Cat(Cat(Cat(Cat(p, E), F), G), H)
           c == 4 * Len(l.csrcList)
           e == Len(F)
           g == Len(G)
           h == Len(H)
<1>1. A \in Seq(Byte) /\ Len(A) = 2
  BY FirstTwoBytes
<1>2. B \in Seq(Byte) /\ Len(B) = 2
  <2>1. l.seq \in 0 .. UInt16 - 1
    BY DEF Typed
  <2> QED
    BY <2>1, Put16AndBack
<1>3. C \in Seq(Byte) /\ Len(C) = 4 /\ K \in Seq(Byte) /\ Len(K) = 4
  BY DEF Sized, IsWord
<1>4. E \in Seq(Byte) /\ Len(E) = c /\ Len(l.csrcList) \in Nat
  BY FlatWords DEF Sized
<1>5. F \in Seq(Byte) /\ e \in Nat
  BY ExtensionBytes
<1>6. G \in Seq(Byte) /\ g \in Nat
  <2>1. G \in Seq(Byte)
    BY FlattenType DEF Sized, PayloadOf
  <2> HIDE DEF G
  <2> QED
    BY <2>1
<1>7. H \in Seq(Byte) /\ h \in Nat
  <2>1. H \in Seq(Byte)
    BY PaddingOut
  <2> HIDE DEF H
  <2> QED
    BY <2>1
<1>8. WriteTo(l) = b
  BY WrittenAs
<1>9. c \in Nat
  BY <1>4
<1>10. p \in Seq(Byte) /\ Len(p) = 12
  <2> HIDE DEF A, B, C, K
  <2> DEFINE q == Cat(A, B)
             r == Cat(q, C)
  <2>1. q \in Seq(Byte) /\ Len(q) = Len(A) + Len(B)
    BY <1>1, <1>2, CatType
  <2> HIDE DEF q
  <2>2. r \in Seq(Byte) /\ Len(r) = Len(q) + Len(C)
    BY <1>3, <2>1, CatType
  <2> HIDE DEF r
  <2>3. Cat(r, K) \in Seq(Byte) /\ Len(Cat(r, K)) = Len(r) + Len(K)
    BY <1>3, <2>2, CatType
  <2>4. p = Cat(r, K)
    BY DEF q, r
  <2> HIDE DEF p
  <2> QED
    BY <1>1, <1>2, <1>3, <2>1, <2>2, <2>3, <2>4
<1> HIDE DEF p, E, F, G, H
<1> DEFINE m == Len(p) + Len(E)
           n == m + Len(F)
<1>18. b \in Seq(Byte) /\ BodyIs(b, p, E, F, G, H, n)
  <2>1. /\ p \in Seq(Byte) /\ E \in Seq(Byte) /\ F \in Seq(Byte)
        /\ G \in Seq(Byte) /\ H \in Seq(Byte)
    BY <1>4, <1>5, <1>6, <1>7, <1>10
  <2> QED
    BY <2>1, BodyPieces
<1>19. Cat(p, E) \in Seq(Byte) /\ Len(Cat(p, E)) = Len(p) + Len(E)
  BY <1>4, <1>10, CatType, Zenon
<1> HIDE DEF b
<1>11. /\ b \in Seq(Byte) /\ Len(b) = n + Len(G) + Len(H)
       /\ Starts(p, b) /\ Starts(Cat(Cat(p, E), F), b)
       /\ Holds(b, Len(p), E) /\ Holds(b, n, G)
       /\ H # <<>> => b[Len(b)] = H[Len(H)]
  BY <1>18 DEF BodyIs
<1>12. m = 12 + c /\ n = 12 + c + e
  BY <1>4, <1>10
<1>13. HeadIs(b, A, B, C, K)
  <2>1. Starts(Cat(Cat(Cat(A, B), C), K), b)
    BY <1>11 DEF p
  <2>2. Len(A) = 2 /\ Len(B) = 2 /\ Len(C) = 4 /\ Len(K) = 4
    BY <1>1, <1>2, <1>3
  <2>3. b \in Seq(Byte) /\ A \in Seq(Byte) /\ B \in Seq(Byte) /\ C \in Seq(Byte) /\ K \in Seq(Byte)
    BY <1>1, <1>2, <1>3, <1>11
  <2> HIDE DEF A, B, C, K
  <2> QED
    BY <2>1, <2>2, <2>3, HeadPieces
<1>14. SubSeq(b, 13, 12 + c) = E
  <2>1. SubSeq(b, 12 + 1, 12 + c) = E
    BY <1>4, <1>10, <1>11 DEF Holds
  <2>2. 12 + 1 = 13
    OBVIOUS
  <2> QED
    BY <2>1, <2>2
<1>15. SubSeq(b, 12 + c + e + 1, 12 + c + e + g) = G
  BY <1>11, <1>12 DEF Holds
<1>16. ASSUME l.extension
       PROVE  /\ SubSeq(b, 12 + c + 1, 12 + c + 2) = l.profile
              /\ SubSeq(b, 12 + c + 3, 12 + c + 4) = Put16(Len(l.extContents))
              /\ SubSeq(b, 12 + c + 5, 12 + c + e) = FlattenSeq(l.extContents)
  <2> DEFINE P == l.profile
             Q == Put16(Len(l.extContents))
             R == FlattenSeq(l.extContents)
             s == Cat(p, E)
             k == 12 + c
  <2>1. P \in Seq(Byte) /\ Len(P) = 2
    BY DEF Sized
  <2>2. Q \in Seq(Byte) /\ Len(Q) = 2
    <3>1. Len(l.extContents) \in 0 .. UInt16 - 1
      BY ExtensionBytes
    <3> QED
      BY <3>1, Put16AndBack
  <2>3. R \in Seq(Byte) /\ e = 4 + Len(R) /\ Len(R) \in Nat
    <3>1. R \in Seq(Byte) /\ Len(R) = 4 * Len(l.extContents) /\ Len(l.extContents) \in Nat
      BY FlatWords DEF Sized
    <3>2. e = 4 + 4 * Len(l.extContents)
      BY <1>16, ExtensionBytes DEF F
    <3> HIDE DEF R, e
    <3> QED
      BY <3>1, <3>2
  <2>4. F = Cat(Cat(P, Q), R)
    BY <1>16 DEF ExtOf, F
  <2>5. k \in Nat /\ s \in Seq(Byte) /\ Len(s) = k
    BY <1>9, <1>12, <1>19
  <2>6. Starts(Cat(s, Cat(Cat(P, Q), R)), b)
    BY <1>11, <2>4
  <2> HIDE DEF P, Q, R, s, k, e
  <2>7. ExtensionIs(b, k, P, Q, R)
    <3>1. b \in Seq(Byte) /\ P \in Seq(Byte) /\ Q \in Seq(Byte) /\ R \in Seq(Byte)
      BY <1>11, <2>1, <2>2, <2>3
    <3>2. Len(s) = k /\ Len(P) = 2 /\ Len(Q) = 2
      BY <2>1, <2>2, <2>5
    <3> QED
      BY <2>5, <2>6, <3>1, <3>2, ThreePieces
  <2>8. k + 4 + Len(R) = k + e
    BY <2>3, <2>5
  <2>9. SubSeq(b, k + 5, k + e) = R
    BY <2>7, <2>8 DEF ExtensionIs
  <2> QED
    BY <2>7, <2>9 DEF P, Q, R, k, e, ExtensionIs
<1>17. Len(b) = 12 + c + e + g + h
  BY <1>11, <1>12
<1> HIDE DEF A, B, c, e, g, h
<1> QED
  BY <1>5, <1>6, <1>7, <1>8, <1>9, <1>11, <1>13, <1>14, <1>15, <1>16, <1>17
     DEF HeadIs, A, B, C, K, E, F, G, H, c, e, g, h

\* What a parser reads of a written layer to find its parts.
LEMMA WrittenReads ==
  ASSUME NEW l, Sized(l), Typed(l)
  PROVE  LET b == WriteTo(l)
             c == 4 * Len(l.csrcList)
         IN  /\ HasPadding(b) = l.padding /\ HasExtension(b) = l.extension
             /\ b[1] \div 64 = 2 /\ CSRCEnd(b) = 12 + c
             /\ l.extension => ExtCount(b) = Len(l.extContents)
             /\ HeaderEnd(b) = 12 + c + Len(ExtOf(l))
             /\ Sound(l) => PaddingAt(b) = Len(PadOf(l))
             /\ Sound(l) /\ l.padding => b[Len(b)] = l.paddingLength /\ l.paddingLength > 0
<1> DEFINE b == WriteTo(l)
           c == 4 * Len(l.csrcList)
           e == Len(ExtOf(l))
           g == Len(PayloadOf(l))
           h == Len(PadOf(l))
           n == Len(l.extContents)
<1>1. /\ c \in Nat /\ e \in Nat /\ b[1] = FirstTwo(l)[1]
      /\ PadOf(l) # <<>> => b[Len(b)] = PadOf(l)[Len(PadOf(l))]
      /\ l.extension => SubSeq(b, 12 + c + 3, 12 + c + 4) = Put16(n)
  BY WrittenPlaces
<1>2. Apart(FirstTwo(l)[1], l.padding, l.extension, Len(l.csrcList))
  BY FirstTwoBytes
<1> HIDE DEF b
<1>3. /\ b[1] \div 64 = 2 /\ b[1] % 16 = Len(l.csrcList)
      /\ HasPadding(b) = l.padding /\ HasExtension(b) = l.extension
  BY <1>1, <1>2 DEF Apart, HasPadding, HasExtension
<1>4. CSRCEnd(b) = 12 + c
  BY <1>3 DEF CSRCEnd, CSRCCountOf, MinHeader
<1>5. n \in 0 .. UInt16 - 1 /\ e = IF l.extension THEN 4 + 4 * n ELSE 0
  BY ExtensionBytes
<1>6. ASSUME l.extension PROVE ExtCount(b) = n
  <2>1. Get16(Put16(n)) = n
    <3> HIDE DEF n
    <3> QED
      BY <1>5, Put16AndBack
  <2> HIDE DEF c, n
  <2>2. ExtCount(b) = Get16(Put16(n))
    BY <1>1, <1>4, <1>6, Zenon DEF ExtCount
  <2> QED
    BY <2>1, <2>2
<1>7. HeaderEnd(b) = 12 + c + e
  <2> HIDE DEF c, n, e
  <2>1. HeaderEnd(b) = 12 + c + (IF l.extension THEN 4 + 4 * ExtCount(b) ELSE 0)
    BY <1>3, <1>4 DEF HeaderEnd
  <2> QED
    BY <1>5, <1>6, <2>1
<1>8. /\ h = IF l.padding THEN l.paddingLength ELSE 0
      /\ l.padding /\ l.paddingLength > 0 =>
              PadOf(l) # <<>> /\ PadOf(l)[Len(PadOf(l))] = l.paddingLength
  BY PaddingOut
<1>9. ASSUME Sound(l), l.padding PROVE b[Len(b)] = l.paddingLength /\ l.paddingLength > 0
  <2>1. l.paddingLength > 0
    BY <1>9 DEF Sound
  <2> HIDE DEF c, e, h, n
  <2> QED
    BY <1>1, <1>8, <1>9, <2>1
<1>10. ASSUME Sound(l) PROVE PaddingAt(b) = h
  <2> HIDE DEF h
  <2> QED
    BY <1>3, <1>8, <1>9, <1>10 DEF PaddingAt
<1> QED
  BY <1>3, <1>4, <1>6, <1>7, <1>9, <1>10 DEF b

\* A sound layer is parsed without an error once it is written.
LEMMA SoundIsParsed ==
  ASSUME NEW l, Sized(l), Typed(l), Sound(l)
  PROVE  ErrOf(WriteTo(l)) = NoError
<1> DEFINE b == WriteTo(l)
           c == 4 * Len(l.csrcList)
           e == Len(ExtOf(l))
           g == Len(PayloadOf(l))
           h == Len(PadOf(l))
           p == l.paddingLength
<1>1. /\ Len(b) = 12 + c + e + g + h
      /\ c \in Nat /\ e \in Nat /\ g \in Nat /\ h \in Nat
  BY WrittenPlaces
<1>2. /\ HasPadding(b) = l.padding /\ HasExtension(b) = l.extension
      /\ b[1] \div 64 = 2 /\ CSRCEnd(b) = 12 + c
      /\ HeaderEnd(b) = 12 + c + e
      /\ l.padding => b[Len(b)] = p /\ p > 0
  BY WrittenReads
<1>3. l.extension => e >= 4
  <2> DEFINE n == Len(l.extContents)
  <2>1. n \in 0 .. UInt16 - 1 /\ (l.extension => e = 4 + 4 * n)
    BY ExtensionBytes
  <2> HIDE DEF n, e
  <2>2. n \in Nat
    BY <2>1, Width
  <2> QED
    BY <2>1, <2>2
<1>4. (l.padding => h = p) /\ p \in 0 .. 255
  BY PaddingOut
<1> HIDE DEF b, c, e, g, h, p
<1>5. LeastSize(b) = 12 + c + (IF l.extension THEN 4 ELSE 0) + (IF l.padding THEN 1 ELSE 0)
  BY <1>2 DEF LeastSize, Flag
<1>6. Flag(HasPadding(b), 1) = IF l.padding THEN 1 ELSE 0
  BY <1>2 DEF Flag
<1>7. /\ ~(Len(b) < 12) /\ ~(Len(b) < LeastSize(b))
      /\ ~(Len(b) < HeaderEnd(b) + Flag(HasPadding(b), 1))
      /\ l.padding => ~(b[Len(b)] = 0) /\ ~(Len(b) < HeaderEnd(b) + b[Len(b)])
  BY <1>1, <1>2, <1>3, <1>4, <1>5, <1>6
<1> QED
  BY <1>2, <1>7 DEF ErrOf, b, MinHeader

\* A sound layer shows what it is written as.
LEMMA SoundShows ==
  ASSUME NEW l, Sized(l), Typed(l), Sound(l)
  PROVE  Shows(l, WriteTo(l))
<1> DEFINE b == WriteTo(l)
           c == 4 * Len(l.csrcList)
           e == Len(ExtOf(l))
           g == Len(PayloadOf(l))
           h == Len(PadOf(l))
<1>1. /\ Len(b) = 12 + c + e + g + h
      /\ c \in Nat /\ e \in Nat /\ g \in Nat /\ h \in Nat
      /\ b[1] = FirstTwo(l)[1] /\ b[2] = FirstTwo(l)[2]
      /\ SubSeq(b, 3, 4) = Put16(l.seq)
      /\ SubSeq(b, 5, 8) = l.timestamp /\ SubSeq(b, 9, 12) = l.ssrc
      /\ SubSeq(b, 13, 12 + c) = FlattenSeq(l.csrcList)
      /\ SubSeq(b, 12 + c + e + 1, 12 + c + e + g) = PayloadOf(l)
      /\ l.extension =>
           /\ SubSeq(b, 12 + c + 1, 12 + c + 2) = l.profile
           /\ SubSeq(b, 12 + c + 5, 12 + c + e) = FlattenSeq(l.extContents)
  BY WrittenPlaces
<1>2. /\ HasPadding(b) = l.padding /\ HasExtension(b) = l.extension
      /\ CSRCEnd(b) = 12 + c
      /\ HeaderEnd(b) = 12 + c + e
      /\ PaddingAt(b) = h
      /\ l.padding => b[Len(b)] = l.paddingLength
  BY WrittenReads
<1>3. (FirstTwo(l)[2] >= 128) = l.marker /\ FirstTwo(l)[2] % 128 = l.payloadType
  BY FirstTwoBytes
<1>4. Get16(Put16(l.seq)) = l.seq /\ l.version = 2
  <2>1. l.seq \in 0 .. UInt16 - 1 /\ l.version = 2
    BY DEF Typed
  <2> QED
    BY <2>1, Put16AndBack
<1>5. Words(FlattenSeq(l.csrcList)) = l.csrcList /\ Words(FlattenSeq(l.extContents)) = l.extContents
  BY FlatWords DEF Sized
<1>6. IsLayer(l)
  BY DEF Sized, IsLayer
<1> HIDE DEF b, c, e, g, h
<1>7. ShowsBase(l, b)
  BY <1>1, <1>2, <1>3, <1>4, <1>6, Zenon DEF ShowsBase
<1>8. ShowsWords(l, b)
  <2>1. MinHeader + 1 = 13 /\ 12 + c + 5 = CSRCEnd(b) + 5
    BY <1>2 DEF MinHeader
  <2> QED
    BY <1>1, <1>2, <1>5, <2>1, Zenon DEF ShowsWords
<1>9. Len(b) - PaddingAt(b) = 12 + c + e + g
  BY <1>1, <1>2
<1>10. PayloadOf(l) = SubSeq(b, HeaderEnd(b) + 1, Len(b) - PaddingAt(b))
  BY <1>1, <1>2, <1>9
<1> QED
  BY <1>2, <1>7, <1>8, <1>10 DEF Shows, b

\* Two layers that show the same bytes tell the same and are written the same.
LEMMA SamePacket ==
  ASSUME NEW b \in Seq(Byte), NEW l, Shows(l, b), NEW m, Shows(m, b)
  PROVE  Packet(l) = Packet(m)
<1>1. /\ l.version = m.version /\ l.padding = m.padding /\ l.extension = m.extension
      /\ l.marker = m.marker /\ l.payloadType = m.payloadType /\ l.seq = m.seq
      /\ l.timestamp = m.timestamp /\ l.ssrc = m.ssrc
      /\ l.padding = HasPadding(b) /\ l.extension = HasExtension(b)
  BY DEF Shows, ShowsBase
<1>2. /\ l.csrcList = m.csrcList
      /\ l.extension => l.profile = m.profile /\ l.extContents = m.extContents
  BY <1>1 DEF Shows, ShowsWords
<1>3. PayloadOf(l) = PayloadOf(m)
  BY DEF Shows
<1>4. l.padding => l.paddingLength = m.paddingLength
  BY <1>1 DEF Shows
<1>5. View(l) = View(m)
  BY <1>1, <1>2, <1>3, <1>4 DEF View
<1>6. WriteTo(l) = WriteTo(m)
  <2>1. FirstByte(l) = FirstByte(m)
    BY <1>1, <1>2 DEF FirstByte
  <2> QED
    BY <1>1, <1>2, <1>3, <1>4, <2>1, Zenon DEF WriteTo
<1> QED
  BY <1>5, <1>6 DEF Packet

\* Bytes in one chunk.
LEMMA InOnePiece ==
  ASSUME NEW b \in Seq(Byte)
  PROVE  <<b>> \in Seq(Seq(Byte)) /\ FlattenSeq(<<b>>) = b
<1>1. <<>> \in Seq(Seq(Byte)) /\ Append(<<>>, b) = <<b>>
  OBVIOUS
<1>2. FlattenSeq(Append(<<>>, b)) = FlattenSeq(<<>>) \o b
  <2>1. \A ss \in Seq(Seq(Byte)) : FlattenSeq(Append(ss, b)) = FlattenSeq(ss) \o b
    BY FlattenAppend, Zenon
  <2> QED
    BY <1>1, <2>1, Zenon
<1>3. FlattenSeq(<<>>) = <<>>
  BY FlattenNone
<1>4. <<>> \o b = b
  OBVIOUS
<1>5. <<b>> \in Seq(Seq(Byte))
  OBVIOUS
<1> QED
  BY <1>1, <1>2, <1>3, <1>4, <1>5, Zenon DEF Cat

\* What a parsing comes to.
Comes(r) == IF r.err = NoError THEN Packet(r.layer) ELSE Failure(r.err)

\* Bytes come to the same packet, or to the same error, in whatever chunks they are
\* and whatever layer they are parsed into, also one that another packet has used
\* (combinedLayer.UnmarshalChunks against Parser's reuse of its layer).
THEOREM ParsedIsWhole ==
  ASSUME NEW l, IsLayer(l), NEW b \in Seq(Byte), Len(b) < UInt16,
         NEW cs \in Seq(Seq(Byte)), FlattenSeq(cs) = b
  PROVE  /\ IsLayer(UnmarshalChunks(l, cs).layer)
         /\ Comes(UnmarshalChunks(l, cs)) = Whole(b)
<1> DEFINE r == UnmarshalChunks(l, cs)
           w == UnmarshalChunks(Fresh, <<b>>)
<1>1. IsLayer(r.layer) /\ r.err = ErrOf(b) /\ (r.err = NoError => Shows(r.layer, b))
  BY Unmarshalled
<1>2. w.err = ErrOf(b) /\ (w.err = NoError => Shows(w.layer, b))
  <2>1. <<b>> \in Seq(Seq(Byte)) /\ FlattenSeq(<<b>>) = b
    BY InOnePiece
  <2>2. IsLayer(Fresh)
    BY DEF IsLayer
  <2> QED
    BY <2>1, <2>2, Unmarshalled
<1>3. Whole(b) = Comes(w)
  BY DEF Whole, Comes
<1> HIDE DEF r, w
<1>4. Comes(r) = Comes(w)
  <2>1. CASE ErrOf(b) = NoError
    BY <1>1, <1>2, <2>1, SamePacket DEF Comes
  <2>2. CASE ErrOf(b) # NoError
    BY <1>1, <1>2, <2>2 DEF Comes
  <2> QED
    BY <2>1, <2>2
<1> QED
  BY <1>1, <1>3, <1>4 DEF r

\* A layer that was built and written comes to itself when it is parsed: its fields
\* as its getters show them and the bytes it is written as (WriteTo and Unmarshal).
THEOREM ExpectedIsWhole ==
  ASSUME NEW l, Sized(l), Typed(l), Len(WriteTo(l)) < UInt16
  PROVE  WriteTo(l) \in Seq(Byte) /\ Expected(l) = Whole(WriteTo(l))
<1> DEFINE b == WriteTo(l)
           w == UnmarshalChunks(Fresh, <<b>>)
<1>1. b \in Seq(Byte)
  BY WrittenPlaces
<1>2. CASE Sound(l)
  <2>1. ErrOf(b) = NoError /\ Shows(l, b)
    BY <1>2, SoundIsParsed, SoundShows
  <2>2. w.err = ErrOf(b) /\ (w.err = NoError => Shows(w.layer, b))
    <3>1. Len(b) < UInt16
      OBVIOUS
    <3> HIDE DEF b
    <3>2. <<b>> \in Seq(Seq(Byte)) /\ FlattenSeq(<<b>>) = b
      BY <1>1, InOnePiece
    <3>3. IsLayer(Fresh)
      BY DEF IsLayer
    <3> QED
      BY <1>1, <3>1, <3>2, <3>3, Unmarshalled
  <2>3. Whole(b) = Comes(w)
    BY DEF Whole, Comes
  <2>4. Expected(l) = Packet(l)
    BY <1>2 DEF Expected
  <2> HIDE DEF b, w
  <2>5. Packet(w.layer) = Packet(l)
    BY <1>1, <2>1, <2>2, SamePacket
  <2> QED
    BY <1>1, <2>1, <2>2, <2>3, <2>4, <2>5 DEF Comes, b
<1>3. CASE ~Sound(l)
  BY <1>1, <1>3 DEF Expected
<1> QED
  BY <1>2, <1>3

\* The or of two numbers of seven bits is one.
LEMMA BitOrIsSmall == ASSUME NEW a, NEW b PROVE BitOr(a, b) \in 0 .. 127
<1> DEFINE One(i) == IF Bit(a, i) + Bit(b, i) = 0 THEN 0 ELSE 1
<1>1. /\ 2^0 = 1 /\ 2^1 = 2 /\ 2^2 = 4 /\ 2^3 = 8 /\ 2^4 = 16 /\ 2^5 = 32 /\ 2^6 = 64
  OBVIOUS
<1>2. \A i \in 0 .. 6 : One(i) \in {0, 1}
  OBVIOUS
<1>3. BitOr(a, b) = 2^0 * One(0) + 2^1 * One(1) + 2^2 * One(2) + 2^3 * One(3)
                      + 2^4 * One(4) + 2^5 * One(5) + 2^6 * One(6)
  BY DEF BitOr
<1> HIDE DEF One
<1>4. /\ One(0) \in {0, 1} /\ One(1) \in {0, 1} /\ One(2) \in {0, 1} /\ One(3) \in {0, 1}
      /\ One(4) \in {0, 1} /\ One(5) \in {0, 1} /\ One(6) \in {0, 1}
  BY <1>2
<1>5. BitOr(a, b) = One(0) + 2 * One(1) + 4 * One(2) + 8 * One(3)
                      + 16 * One(4) + 32 * One(5) + 64 * One(6)
  BY <1>1, <1>3, <1>4
<1>6. ASSUME NEW p \in {0, 1}, NEW q \in {0, 1}, NEW r \in {0, 1}, NEW s \in {0, 1},
             NEW t \in {0, 1}, NEW u \in {0, 1}, NEW v \in {0, 1}
      PROVE  p + 2 * q + 4 * r + 8 * s + 16 * t + 32 * u + 64 * v \in 0 .. 127
  OBVIOUS
<1> QED
  BY <1>4, <1>5, <1>6

\* New layers and built ones have fields that fit their bits.
LEMMA LayersAreTyped == ASSUME NEW l \in Layers PROVE Typed(l)
<1>1. Typed(Fresh)
  <2>1. 0 \in 0 .. UInt16 - 1 /\ 0 \in 0 .. 127
    BY Width
  <2> QED
    BY <2>1 DEF Fresh, Typed
<1>2. ASSUME NEW c \in Configs PROVE Typed(Build(c))
  <2> DEFINE b == Build(c)
  <2>1. IsConfig(c)
    BY WireAssumption
  <2>2. /\ b.version = 2 /\ b.padding = (c.paddingLength > 0)
        /\ b.extension = (c.extContents # <<>>) /\ b.marker = c.marker
        /\ b.payloadType = c.payloadType % 128 /\ b.seq = c.seq
    BY <2>1, Fields DEF Build, IsConfig
  <2>3. c.marker \in BOOLEAN /\ c.payloadType \in 0 .. 255 /\ c.seq \in 0 .. UInt16 - 1
        /\ c.paddingLength \in Nat
    <3>1. /\ c.marker \in BOOLEAN /\ c.payloadType \in Byte /\ c.seq \in 0 .. UInt16 - 1
          /\ c.paddingLength \in Byte
      BY <2>1 DEF IsConfig
    <3>2. ASSUME NEW x \in Byte PROVE x \in 0 .. 255 /\ x \in Nat
      BY DEF Byte, UInt8
    <3> QED
      BY <3>1, <3>2
  <2>4. c.payloadType % 128 \in 0 .. 127
    <3>1. ASSUME NEW x \in 0 .. 255 PROVE x % 128 \in 0 .. 127
      OBVIOUS
    <3> QED
      BY <2>3, <3>1
  <2>5. (c.paddingLength > 0) \in BOOLEAN /\ (c.extContents # <<>>) \in BOOLEAN
    BY <2>3
  <2> HIDE DEF b
  <2>7. b.padding \in BOOLEAN /\ b.extension \in BOOLEAN
    BY <2>2, <2>5, Zenon
  <2>8. b.marker \in BOOLEAN
    BY <2>2, <2>3, Zenon
  <2>9. b.payloadType \in 0 .. 127
    BY <2>2, <2>4
  <2>10. b.seq \in 0 .. UInt16 - 1
    BY <2>2, <2>3
  <2>6. Typed(b)
    BY <2>2, <2>7, <2>8, <2>9, <2>10, Zenon DEF Typed
  <2> QED
    BY <2>6 DEF b
<1> QED
  BY <1>1, <1>2 DEF Layers

\* What the setters that keep a layer's flags and numbers leave alone.
SameMarks(l, m) ==
  /\ m.version = l.version /\ m.padding = l.padding /\ m.extension = l.extension
  /\ m.marker = l.marker /\ m.payloadType = l.payloadType /\ m.seq = l.seq

\* Typed is about the marks alone.
LEMMA MarksDecide == ASSUME NEW l, NEW m, Typed(l), SameMarks(l, m) PROVE Typed(m)
BY DEF Typed, SameMarks

\* The setters keep fields fitting their bits.
LEMMA EditsAreTyped ==
  ASSUME Sized(draft), Typed(draft), NEW l \in Edits(draft)
  PROVE  Typed(l)
<1> DEFINE d == draft
<1>0. DOMAIN d = DOMAIN Fresh /\ Typed(d)
  BY DEF Sized
<1> HIDE DEF d
<1>1. ASSUME NEW s \in Stamps PROVE Typed(Stamp(d, s))
  <2> DEFINE m == Stamp(d, s)
  <2>1. /\ m.version = d.version /\ m.padding = d.padding /\ m.extension = d.extension
        /\ m.marker = s.marker /\ m.payloadType = d.payloadType /\ m.seq = s.seq
    BY <1>0, Fields DEF Stamp
  <2>2. s.marker \in BOOLEAN /\ s.seq \in 0 .. UInt16 - 1
    BY WireAssumption
  <2> HIDE DEF m
  <2>3. Typed(m)
    BY <1>0, <2>1, <2>2, Zenon DEF Typed
  <2> QED
    BY <2>3 DEF m
<1>2. ASSUME NEW t PROVE Typed(SetPayloadType(d, t))
  <2> DEFINE m == SetPayloadType(d, t)
  <2>1. /\ m.version = d.version /\ m.padding = d.padding /\ m.extension = d.extension
        /\ m.marker = d.marker /\ m.seq = d.seq
        /\ m.payloadType = BitOr(d.payloadType, t % 128)
    BY <1>0, Fields DEF SetPayloadType
  <2>2. m.payloadType \in 0 .. 127
    BY <2>1, BitOrIsSmall
  <2> HIDE DEF m
  <2>3. Typed(m)
    BY <1>0, <2>1, <2>2, Zenon DEF Typed
  <2> QED
    BY <2>3 DEF m
<1>3. ASSUME NEW ws
      PROVE  Typed([d EXCEPT !.csrcList = ws]) /\ Typed([d EXCEPT !.extContents = ws])
  <2>1. SameMarks(d, [d EXCEPT !.csrcList = ws]) /\ SameMarks(d, [d EXCEPT !.extContents = ws])
    BY <1>0, Fields DEF SameMarks
  <2> QED
    BY <1>0, <2>1, MarksDecide
<1>4. ASSUME NEW ws, NEW w
      PROVE  /\ Typed(SetCSRCList(d, ws)) /\ Typed(AddCSRC(d, w)) /\ Typed(AddCSRCList(d, ws))
             /\ Typed(SetExtensionContents(d, ws)) /\ Typed(AddExtensionContents(d, ws))
  <2>1. Typed(SetCSRCList(d, ws)) /\ Typed(AddCSRCList(d, ws))
    BY <1>3 DEF SetCSRCList, AddCSRCList
  <2>2. Typed(SetExtensionContents(d, ws)) /\ Typed(AddExtensionContents(d, ws))
    BY <1>3 DEF SetExtensionContents, AddExtensionContents
  <2>3. Typed(AddCSRC(d, w))
    BY <1>0, <1>3 DEF AddCSRC
  <2> QED
    BY <2>1, <2>2, <2>3
<1>5. ASSUME NEW n PROVE Typed(SetPaddingLength(d, n))
  <2> DEFINE m == SetPaddingLength(d, n)
  <2>1. /\ m.version = d.version /\ m.padding = TRUE /\ m.extension = d.extension
        /\ m.marker = d.marker /\ m.payloadType = d.payloadType /\ m.seq = d.seq
    BY <1>0, Fields DEF SetPaddingLength
  <2> HIDE DEF m
  <2>2. Typed(m)
    BY <1>0, <2>1, Zenon DEF Typed
  <2> QED
    BY <2>2 DEF m
<1>6. ASSUME NEW c PROVE Typed(SetContent(d, c)) /\ Typed(AddContent(d, c))
  <2>1. SameMarks(d, SetContent(d, c)) /\ SameMarks(d, AddContent(d, c))
    BY <1>0, Fields DEF SameMarks, SetContent, AddContent
  <2> QED
    BY <1>0, <2>1, MarksDecide
<1> QED
  BY <1>1, <1>2, <1>4, <1>5, <1>6, LayersAreTyped, Zenon DEF Edits, d

\* The packets of a frame can be sent: their fields fit their places, and they
\* themselves fit behind the bytes of their length.
Sendable(f) == \A i \in DOMAIN f.packets : Typed(f.packets[i]) /\ Fits(f.packets[i])

\* Append adds packets that can be sent.
LEMMA AppendKeepsSendable ==
  ASSUME NEW f, NEW l, NEW t, Timed(f), Collected(f), Sendable(f), Typed(l), Fits(l)
  PROVE  Sendable(AppendPacket(f, l, t))
<1> DEFINE g == AppendPacket(f, l, t)
<1>1. CASE ~Belongs(f, l)
  BY <1>1 DEF AppendPacket
<1>2. CASE Belongs(f, l)
  <2>1. g.packets = Append(f.packets, l)
    BY <1>2 DEF AppendPacket, Timed
  <2>2. PICK S : f.packets \in Seq(S)
    BY DEF Collected
  <2>3. f.packets \in Seq(S \cup {l})
    BY <2>2
  <2> HIDE DEF g
  <2>4. ASSUME NEW i \in DOMAIN g.packets
        PROVE  \/ i \in DOMAIN f.packets /\ g.packets[i] = f.packets[i]
               \/ g.packets[i] = l
    BY <2>1, <2>3, <2>4
  <2>5. Sendable(g)
    BY <2>4 DEF Sendable
  <2> QED
    BY <2>5 DEF g
<1> QED
  BY <1>1, <1>2

\* SetTimestamp of a frame keeps its packets ones that can be sent.
LEMMA RetimeKeepsSendable ==
  ASSUME NEW f, NEW t, Timed(f), Filled(f), Sendable(f), IsWord(t)
  PROVE  Sendable(SetFrameTimestamp(f, t))
<1> DEFINE g == SetFrameTimestamp(f, t)
           Renewed(l) == [l EXCEPT !.timestamp = t]
<1>1. g.packets = [i \in DOMAIN f.packets |-> Renewed(f.packets[i])]
  BY DEF SetFrameTimestamp, Timed
<1>2. ASSUME NEW i \in DOMAIN f.packets
      PROVE  Typed(Renewed(f.packets[i])) /\ Fits(Renewed(f.packets[i]))
  <2> DEFINE l == f.packets[i]
             m == Renewed(l)
  <2>1. Sized(l) /\ Typed(l) /\ Fits(l)
    BY DEF Filled, Sendable
  <2> HIDE DEF l
  <2>2. SameShape(l, m) /\ m.timestamp = t /\ m.ssrc = l.ssrc /\ SameMarks(l, m)
    BY <2>1, Fields DEF SameShape, Sized, SameMarks
  <2> HIDE DEF m
  <2>3. IsWord(m.timestamp) /\ IsWord(m.ssrc)
    BY <2>1, <2>2 DEF Sized
  <2>4. Size(m) = Size(l)
    BY <2>1, <2>2, <2>3, ShapeDecides
  <2> QED
    BY <2>1, <2>2, <2>4, MarksDecide DEF m, l, Fits
<1> HIDE DEF g, Renewed
<1>3. DOMAIN g.packets = DOMAIN f.packets
      /\ \A i \in DOMAIN f.packets : g.packets[i] = Renewed(f.packets[i])
  BY <1>1
<1>4. Sendable(g)
  BY <1>2, <1>3 DEF Sendable
<1> QED
  BY <1>4 DEF g

\* A layer with another payload type fits as well as before.
LEMMA TypedAgain ==
  ASSUME NEW l, Sized(l), Typed(l), NEW t
  PROVE  LET m == SetPayloadType(l, t)
         IN  Typed(m) /\ SameShape(l, m) /\ m.timestamp = l.timestamp /\ m.ssrc = l.ssrc
<1> DEFINE m == SetPayloadType(l, t)
<1>0. DOMAIN l = DOMAIN Fresh
  BY DEF Sized
<1>1. /\ m.version = l.version /\ m.padding = l.padding /\ m.extension = l.extension
      /\ m.marker = l.marker /\ m.seq = l.seq
      /\ m.payloadType = BitOr(l.payloadType, t % 128)
      /\ SameShape(l, m) /\ m.timestamp = l.timestamp /\ m.ssrc = l.ssrc
  BY <1>0, Fields DEF SetPayloadType, SameShape
<1>2. m.payloadType \in 0 .. 127
  BY <1>1, BitOrIsSmall
<1> HIDE DEF m
<1>3. Typed(m)
  BY <1>1, <1>2, Zenon DEF Typed
<1> QED
  BY <1>1, <1>3 DEF m

\* SetPayloadType of a frame keeps its packets ones that can be sent.
LEMMA RetypeKeepsSendable ==
  ASSUME NEW f, NEW t, Timed(f), Filled(f), Sendable(f)
  PROVE  Sendable(SetFramePayloadType(f, t))
<1> DEFINE g == SetFramePayloadType(f, t)
<1>1. g.packets = [i \in DOMAIN f.packets |-> SetPayloadType(f.packets[i], t)]
  BY DEF SetFramePayloadType, Timed
<1>2. ASSUME NEW i \in DOMAIN f.packets
      PROVE  Typed(SetPayloadType(f.packets[i], t)) /\ Fits(SetPayloadType(f.packets[i], t))
  <2> DEFINE l == f.packets[i]
             m == SetPayloadType(l, t)
  <2>1. Sized(l) /\ Typed(l) /\ Fits(l)
    BY DEF Filled, Sendable
  <2> HIDE DEF l
  <2>2. Typed(m) /\ SameShape(l, m) /\ m.timestamp = l.timestamp /\ m.ssrc = l.ssrc
    BY <2>1, TypedAgain
  <2> HIDE DEF m
  <2>3. IsWord(m.timestamp) /\ IsWord(m.ssrc)
    BY <2>1, <2>2 DEF Sized
  <2>4. Size(m) = Size(l)
    BY <2>1, <2>2, <2>3, ShapeDecides
  <2> QED
    BY <2>1, <2>2, <2>4 DEF m, l, Fits
<1> HIDE DEF g
<1>3. DOMAIN g.packets = DOMAIN f.packets
      /\ \A i \in DOMAIN f.packets : g.packets[i] = SetPayloadType(f.packets[i], t)
  BY <1>1
<1>4. Sendable(g)
  BY <1>2, <1>3 DEF Sendable
<1> QED
  BY <1>4 DEF g

\* Packets that fit, sent by a setter-made draft or in a frame.
Sends == Typed(draft) /\ Sendable(frame)

\* Every step keeps draft and frame sendable.
LEMMA NextSends == Inv /\ Sizes /\ Sends /\ [Next]_vars => Sends'
<1> SUFFICES ASSUME Inv, Sizes, Sends, [Next]_vars PROVE Sends'
  OBVIOUS
<1>0. Sendable(EmptyFrame) /\ Typed(Fresh)
  BY LayersAreTyped DEF Sendable, EmptyFrame, Layers
<1>1. CASE Edit
  BY <1>1, EditsAreTyped DEF Sizes, Sends, Edit
<1>2. CASE Collect
  BY <1>2, AppendKeepsSendable DEF Inv, Sends, Collect
<1>3. CASE Retime
  BY <1>3, RetimeKeepsSendable, WireAssumption DEF Inv, Sizes, Sends, Retime
<1>4. CASE Retype
  BY <1>4, RetypeKeepsSendable DEF Inv, Sizes, Sends, Retype
<1>5. CASE WriteFrame
  BY <1>0, <1>5 DEF Sends, WriteFrame
<1>6. CASE EndSending
  BY <1>0, <1>6 DEF Sends, EndSending
<1>7. CASE UNCHANGED <<draft, frame>>
  BY <1>7 DEF Sends
<1> QED
  BY <1>1, <1>2, <1>3, <1>4, <1>5, <1>6, <1>7
     DEF Next, vars, sendVars, Override, WriteDraft, PeerJunk, ReadChunk, ParseChunk,
         ReadFile, EndOfStream

\* So they always are.
LEMMA SendsInvariant == Spec => []Sends
<1>1. Init => Sends
  BY LayersAreTyped DEF Init, Sends, Sendable, EmptyFrame
<1> QED
  BY <1>1, NextSends, Invariance, SizesInvariant, PTL DEF Spec

\* Nothing before or behind.
LEMMA CatNone ==
  ASSUME NEW S, NEW s \in Seq(S)
  PROVE  Cat(<<>>, s) = s /\ Cat(s, <<>>) = s /\ Len(<<>>) = 0 /\ <<>> \in Seq(S)
BY ConcatEmptySeq DEF Cat

\* What a sequence made of two has for items.
Items(u, s, t) == /\ \A i \in 1 .. Len(s) : u[i] = s[i]
                  /\ \A j \in 1 .. Len(t) : u[Len(s) + j] = t[j]

\* Two sequences have the items of both.
LEMMA CatItems ==
  ASSUME NEW S, NEW s \in Seq(S), NEW t \in Seq(S) PROVE Items(Cat(s, t), s, t)
BY Joined DEF Cat, Items

\* Two sequences are decided by what they are together and the length of one.
LEMMA CatSplit ==
  ASSUME NEW S, NEW a \in Seq(S), NEW b \in Seq(S), NEW c \in Seq(S), NEW d \in Seq(S),
         Cat(a, b) = Cat(c, d), Len(a) = Len(c)
  PROVE  a = c /\ b = d
<1> DEFINE s == Cat(a, b)
<1>1. Len(s) = Len(a) + Len(b)
  BY CatType
<1>2. Len(s) = Len(c) + Len(d)
  BY CatType
<1>3. /\ \A i \in 1 .. Len(a) : s[i] = a[i]
      /\ \A j \in 1 .. Len(b) : s[Len(a) + j] = b[j]
  <2>1. Items(s, a, b)
    BY CatItems
  <2> HIDE DEF s
  <2> QED
    BY <2>1 DEF Items
<1>4. /\ \A i \in 1 .. Len(c) : s[i] = c[i]
      /\ \A j \in 1 .. Len(d) : s[Len(c) + j] = d[j]
  <2>1. Items(s, c, d)
    BY CatItems
  <2> HIDE DEF s
  <2> QED
    BY <2>1 DEF Items
<1> HIDE DEF s
<1>5. Len(b) = Len(d)
  <2>1. Len(a) \in Nat /\ Len(b) \in Nat /\ Len(d) \in Nat /\ Len(a) + Len(b) = Len(a) + Len(d)
    BY <1>1, <1>2
  <2> QED
    BY <2>1
<1>6. a = c
  <2>1. \A i \in 1 .. Len(a) : a[i] = c[i]
    BY <1>3, <1>4
  <2> QED
    BY <2>1, SeqEqual
<1>7. b = d
  <2>1. \A j \in 1 .. Len(b) : b[j] = d[j]
    BY <1>3, <1>4, <1>5
  <2> QED
    BY <1>5, <2>1, SeqEqual
<1> QED
  BY <1>6, <1>7

\* A sequence cut in two.
LEMMA TakeDrop ==
  ASSUME NEW S, NEW s \in Seq(S), NEW n \in 0 .. Len(s)
  PROVE  /\ SubSeq(s, 1, n) \in Seq(S) /\ Len(SubSeq(s, 1, n)) = n
         /\ Drop(s, n) \in Seq(S) /\ Len(Drop(s, n)) = Len(s) - n
         /\ Cat(SubSeq(s, 1, n), Drop(s, n)) = s
<1>0. Len(s) \in Nat /\ n \in Nat /\ n <= Len(s)
  OBVIOUS
<1>1. Drop(s, n) \in Seq(S) /\ Len(Drop(s, n)) = Len(s) - n
  <2>1. Drop(s, n) \in Seq(S) /\ Len(Drop(s, n)) = IF Len(s) > n THEN Len(s) - n ELSE 0
    BY <1>0, Dropped
  <2> QED
    BY <1>0, <2>1
<1>2. SubSeq(s, 1, n) \in Seq(S) /\ Len(SubSeq(s, 1, n)) = n
  BY <1>0
<1>3. SubSeq(s, 1, n) \o SubSeq(s, n + 1, Len(s)) = SubSeq(s, 1, Len(s))
  <2>1. 1 \in 1 .. Len(s) + 1 /\ n \in 1 - 1 .. Len(s) /\ Len(s) \in n .. Len(s)
    BY <1>0
  <2> QED
    BY <2>1, ConcatAdjacentSubSeq
<1>4. SubSeq(s, 1, Len(s)) = s
  BY SubSeqFull
<1> QED
  BY <1>1, <1>2, <1>3, <1>4, Zenon DEF Cat, Drop

\* What is left is the next piece and what is left behind it.
LEMMA DropNext ==
  ASSUME NEW S, NEW w \in Seq(S), NEW k \in Nat, NEW n \in Nat, k + n <= Len(w)
  PROVE  /\ SubSeq(w, k + 1, k + n) \in Seq(S) /\ Len(SubSeq(w, k + 1, k + n)) = n
         /\ Cat(SubSeq(w, k + 1, k + n), Drop(w, k + n)) = Drop(w, k)
<1> DEFINE d == Drop(w, k)
<1>1. d \in Seq(S) /\ Len(d) = Len(w) - k
  <2>1. k \in 0 .. Len(w)
    OBVIOUS
  <2> QED
    BY <2>1, TakeDrop
<1>2. SubSeq(d, 1, n) = SubSeq(w, k + 1, k + n)
  BY TakenOfDropped
<1>3. Drop(d, n) = Drop(w, k + n)
  BY DropOfDrop
<1> HIDE DEF d
<1>4. n \in 0 .. Len(d)
  BY <1>1
<1>5. /\ SubSeq(d, 1, n) \in Seq(S) /\ Len(SubSeq(d, 1, n)) = n
      /\ Cat(SubSeq(d, 1, n), Drop(d, n)) = d
  BY <1>1, <1>4, TakeDrop
<1> QED
  BY <1>2, <1>3, <1>5 DEF d

\* Item by item, by a function.
Map(F, s) == [i \in DOMAIN s |-> F[s[i]]]
Takes(F, S, T) == F \in [S -> T]

IsMap(m, F, s, T) == /\ m \in Seq(T) /\ Len(m) = Len(s)
                     /\ \A i \in 1 .. Len(s) : m[i] = F[s[i]]

\* A sequence mapped item by item.
LEMMA MapType ==
  ASSUME NEW S, NEW T, NEW F, Takes(F, S, T), NEW s \in Seq(S)
  PROVE  IsMap(Map(F, s), F, s, T)
<1>1. DOMAIN s = 1 .. Len(s) /\ Len(s) \in Nat /\ \A i \in 1 .. Len(s) : F[s[i]] \in T
  BY DEF Takes
<1> QED
  BY <1>1 DEF Map, IsMap

JoinsMapped(F, s, t) == Map(F, Cat(s, t)) = Cat(Map(F, s), Map(F, t))

\* Mapping two sequences in a row.
LEMMA MapJoin ==
  ASSUME NEW S, NEW T, NEW F, Takes(F, S, T), NEW ps \in Seq(S), NEW qs \in Seq(S)
  PROVE  JoinsMapped(F, ps, qs)
<1> DEFINE all == Cat(ps, qs)
           l == Map(F, all)
           a == Map(F, ps)
           b == Map(F, qs)
           r == Cat(a, b)
<1>1. all \in Seq(S) /\ Len(all) = Len(ps) + Len(qs)
  BY CatType
<1>2. /\ \A i \in 1 .. Len(ps) : all[i] = ps[i]
      /\ \A j \in 1 .. Len(qs) : all[Len(ps) + j] = qs[j]
  <2>1. Items(all, ps, qs)
    BY CatItems
  <2> HIDE DEF all
  <2> QED
    BY <2>1 DEF Items
<1> HIDE DEF all
<1>0. IsMap(l, F, all, T) /\ IsMap(a, F, ps, T) /\ IsMap(b, F, qs, T)
  BY <1>1, MapType
<1> HIDE DEF l, a, b
<1>3. /\ l \in Seq(T) /\ Len(l) = Len(all)
      /\ a \in Seq(T) /\ Len(a) = Len(ps)
      /\ b \in Seq(T) /\ Len(b) = Len(qs)
  BY <1>0 DEF IsMap
<1>4. /\ \A i \in 1 .. Len(all) : l[i] = F[all[i]]
      /\ \A i \in 1 .. Len(ps) : a[i] = F[ps[i]]
      /\ \A i \in 1 .. Len(qs) : b[i] = F[qs[i]]
  BY <1>0 DEF IsMap
<1>5. r \in Seq(T) /\ Len(r) = Len(a) + Len(b)
  BY <1>3, CatType
<1>6. /\ \A i \in 1 .. Len(a) : r[i] = a[i]
      /\ \A j \in 1 .. Len(b) : r[Len(a) + j] = b[j]
  <2>1. Items(r, a, b)
    BY <1>3, CatItems
  <2> HIDE DEF r
  <2> QED
    BY <2>1 DEF Items
<1> HIDE DEF r
<1>10. F \in [S -> T]
  BY DEF Takes
<1>7. Len(l) = Len(r)
  BY <1>1, <1>3, <1>5
<1>8. ASSUME NEW i \in 1 .. Len(l) PROVE l[i] = r[i]
  <2>1. CASE i <= Len(ps)
    <3>1. i \in 1 .. Len(ps) /\ i \in 1 .. Len(all)
      BY <1>3, <2>1
    <3> QED
      BY <1>2, <1>3, <1>4, <1>6, <1>10, <3>1
  <2>2. CASE ~(i <= Len(ps))
    <3>1. PICK j \in 1 .. Len(qs) : i = Len(ps) + j
      <4>1. i - Len(ps) \in 1 .. Len(qs) /\ i = Len(ps) + (i - Len(ps))
        BY <1>1, <1>3, <2>2
      <4> QED
        BY <4>1
    <3> QED
      BY <1>2, <1>3, <1>4, <1>6, <1>10, <3>1
  <2> QED
    BY <2>1, <2>2
<1>9. l = r
  BY <1>3, <1>5, <1>7, <1>8, SeqEqual
<1> QED
  BY <1>9 DEF l, r, a, b, all, JoinsMapped

(* ------------------------- packets on the stream ------------------------ *)

\* What may stand behind the bytes of its length; what it comes to.
Body == {p \in Seq(Byte) : Len(p) < UInt16}
Outcomes == {Whole(p) : p \in Body}
FrameOf == [p \in Body |-> Framed(Len(p), p)]
WholeOf == [p \in Body |-> Whole(p)]
Stream(ps) == FlattenSeq(Map(FrameOf, ps))
Wholes(ps) == Map(WholeOf, ps)

\* A packet behind its length is bytes.
LEMMA FrameType ==
  ASSUME NEW p \in Body
  PROVE  /\ p \in Seq(Byte) /\ Len(p) \in 0 .. UInt16 - 1
         /\ Put16(Len(p)) \in Seq(Byte) /\ Len(Put16(Len(p))) = 2
         /\ Framed(Len(p), p) = Cat(Put16(Len(p)), p) /\ Framed(Len(p), p) \in Seq(Byte)
<1>1. p \in Seq(Byte) /\ Len(p) \in Nat /\ Len(p) < UInt16
  BY DEF Body
<1>2. Len(p) \in 0 .. UInt16 - 1
  BY <1>1, BelowUInt16
<1>3. Put16(Len(p)) \in Seq(Byte) /\ Len(Put16(Len(p))) = 2
  BY <1>2, Put16AndBack
<1>4. Framed(Len(p), p) = Cat(Put16(Len(p)), p)
  BY DEF Framed, Cat
<1>5. Cat(Put16(Len(p)), p) \in Seq(Byte)
  BY <1>1, <1>3, CatType
<1> QED
  BY <1>1, <1>2, <1>3, <1>4, <1>5

\* Of the two functions that make a stream and its outcomes.
LEMMA FrameFunctions ==
  Takes(FrameOf, Body, Seq(Byte)) /\ Takes(WholeOf, Body, Outcomes)
<1>1. \A p \in Body : Framed(Len(p), p) \in Seq(Byte) /\ Whole(p) \in Outcomes
  BY FrameType DEF Outcomes
<1> QED
  BY <1>1 DEF FrameOf, WholeOf, Takes

\* A stream is bytes, and comes to as many outcomes as it has packets.
LEMMA StreamType ==
  ASSUME NEW ps \in Seq(Body)
  PROVE  /\ Stream(ps) \in Seq(Byte)
         /\ Wholes(ps) \in Seq(Outcomes) /\ Len(Wholes(ps)) = Len(ps)
<1>1. Map(FrameOf, ps) \in Seq(Seq(Byte))
  BY FrameFunctions, MapType DEF IsMap
<1>2. Wholes(ps) \in Seq(Outcomes) /\ Len(Wholes(ps)) = Len(ps)
  <2>1. IsMap(Map(WholeOf, ps), WholeOf, ps, Outcomes)
    BY FrameFunctions, MapType
  <2> QED
    BY <2>1 DEF IsMap, Wholes
<1> QED
  BY <1>1, <1>2, FlattenType DEF Stream

\* A stream and another behind it.
LEMMA StreamJoin ==
  ASSUME NEW ps \in Seq(Body), NEW qs \in Seq(Body)
  PROVE  /\ Stream(Cat(ps, qs)) = Cat(Stream(ps), Stream(qs))
         /\ Wholes(Cat(ps, qs)) = Cat(Wholes(ps), Wholes(qs))
<1>1. Map(FrameOf, ps) \in Seq(Seq(Byte)) /\ Map(FrameOf, qs) \in Seq(Seq(Byte))
  BY FrameFunctions, MapType DEF IsMap
<1>0. Takes(FrameOf, Body, Seq(Byte)) /\ Takes(WholeOf, Body, Outcomes)
  BY FrameFunctions
<1>2. Map(FrameOf, Cat(ps, qs)) = Cat(Map(FrameOf, ps), Map(FrameOf, qs))
  <2>1. JoinsMapped(FrameOf, ps, qs)
    BY <1>0, MapJoin
  <2> QED
    BY <2>1, Zenon DEF JoinsMapped
<1>3. Wholes(Cat(ps, qs)) = Cat(Wholes(ps), Wholes(qs))
  <2>1. JoinsMapped(WholeOf, ps, qs)
    BY <1>0, MapJoin
  <2> QED
    BY <2>1, Zenon DEF Wholes, JoinsMapped
<1> DEFINE a == Map(FrameOf, ps)
           b == Map(FrameOf, qs)
<1> HIDE DEF a, b
<1>4. FlattenSeq(Cat(a, b)) = Cat(FlattenSeq(a), FlattenSeq(b))
  <2>1. a \in Seq(Seq(Byte)) /\ b \in Seq(Seq(Byte))
    BY <1>1 DEF a, b
  <2> QED
    BY <2>1, FlattenJoin, Zenon DEF Cat
<1> QED
  BY <1>2, <1>3, <1>4 DEF Stream, a, b

\* A stream of one packet.
LEMMA StreamOne ==
  ASSUME NEW p \in Body
  PROVE  /\ <<p>> \in Seq(Body) /\ Stream(<<p>>) = Cat(Put16(Len(p)), p)
         /\ Wholes(<<p>>) = <<Whole(p)>>
<1>1. <<p>> \in Seq(Body) /\ DOMAIN <<p>> = {1} /\ <<p>>[1] = p
  OBVIOUS
<1>2. FrameOf[p] = Framed(Len(p), p) /\ WholeOf[p] = Whole(p)
  BY DEF FrameOf, WholeOf
<1>3. Map(FrameOf, <<p>>) = <<Framed(Len(p), p)>> /\ Wholes(<<p>>) = <<Whole(p)>>
  BY <1>1, <1>2 DEF Map, Wholes
<1>4. FlattenSeq(<<Framed(Len(p), p)>>) = Framed(Len(p), p)
  BY FrameType, InOnePiece
<1> QED
  BY <1>1, <1>3, <1>4, FrameType DEF Stream

\* A stream of no packets.
LEMMA StreamNone == Stream(<<>>) = <<>> /\ Wholes(<<>>) = <<>> /\ <<>> \in Seq(Body)
<1>1. Map(FrameOf, <<>>) = <<>> /\ Wholes(<<>>) = <<>>
  BY DEF Map, Wholes
<1> QED
  BY <1>1, FlattenNone DEF Stream

\* The first packet of a stream, and the stream behind it.
LEMMA StreamFirst ==
  ASSUME NEW ps \in Seq(Body), ps # <<>>
  PROVE  \E p \in Body, rest \in Seq(Body) :
            /\ ps = Cat(<<p>>, rest)
            /\ Stream(ps) = Cat(Put16(Len(p)), Cat(p, Stream(rest)))
            /\ Wholes(ps) = Cat(<<Whole(p)>>, Wholes(rest))
<1> DEFINE p == Head(ps)
           rest == Tail(ps)
<1>1. p \in Body /\ rest \in Seq(Body)
  OBVIOUS
<1>2. ps = Cat(<<p>>, rest)
  BY DEF Cat
<1> HIDE DEF p, rest
<1>3. <<p>> \in Seq(Body) /\ Stream(<<p>>) = Cat(Put16(Len(p)), p) /\ Wholes(<<p>>) = <<Whole(p)>>
  BY <1>1, StreamOne
<1>4. /\ Stream(Cat(<<p>>, rest)) = Cat(Stream(<<p>>), Stream(rest))
      /\ Wholes(Cat(<<p>>, rest)) = Cat(Wholes(<<p>>), Wholes(rest))
  BY <1>1, <1>3, StreamJoin
<1>5. Cat(Cat(Put16(Len(p)), p), Stream(rest)) = Cat(Put16(Len(p)), Cat(p, Stream(rest)))
  BY <1>1, FrameType, StreamType, CatAssociative
<1>6. /\ Stream(ps) = Cat(Put16(Len(p)), Cat(p, Stream(rest)))
      /\ Wholes(ps) = Cat(<<Whole(p)>>, Wholes(rest))
  BY <1>2, <1>3, <1>4, <1>5, Zenon
<1> QED
  BY <1>1, <1>2, <1>6

\* The two bytes in front are the length of the first packet.
LEMMA NextLength ==
  ASSUME NEW todo \in Seq(Body), NEW h \in Seq(Byte), Len(h) = 2, NEW ahead \in Seq(Byte),
         Cat(h, ahead) = Stream(todo)
  PROVE  \E p \in Body, rest \in Seq(Body) :
            /\ todo = Cat(<<p>>, rest) /\ Get16(h) = Len(p) /\ Len(p) \in Nat
            /\ ahead = Cat(p, Stream(rest))
<1>1. todo # <<>>
  <2>1. Len(Cat(h, ahead)) = Len(h) + Len(ahead)
    BY CatType
  <2>2. Len(ahead) \in Nat
    OBVIOUS
  <2>3. Len(Stream(todo)) >= 2
    BY <2>1, <2>2
  <2>4. Len(<<>>) = 0
    OBVIOUS
  <2>5. Stream(<<>>) = <<>>
    BY StreamNone
  <2> QED
    BY <2>3, <2>4, <2>5
<1>2. PICK p \in Body, rest \in Seq(Body) :
        /\ todo = Cat(<<p>>, rest)
        /\ Stream(todo) = Cat(Put16(Len(p)), Cat(p, Stream(rest)))
  BY <1>1, StreamFirst
<1> DEFINE s == Put16(Len(p))
           t == Cat(p, Stream(rest))
<1>3. s \in Seq(Byte) /\ Len(s) = 2 /\ p \in Seq(Byte) /\ Len(p) \in 0 .. UInt16 - 1
  BY FrameType
<1>4. t \in Seq(Byte)
  BY <1>3, StreamType, CatType
<1>5. Cat(h, ahead) = Cat(s, t)
  BY <1>2
<1>6. Get16(s) = Len(p)
  BY <1>3, Put16AndBack
<1> HIDE DEF s, t
<1>7. h = s /\ ahead = t
  <2>1. Len(h) = Len(s)
    BY <1>3
  <2> QED
    BY <1>3, <1>4, <1>5, <2>1, CatSplit
<1>8. Len(p) \in Nat
  BY <1>3
<1> QED
  BY <1>2, <1>6, <1>7, <1>8 DEF t

(* -------------------------------- parser -------------------------------- *)

\* Between two packets, with less than the bytes of a length.
HeaderPart(q, todo, ahead) ==
  /\ q.header \in Seq(Byte) /\ Len(q.header) < 2 /\ q.cache = <<>>
  /\ Cat(q.header, ahead) = Stream(todo)

\* In packet p, some of it collected.
BodyPart(q, p, rest, ahead) ==
  /\ Len(q.header) = 2
  /\ q.cache \in Seq(Seq(Byte))
  /\ q.need \in Nat /\ Len(p) = Len(FlattenSeq(q.cache)) + q.need
  /\ q.need > 0 \/ p = <<>>
  /\ Cat(FlattenSeq(q.cache), ahead) = Cat(p, Stream(rest))

\* The parser is in step: what it has taken and what is ahead of it are the
\* packets to do.
ParserAt(q, todo, ahead) ==
  /\ DOMAIN q = DOMAIN Reset
  /\ \/ HeaderPart(q, todo, ahead)
     \/ \E p \in Body, rest \in Seq(Body) :
           todo = Cat(<<p>>, rest) /\ BodyPart(q, p, rest, ahead)

Result(o) == IF o.result = "packet" THEN Packet(o.layer) ELSE Failure(o.result)

\* After a call the parser is still in step, and has made of the first packet
\* what it comes to.
Came(o, todo, more) ==
  /\ o.remain \in Seq(Byte) /\ IsLayer(o.layer)
  /\ o.result = "more" => ParserAt(o.parser, todo, Cat(o.remain, more))
  /\ o.result # "more" =>
       \E p \in Body, rest \in Seq(Body) :
          /\ todo = Cat(<<p>>, rest) /\ ParserAt(o.parser, rest, Cat(o.remain, more))
          /\ Result(o) = Whole(p)

\* No error is taken for a packet or for more bytes needed.
LEMMA Errors ==
  ASSUME NEW b
  PROVE  ErrOf(b) # "more" /\ ErrOf(b) # "packet" /\ NoError # "more" /\ NoError # "packet"
BY DEF ErrOf, NoError

\* A parser just reset is in step at the front of a packet.
LEMMA FreshParser ==
  ASSUME NEW todo \in Seq(Body), NEW ahead \in Seq(Byte), ahead = Stream(todo)
  PROVE  ParserAt(Reset, todo, ahead)
<1>1. Cat(<<>>, ahead) = ahead /\ Len(<<>>) = 0 /\ <<>> \in Seq(Byte)
  BY CatNone
<1>2. Reset.header = <<>> /\ Reset.cache = <<>>
  BY DEF Reset
<1>3. HeaderPart(Reset, todo, ahead)
  BY <1>1, <1>2 DEF HeaderPart
<1> QED
  BY <1>3 DEF ParserAt

\* A packet is complete: its pieces are parsed, and the parser starts again.
LEMMA WholeStep ==
  ASSUME NEW l, IsLayer(l), NEW p \in Body, NEW rest \in Seq(Body),
         NEW cs \in Seq(Seq(Byte)), FlattenSeq(cs) = p,
         NEW remain \in Seq(Byte), NEW more \in Seq(Byte), Cat(remain, more) = Stream(rest),
         NEW todo, todo = Cat(<<p>>, rest)
  PROVE  LET r == UnmarshalChunks(l, cs)
         IN  Came(Outcome(Reset, r.layer, remain,
                          IF r.err = NoError THEN "packet" ELSE r.err), todo, more)
<1> DEFINE r == UnmarshalChunks(l, cs)
           o == Outcome(Reset, r.layer, remain, IF r.err = NoError THEN "packet" ELSE r.err)
<1>1. p \in Seq(Byte) /\ Len(p) < UInt16
  BY DEF Body
<1>2. IsLayer(r.layer) /\ Comes(r) = Whole(p)
  BY <1>1, ParsedIsWhole
<1>3. r.err = ErrOf(p)
  BY <1>1, Unmarshalled
<1>4. r.err # "more" /\ r.err # "packet"
  BY <1>3, Errors
<1> HIDE DEF r
<1>5. /\ o.parser = Reset /\ o.layer = r.layer /\ o.remain = remain
      /\ o.result = IF r.err = NoError THEN "packet" ELSE r.err
  BY DEF Outcome
<1> HIDE DEF o
<1>6. o.result # "more"
  BY <1>4, <1>5
<1>7. Result(o) = Whole(p)
  BY <1>2, <1>4, <1>5 DEF Result, Comes
<1>8. ParserAt(Reset, rest, Cat(remain, more))
  <2>1. Cat(remain, more) \in Seq(Byte)
    BY CatType
  <2> QED
    BY <2>1, FreshParser
<1>9. Came(o, todo, more)
  BY <1>2, <1>5, <1>6, <1>7, <1>8 DEF Came
<1> QED
  BY <1>9 DEF o, r

\* Once the length is known: with less than the packet, or with all of it.
LEMMA BodyStep ==
  ASSUME NEW q, DOMAIN q = DOMAIN Reset, NEW l, IsLayer(l),
         NEW p \in Body, NEW rest \in Seq(Body), NEW todo, todo = Cat(<<p>>, rest),
         NEW buf \in Seq(Byte), NEW more \in Seq(Byte), BodyPart(q, p, rest, Cat(buf, more))
  PROVE  Came(ParseBody(q, l, buf), todo, more)
<1> DEFINE o == ParseBody(q, l, buf)
           k == FlattenSeq(q.cache)
           n == Len(buf)
<1>1. /\ Len(q.header) = 2 /\ q.cache \in Seq(Seq(Byte)) /\ q.need \in Nat
      /\ Len(p) = Len(k) + q.need
      /\ q.need > 0 \/ p = <<>>
      /\ Cat(k, Cat(buf, more)) = Cat(p, Stream(rest))
  BY DEF BodyPart
<1>2. k \in Seq(Byte) /\ p \in Seq(Byte) /\ n \in Nat
  BY <1>1, FlattenType DEF Body
<1> HIDE DEF k
<1>20. Len(k) \in Nat
  BY <1>2
<1>3. CASE buf = <<>>
  <2>1. o = Outcome(q, l, <<>>, "more")
    BY <1>3 DEF ParseBody
  <2>2. o.parser = q /\ o.layer = l /\ o.remain = buf /\ o.result = "more"
    BY <1>3, <2>1 DEF Outcome
  <2> HIDE DEF o
  <2>3. ParserAt(q, todo, Cat(buf, more))
    BY DEF ParserAt
  <2>4. Came(o, todo, more)
    BY <2>2, <2>3 DEF Came
  <2> QED
    BY <2>4 DEF o
<1>4. CASE buf # <<>> /\ n < q.need
  <2> DEFINE g == [q EXCEPT !.cache = Append(@, buf), !.need = @ - n]
  <2>1. o = Outcome(g, l, <<>>, "more")
    BY <1>4 DEF ParseBody
  <2>2. o.parser = g /\ o.layer = l /\ o.remain = <<>> /\ o.result = "more"
    BY <2>1 DEF Outcome
  <2> HIDE DEF o
  <2>3. /\ DOMAIN g = DOMAIN Reset /\ g.header = q.header
        /\ g.cache = Append(q.cache, buf) /\ g.need = q.need - n
    BY DEF Reset
  <2> HIDE DEF g
  <2>4. g.cache \in Seq(Seq(Byte))
    BY <1>1, <2>3, AppendProperties
  <2>5. FlattenSeq(g.cache) = Cat(k, buf)
    BY <1>1, <2>3, FlattenAppend DEF k, Cat
  <2>6. Len(Cat(k, buf)) = Len(k) + n
    BY <1>2, CatType
  <2>7. g.need \in Nat /\ g.need > 0 /\ Len(p) = Len(k) + n + g.need
    <3>1. ASSUME NEW x \in Nat, NEW y \in Nat, NEW z \in Nat, z < y
          PROVE  y - z \in Nat /\ y - z > 0 /\ x + y = x + z + (y - z)
      BY <3>1
    <3>2. q.need \in Nat /\ n < q.need
      BY <1>1, <1>4
    <3> HIDE DEF n
    <3>3. /\ q.need - n \in Nat /\ q.need - n > 0
          /\ Len(k) + q.need = Len(k) + n + (q.need - n)
      BY <1>2, <1>20, <3>1, <3>2
    <3> QED
      BY <1>1, <2>3, <3>3
  <2>8. Cat(Cat(k, buf), more) = Cat(p, Stream(rest))
    BY <1>1, <1>2, CatAssociative
  <2>9. Cat(<<>>, more) = more /\ <<>> \in Seq(Byte)
    BY CatNone
  <2>10. BodyPart(g, p, rest, Cat(<<>>, more))
    <3>1. Len(p) = Len(FlattenSeq(g.cache)) + g.need
      BY <2>5, <2>6, <2>7
    <3> QED
      BY <1>1, <2>3, <2>4, <2>5, <2>7, <2>8, <2>9, <3>1 DEF BodyPart
  <2>11. ParserAt(g, todo, Cat(<<>>, more))
    BY <2>3, <2>10 DEF ParserAt
  <2>12. Came(o, todo, more)
    BY <2>2, <2>9, <2>11 DEF Came
  <2> QED
    BY <2>12 DEF o
<1>5. CASE buf # <<>> /\ ~(n < q.need)
  <2> DEFINE a == SubSeq(buf, 1, q.need)
             d == Drop(buf, q.need)
             cs == Append(q.cache, a)
             r == UnmarshalChunks(l, cs)
  <2>1. o = Outcome(Reset, r.layer, d, IF r.err = NoError THEN "packet" ELSE r.err)
    BY <1>5 DEF ParseBody
  <2>2. a \in Seq(Byte) /\ Len(a) = q.need /\ d \in Seq(Byte) /\ Cat(a, d) = buf
    <3>1. q.need \in 0 .. Len(buf)
      BY <1>1, <1>2, <1>5
    <3> QED
      BY <3>1, TakeDrop
  <2> HIDE DEF a, d
  <2>3. cs \in Seq(Seq(Byte))
    BY <1>1, <2>2, AppendProperties
  <2>4. FlattenSeq(cs) = Cat(k, a)
    BY <1>1, <2>2, FlattenAppend DEF k, Cat
  <2>5. Cat(k, a) \in Seq(Byte) /\ Len(Cat(k, a)) = Len(k) + Len(a)
    BY <1>2, <2>2, CatType
  <2>6. Cat(Cat(k, a), Cat(d, more)) = Cat(p, Stream(rest))
    <3>1. Cat(d, more) \in Seq(Byte)
      BY <2>2, CatType
    <3>2. Cat(Cat(a, d), more) = Cat(a, Cat(d, more))
      BY <2>2, CatAssociative
    <3>3. Cat(k, Cat(a, Cat(d, more))) = Cat(Cat(k, a), Cat(d, more))
      BY <1>2, <2>2, <3>1, CatAssociative
    <3> QED
      BY <1>1, <2>2, <3>2, <3>3
  <2>7. Cat(k, a) = p /\ Cat(d, more) = Stream(rest)
    <3>1. Cat(d, more) \in Seq(Byte) /\ Stream(rest) \in Seq(Byte)
      BY <2>2, CatType, StreamType
    <3>2. Len(Cat(k, a)) = Len(p)
      BY <1>1, <2>2, <2>5
    <3> DEFINE ka == Cat(k, a)
               dm == Cat(d, more)
    <3>3. ka \in Seq(Byte) /\ Cat(ka, dm) = Cat(p, Stream(rest)) /\ Len(ka) = Len(p)
      BY <2>5, <2>6, <3>2
    <3> HIDE DEF ka
    <3>4. ka = p /\ dm = Stream(rest)
      BY <1>2, <3>1, <3>3, CatSplit
    <3> QED
      BY <3>4 DEF ka
  <2> HIDE DEF cs, o
  <2>8. FlattenSeq(cs) = p
    BY <2>4, <2>7
  <2>9. Came(Outcome(Reset, r.layer, d, IF r.err = NoError THEN "packet" ELSE r.err), todo, more)
    BY <2>2, <2>3, <2>7, <2>8, WholeStep
  <2> QED
    BY <2>1, <2>9 DEF o
<1> QED
  BY <1>3, <1>4, <1>5

\* Parse keeps the parser in step, whatever piece of the stream it is given.
LEMMA ParseStep ==
  ASSUME NEW q, NEW l, IsLayer(l), NEW todo \in Seq(Body),
         NEW buf \in Seq(Byte), NEW more \in Seq(Byte), ParserAt(q, todo, Cat(buf, more))
  PROVE  Came(Parse(q, l, buf), todo, more)
<1> DEFINE o == Parse(q, l, buf)
           hn == 2 - Len(q.header)
           h == q.header \o SubSeq(buf, 1, hn)
<1>0. DOMAIN q = DOMAIN Reset
  BY DEF ParserAt
<1>1. o = IF hn = 0 THEN ParseBody(q, l, buf)
          ELSE IF Len(buf) < hn
          THEN Outcome([q EXCEPT !.header = @ \o buf], l, <<>>, "more")
          ELSE ParseBody([q EXCEPT !.header = h, !.need = Get16(h)], l, Drop(buf, hn))
  BY DEF Parse
<1> HIDE DEF o
<1>2. CASE HeaderPart(q, todo, Cat(buf, more))
  <2> DEFINE a == q.header
             n == Len(buf)
  <2>1. a \in Seq(Byte) /\ Len(a) < 2 /\ q.cache = <<>> /\ Cat(a, Cat(buf, more)) = Stream(todo)
    BY <1>2 DEF HeaderPart
  <2>2. Len(a) \in Nat /\ n \in Nat
    BY <2>1
  <2>3. hn \in 1 .. 2 /\ hn # 0 /\ Len(a) + hn = 2
    <3>1. ASSUME NEW x \in Nat, x < 2 PROVE 2 - x \in 1 .. 2 /\ 2 - x # 0 /\ x + (2 - x) = 2
      BY <3>1
    <3> QED
      BY <2>1, <2>2, <3>1
  <2>4. CASE n < hn
    <3> DEFINE g == [q EXCEPT !.header = @ \o buf]
    <3>1. o = Outcome(g, l, <<>>, "more")
      BY <1>1, <2>3, <2>4
    <3>2. o.parser = g /\ o.layer = l /\ o.remain = <<>> /\ o.result = "more"
      BY <3>1 DEF Outcome
    <3>3. DOMAIN g = DOMAIN Reset /\ g.header = Cat(a, buf) /\ g.cache = <<>>
      BY <1>0, <2>1 DEF Reset, Cat
    <3> HIDE DEF g, a
    <3>4. Cat(a, buf) \in Seq(Byte) /\ Len(Cat(a, buf)) = Len(a) + Len(buf)
      BY <2>1, CatType
    <3>5. Len(Cat(a, buf)) < 2
      <4> HIDE DEF hn
      <4> QED
        BY <2>2, <2>3, <2>4, <3>4
    <3>6. Cat(Cat(a, buf), more) = Stream(todo)
      BY <2>1, CatAssociative
    <3>7. Cat(<<>>, more) = more /\ <<>> \in Seq(Byte)
      BY CatNone
    <3>8. HeaderPart(g, todo, Cat(<<>>, more))
      BY <3>3, <3>4, <3>5, <3>6, <3>7 DEF HeaderPart
    <3>9. ParserAt(g, todo, Cat(<<>>, more))
      BY <3>3, <3>8 DEF ParserAt
    <3>10. Came(o, todo, more)
      BY <3>2, <3>7, <3>9 DEF Came
    <3> QED
      BY <3>10 DEF o
  <2>5. CASE ~(n < hn)
    <3> DEFINE b == SubSeq(buf, 1, hn)
               d == Drop(buf, hn)
               g == [q EXCEPT !.header = h, !.need = Get16(h)]
    <3>1. o = ParseBody(g, l, d)
      BY <1>1, <2>3, <2>5
    <3>2. DOMAIN g = DOMAIN Reset /\ g.header = h /\ g.need = Get16(h) /\ g.cache = <<>>
      BY <1>0, <2>1 DEF Reset
    <3>3. h = Cat(a, b)
      BY DEF Cat
    <3> HIDE DEF a, g, h, hn
    <3>4. b \in Seq(Byte) /\ Len(b) = hn /\ d \in Seq(Byte) /\ Cat(b, d) = buf
      <4>1. hn \in 0 .. Len(buf)
        BY <2>2, <2>3, <2>5
      <4> QED
        BY <4>1, TakeDrop
    <3> HIDE DEF b, d
    <3>5. h \in Seq(Byte) /\ Len(h) = 2
      <4>1. Cat(a, b) \in Seq(Byte) /\ Len(Cat(a, b)) = Len(a) + Len(b)
        BY <2>1, <3>4, CatType
      <4> QED
        BY <2>3, <3>3, <3>4, <4>1
    <3>6. Cat(d, more) \in Seq(Byte)
      BY <3>4, CatType
    <3>7. Cat(h, Cat(d, more)) = Stream(todo)
      <4>1. Cat(Cat(b, d), more) = Cat(b, Cat(d, more))
        BY <3>4, CatAssociative
      <4>2. Cat(a, Cat(b, Cat(d, more))) = Cat(Cat(a, b), Cat(d, more))
        BY <2>1, <3>4, <3>6, CatAssociative
      <4> QED
        BY <2>1, <3>3, <3>4, <4>1, <4>2
    <3>9. PICK p \in Body, rest \in Seq(Body) :
            /\ todo = Cat(<<p>>, rest) /\ Get16(h) = Len(p) /\ Len(p) \in Nat
            /\ Cat(d, more) = Cat(p, Stream(rest))
      BY <3>5, <3>6, <3>7, NextLength
    <3>12. BodyPart(g, p, rest, Cat(d, more))
      <4>1. FlattenSeq(g.cache) = <<>> /\ g.cache \in Seq(Seq(Byte)) /\ Len(<<>>) = 0
        BY <3>2, FlattenNone
      <4>2. g.need = Len(p)
        BY <3>2, <3>9
      <4>3. Cat(FlattenSeq(g.cache), Cat(d, more)) = Cat(p, Stream(rest))
        BY <3>6, <3>9, <4>1, CatNone
      <4>4. Len(p) > 0 \/ p = <<>>
        BY <3>9 DEF Body
      <4>5. Len(p) = Len(FlattenSeq(g.cache)) + g.need
        BY <3>9, <4>1, <4>2
      <4>6. Len(g.header) = 2
        BY <3>2, <3>5
      <4> QED
        BY <3>9, <4>1, <4>2, <4>3, <4>4, <4>5, <4>6 DEF BodyPart
    <3>13. Came(ParseBody(g, l, d), todo, more)
      BY <3>2, <3>4, <3>9, <3>12, BodyStep
    <3> QED
      BY <3>1, <3>13 DEF o
  <2> QED
    BY <2>4, <2>5
<1>3. CASE \E p \in Body, rest \in Seq(Body) :
             todo = Cat(<<p>>, rest) /\ BodyPart(q, p, rest, Cat(buf, more))
  <2>1. PICK p \in Body, rest \in Seq(Body) :
          todo = Cat(<<p>>, rest) /\ BodyPart(q, p, rest, Cat(buf, more))
    BY <1>3
  <2>2. Len(q.header) = 2
    BY <2>1 DEF BodyPart
  <2>3. o = ParseBody(q, l, buf)
    BY <1>1, <2>2
  <2> QED
    BY <1>0, <2>1, <2>3, BodyStep DEF o
<1> QED
  BY <1>2, <1>3 DEF ParserAt

(* -------------------------------- reader -------------------------------- *)

\* The reader is in step: in the bytes of a length, or in packet p.
LengthPart(r, todo, ahead) ==
  ~r.body /\ r.size = 2 /\ Len(r.buf) < 2 /\ Cat(r.buf, ahead) = Stream(todo)
PacketPart(r, p, rest, ahead) ==
  r.body /\ r.size = Len(p) /\ Len(r.buf) < Len(p) /\ Cat(r.buf, ahead) = Cat(p, Stream(rest))
ReaderAt(r, todo, ahead) ==
  /\ DOMAIN r = DOMAIN StartRead /\ r.buf \in Seq(Byte)
  /\ \/ LengthPart(r, todo, ahead)
     \/ \E p \in Body, rest \in Seq(Body) :
           todo = Cat(<<p>>, rest) /\ PacketPart(r, p, rest, ahead)

\* After a step it still is, unless it has failed, and has made of the first
\* packet what it comes to.
ReadCame(s, todo, more) ==
  /\ s.result = "more" => ReaderAt(s.reader, todo, more)
  /\ s.result # "more" =>
       \E p \in Body, rest \in Seq(Body) :
          /\ todo = Cat(<<p>>, rest) /\ Result(s) = Whole(p)
          /\ s.result = "packet" => ReaderAt(s.reader, rest, more)

\* A reader that starts is in step at the front of a packet.
LEMMA FreshReader ==
  ASSUME NEW todo \in Seq(Body), NEW ahead \in Seq(Byte), ahead = Stream(todo)
  PROVE  ReaderAt(StartRead, todo, ahead)
<1>1. Cat(<<>>, ahead) = ahead /\ Len(<<>>) = 0 /\ <<>> \in Seq(Byte)
  BY CatNone
<1>2. StartRead.buf = <<>> /\ StartRead.size = 2 /\ StartRead.body = FALSE
  BY DEF StartRead
<1>3. LengthPart(StartRead, todo, ahead)
  BY <1>1, <1>2 DEF LengthPart
<1> QED
  BY <1>1, <1>2, <1>3 DEF ReaderAt

\* What is too short for a header comes to the error the reader returns.
LEMMA TooShort ==
  ASSUME NEW p \in Body, Len(p) < MinHeader
  PROVE  Whole(p) = Failure("PacketSizeNotEnough")
<1> DEFINE u == UnmarshalChunks(Fresh, <<p>>)
<1>1. p \in Seq(Byte) /\ Len(p) < UInt16 /\ IsLayer(Fresh)
  BY DEF Body, IsLayer
<1>2. <<p>> \in Seq(Seq(Byte)) /\ FlattenSeq(<<p>>) = p
  BY <1>1, InOnePiece
<1>3. u.err = ErrOf(p)
  BY <1>1, <1>2, Unmarshalled
<1>4. ErrOf(p) = "PacketSizeNotEnough"
  BY DEF ErrOf
<1> HIDE DEF u
<1>5. u.err # NoError
  BY <1>3, <1>4 DEF NoError
<1>6. Whole(p) = IF u.err = NoError THEN Packet(u.layer) ELSE Failure(u.err)
  BY DEF Whole, u
<1> QED
  BY <1>3, <1>4, <1>5, <1>6

\* A step of the reader keeps it in step, however much of the buffer is filled.
LEMMA ReadCameStep ==
  ASSUME NEW r, NEW todo \in Seq(Body), NEW b \in Seq(Byte), NEW more \in Seq(Byte),
         ReaderAt(r, todo, Cat(b, more)), Len(b) <= Wanted(r)
  PROVE  ReadCame(ReadStep(r, b), todo, more)
<1> DEFINE s == ReadStep(r, b)
           buf == r.buf \o b
           u == UnmarshalChunks(Fresh, <<buf>>)
<1>1. DOMAIN r = DOMAIN StartRead /\ r.buf \in Seq(Byte)
  BY DEF ReaderAt
<1>2. s = IF Len(buf) < r.size
          THEN [reader |-> [r EXCEPT !.buf = buf], result |-> "more", layer |-> Fresh]
          ELSE IF ~r.body /\ Get16(buf) < MinHeader
          THEN [reader |-> StartRead, result |-> "PacketSizeNotEnough", layer |-> Fresh]
          ELSE IF ~r.body
          THEN [reader |-> [size |-> Get16(buf), buf |-> <<>>, body |-> TRUE],
                result |-> "more", layer |-> Fresh]
          ELSE [reader |-> StartRead, layer |-> u.layer,
                result |-> IF u.err = NoError THEN "packet" ELSE u.err]
  BY DEF ReadStep
<1> HIDE DEF s
<1>3. buf = Cat(r.buf, b)
  BY DEF Cat
<1> HIDE DEF buf
<1>4. buf \in Seq(Byte) /\ Len(buf) = Len(r.buf) + Len(b)
  BY <1>1, <1>3, CatType
<1>5. Cat(buf, more) = Cat(r.buf, Cat(b, more))
  BY <1>1, <1>3, CatAssociative
<1>6. Len(b) <= r.size - Len(r.buf) /\ Len(b) \in Nat /\ Len(r.buf) \in Nat
  BY <1>1 DEF Wanted
<1>7. CASE LengthPart(r, todo, Cat(b, more))
  <2>1. ~r.body /\ r.size = 2 /\ Cat(buf, more) = Stream(todo)
    BY <1>5, <1>7 DEF LengthPart
  <2>2. CASE Len(buf) < 2
    <3> DEFINE g == [r EXCEPT !.buf = buf]
    <3>1. s.reader = g /\ s.result = "more"
      BY <1>2, <2>1, <2>2
    <3>2. DOMAIN g = DOMAIN StartRead /\ g.buf = buf /\ g.body = r.body /\ g.size = r.size
      BY <1>1 DEF StartRead
    <3> HIDE DEF g
    <3>3. LengthPart(g, todo, more)
      BY <2>1, <2>2, <3>2 DEF LengthPart
    <3>4. ReaderAt(g, todo, more)
      BY <1>4, <3>2, <3>3 DEF ReaderAt
    <3>5. ReadCame(s, todo, more)
      BY <3>1, <3>4 DEF ReadCame
    <3> QED
      BY <3>5 DEF s
  <2>3. CASE ~(Len(buf) < 2)
    <3>1. Len(buf) = 2
      BY <1>4, <1>6, <2>1, <2>3
    <3>2. PICK p \in Body, rest \in Seq(Body) :
            /\ todo = Cat(<<p>>, rest) /\ Get16(buf) = Len(p) /\ Len(p) \in Nat
            /\ more = Cat(p, Stream(rest))
      BY <1>4, <2>1, <3>1, NextLength
    <3>3. CASE Len(p) < MinHeader
      <4>1. s.result = "PacketSizeNotEnough"
        BY <1>2, <2>1, <2>3, <3>2, <3>3
      <4>2. Result(s) = Whole(p)
        BY <3>3, <4>1, TooShort DEF Result
      <4>3. ReadCame(s, todo, more)
        BY <3>2, <4>1, <4>2 DEF ReadCame
      <4> QED
        BY <4>3 DEF s
    <3>4. CASE ~(Len(p) < MinHeader)
      <4> DEFINE g == [size |-> Len(p), buf |-> <<>>, body |-> TRUE]
      <4>1. s.reader = g /\ s.result = "more"
        BY <1>2, <2>1, <2>3, <3>2, <3>4
      <4>2. DOMAIN g = DOMAIN StartRead /\ g.buf = <<>> /\ g.body = TRUE /\ g.size = Len(p)
        BY DEF StartRead
      <4> HIDE DEF g
      <4>3. Cat(<<>>, more) = more /\ <<>> \in Seq(Byte) /\ Len(<<>>) = 0
        BY CatNone
      <4>4. Len(p) > 0
        BY <3>2, <3>4 DEF MinHeader
      <4>5. PacketPart(g, p, rest, more)
        BY <3>2, <4>2, <4>3, <4>4 DEF PacketPart
      <4>6. ReaderAt(g, todo, more)
        BY <3>2, <4>2, <4>3, <4>5 DEF ReaderAt
      <4>7. ReadCame(s, todo, more)
        BY <4>1, <4>6 DEF ReadCame
      <4> QED
        BY <4>7 DEF s
    <3> QED
      BY <3>3, <3>4
  <2> QED
    BY <2>2, <2>3
<1>8. CASE \E p \in Body, rest \in Seq(Body) :
             todo = Cat(<<p>>, rest) /\ PacketPart(r, p, rest, Cat(b, more))
  <2>1. PICK p \in Body, rest \in Seq(Body) :
          todo = Cat(<<p>>, rest) /\ PacketPart(r, p, rest, Cat(b, more))
    BY <1>8
  <2>2. r.body /\ r.size = Len(p) /\ Cat(buf, more) = Cat(p, Stream(rest)) /\ p \in Seq(Byte)
    BY <1>5, <2>1 DEF PacketPart, Body
  <2>3. CASE Len(buf) < Len(p)
    <3> DEFINE g == [r EXCEPT !.buf = buf]
    <3>1. s.reader = g /\ s.result = "more"
      BY <1>2, <2>2, <2>3
    <3>2. DOMAIN g = DOMAIN StartRead /\ g.buf = buf /\ g.body = r.body /\ g.size = r.size
      BY <1>1 DEF StartRead
    <3> HIDE DEF g
    <3>3. PacketPart(g, p, rest, more)
      BY <2>2, <2>3, <3>2 DEF PacketPart
    <3>4. ReaderAt(g, todo, more)
      BY <1>4, <2>1, <3>2, <3>3 DEF ReaderAt
    <3>5. ReadCame(s, todo, more)
      BY <3>1, <3>4 DEF ReadCame
    <3> QED
      BY <3>5 DEF s
  <2>4. CASE ~(Len(buf) < Len(p))
    <3>1. Len(buf) = Len(p)
      <4>1. Len(p) \in Nat
        BY <2>2
      <4> QED
        BY <1>4, <1>6, <2>2, <2>4, <4>1
    <3>2. buf = p /\ more = Stream(rest)
      BY <1>4, <2>2, <3>1, StreamType, CatSplit
    <3>3. /\ s.reader = StartRead /\ s.layer = u.layer
          /\ s.result = IF u.err = NoError THEN "packet" ELSE u.err
      BY <1>2, <2>2, <2>4
    <3>4. u.err # "packet" /\ u.err # "more" /\ Comes(u) = Whole(p)
      <4>1. <<p>> \in Seq(Seq(Byte)) /\ FlattenSeq(<<p>>) = p
        BY <2>2, InOnePiece
      <4>2. Len(p) < UInt16 /\ IsLayer(Fresh)
        BY DEF Body, IsLayer
      <4>3. u.err = ErrOf(p)
        BY <2>2, <3>2, <4>1, <4>2, Unmarshalled
      <4>4. Comes(u) = Whole(p)
        BY <3>2 DEF Comes, Whole
      <4> QED
        BY <4>3, <4>4, Errors
    <3> HIDE DEF u
    <3>5. Result(s) = Whole(p) /\ s.result # "more"
      BY <3>3, <3>4 DEF Result, Comes, NoError
    <3>6. ReaderAt(StartRead, rest, more)
      BY <3>2, FreshReader
    <3>7. ReadCame(s, todo, more)
      BY <2>1, <3>3, <3>5, <3>6 DEF ReadCame
    <3> QED
      BY <3>7 DEF s
  <2> QED
    BY <2>3, <2>4
<1> QED
  BY <1>7, <1>8 DEF ReaderAt

(* -------------------------------- sender -------------------------------- *)

\* A layer that fits goes out as a packet that comes to what it should.
Goes(l, p) == p \in Body /\ Size(l) = Len(p) /\ WriteTo(l) = p /\ Expected(l) = Whole(p)

\* A layer that fits, with the size of its payload known.
LEMMA LayerGoes ==
  ASSUME NEW l, Sized(l), Typed(l), Counted(l), Fits(l)
  PROVE  Goes(l, WriteTo(l))
<1> DEFINE p == WriteTo(l)
<1>1. p \in Seq(Byte)
  BY WrittenPlaces
<1>2. Len(p) = Size(l)
  BY WriteToLength
<1>3. Len(p) < UInt16
  <2>1. Size(l) <= MaxPacketSize
    BY DEF Fits
  <2>2. MaxPacketSize \in Nat /\ MaxPacketSize < UInt16
    BY FramingAssumption, Width DEF MinHeader
  <2>3. Len(p) \in Nat
    BY <1>1
  <2> HIDE DEF p
  <2> QED
    BY <1>2, <2>1, <2>2, <2>3, Width
<1>4. Expected(l) = Whole(p)
  BY <1>3, ExpectedIsWhole
<1> HIDE DEF p
<1>5. p \in Body
  BY <1>1, <1>3 DEF Body
<1> QED
  BY <1>2, <1>4, <1>5 DEF Goes, p

\* modifyPacket keeps a packet of a frame one that can be sent.
LEMMA ModifiedGoes ==
  ASSUME NEW w, NEW i \in DOMAIN w.frame.packets, i \in Nat \ {0},
         Filled(w.frame), Sendable(w.frame), Writable(w),
         w.seq = <<>> \/ \E v \in Number : w.seq = <<v>>
  PROVE  Goes(ModifyPacket(w, i), WriteTo(ModifyPacket(w, i)))
<1> DEFINE l == w.frame.packets[i]
           typed == IF w.payloadType = <<>> THEN l ELSE SetPayloadType(l, w.payloadType[1])
           m == ModifyPacket(w, i)
           at == IF w.timestamp = <<>> THEN typed.timestamp ELSE w.timestamp[1]
           by == IF w.ssrc = <<>> THEN typed.ssrc ELSE w.ssrc[1]
           number == IF w.seq = <<>> THEN typed.seq ELSE (w.seq[1] + i - 1) % UInt16
<1>1. Sized(l) /\ Counted(l) /\ Typed(l) /\ Fits(l)
  BY DEF Filled, Sendable
<1>2. /\ SameShape(l, typed) /\ Typed(typed)
      /\ typed.timestamp = l.timestamp /\ typed.ssrc = l.ssrc
  <2> HIDE DEF l
  <2>1. SameShape(l, l)
    BY <1>1 DEF SameShape, Sized
  <2>2. ASSUME NEW t
        PROVE  /\ SameShape(l, SetPayloadType(l, t)) /\ Typed(SetPayloadType(l, t))
               /\ SetPayloadType(l, t).timestamp = l.timestamp
               /\ SetPayloadType(l, t).ssrc = l.ssrc
    BY <1>1, TypedAgain
  <2> QED
    BY <1>1, <2>1, <2>2
<1>3. m = [typed EXCEPT !.timestamp = at, !.seq = number, !.ssrc = by]
  BY DEF ModifyPacket
<1>4. IsWord(at) /\ IsWord(by)
  <2> HIDE DEF typed, l
  <2> QED
    BY <1>1, <1>2 DEF Sized, Writable
<1>5. number \in 0 .. UInt16 - 1
  <2>1. CASE w.seq = <<>>
    BY <1>2, <2>1 DEF Typed
  <2>2. CASE w.seq # <<>>
    <3>1. PICK v \in Number : w.seq = <<v>>
      BY <2>2
    <3>2. v \in Nat
      BY NumbersAreNat
    <3>3. w.seq[1] + i - 1 \in Nat
      BY <3>1, <3>2
    <3>4. (w.seq[1] + i - 1) % UInt16 \in Number
      BY <3>3, NextNumber
    <3> QED
      BY <2>2, <3>4 DEF Number
  <2> QED
    BY <2>1, <2>2
<1> HIDE DEF l, typed, m, at, by, number
<1>6. /\ SameShape(typed, m) /\ m.timestamp = at /\ m.ssrc = by /\ m.seq = number
      /\ m.version = typed.version /\ m.marker = typed.marker
      /\ m.payloadType = typed.payloadType
  BY <1>2, <1>3, Fields DEF SameShape
<1>7. SameShape(l, m) /\ IsWord(m.timestamp) /\ IsWord(m.ssrc)
  BY <1>2, <1>4, <1>6 DEF SameShape
<1>8. Sized(m) /\ Counted(m) /\ Size(m) = Size(l)
  BY <1>1, <1>7, ShapeDecides
<1>9. Typed(m)
  <2>1. m.padding = typed.padding /\ m.extension = typed.extension
    BY <1>6 DEF SameShape
  <2>2. m.seq \in 0 .. UInt16 - 1
    BY <1>5, <1>6
  <2> QED
    BY <1>2, <1>6, <2>1, <2>2, Zenon DEF Typed
<1>10. Fits(m)
  BY <1>1, <1>8 DEF Fits
<1> QED
  BY <1>8, <1>9, <1>10, LayerGoes DEF m

\* What a writer writes of a frame are its packets on the stream.
LEMMA FrameGoes ==
  ASSUME NEW w, Collected(w.frame), Filled(w.frame), Sendable(w.frame), Writable(w),
         w.seq = <<>> \/ \E v \in Number : w.seq = <<v>>
  PROVE  \E qs \in Seq(Body) :
            /\ FrameBytes(w) = Stream(qs)
            /\ [i \in DOMAIN w.frame.packets |-> Expected(ModifyPacket(w, i))] = Wholes(qs)
<1> DEFINE ps == w.frame.packets
           Part(i) == WriteTo(ModifyPacket(w, i))
           qs == [i \in DOMAIN ps |-> Part(i)]
<1>1. DOMAIN ps = 1 .. Len(ps) /\ Len(ps) \in Nat
  BY DEF Collected
<1>2. ASSUME NEW i \in DOMAIN ps PROVE Goes(ModifyPacket(w, i), Part(i))
  <2>1. i \in Nat \ {0}
    BY <1>1
  <2> QED
    BY <2>1, ModifiedGoes
<1>3. ASSUME NEW i \in DOMAIN ps
      PROVE  /\ Part(i) \in Body /\ Expected(ModifyPacket(w, i)) = WholeOf[Part(i)]
             /\ Framed(Size(ModifyPacket(w, i)) % UInt16, WriteTo(ModifyPacket(w, i)))
                  = FrameOf[Part(i)]
  <2> DEFINE m == ModifyPacket(w, i)
             p == Part(i)
  <2>1. p \in Body /\ Size(m) = Len(p) /\ WriteTo(m) = p /\ Expected(m) = Whole(p)
    BY <1>2 DEF Goes
  <2> HIDE DEF m, p
  <2>2. Len(p) % UInt16 = Len(p)
    <3>1. Len(p) \in Number
      BY <2>1, FrameType DEF Number
    <3> QED
      BY <3>1, SmallNumber
  <2>3. Framed(Size(m) % UInt16, WriteTo(m)) = Framed(Len(p), p)
    BY <2>1, <2>2
  <2>4. FrameOf[p] = Framed(Len(p), p) /\ WholeOf[p] = Whole(p)
    BY <2>1 DEF FrameOf, WholeOf
  <2>5. Framed(Size(m) % UInt16, WriteTo(m)) = FrameOf[p] /\ Expected(m) = WholeOf[p]
    BY <2>1, <2>3, <2>4
  <2> QED
    BY <2>1, <2>5 DEF m, p
<1>4. FrameBytes(w) =
        FlattenSeq([i \in DOMAIN ps |->
          Framed(Size(ModifyPacket(w, i)) % UInt16, WriteTo(ModifyPacket(w, i)))])
  BY DEF FrameBytes
<1> HIDE DEF ps, Part
<1>5. [i \in DOMAIN ps |->
          Framed(Size(ModifyPacket(w, i)) % UInt16, WriteTo(ModifyPacket(w, i)))]
      = [i \in DOMAIN ps |-> FrameOf[Part(i)]]
  BY <1>3
<1>6. [i \in DOMAIN ps |-> Expected(ModifyPacket(w, i))] = [i \in DOMAIN ps |-> WholeOf[Part(i)]]
  BY <1>3
<1>7. qs \in Seq(Body) /\ DOMAIN qs = DOMAIN ps /\ \A i \in DOMAIN ps : qs[i] = Part(i)
  BY <1>1, <1>3
<1> HIDE DEF qs
<1>8. Map(FrameOf, qs) = [i \in DOMAIN ps |-> FrameOf[Part(i)]]
  BY <1>7 DEF Map
<1>9. Wholes(qs) = [i \in DOMAIN ps |-> WholeOf[Part(i)]]
  BY <1>7 DEF Map, Wholes
<1>10. FrameBytes(w) = Stream(qs)
  BY <1>4, <1>5, <1>8, Zenon DEF Stream
<1>11. [i \in DOMAIN ps |-> Expected(ModifyPacket(w, i))] = Wholes(qs)
  BY <1>6, <1>9, Zenon
<1> QED
  BY <1>7, <1>10, <1>11 DEF ps

\* Asking for the size first changes neither it nor what is written.
LEMMA AskedGoes ==
  ASSUME NEW v, DOMAIN v = WriterFields, v.size = 0,
         Collected(v.frame), Filled(v.frame), Sendable(v.frame), Writable(v),
         v.seq = <<>> \/ \E n \in Number : v.seq = <<n>>
  PROVE  LET w == AskSize(v)
         IN  \E qs \in Seq(Body) :
               /\ SubSeq(FrameBytes(w), 1, FrameSize(w)) = Stream(qs)
               /\ [i \in DOMAIN w.frame.packets |-> Expected(ModifyPacket(w, i))] = Wholes(qs)
<1> DEFINE w == AskSize(v)
<1>1. /\ w.frame = v.frame /\ w.timestamp = v.timestamp /\ w.payloadType = v.payloadType
      /\ w.seq = v.seq /\ w.ssrc = v.ssrc /\ w.size = FrameSize(v)
  BY DEF AskSize, WriterFields
<1> HIDE DEF w
<1>2. PICK qs \in Seq(Body) :
        /\ FrameBytes(w) = Stream(qs)
        /\ [i \in DOMAIN w.frame.packets |-> Expected(ModifyPacket(w, i))] = Wholes(qs)
  BY <1>1, FrameGoes DEF Writable
<1>3. FrameSize(w) = FrameSize(v)
  BY <1>1 DEF FrameSize
<1>4. \A i : ModifyPacket(w, i) = ModifyPacket(v, i)
  BY <1>1 DEF ModifyPacket
<1>5. FrameBytes(w) = FrameBytes(v)
  BY <1>1, <1>4 DEF FrameBytes
<1>6. FrameSize(v) = Len(FrameBytes(v))
  BY FrameLength
<1>7. SubSeq(FrameBytes(w), 1, FrameSize(w)) = Stream(qs)
  <2> DEFINE s == Stream(qs)
  <2>1. s \in Seq(Byte)
    BY StreamType
  <2>2. FrameBytes(w) = s /\ FrameSize(w) = Len(s)
    BY <1>2, <1>3, <1>5, <1>6
  <2> HIDE DEF s
  <2>3. SubSeq(s, 1, Len(s)) = s
    BY <2>1, SubSeqFull
  <2> QED
    BY <2>2, <2>3 DEF s
<1> QED
  BY <1>2, <1>7 DEF w

(* ------------------------------- delivery ------------------------------- *)

\* The next thing to be received of t.
IsNext(t, s, o) == Len(s) < Len(t) /\ o = t[Len(s) + 1]

\* Of what was sent, the first that is not got is the next to be got.
LEMMA GotOne ==
  ASSUME NEW S, NEW s \in Seq(S), NEW o \in S, NEW rest \in Seq(S), NEW t,
         t = Cat(s, Cat(<<o>>, rest))
  PROVE  IsNext(t, s, o) /\ Append(s, o) \in Seq(S) /\ t = Cat(Append(s, o), rest)
<1> DEFINE a == <<o>>
           u == Append(s, o)
           r == Cat(a, rest)
<1>1. a \in Seq(S) /\ Len(a) = 1 /\ a[1] = o
  OBVIOUS
<1>2. u = Cat(s, a)
  BY DEF Cat
<1>3. u \in Seq(S) /\ Len(u) = Len(s) + 1
  OBVIOUS
<1> HIDE DEF a, u
<1>4. t = Cat(u, rest)
  BY <1>1, <1>2, CatAssociative
<1>5. r \in Seq(S) /\ Len(r) = Len(a) + Len(rest)
  BY <1>1, CatType
<1>6. t = Cat(s, r)
  BY DEF a
<1>7. r[1] = o
  <2>1. Items(r, a, rest)
    BY <1>1, CatItems
  <2> HIDE DEF r
  <2> QED
    BY <1>1, <2>1 DEF Items
<1> HIDE DEF r
<1>8. Len(t) = Len(s) + Len(r)
  BY <1>5, <1>6, CatType
<1>9. t[Len(s) + 1] = o
  <2>1. Items(t, s, r)
    BY <1>5, <1>6, CatItems
  <2>2. 1 \in 1 .. Len(r)
    BY <1>1, <1>5
  <2> QED
    BY <1>7, <2>1, <2>2 DEF Items
<1>10. Len(s) < Len(t)
  <2>1. Len(s) \in Nat /\ Len(rest) \in Nat
    OBVIOUS
  <2> QED
    BY <1>1, <1>5, <1>8, <2>1
<1> QED
  BY <1>3, <1>4, <1>9, <1>10 DEF u, IsNext

\* What was sent before is what is sent now begins with.
LEMMA MoreSent ==
  ASSUME NEW S, NEW s \in Seq(S), NEW x \in Seq(S), NEW t, t = Cat(s, x)
  PROVE  t \in Seq(S) /\ \E n \in 0 .. Len(t) : SubSeq(t, 1, n) = s
<1>1. t \in Seq(S) /\ Len(t) = Len(s) + Len(x)
  BY CatType
<1>2. Len(s) \in 0 .. Len(t)
  <2>1. Len(s) \in Nat /\ Len(x) \in Nat
    OBVIOUS
  <2> QED
    BY <1>1, <2>1
<1> DEFINE n == Len(s)
           a == SubSeq(t, 1, n)
           b == Drop(t, n)
<1>3. a \in Seq(S) /\ Len(a) = n /\ b \in Seq(S) /\ Cat(a, b) = t
  <2> HIDE DEF n
  <2>1. n \in 0 .. Len(t)
    BY <1>2 DEF n
  <2> QED
    BY <1>1, <2>1, TakeDrop
<1> HIDE DEF a, b
<1>4. a = s
  <2>1. Cat(a, b) = Cat(s, x) /\ Len(a) = Len(s)
    BY <1>3
  <2> QED
    BY <1>3, <2>1, CatSplit
<1> QED
  BY <1>1, <1>2, <1>4 DEF a

\* With nothing ahead and less than a length taken, nothing is to be done.
LEMMA ShortStream ==
  ASSUME NEW todo \in Seq(Body), Len(Stream(todo)) < 2 PROVE todo = <<>>
<1> SUFFICES ASSUME todo # <<>> PROVE FALSE
  OBVIOUS
<1>1. PICK p \in Body, rest \in Seq(Body) :
        Stream(todo) = Cat(Put16(Len(p)), Cat(p, Stream(rest)))
  BY StreamFirst
<1> DEFINE h == Put16(Len(p))
           r == Cat(p, Stream(rest))
<1>2. h \in Seq(Byte) /\ Len(h) = 2 /\ p \in Seq(Byte)
  BY FrameType
<1>3. r \in Seq(Byte)
  BY <1>2, StreamType, CatType
<1> HIDE DEF h, r
<1>4. Len(Cat(h, r)) = Len(h) + Len(r)
  BY <1>2, <1>3, CatType
<1>5. Len(Stream(todo)) = 2 + Len(r) /\ Len(r) \in Nat
  BY <1>1, <1>2, <1>3, <1>4 DEF h, r
<1> QED
  BY <1>5

NothingButEmpty(todo) == todo = <<>> \/ todo = << <<>> >>

\* A prefix as short as the first packet at most leaves nothing behind it.
LEMMA UsedUp ==
  ASSUME NEW p \in Body, NEW rest \in Seq(Body), NEW k \in Seq(Byte),
         k = Cat(p, Stream(rest)), Len(k) <= Len(p)
  PROVE  Len(k) = Len(p) /\ rest = <<>>
<1> DEFINE s == Stream(rest)
<1>1. s \in Seq(Byte) /\ p \in Seq(Byte)
  BY StreamType DEF Body
<1> HIDE DEF s
<1>2. Len(Cat(p, s)) = Len(p) + Len(s)
  BY <1>1, CatType
<1>3. Len(k) = Len(p) + Len(s) /\ Len(s) \in Nat /\ Len(p) \in Nat
  BY <1>1, <1>2 DEF s
<1>4. Len(s) = 0 /\ Len(k) = Len(p)
  BY <1>3
<1>5. Len(s) < 2
  BY <1>4
<1> QED
  BY <1>4, <1>5, ShortStream DEF s

\* A parser with nothing ahead has nothing to do but an empty packet.
LEMMA ParserAtEnd ==
  ASSUME NEW q, NEW todo \in Seq(Body), NEW ahead, ahead = <<>>, ParserAt(q, todo, ahead)
  PROVE  NothingButEmpty(todo)
<1>1. CASE HeaderPart(q, todo, ahead)
  <2>1. q.header \in Seq(Byte) /\ Len(q.header) < 2 /\ Cat(q.header, <<>>) = Stream(todo)
    BY <1>1 DEF HeaderPart
  <2>2. Stream(todo) = q.header
    BY <2>1, CatNone
  <2> QED
    BY <2>1, <2>2, ShortStream DEF NothingButEmpty
<1>2. CASE \E p \in Body, rest \in Seq(Body) :
             todo = Cat(<<p>>, rest) /\ BodyPart(q, p, rest, ahead)
  <2>1. PICK p \in Body, rest \in Seq(Body) :
          todo = Cat(<<p>>, rest) /\ BodyPart(q, p, rest, ahead)
    BY <1>2
  <2> DEFINE k == FlattenSeq(q.cache)
  <2>2. /\ q.cache \in Seq(Seq(Byte)) /\ q.need \in Nat /\ Len(p) = Len(k) + q.need
        /\ q.need > 0 \/ p = <<>>
        /\ Cat(k, <<>>) = Cat(p, Stream(rest))
    BY <2>1 DEF BodyPart
  <2>3. k \in Seq(Byte)
    BY <2>2, FlattenType
  <2> HIDE DEF k
  <2>4. k = Cat(p, Stream(rest))
    BY <2>2, <2>3, CatNone
  <2>5. Len(k) \in Nat
    BY <2>3
  <2>6. Len(k) <= Len(p)
    BY <2>2, <2>5
  <2>7. Len(k) = Len(p) /\ rest = <<>>
    BY <2>3, <2>4, <2>6, UsedUp
  <2>8. q.need = 0
    BY <2>2, <2>5, <2>7
  <2>9. p = <<>>
    BY <2>2, <2>8
  <2>10. Cat(<<p>>, <<>>) = <<p>>
    <3>1. <<p>> \in Seq(Body)
      OBVIOUS
    <3> QED
      BY <3>1, CatNone
  <2> QED
    BY <2>1, <2>7, <2>9, <2>10 DEF NothingButEmpty
<1> QED
  BY <1>1, <1>2 DEF ParserAt

\* A reader with nothing ahead has nothing to do.
LEMMA ReaderAtEnd ==
  ASSUME NEW r, NEW todo \in Seq(Body), NEW ahead, ahead = <<>>, ReaderAt(r, todo, ahead)
  PROVE  NothingButEmpty(todo)
<1>0. r.buf \in Seq(Byte)
  BY DEF ReaderAt
<1>1. CASE LengthPart(r, todo, ahead)
  <2>1. Len(r.buf) < 2 /\ Cat(r.buf, <<>>) = Stream(todo)
    BY <1>1 DEF LengthPart
  <2>2. Stream(todo) = r.buf
    BY <1>0, <2>1, CatNone
  <2> QED
    BY <2>1, <2>2, ShortStream DEF NothingButEmpty
<1>2. CASE \E p \in Body, rest \in Seq(Body) :
             todo = Cat(<<p>>, rest) /\ PacketPart(r, p, rest, ahead)
  <2>1. PICK p \in Body, rest \in Seq(Body) :
          todo = Cat(<<p>>, rest) /\ PacketPart(r, p, rest, ahead)
    BY <1>2
  <2> DEFINE k == r.buf
  <2>2. k \in Seq(Byte) /\ Len(k) < Len(p) /\ Cat(k, <<>>) = Cat(p, Stream(rest))
    BY <1>0, <2>1 DEF PacketPart
  <2> HIDE DEF k
  <2>3. k = Cat(p, Stream(rest))
    BY <2>2, CatNone
  <2>4. Len(k) \in Nat /\ Len(p) \in Nat
    BY <2>2 DEF Body
  <2>5. Len(k) <= Len(p)
    BY <2>2, <2>4
  <2>6. Len(k) = Len(p)
    BY <2>2, <2>3, <2>5, UsedUp
  <2> QED
    BY <2>2, <2>4, <2>6
<1> QED
  BY <1>1, <1>2 DEF ReaderAt

\* The bytes the receiver has not parsed.
Ahead == Cat(chunk, Drop(wire, pos))

\* Of the packets sent, those to do are what the receiver has taken and not
\* reported, and what is ahead of it.
InStep(todo) ==
  /\ sent = Cat(got, Wholes(todo))
  /\ phase = "send" => /\ pos = 0 /\ chunk = <<>> /\ got = <<>>
                       /\ parser = Reset /\ reader = StartRead
                       /\ wire = Stream(todo)
  /\ phase = "parse" => ParserAt(parser, todo, Ahead)
  /\ phase = "read" => chunk = <<>> /\ ReaderAt(reader, todo, Ahead)
  /\ phase = "ended" => NothingButEmpty(todo)

Delivered ==
  /\ phase \in {"send", "parse", "read", "ended", "failed"}
  /\ wire \in Seq(Byte) /\ chunk \in Seq(Byte) /\ pos \in 0 .. Len(wire)
  /\ IsLayer(layer) /\ got \in Seq(Outcomes)
  /\ phase # "failed" => \E todo \in Seq(Body) : InStep(todo)

\* What a step may do to what is sent and got.
Step == D!Send \/ D!Receive \/ UNCHANGED <<sent, got>>

\* At the start nothing is sent.
LEMMA StartsDelivered == Init => Delivered
<1> SUFFICES ASSUME Init PROVE Delivered
  OBVIOUS
<1>1. /\ phase = "send" /\ wire = <<>> /\ sent = <<>> /\ pos = 0 /\ chunk = <<>>
      /\ parser = Reset /\ layer = Fresh /\ reader = StartRead /\ got = <<>>
  BY DEF Init
<1>2. Stream(<<>>) = <<>> /\ Wholes(<<>>) = <<>> /\ <<>> \in Seq(Body)
  BY StreamNone
<1>3. Cat(<<>>, <<>>) = <<>> /\ <<>> \in Seq(Byte) /\ <<>> \in Seq(Outcomes) /\ Len(<<>>) = 0
  <2>1. <<>> \in Seq(Byte) /\ <<>> \in Seq(Outcomes) /\ Len(<<>>) = 0
    OBVIOUS
  <2>2. Cat(<<>>, <<>>) = <<>>
    BY <2>1, CatNone
  <2> QED
    BY <2>1, <2>2
<1>4. InStep(<<>>)
  BY <1>1, <1>2, <1>3 DEF InStep
<1>5. pos \in 0 .. Len(wire)
  BY <1>1, <1>3
<1>6. IsLayer(layer)
  BY <1>1 DEF IsLayer
<1> QED
  BY <1>1, <1>2, <1>3, <1>4, <1>5, <1>6 DEF Delivered

\* Nothing of it changes.
LEMMA StillDelivered ==
  ASSUME Delivered, UNCHANGED <<wire, sent, phase, recvVars>> PROVE Delivered'
BY DEF Delivered, InStep, Ahead, recvVars

\* More packets, or none, are put on the stream.
LEMMA SentOn ==
  ASSUME Delivered, Sending, NEW x \in Seq(Body),
         wire' = Cat(wire, Stream(x)), sent' = Cat(sent, Wholes(x))
  PROVE  Delivered' /\ Step
<1>1. PICK todo \in Seq(Body) : InStep(todo)
  BY DEF Delivered, Sending
<1>2. /\ phase = "send" /\ pos = 0 /\ chunk = <<>> /\ got = <<>>
      /\ parser = Reset /\ reader = StartRead
      /\ wire = Stream(todo) /\ sent = Cat(<<>>, Wholes(todo))
  BY <1>1 DEF InStep, Sending
<1>3. phase' = phase /\ UNCHANGED recvVars
  BY DEF Sending
<1> DEFINE all == Cat(todo, x)
<1>4. all \in Seq(Body)
  BY CatType
<1>5. /\ Stream(all) = Cat(Stream(todo), Stream(x))
      /\ Wholes(all) = Cat(Wholes(todo), Wholes(x))
  BY StreamJoin
<1> HIDE DEF all
<1>6. /\ Wholes(todo) \in Seq(Outcomes) /\ Wholes(x) \in Seq(Outcomes)
      /\ Wholes(all) \in Seq(Outcomes) /\ Stream(all) \in Seq(Byte)
  BY <1>4, StreamType
<1>7. sent = Wholes(todo)
  BY <1>2, <1>6, CatNone
<1>8. wire' = Stream(all) /\ sent' = Wholes(all)
  BY <1>2, <1>5, <1>7
<1>9. sent' = Cat(<<>>, Wholes(all))
  BY <1>6, <1>8, CatNone
<1>10. /\ pos' = 0 /\ chunk' = <<>> /\ got' = <<>> /\ parser' = Reset /\ reader' = StartRead
       /\ layer' = layer /\ phase' = "send" /\ got' = got
  BY <1>2, <1>3 DEF recvVars
<1>11. InStep(all)'
  BY <1>8, <1>9, <1>10 DEF InStep
<1>12. Delivered'
  <2>1. 0 \in 0 .. Len(wire')
    BY <1>6, <1>8
  <2> QED
    BY <1>4, <1>6, <1>8, <1>10, <1>11, <2>1 DEF Delivered
<1>13. \E n \in 0 .. Len(sent') : SubSeq(sent', 1, n) = sent
  BY <1>6, <1>7, MoreSent
<1>14. D!Send
  BY <1>10, <1>13 DEF D!Send
<1> QED
  BY <1>12, <1>14 DEF Step

\* The next packet is reported.
LEMMA GotNext ==
  ASSUME NEW p \in Body, NEW rest \in Seq(Body), NEW todo, todo = Cat(<<p>>, rest),
         sent = Cat(got, Wholes(todo)), got \in Seq(Outcomes),
         got' = Append(got, Whole(p)), sent' = sent
  PROVE  got' \in Seq(Outcomes) /\ sent' = Cat(got', Wholes(rest)) /\ Step
<1> DEFINE o == Whole(p)
           w == Wholes(rest)
<1>1. o \in Outcomes /\ w \in Seq(Outcomes)
  BY StreamType DEF Outcomes
<1>2. Wholes(todo) = Cat(<<o>>, w)
  <2>1. <<p>> \in Seq(Body) /\ Wholes(<<p>>) = <<o>>
    BY StreamOne
  <2>2. Wholes(Cat(<<p>>, rest)) = Cat(Wholes(<<p>>), Wholes(rest))
    BY <2>1, StreamJoin
  <2> QED
    BY <2>1, <2>2
<1> HIDE DEF o, w
<1>3. sent = Cat(got, Cat(<<o>>, w))
  BY <1>2
<1>4. IsNext(sent, got, o) /\ Append(got, o) \in Seq(Outcomes) /\ sent = Cat(Append(got, o), w)
  BY <1>1, <1>3, GotOne
<1>5. got' = Append(got, o)
  BY DEF o
<1>6. D!Receive
  BY <1>4, <1>5 DEF D!Receive, IsNext
<1> QED
  BY <1>4, <1>5, <1>6 DEF Step, w

\* A call of the sender that puts nothing on the stream.
LEMMA NoneSent ==
  ASSUME Delivered, Sending, UNCHANGED <<wire, sent>> PROVE Delivered' /\ Step
<1>1. UNCHANGED <<wire, sent, phase, recvVars>> /\ UNCHANGED <<sent, got>>
  BY DEF Sending, recvVars
<1> QED
  BY <1>1, StillDelivered DEF Step

\* One more at the end.
LEMMA SentOne ==
  ASSUME Delivered, phase # "failed", NEW o, o \in Outcomes
  PROVE  Append(sent, o) = Cat(sent, <<o>>)
<1>1. PICK todo \in Seq(Body) : sent = Cat(got, Wholes(todo))
  BY DEF Delivered, InStep
<1>2. sent \in Seq(Outcomes)
  BY <1>1, StreamType, CatType DEF Delivered
<1> QED
  BY <1>2 DEF Cat

\* Writer.Write.
LEMMA WriteDraftDelivers ==
  ASSUME Inv, Sizes, Sends, Delivered, WriteDraft PROVE Delivered' /\ Step
<1>1. /\ Sending /\ Counted(draft) /\ wire' = wire \o Written(draft)
      /\ sent' = IF Fits(draft) THEN Append(sent, Expected(draft)) ELSE sent
  BY DEF WriteDraft
<1>2. wire \in Seq(Byte)
  BY DEF Delivered
<1>3. CASE ~Fits(draft)
  <2>1. Written(draft) = <<>>
    BY <1>3 DEF Written
  <2>2. wire' = Cat(wire, <<>>)
    BY <1>1, <2>1 DEF Cat
  <2>3. wire' = wire
    BY <1>2, <2>2, CatNone
  <2> QED
    BY <1>1, <1>3, <2>3, NoneSent
<1>4. CASE Fits(draft)
  <2> DEFINE p == WriteTo(draft)
  <2>1. Goes(draft, p)
    BY <1>1, <1>4, LayerGoes DEF Sizes, Sends
  <2>2. Written(draft) = Framed(Size(draft), p)
    BY <1>4 DEF Written
  <2> HIDE DEF p
  <2>3. p \in Body /\ Size(draft) = Len(p) /\ Expected(draft) = Whole(p)
    BY <2>1 DEF Goes
  <2>4. <<p>> \in Seq(Body) /\ Stream(<<p>>) = Cat(Put16(Len(p)), p) /\ Wholes(<<p>>) = <<Whole(p)>>
    BY <2>3, StreamOne
  <2>5. Written(draft) = Stream(<<p>>)
    BY <2>2, <2>3, <2>4, FrameType
  <2>6. wire' = Cat(wire, Stream(<<p>>))
    BY <1>1, <2>5 DEF Cat
  <2>7. sent' = Append(sent, Whole(p))
    BY <1>1, <1>4, <2>3
  <2>8. sent' = Cat(sent, Wholes(<<p>>))
    <3>1. Whole(p) \in Outcomes /\ phase # "failed"
      BY <1>1, <2>3 DEF Outcomes, Sending
    <3> QED
      BY <2>4, <2>7, <3>1, SentOne
  <2> QED
    BY <1>1, <2>4, <2>6, <2>8, SentOn
<1> QED
  BY <1>3, <1>4

\* What the peer puts on the stream.
LEMMA JunkDelivers ==
  ASSUME Delivered, PeerJunk PROVE Delivered' /\ Step
<1>1. PICK b \in Junk : wire' = wire \o Framed(Len(b), b) /\ sent' = Append(sent, Whole(b))
  BY DEF PeerJunk
<1>2. Sending
  BY DEF PeerJunk
<1>3. b \in Body
  BY WireAssumption DEF Body
<1>4. <<b>> \in Seq(Body) /\ Stream(<<b>>) = Cat(Put16(Len(b)), b) /\ Wholes(<<b>>) = <<Whole(b)>>
  BY <1>3, StreamOne
<1>5. wire' = Cat(wire, Stream(<<b>>))
  BY <1>1, <1>3, <1>4, FrameType DEF Cat
<1>6. sent' = Cat(sent, Wholes(<<b>>))
  <2>1. Whole(b) \in Outcomes /\ phase # "failed"
    BY <1>2, <1>3 DEF Outcomes, Sending
  <2> QED
    BY <1>1, <1>4, <2>1, SentOne
<1> QED
  BY <1>2, <1>4, <1>5, <1>6, SentOn

\* FullFrameWriter.WriteTo.
LEMMA WriteFrameDelivers ==
  ASSUME Inv, Sizes, Sends, Delivered, WriteFrame PROVE Delivered' /\ Step
<1> DEFINE v == SetFrame(writer, frame)
           w == AskSize(v)
           out == [i \in DOMAIN frame.packets |-> ModifyPacket(w, i)]
           x == [i \in DOMAIN frame.packets |-> Expected(ModifyPacket(w, i))]
<1>1. /\ Sending
      /\ wire' = wire \o SubSeq(FrameBytes(w), 1, FrameSize(w))
      /\ sent' = sent \o [i \in DOMAIN out |-> Expected(out[i])]
  BY DEF WriteFrame
<1>2. [i \in DOMAIN out |-> Expected(out[i])] = x
  OBVIOUS
<1>3. DOMAIN v = WriterFields /\ v.size = 0 /\ v.frame = frame /\ v.timestamp = writer.timestamp
      /\ v.ssrc = writer.ssrc /\ v.seq = writer.seq
  BY DEF Inv, Counting, WriterFields, SetFrame
<1>4. v.seq = <<>> \/ \E n \in Number : v.seq = <<n>>
  BY <1>3 DEF Inv, Counting, CountsOn
<1>5. Collected(v.frame) /\ Filled(v.frame) /\ Sendable(v.frame)
  BY <1>3 DEF Inv, Sizes, Sends
<1>6. Writable(v)
  BY <1>3 DEF Sizes, Writable
<1>7. w.frame = v.frame
  BY <1>3 DEF AskSize, WriterFields
<1> HIDE DEF v
<1>8. \E qs \in Seq(Body) :
        /\ SubSeq(FrameBytes(w), 1, FrameSize(w)) = Stream(qs)
        /\ [i \in DOMAIN w.frame.packets |-> Expected(ModifyPacket(w, i))] = Wholes(qs)
  BY <1>3, <1>4, <1>5, <1>6, AskedGoes
<1> HIDE DEF w
<1>9. PICK qs \in Seq(Body) : SubSeq(FrameBytes(w), 1, FrameSize(w)) = Stream(qs) /\ x = Wholes(qs)
  BY <1>3, <1>7, <1>8
<1> HIDE DEF x
<1>10. wire' = Cat(wire, Stream(qs))
  BY <1>1, <1>9 DEF Cat
<1>11. sent' = Cat(sent, Wholes(qs))
  BY <1>1, <1>2, <1>9 DEF Cat
<1> QED
  BY <1>1, <1>10, <1>11, SentOn

\* The receiver begins, as parser or as reader.
LEMMA EndSendingDelivers ==
  ASSUME Delivered, EndSending PROVE Delivered' /\ Step
<1>1. phase = "send" /\ phase' \in {"parse", "read"} /\ UNCHANGED <<wire, sent, recvVars>>
  BY DEF EndSending
<1>2. PICK todo \in Seq(Body) : InStep(todo)
  BY <1>1 DEF Delivered
<1>3. /\ pos = 0 /\ chunk = <<>> /\ parser = Reset /\ reader = StartRead
      /\ wire = Stream(todo) /\ sent = Cat(got, Wholes(todo)) /\ wire \in Seq(Byte)
  BY <1>1, <1>2 DEF InStep, Delivered
<1>4. Drop(wire, 0) = wire
  BY <1>3, DropNone
<1>5. Cat(<<>>, wire) = wire
  BY <1>3, CatNone
<1>6. Ahead = wire
  BY <1>3, <1>4, <1>5 DEF Ahead
<1>7. ParserAt(parser, todo, Ahead) /\ ReaderAt(reader, todo, Ahead)
  BY <1>3, <1>6, FreshParser, FreshReader
<1>8. Ahead' = Ahead /\ parser' = parser /\ reader' = reader /\ chunk' = chunk /\ got' = got
      /\ sent' = sent /\ wire' = wire /\ pos' = pos /\ layer' = layer
  BY <1>1 DEF Ahead, recvVars
<1>9. InStep(todo)'
  BY <1>1, <1>3, <1>7, <1>8 DEF InStep
<1>10. Delivered'
  BY <1>1, <1>8, <1>9 DEF Delivered
<1> QED
  BY <1>8, <1>10 DEF Step

\* A chunk is read: what is ahead stays the same.
LEMMA ReadChunkDelivers ==
  ASSUME Delivered, ReadChunk PROVE Delivered' /\ Step
<1>1. /\ phase = "parse" /\ chunk = <<>>
      /\ UNCHANGED <<sent, wire, phase, parser, layer, reader, got>>
  BY DEF ReadChunk, sendVars
<1>2. wire \in Seq(Byte) /\ pos \in Nat /\ pos <= Len(wire) /\ Len(wire) \in Nat
  BY DEF Delivered
<1>3. PICK n \in Nat : n <= Left /\ chunk' = Next1(n) /\ pos' = pos + n
  <2>1. \E n \in (IF effort + 1 < MaxEffort THEN 1 .. Left ELSE {Left} \ {0}) :
           chunk' = Next1(n) /\ pos' = pos + n
    BY DEF ReadChunk
  <2>2. Left \in Nat
    BY <1>2 DEF Left
  <2>3. \A n \in (IF effort + 1 < MaxEffort THEN 1 .. Left ELSE {Left} \ {0}) :
           n \in Nat /\ n <= Left
    BY <2>2
  <2> QED
    BY <2>1, <2>3
<1>4. pos + n <= Len(wire) /\ pos + n \in Nat
  BY <1>2, <1>3 DEF Left
<1>5. PICK todo \in Seq(Body) : InStep(todo)
  BY <1>1 DEF Delivered
<1>6. ParserAt(parser, todo, Ahead) /\ sent = Cat(got, Wholes(todo))
  BY <1>1, <1>5 DEF InStep
<1>7. Ahead' = Ahead
  <2> DEFINE a == SubSeq(wire, pos + 1, pos + n)
             b == Drop(wire, pos + n)
             d == Drop(wire, pos)
  <2>1. /\ a \in Seq(Byte)
        /\ Cat(a, b) = d
    BY <1>2, <1>3, <1>4, DropNext
  <2>2. d \in Seq(Byte)
    BY <1>2, TakeDrop
  <2>3. chunk' = a /\ Drop(wire', pos') = b
    BY <1>1, <1>3 DEF Next1
  <2>4. Ahead' = Cat(a, b)
    BY <2>3 DEF Ahead
  <2>5. Ahead = d
    <3> HIDE DEF d
    <3>1. Cat(<<>>, d) = d
      BY <2>2, CatNone
    <3> QED
      BY <1>1, <3>1 DEF Ahead, d
  <2> QED
    BY <2>1, <2>4, <2>5
<1>8. chunk' \in Seq(Byte)
  <2>1. SubSeq(wire, pos + 1, pos + n) \in Seq(Byte)
    BY <1>2, <1>3, <1>4, DropNext
  <2> QED
    BY <1>3, <2>1 DEF Next1
<1>9. InStep(todo)'
  BY <1>1, <1>6, <1>7 DEF InStep
<1>10. pos' \in 0 .. Len(wire')
  BY <1>1, <1>2, <1>3, <1>4
<1>11. Delivered'
  BY <1>1, <1>8, <1>9, <1>10 DEF Delivered
<1> QED
  BY <1>1, <1>11 DEF Step

\* One call of Parse, as ParseStep has it.
LEMMA ParseChunkDelivers ==
  ASSUME Delivered, ParseChunk PROVE Delivered' /\ Step
<1> DEFINE o == Parse(parser, layer, chunk)
           more == Drop(wire, pos)
<1>1. /\ phase = "parse"
      /\ UNCHANGED <<sent, wire, phase, pos, reader>>
      /\ parser' = o.parser /\ layer' = o.layer /\ chunk' = o.remain
      /\ got' = CASE o.result = "more" -> got
                  [] o.result = "packet" -> Append(got, Packet(o.layer))
                  [] OTHER -> Append(got, Failure(o.result))
  BY DEF ParseChunk, sendVars
<1>2. /\ wire \in Seq(Byte) /\ chunk \in Seq(Byte) /\ pos \in 0 .. Len(wire)
      /\ IsLayer(layer) /\ got \in Seq(Outcomes)
  BY DEF Delivered
<1>3. PICK todo \in Seq(Body) : InStep(todo)
  BY <1>1 DEF Delivered
<1>4. sent = Cat(got, Wholes(todo)) /\ ParserAt(parser, todo, Cat(chunk, more))
  BY <1>1, <1>3 DEF InStep, Ahead
<1>5. more \in Seq(Byte) /\ more' = more
  BY <1>1, <1>2, TakeDrop
<1>6. Came(o, todo, more)
  <2> HIDE DEF more
  <2> QED
    BY <1>2, <1>4, <1>5, ParseStep
<1> HIDE DEF o
<1>7. o.remain \in Seq(Byte) /\ IsLayer(o.layer)
  BY <1>6 DEF Came
<1>8. Ahead' = Cat(o.remain, more)
  BY <1>1, <1>5 DEF Ahead
<1> HIDE DEF more
<1>9. CASE o.result = "more"
  <2>1. got' = got
    BY <1>1, <1>9
  <2>2. ParserAt(parser', todo, Ahead')
    BY <1>1, <1>6, <1>8, <1>9 DEF Came
  <2>3. InStep(todo)'
    BY <1>1, <1>4, <2>1, <2>2 DEF InStep
  <2>4. Delivered'
    BY <1>1, <1>2, <1>7, <2>1, <2>3 DEF Delivered
  <2> QED
    BY <1>1, <2>1, <2>4 DEF Step
<1>10. CASE o.result # "more"
  <2>1. got' = Append(got, Result(o))
    BY <1>1, <1>10 DEF Result
  <2>2. PICK p \in Body, rest \in Seq(Body) :
          /\ todo = Cat(<<p>>, rest) /\ ParserAt(o.parser, rest, Cat(o.remain, more))
          /\ Result(o) = Whole(p)
    BY <1>6, <1>10 DEF Came
  <2>3. got' \in Seq(Outcomes) /\ sent' = Cat(got', Wholes(rest)) /\ Step
    BY <1>1, <1>2, <1>4, <2>1, <2>2, GotNext
  <2>4. ParserAt(parser', rest, Ahead')
    BY <1>1, <1>8, <2>2
  <2>5. InStep(rest)'
    BY <1>1, <2>3, <2>4 DEF InStep
  <2>6. Delivered'
    BY <1>1, <1>2, <1>7, <2>2, <2>3, <2>5 DEF Delivered
  <2> QED
    BY <2>3, <2>6
<1> QED
  BY <1>9, <1>10

\* How many bytes a reader in step wants.
LEMMA WantedIsNumber ==
  ASSUME NEW r, NEW todo, NEW ahead, ReaderAt(r, todo, ahead) PROVE Wanted(r) \in Int
<1>1. Len(r.buf) \in Nat
  BY DEF ReaderAt
<1>2. r.size \in Nat
  <2>1. CASE LengthPart(r, todo, ahead)
    BY <2>1 DEF LengthPart
  <2>2. CASE \E p \in Body, rest \in Seq(Body) :
               todo = Cat(<<p>>, rest) /\ PacketPart(r, p, rest, ahead)
    <3>1. PICK p \in Body, rest \in Seq(Body) : PacketPart(r, p, rest, ahead)
      BY <2>2
    <3> QED
      BY <3>1 DEF PacketPart, Body
  <2> QED
    BY <2>1, <2>2 DEF ReaderAt
<1> QED
  BY <1>1, <1>2 DEF Wanted

\* One read of the reader, as ReadCameStep has it.
LEMMA ReadFileDelivers ==
  ASSUME Delivered, ReadFile PROVE Delivered' /\ Step
<1>1. phase = "read" /\ UNCHANGED <<sent, wire, chunk, parser, layer>>
  BY DEF ReadFile, sendVars
<1>2. wire \in Seq(Byte) /\ pos \in Nat /\ pos <= Len(wire) /\ Len(wire) \in Nat
      /\ got \in Seq(Outcomes) /\ IsLayer(layer)
  BY DEF Delivered
<1>3. PICK todo \in Seq(Body) : InStep(todo)
  BY <1>1 DEF Delivered
<1>4. chunk = <<>> /\ ReaderAt(reader, todo, Ahead) /\ sent = Cat(got, Wholes(todo))
  BY <1>1, <1>3 DEF InStep
<1>5. PICK n \in 1 .. Wanted(reader) :
        /\ n <= Left
        /\ LET s == ReadStep(reader, Next1(n))
           IN  /\ reader' = s.reader
               /\ pos' = pos + n
               /\ got' = CASE s.result = "more" -> got
                           [] s.result = "packet" -> Append(got, Packet(s.layer))
                           [] OTHER -> Append(got, Failure(s.result))
               /\ phase' = IF s.result \in {"more", "packet"} THEN "read" ELSE "failed"
  BY DEF ReadFile
<1> DEFINE b == Next1(n)
           more == Drop(wire, pos + n)
           d == Drop(wire, pos)
           s == ReadStep(reader, b)
<1>6. n \in Nat /\ n <= Wanted(reader)
  <2>1. Wanted(reader) \in Int
    BY <1>4, WantedIsNumber
  <2> QED
    BY <2>1
<1>7. pos + n <= Len(wire) /\ pos + n \in Nat
  BY <1>2, <1>5, <1>6 DEF Left
<1>8. b \in Seq(Byte) /\ Len(b) = n /\ Cat(b, more) = d
  BY <1>2, <1>6, <1>7, DropNext DEF Next1
<1>9. more \in Seq(Byte) /\ d \in Seq(Byte)
  BY <1>2, <1>7, TakeDrop
<1>10. Cat(<<>>, more) = more /\ Cat(<<>>, d) = d
  <2> HIDE DEF more, d
  <2> QED
    BY <1>9, CatNone
<1>11. Ahead = d /\ Ahead' = more
  BY <1>1, <1>4, <1>5, <1>10 DEF Ahead
<1> HIDE DEF b, more, d
<1>12. ReadCame(s, todo, more)
  BY <1>4, <1>6, <1>8, <1>9, <1>11, ReadCameStep
<1>13. /\ reader' = s.reader
       /\ got' = CASE s.result = "more" -> got
                   [] s.result = "packet" -> Append(got, Packet(s.layer))
                   [] OTHER -> Append(got, Failure(s.result))
       /\ phase' = IF s.result \in {"more", "packet"} THEN "read" ELSE "failed"
  BY <1>5 DEF b
<1>14. pos' \in 0 .. Len(wire') /\ wire' \in Seq(Byte) /\ chunk' = <<>> /\ IsLayer(layer')
       /\ chunk' \in Seq(Byte)
  BY <1>1, <1>2, <1>4, <1>5, <1>7
<1> HIDE DEF s
<1>15. CASE s.result = "more"
  <2>1. got' = got /\ phase' = "read"
    BY <1>13, <1>15
  <2>2. ReaderAt(reader', todo, Ahead')
    BY <1>11, <1>12, <1>13, <1>15 DEF ReadCame
  <2>3. InStep(todo)'
    BY <1>1, <1>4, <2>1, <2>2 DEF InStep
  <2>4. Delivered'
    BY <1>2, <1>14, <2>1, <2>3 DEF Delivered
  <2> QED
    BY <1>1, <2>1, <2>4 DEF Step
<1>16. CASE s.result # "more"
  <2>1. got' = Append(got, Result(s))
    BY <1>13, <1>16 DEF Result
  <2>2. PICK p \in Body, rest \in Seq(Body) :
          /\ todo = Cat(<<p>>, rest) /\ Result(s) = Whole(p)
          /\ s.result = "packet" => ReaderAt(s.reader, rest, more)
    BY <1>12, <1>16 DEF ReadCame
  <2>3. got' \in Seq(Outcomes) /\ sent' = Cat(got', Wholes(rest)) /\ Step
    BY <1>1, <1>2, <1>4, <2>1, <2>2, GotNext
  <2>4. CASE s.result = "packet"
    <3>1. phase' = "read" /\ ReaderAt(reader', rest, Ahead')
      BY <1>11, <1>13, <2>2, <2>4
    <3>2. InStep(rest)'
      BY <1>14, <2>3, <3>1 DEF InStep
    <3>3. Delivered'
      BY <1>14, <2>2, <2>3, <3>1, <3>2 DEF Delivered
    <3> QED
      BY <2>3, <3>3
  <2>5. CASE s.result # "packet"
    <3>1. phase' = "failed"
      BY <1>13, <1>16, <2>5
    <3>2. Delivered'
      BY <1>14, <2>3, <3>1 DEF Delivered
    <3> QED
      BY <2>3, <3>2
  <2> QED
    BY <2>4, <2>5
<1> QED
  BY <1>15, <1>16

\* At the end of the stream.
LEMMA EndOfStreamDelivers ==
  ASSUME Delivered, EndOfStream PROVE Delivered' /\ Step
<1>1. /\ phase \in {"parse", "read"} /\ phase' = "ended" /\ Left = 0 /\ chunk = <<>>
      /\ UNCHANGED <<sent, wire, recvVars>>
  BY DEF EndOfStream, sendVars
<1>2. wire \in Seq(Byte) /\ pos \in Nat /\ pos <= Len(wire) /\ Len(wire) \in Nat
  BY DEF Delivered
<1>3. PICK todo \in Seq(Body) : InStep(todo)
  BY <1>1 DEF Delivered
<1>4. Ahead = <<>>
  <2> DEFINE d == Drop(wire, pos)
  <2>1. d \in Seq(Byte) /\ Len(d) = Len(wire) - pos
    BY <1>2, TakeDrop
  <2>2. Len(wire) - pos = 0
    BY <1>1 DEF Left
  <2> HIDE DEF d
  <2>3. d = <<>>
    BY <2>1, <2>2
  <2>4. Cat(<<>>, d) = d
    BY <2>1, CatNone
  <2> QED
    BY <1>1, <2>3, <2>4 DEF Ahead, d
<1>5. NothingButEmpty(todo)
  BY <1>1, <1>3, <1>4, ParserAtEnd, ReaderAtEnd DEF InStep
<1>6. sent = Cat(got, Wholes(todo))
  BY <1>3 DEF InStep
<1>7. InStep(todo)'
  BY <1>1, <1>5, <1>6 DEF InStep, recvVars
<1>8. Delivered'
  BY <1>1, <1>7 DEF Delivered, recvVars
<1> QED
  BY <1>1, <1>8 DEF Step, recvVars

\* Every step keeps sender and receiver in step, and is one Delivery allows.
LEMMA NextDelivered ==
  Inv /\ Sizes /\ Sends /\ Delivered /\ [Next]_vars => Delivered' /\ Step
<1> SUFFICES ASSUME Inv, Sizes, Sends, Delivered, [Next]_vars PROVE Delivered' /\ Step
  OBVIOUS
<1>1. CASE Edit \/ Override \/ Collect \/ Retime \/ Retype
  <2>1. Sending /\ UNCHANGED <<wire, sent>>
    BY <1>1 DEF Edit, Override, Collect, Retime, Retype
  <2> QED
    BY <2>1, NoneSent
<1>2. CASE WriteDraft \/ WriteFrame \/ PeerJunk \/ EndSending
  BY <1>2, WriteDraftDelivers, WriteFrameDelivers, JunkDelivers, EndSendingDelivers
<1>3. CASE ReadChunk \/ ParseChunk \/ ReadFile \/ EndOfStream
  BY <1>3, ReadChunkDelivers, ParseChunkDelivers, ReadFileDelivers, EndOfStreamDelivers
<1>4. CASE UNCHANGED vars
  <2>1. UNCHANGED <<wire, sent, phase, recvVars>> /\ UNCHANGED <<sent, got>>
    BY <1>4 DEF vars, sendVars, recvVars
  <2> QED
    BY <2>1, StillDelivered DEF Step
<1> QED
  BY <1>1, <1>2, <1>3, <1>4 DEF Next

\* So they always are.
LEMMA DeliveredInvariant == Spec => []Delivered
BY StartsDelivered, NextDelivered, Invariance, SizesInvariant, SendsInvariant, PTL DEF Spec

\* Whatever is sent, by whichever setters, alone or in frames, and however the
\* receiver comes by its bytes, it gets what was sent, in order, each once: a step
\* sends more or reports the next thing sent (Parser.Parse, Reader.Read, and
\* UnmarshalChunks into a layer that is used again).
THEOREM ArrivesInOrder == Spec => DeliversInOrder
<1>1. Init => D!Init
  BY DEF Init, D!Init
<1>2. Inv /\ Sizes /\ Sends /\ Delivered /\ [Next]_vars
        => [D!Send \/ D!Receive]_<<sent, got>>
  BY NextDelivered DEF Step
<1> QED
  BY <1>1, <1>2, Invariance, SizesInvariant, SendsInvariant, DeliveredInvariant, PTL
     DEF Spec, D!Spec, DeliversInOrder

\* At the end of the stream everything sent has been reported, but for an empty
\* packet as the last, whatever the cuts (Parser.Parse, Reader.Read).
THEOREM NothingIsLeft == Spec => []NothingLeft
<1>1. Delivered => NothingLeft
  <2> SUFFICES ASSUME Delivered, phase = "ended" PROVE Undelivered \in {<<>>, <<Whole(<<>>)>>}
    BY DEF NothingLeft
  <2>1. PICK todo \in Seq(Body) : InStep(todo)
    BY DEF Delivered
  <2>2. sent = Cat(got, Wholes(todo)) /\ NothingButEmpty(todo) /\ got \in Seq(Outcomes)
    BY <2>1 DEF InStep, Delivered
  <2> DEFINE w == Wholes(todo)
  <2>3. w \in Seq(Outcomes)
    BY StreamType
  <2>4. w \in {<<>>, <<Whole(<<>>)>>}
    <3>1. <<>> \in Body => Wholes(<< <<>> >>) = <<Whole(<<>>)>>
      BY StreamOne
    <3>2. <<>> \in Body
      BY Width DEF Body
    <3> QED
      BY <2>2, <3>1, <3>2, StreamNone DEF NothingButEmpty
  <2> HIDE DEF w
  <2>5. sent \in Seq(Outcomes) /\ Len(sent) = Len(got) + Len(w)
    BY <2>2, <2>3, CatType DEF w
  <2> DEFINE n == Len(got)
             a == SubSeq(sent, 1, n)
             b == Drop(sent, n)
  <2>6. n \in 0 .. Len(sent)
    <3>1. Len(got) \in Nat /\ Len(w) \in Nat
      BY <2>2, <2>3
    <3> QED
      BY <2>5, <3>1
  <2> HIDE DEF n
  <2>7. a \in Seq(Outcomes) /\ Len(a) = n /\ b \in Seq(Outcomes) /\ Cat(a, b) = sent
    BY <2>5, <2>6, TakeDrop
  <2> HIDE DEF a, b
  <2>8. b = w
    <3>1. Cat(a, b) = Cat(got, w) /\ Len(a) = Len(got)
      BY <2>2, <2>7 DEF w, n
    <3> QED
      BY <2>2, <2>3, <2>7, <3>1, CatSplit
  <2> QED
    BY <2>4, <2>8 DEF b, n, Undelivered, Drop
<1> QED
  BY <1>1, DeliveredInvariant, PTL
===============================================================================
