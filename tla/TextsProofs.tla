---------------------------- MODULE TextsProofs -----------------------------
(***************************************************************************)
(* What MCTexts says of the two parsers holds for every text, however long *)
(* it is, and for every message that is logged.                            *)
(*                                                                         *)
(* Nothing changes from one state to the next, so each theorem is a lemma  *)
(* about the operators of Address or Formatter for all hostnames or        *)
(* formats, and the initial states.                                        *)
(***************************************************************************)
EXTENDS MCTexts, SequenceLemmas

-----------------------------------------------------------------------------
(* Segments of a hostname and how many numbers stand in a row              *)

Byte == {n \in Nat : n < 256}
Word == {n \in Nat : n < 65536}
Segment == {Empty, Long} \cup {Number(n) : n \in Word}

\* A segment is empty, too long, or a number of 16 bits.
LEMMA SegmentFacts ==
  ASSUME NEW seg \in Segment
  PROVE  /\ seg = Empty \/ seg = Long \/ IsNumber(seg)
         /\ IsNumber(seg) => seg.n \in Word
         /\ ~IsNumber(Empty) /\ ~IsNumber(Long)
<1>1. \A n : Number(n).kind = "number" /\ Number(n).n = n
  BY DEF Number
<1>2. Empty.kind # "number" /\ Long.kind # "number"
  BY DEF Empty, Long
<1> QED BY <1>1, <1>2 DEF Segment, IsNumber

\* The loop takes the numbers that stand in a row from segment k on, but no ninth one.
LEMMA TakenFacts ==
  ASSUME NEW s \in Seq(Segment), NEW k \in Nat \ {0}
  PROVE  /\ Taken(s, k) \in 0 .. 8
         /\ Taken(s, k) = 8 \/ k + Taken(s, k) > Len(s) \/ ~IsNumber(s[k + Taken(s, k)])
         /\ \A j \in 0 .. Taken(s, k) - 1 : k + j <= Len(s) /\ IsNumber(s[k + j])
<1> DEFINE Stops(m) == m = 8 \/ k + m > Len(s) \/ ~IsNumber(s[k + m])
           M == {m \in 0 .. 8 : Stops(m)}
<1>1. 8 \in M /\ M \in SUBSET Nat
  OBVIOUS
<1>2. Min(M) \in M /\ \A m \in M : Min(M) <= m
  BY <1>1, LeastExists
<1>3. Taken(s, k) = Min(M)
  BY DEF Taken
<1>4. ASSUME NEW j \in 0 .. Min(M) - 1 PROVE ~Stops(j)
  <2>1. j \in 0 .. 8 /\ ~(Min(M) <= j)
    BY <1>2
  <2> QED BY <1>2, <2>1
<1> HIDE DEF M
<1>5. \A j \in 0 .. Min(M) - 1 : k + j <= Len(s) /\ IsNumber(s[k + j])
  <2>1. Len(s) \in Nat /\ Min(M) \in 0 .. 8
    BY <1>2 DEF M
  <2> QED BY <1>4, <2>1
<1> QED BY <1>2, <1>3, <1>5 DEF M

\* That determines their number.
LEMMA TakenIs ==
  ASSUME NEW s \in Seq(Segment), NEW k \in Nat \ {0}, NEW m \in 0 .. 8,
         m = 8 \/ k + m > Len(s) \/ ~IsNumber(s[k + m]),
         \A j \in 0 .. m - 1 : k + j <= Len(s) /\ IsNumber(s[k + j])
  PROVE  Taken(s, k) = m
<1> DEFINE t == Taken(s, k)
<1>1. /\ t \in 0 .. 8
      /\ t = 8 \/ k + t > Len(s) \/ ~IsNumber(s[k + t])
      /\ \A j \in 0 .. t - 1 : k + j <= Len(s) /\ IsNumber(s[k + j])
  BY TakenFacts
<1>2. Len(s) \in Nat
  OBVIOUS
<1> HIDE DEF t
<1>3. ~(t < m)
  <2> SUFFICES ASSUME t < m PROVE FALSE
    OBVIOUS
  <2>1. t \in 0 .. m - 1 /\ t # 8
    BY <1>1
  <2>2. k + t <= Len(s) /\ IsNumber(s[k + t])
    BY <2>1
  <2> QED BY <1>1, <1>2, <2>1, <2>2
<1>4. ~(m < t)
  <2> SUFFICES ASSUME m < t PROVE FALSE
    OBVIOUS
  <2>1. m \in 0 .. t - 1 /\ m # 8
    BY <1>1
  <2>2. k + m <= Len(s) /\ IsNumber(s[k + m])
    BY <1>1, <2>1
  <2> QED BY <1>2, <2>1, <2>2
<1> QED BY <1>1, <1>3, <1>4 DEF t

-----------------------------------------------------------------------------
(* Bytes and words                                                         *)

\* A function on 1 .. n is a sequence of that length.
LEMMA FunctionLen ==
  ASSUME NEW S, NEW n \in Nat, NEW f \in [1 .. n -> S]
  PROVE  f \in Seq(S) /\ Len(f) = n
<1>1. f \in Seq(S)
  BY FunctionIsSeq
<1>2. f = [i \in 1 .. n |-> f[i]]
  OBVIOUS
<1>3. Len([i \in 1 .. n |-> f[i]]) = n
  OBVIOUS
<1> QED BY <1>1, <1>2, <1>3

\* A word and its two bytes.
HasBytes(w, h, l) == w = 256 * h + l

\* htons exchanges the two bytes of a word.
LEMMA BytesOfWord ==
  ASSUME NEW h \in Byte, NEW l \in Byte, NEW w, HasBytes(w, h, l)
  PROVE  w \in Word /\ w \div 256 = h /\ w % 256 = l /\ HasBytes(Htons(w), l, h)
<1>1. h \in Nat /\ h < 256 /\ l \in Nat /\ l < 256 /\ w = 256 * h + l
  BY DEF HasBytes, Byte
<1>2. w \in Nat /\ w < 65536
  BY <1>1
<1>3. w \div 256 = h /\ w % 256 = l
  BY <1>1, <1>2
<1>4. Htons(w) = l * 256 + h
  BY <1>3, Zenon DEF Htons
<1>5. Htons(w) = 256 * l + h
  BY <1>1, <1>4
<1>6. w \in Word
  BY <1>2 DEF Word
<1> QED BY <1>3, <1>5, <1>6, Zenon DEF HasBytes

\* Back they change by another htons, or by reading them from memory.
LEMMA HtonsFacts ==
  ASSUME NEW w \in Word
  PROVE  /\ Htons(w) \in Word
         /\ Htons(w) % 256 = w \div 256 /\ Htons(w) \div 256 = w % 256
         /\ Htons(Htons(w)) = w
         /\ (w \div 256) + 256 * (w % 256) = Htons(w)
<1>1. PICK h \in Byte, l \in Byte : HasBytes(w, h, l)
  <2>1. w \in Nat /\ w < 65536
    BY DEF Word
  <2>2. w \div 256 \in Nat /\ w \div 256 < 256
    BY <2>1
  <2>3. w % 256 \in Nat /\ w % 256 < 256
    BY <2>1
  <2>4. w = 256 * (w \div 256) + (w % 256)
    BY <2>1
  <2>5. w \div 256 \in Byte /\ w % 256 \in Byte
    BY <2>2, <2>3 DEF Byte
  <2> QED BY <2>4, <2>5, Zenon DEF HasBytes
<1>2. h \in Nat /\ l \in Nat
  BY DEF Byte
<1>3. w \div 256 = h /\ w % 256 = l /\ HasBytes(Htons(w), l, h)
  BY <1>1, BytesOfWord
<1>4. /\ Htons(w) \in Word
      /\ Htons(w) \div 256 = l /\ Htons(w) % 256 = h
      /\ HasBytes(Htons(Htons(w)), h, l)
  <2> DEFINE v == Htons(w)
  <2> HIDE DEF v
  <2>1. HasBytes(v, l, h)
    BY <1>3, Zenon DEF v
  <2>2. v \in Word /\ v \div 256 = l /\ v % 256 = h /\ HasBytes(Htons(v), h, l)
    BY <2>1, BytesOfWord, Zenon
  <2> QED BY <2>2, Zenon DEF v
<1>5. Htons(Htons(w)) = w
  BY <1>1, <1>4, Zenon DEF HasBytes
<1>6. Htons(w) = h + 256 * l
  <2>1. Htons(w) = 256 * l + h
    BY <1>3, Zenon DEF HasBytes
  <2> QED BY <1>2, <2>1
<1> QED BY <1>3, <1>4, <1>5, <1>6, Zenon

\* htons and a memory with the least byte first give the order of the network.
LEMMA StoredFacts ==
  ASSUME NEW words \in [1 .. 8 -> Word]
  PROVE  Stored(words) = NetworkOrder(words)
<1>1. words \in Seq(Word) /\ Len(words) = 8
  BY FunctionLen
<1>2. \A b \in 1 .. 16 : (b + 1) \div 2 \in 1 .. 8
  OBVIOUS
<1>3. \A b \in 1 .. 16 : words[(b + 1) \div 2] \in Word
  BY <1>2
<1> QED BY <1>1, <1>3, HtonsFacts DEF Stored, NetworkOrder

\* Printing takes them back.
LEMMA PrintedWords ==
  ASSUME NEW words \in [1 .. 8 -> Word]
  PROVE  Printed(NetworkOrder(words)) = words
<1> DEFINE bytes == NetworkOrder(words)
<1>1. Len(words) = 8
  BY FunctionLen
<1>2. bytes = [b \in 1 .. 16 |-> LET w == words[(b + 1) \div 2]
                                 IN  IF b % 2 = 1 THEN w \div 256 ELSE w % 256]
  BY <1>1 DEF NetworkOrder
<1>3. Len(bytes) = 16
  BY <1>2
<1>4. ASSUME NEW k \in 1 .. 8
      PROVE  bytes[2 * k - 1] = words[k] \div 256 /\ bytes[2 * k] = words[k] % 256
  <2>1. /\ 2 * k - 1 \in 1 .. 16 /\ 2 * k \in 1 .. 16
        /\ (2 * k - 1 + 1) \div 2 = k /\ (2 * k + 1) \div 2 = k
        /\ (2 * k - 1) % 2 = 1 /\ (2 * k) % 2 = 0
    OBVIOUS
  <2> QED BY <1>2, <2>1
<1> HIDE DEF bytes
<1>5. ASSUME NEW k \in 1 .. 8 PROVE Ntohs(bytes[2 * k - 1] + 256 * bytes[2 * k]) = words[k]
  <2>1. words[k] \in Word
    OBVIOUS
  <2> QED BY <1>4, <2>1, HtonsFacts DEF Ntohs
<1>6. Printed(bytes) = [k \in 1 .. 8 |-> Ntohs(bytes[2 * k - 1] + 256 * bytes[2 * k])]
  BY <1>3 DEF Printed
<1>7. Printed(bytes) = [k \in 1 .. 8 |-> words[k]]
  BY <1>5, <1>6
<1> QED BY <1>7 DEF bytes

-----------------------------------------------------------------------------
(* Hostnames that are addresses                                            *)

\* A part of a sequence.
LEMMA PartFacts ==
  ASSUME NEW R, NEW s \in Seq(R), NEW i \in Nat \ {0}, NEW j \in Nat, i <= j + 1, j <= Len(s)
  PROVE  /\ SubSeq(s, i, j) \in Seq(R) /\ Len(SubSeq(s, i, j)) = j - i + 1
         /\ \A k \in 1 .. j - i + 1 : SubSeq(s, i, j)[k] = s[i + k - 1]
<1>1. \A k \in i .. j : s[k] \in R
  OBVIOUS
<1>2. i \in Int /\ j \in Int /\ (IF i <= j THEN j - i + 1 ELSE 0) = j - i + 1
  OBVIOUS
<1> QED BY <1>1, <1>2, SubSeqProperties

\* The elements of a part determine it.
LEMMA PartIs ==
  ASSUME NEW R, NEW s \in Seq(R), NEW i \in Nat \ {0}, NEW j \in Nat, i <= j + 1, j <= Len(s),
         NEW u \in Seq(R), Len(u) = j - i + 1, \A k \in 1 .. j - i + 1 : u[k] = s[i + k - 1]
  PROVE  SubSeq(s, i, j) = u
<1> DEFINE v == SubSeq(s, i, j)
<1>1. v \in Seq(R) /\ Len(v) = j - i + 1 /\ \A k \in 1 .. j - i + 1 : v[k] = s[i + k - 1]
  BY PartFacts
<1> HIDE DEF v
<1>2. Len(u) = Len(v) /\ \A k \in 1 .. Len(u) : u[k] = v[k]
  BY <1>1
<1>3. u = v
  BY <1>1, <1>2, SeqEqual
<1> QED BY <1>3 DEF v

\* Every segment is a number.
LEMMA AllNumbersAt ==
  ASSUME NEW s \in Seq(Segment)
  PROVE  AllNumbers(s) <=> \A i \in 1 .. Len(s) : IsNumber(s[i])
<1>1. DOMAIN s = 1 .. Len(s)
  OBVIOUS
<1> QED BY <1>1, Zenon DEF AllNumbers

\* The numbers of segments that are all numbers.
LEMMA NumbersFacts ==
  ASSUME NEW s \in Seq(Segment), AllNumbers(s)
  PROVE  /\ NumbersOf(s) \in Seq(Word) /\ Len(NumbersOf(s)) = Len(s)
         /\ \A k \in 1 .. Len(s) : NumbersOf(s)[k] = s[k].n
<1>1. DOMAIN s = 1 .. Len(s) /\ Len(s) \in Nat
  OBVIOUS
<1>2. \A k \in 1 .. Len(s) : s[k].n \in Word
  BY <1>1, SegmentFacts DEF AllNumbers
<1>3. NumbersOf(s) = [k \in 1 .. Len(s) |-> s[k].n]
  BY <1>1 DEF NumbersOf
<1>4. NumbersOf(s) \in [1 .. Len(s) -> Word]
  BY <1>2, <1>3
<1> QED BY <1>1, <1>3, <1>4, FunctionLen

\* A colon hostname with a gap: l numbers before it and r behind it.
HasGap(s, l, r) ==
  /\ l + r <= 7 /\ Len(s) = l + 1 + r /\ s[l + 1] = Empty
  /\ \A i \in 1 .. l : IsNumber(s[i])
  /\ \A j \in 1 .. r : IsNumber(s[l + 1 + j])

\* Where there are no numbers an empty segment stands.
LEMMA OrEmptyFacts ==
  ASSUME NEW s \in Seq(Segment)
  PROVE  /\ OrEmpty(s) \in Seq(Segment)
         /\ Len(s) # 0 => OrEmpty(s) = s
         /\ Len(s) = 0 => OrEmpty(s) = <<Empty>> /\ Len(OrEmpty(s)) = 1 /\ OrEmpty(s)[1] = Empty
<1>1. Empty \in Segment /\ <<Empty>> \in Seq(Segment)
  BY DEF Segment
<1>2. s = <<>> <=> Len(s) = 0
  OBVIOUS
<1>3. CASE s = <<>>
  <2>1. OrEmpty(s) = <<Empty>>
    BY <1>3 DEF OrEmpty
  <2>2. Len(<<Empty>>) = 1 /\ <<Empty>>[1] = Empty
    OBVIOUS
  <2> QED BY <1>1, <1>2, <1>3, <2>1, <2>2, Zenon
<1>4. CASE s # <<>>
  BY <1>2, <1>4 DEF OrEmpty
<1> QED BY <1>3, <1>4

\* A hostname written with "::" has it between its numbers, or two empty segments at
\* the end where it has none.
LEMMA GapElements ==
  ASSUME NEW segs \in Seq(Segment), NEW l \in 0 .. 7, NEW r \in 0 .. 7,
         l <= Len(segs), r <= Len(segs), IsGap(segs, l, r)
  PROVE  LET a == IF l = 0 THEN 1 ELSE l
             b == IF r = 0 THEN 1 ELSE r
         IN  /\ l + r <= 7 /\ Len(segs) = a + 1 + b /\ segs[a + 1] = Empty
             /\ \A i \in 1 .. l : IsNumber(segs[i])
             /\ \A j \in 1 .. r : IsNumber(segs[Len(segs) - r + j])
             /\ l = 0 => segs[1] = Empty
             /\ r = 0 => segs[Len(segs)] = Empty
<1> DEFINE n == Len(segs)
           left == SubSeq(segs, 1, l)
           right == SubSeq(segs, n - r + 1, n)
           A == OrEmpty(left)
           B == OrEmpty(right)
<1>1. /\ left \in Seq(Segment) /\ Len(left) = l
      /\ \A i \in 1 .. l : left[i] = segs[i]
  <2>1. /\ left \in Seq(Segment) /\ Len(left) = l - 1 + 1
        /\ \A i \in 1 .. l - 1 + 1 : left[i] = segs[1 + i - 1]
    BY PartFacts
  <2> QED BY <2>1
<1>2. /\ right \in Seq(Segment) /\ Len(right) = r
      /\ \A j \in 1 .. r : right[j] = segs[n - r + j]
  <2>1. n \in Nat /\ n - r + 1 \in Nat \ {0}
    OBVIOUS
  <2>2. /\ right \in Seq(Segment) /\ Len(right) = n - (n - r + 1) + 1
        /\ \A j \in 1 .. n - (n - r + 1) + 1 : right[j] = segs[(n - r + 1) + j - 1]
    BY <2>1, PartFacts
  <2> HIDE DEF right
  <2>3. n - (n - r + 1) + 1 = r /\ \A j \in 1 .. r : (n - r + 1) + j - 1 = n - r + j
    BY <2>1
  <2> QED BY <2>2, <2>3
<1>3. /\ l + r <= 7 /\ AllNumbers(left) /\ AllNumbers(right)
      /\ segs = (A \o <<Empty>>) \o B
  BY DEF IsGap
<1> HIDE DEF left, right
<1>4. /\ A \in Seq(Segment) /\ Len(A) = (IF l = 0 THEN 1 ELSE l)
      /\ l = 0 => A[1] = Empty
  BY <1>1, OrEmptyFacts
<1>5. /\ B \in Seq(Segment) /\ Len(B) = (IF r = 0 THEN 1 ELSE r)
      /\ r = 0 => B[1] = Empty
  BY <1>2, OrEmptyFacts
<1> HIDE DEF A, B
<1>6. /\ <<Empty>> \in Seq(Segment) /\ Len(<<Empty>>) = 1
      /\ <<Empty>>[1] = Empty
  BY DEF Segment
<1> DEFINE e == <<Empty>>
           C == A \o e
<1> HIDE DEF e
<1>7. /\ C \in Seq(Segment) /\ Len(C) = Len(A) + 1
      /\ \A i \in 1 .. Len(A) : C[i] = A[i]
      /\ C[Len(A) + 1] = Empty
  <2>1. /\ C \in Seq(Segment) /\ Len(C) = Len(A) + Len(e)
        /\ \A i \in 1 .. Len(A) + Len(e) : C[i] = IF i <= Len(A) THEN A[i] ELSE e[i - Len(A)]
    BY <1>4, <1>6, ConcatProperties DEF e
  <2> HIDE DEF C
  <2>2. Len(e) = 1 /\ e[1] = Empty /\ Len(A) \in Nat
    BY <1>4, <1>6 DEF e
  <2>3. C[Len(A) + 1] = e[(Len(A) + 1) - Len(A)]
    BY <2>1, <2>2
  <2> QED BY <2>1, <2>2, <2>3
<1>8. segs = C \o B
  BY <1>3 DEF e
<1> HIDE DEF C
<1>9. /\ n = Len(A) + 1 + Len(B) /\ segs[Len(A) + 1] = Empty /\ segs[1] = A[1]
      /\ r = 0 => segs[n] = Empty
  <2>1. /\ n = Len(C) + Len(B)
        /\ \A i \in 1 .. Len(C) + Len(B) : segs[i] = IF i <= Len(C) THEN C[i] ELSE B[i - Len(C)]
    BY <1>5, <1>7, <1>8, ConcatProperties
  <2>2. Len(A) \in Nat \ {0} /\ Len(B) \in Nat \ {0}
    BY <1>4, <1>5
  <2>3. segs[Len(A) + 1] = C[Len(A) + 1] /\ segs[1] = C[1] /\ segs[n] = B[n - Len(C)]
    BY <1>7, <2>1, <2>2
  <2>4. C[1] = A[1] /\ n - Len(C) = Len(B) /\ n = Len(A) + 1 + Len(B)
    BY <1>7, <2>1, <2>2
  <2> QED BY <1>5, <1>7, <2>3, <2>4
<1>10. /\ \A i \in 1 .. l : IsNumber(segs[i])
       /\ \A j \in 1 .. r : IsNumber(segs[n - r + j])
  <2>1. \A i \in 1 .. l : IsNumber(left[i])
    BY <1>1, <1>3, AllNumbersAt
  <2>2. \A j \in 1 .. r : IsNumber(right[j])
    BY <1>2, <1>3, AllNumbersAt
  <2> QED BY <1>1, <1>2, <2>1, <2>2
<1> DEFINE a == IF l = 0 THEN 1 ELSE l
           b == IF r = 0 THEN 1 ELSE r
<1>11. Len(A) = a /\ Len(B) = b
  BY <1>4, <1>5
<1> HIDE DEF a, b
<1>12. /\ l + r <= 7 /\ n = a + 1 + b /\ segs[a + 1] = Empty
       /\ l = 0 => segs[1] = Empty
       /\ r = 0 => segs[n] = Empty
  BY <1>3, <1>4, <1>9, <1>11, Zenon
<1> QED BY <1>10, <1>12, Zenon DEF a, b

\* "::" at the beginning and at the end.
StartsTwice(segs) == Len(segs) >= 3 /\ segs[1] = Empty /\ segs[2] = Empty
EndsTwice(segs) ==
  Len(segs) >= 3 /\ segs[Len(segs)] = Empty /\ segs[Len(segs) - 1] = Empty

\* What is left of a hostname when a colon of "::" has been taken off an end.
LEMMA ShortenedFacts ==
  ASSUME NEW segs \in Seq(Segment)
  PROVE  /\ StartsTwice(segs) =>
              /\ Shortened(segs) \in Seq(Segment) /\ Len(Shortened(segs)) = Len(segs) - 1
              /\ \A i \in 1 .. Len(segs) - 1 : Shortened(segs)[i] = segs[i + 1]
         /\ ~StartsTwice(segs) /\ EndsTwice(segs) =>
              /\ Shortened(segs) \in Seq(Segment) /\ Len(Shortened(segs)) = Len(segs) - 1
              /\ \A i \in 1 .. Len(segs) - 1 : Shortened(segs)[i] = segs[i]
         /\ ~StartsTwice(segs) /\ ~EndsTwice(segs) => Shortened(segs) = segs
<1>1. CASE StartsTwice(segs)
  <2>1. Shortened(segs) = Tail(segs)
    BY <1>1 DEF Shortened, StartsTwice
  <2>2. segs # <<>>
    BY <1>1 DEF StartsTwice
  <2>3. /\ Tail(segs) \in Seq(Segment) /\ Len(Tail(segs)) = Len(segs) - 1
        /\ \A i \in 1 .. Len(Tail(segs)) : Tail(segs)[i] = segs[i + 1]
    BY <2>2, HeadTailProperties
  <2> QED BY <1>1, <2>1, <2>3, Zenon
<1>2. CASE ~StartsTwice(segs) /\ EndsTwice(segs)
  <2>1. Shortened(segs) = Front(segs)
    BY <1>2 DEF Shortened, StartsTwice, EndsTwice
  <2>2. Len(segs) \in Nat /\ Len(segs) >= 3
    BY <1>2 DEF EndsTwice
  <2>3. /\ Front(segs) \in Seq(Segment) /\ Len(Front(segs)) = Len(segs) - 1 - 1 + 1
        /\ \A i \in 1 .. Len(segs) - 1 - 1 + 1 : Front(segs)[i] = segs[1 + i - 1]
    BY <2>2, PartFacts DEF Front
  <2>4. Len(segs) - 1 - 1 + 1 = Len(segs) - 1 /\ \A i \in Int : 1 + i - 1 = i
    BY <2>2
  <2> QED BY <1>2, <2>1, <2>3, <2>4
<1>3. CASE ~StartsTwice(segs) /\ ~EndsTwice(segs)
  BY <1>3 DEF Shortened, StartsTwice, EndsTwice
<1> QED BY <1>1, <1>2, <1>3

\* With one colon less, "::" is a gap wherever it stood, unless there is nothing else.
LEMMA GapShortened ==
  ASSUME NEW segs \in Seq(Segment), NEW l \in 0 .. 7, NEW r \in 0 .. 7,
         l <= Len(segs), r <= Len(segs), IsGap(segs, l, r), l + r # 0
  PROVE  LET s == Shortened(segs)
             n == Len(segs)
         IN  /\ s \in Seq(Segment) /\ HasGap(s, l, r)
             /\ SubSeq(s, 1, l) = SubSeq(segs, 1, l)
             /\ SubSeq(s, l + 2, l + 1 + r) = SubSeq(segs, n - r + 1, n)
<1> DEFINE s == Shortened(segs)
           n == Len(segs)
<1>1. /\ n = (IF l = 0 THEN 1 ELSE l) + 1 + (IF r = 0 THEN 1 ELSE r)
      /\ segs[(IF l = 0 THEN 1 ELSE l) + 1] = Empty
      /\ l + r <= 7 /\ \A i \in 1 .. l : IsNumber(segs[i])
      /\ \A j \in 1 .. r : IsNumber(segs[n - r + j])
      /\ l = 0 => segs[1] = Empty
      /\ r = 0 => segs[n] = Empty
  BY GapElements, Zenon
<1>2. ~IsNumber(Empty)
  BY DEF IsNumber, Empty
<1>3. /\ s \in Seq(Segment) /\ Len(s) = l + 1 + r /\ s[l + 1] = Empty
      /\ \A i \in 1 .. l : s[i] = segs[i]
      /\ \A j \in 1 .. r : s[l + 1 + j] = segs[n - r + j]
  <2>1. CASE l = 0
    <3>1. r > 0 /\ n = 2 + r /\ segs[1] = Empty /\ segs[2] = Empty
      BY <1>1, <2>1
    <3>2. StartsTwice(segs)
      BY <3>1 DEF StartsTwice
    <3>3. /\ s \in Seq(Segment) /\ Len(s) = n - 1
          /\ \A i \in 1 .. n - 1 : s[i] = segs[i + 1]
      BY <3>2, ShortenedFacts
    <3> HIDE DEF s, n
    <3> QED BY <2>1, <3>1, <3>3
  <2>2. CASE l # 0 /\ r = 0
    <3>1. l > 0 /\ n = l + 2 /\ segs[l + 1] = Empty /\ segs[n] = Empty /\ IsNumber(segs[1])
      <4>1. n = l + 1 + 1 /\ segs[l + 1] = Empty /\ segs[n] = Empty
        BY <1>1, <2>2, Zenon
      <4>2. 1 \in 1 .. l
        BY <2>2
      <4> QED BY <1>1, <2>2, <4>1, <4>2
    <3>2. ~StartsTwice(segs) /\ EndsTwice(segs)
      BY <1>2, <3>1 DEF StartsTwice, EndsTwice
    <3>3. /\ s \in Seq(Segment) /\ Len(s) = n - 1
          /\ \A i \in 1 .. n - 1 : s[i] = segs[i]
      BY <3>2, ShortenedFacts
    <3> HIDE DEF s, n
    <3> QED BY <2>2, <3>1, <3>3
  <2>3. CASE l # 0 /\ r # 0
    <3>1. /\ l > 0 /\ n = l + 1 + r /\ segs[l + 1] = Empty /\ IsNumber(segs[1])
          /\ IsNumber(segs[n])
      <4>1. n = l + 1 + r /\ segs[l + 1] = Empty
        BY <1>1, <2>3, Zenon
      <4>2. 1 \in 1 .. l /\ r \in 1 .. r /\ n - r + r = n
        BY <2>3, <4>1
      <4>3. IsNumber(segs[1]) /\ IsNumber(segs[n - r + r])
        BY <1>1, <4>2, Zenon
      <4> QED BY <2>3, <4>1, <4>2, <4>3
    <3>2. ~StartsTwice(segs) /\ ~EndsTwice(segs)
      BY <1>2, <3>1 DEF StartsTwice, EndsTwice
    <3>3. s = segs
      BY <3>2, ShortenedFacts
    <3> QED BY <2>3, <3>1, <3>3
  <2> QED BY <2>1, <2>2, <2>3
<1>4. n \in Nat /\ l <= n /\ r <= n
  OBVIOUS
<1> HIDE DEF s, n
<1>5. HasGap(s, l, r)
  BY <1>1, <1>3 DEF HasGap
<1>6. SubSeq(s, 1, l) = SubSeq(segs, 1, l)
  <2> DEFINE u == SubSeq(segs, 1, l)
  <2>1. /\ u \in Seq(Segment) /\ Len(u) = l - 1 + 1
        /\ \A i \in 1 .. l - 1 + 1 : u[i] = segs[1 + i - 1]
    BY <1>4, PartFacts DEF n
  <2> HIDE DEF u
  <2>2. \A i \in 1 .. l - 1 + 1 : u[i] = s[1 + i - 1]
    BY <1>3, <2>1
  <2>3. SubSeq(s, 1, l) = u
    BY <1>3, <2>1, <2>2, PartIs
  <2> QED BY <2>3 DEF u
<1>7. SubSeq(s, l + 2, l + 1 + r) = SubSeq(segs, n - r + 1, n)
  <2> DEFINE u == SubSeq(segs, n - r + 1, n)
  <2>1. n - r + 1 \in Nat \ {0} /\ n - r + 1 <= n + 1 /\ n \in Nat
    BY <1>4
  <2>2. /\ u \in Seq(Segment) /\ Len(u) = n - (n - r + 1) + 1
        /\ \A i \in 1 .. n - (n - r + 1) + 1 : u[i] = segs[(n - r + 1) + i - 1]
    <3>1. n <= Len(segs)
      BY DEF n
    <3> QED BY <2>1, <3>1, PartFacts, Zenon
  <2> HIDE DEF u
  <2>3. n - (n - r + 1) + 1 = (l + 1 + r) - (l + 2) + 1 /\ (l + 1 + r) - (l + 2) + 1 = r
    BY <1>4
  <2>4. ASSUME NEW i \in 1 .. r PROVE u[i] = s[(l + 2) + i - 1]
    <3>1. (n - r + 1) + i - 1 = n - r + i /\ (l + 2) + i - 1 = l + 1 + i
      BY <1>4
    <3> QED BY <1>3, <2>2, <2>3, <3>1
  <2>5. SubSeq(s, l + 2, l + 1 + r) = u
    <3>1. l + 2 \in Nat \ {0} /\ l + 1 + r \in Nat /\ l + 2 <= l + 1 + r + 1 /\ l + 1 + r <= Len(s)
      BY <1>3
    <3> QED BY <1>3, <2>2, <2>3, <2>4, <3>1, PartIs
  <2> QED BY <2>5 DEF u
<1> QED BY <1>3, <1>5, <1>6, <1>7, Zenon DEF s, n

\* The loops stop at the gap and at the end.
LEMMA GapTaken ==
  ASSUME NEW s \in Seq(Segment), NEW l \in 0 .. 7, NEW r \in 0 .. 7, HasGap(s, l, r)
  PROVE  Taken(s, 1) = l /\ Taken(s, l + 2) = r
<1>1. /\ l + r <= 7 /\ Len(s) = l + 1 + r /\ s[l + 1] = Empty
      /\ \A i \in 1 .. l : IsNumber(s[i])
      /\ \A j \in 1 .. r : IsNumber(s[l + 1 + j])
  BY DEF HasGap
<1>2. ~IsNumber(s[1 + l])
  BY <1>1 DEF IsNumber, Empty
<1>3. ASSUME NEW j \in 0 .. l - 1 PROVE 1 + j <= Len(s) /\ IsNumber(s[1 + j])
  <2>1. 1 + j \in 1 .. l
    OBVIOUS
  <2> QED BY <1>1, <2>1
<1>4. ASSUME NEW j \in 0 .. r - 1 PROVE (l + 2) + j <= Len(s) /\ IsNumber(s[(l + 2) + j])
  <2>1. j + 1 \in 1 .. r /\ l + 1 + (j + 1) = (l + 2) + j
    OBVIOUS
  <2>2. IsNumber(s[l + 1 + (j + 1)])
    BY <1>1, <2>1
  <2> QED BY <1>1, <2>1, <2>2
<1>5. l \in 0 .. 8 /\ 1 \in Nat \ {0}
  OBVIOUS
<1>6. Taken(s, 1) = l
  BY <1>2, <1>3, <1>5, TakenIs
<1>7. r \in 0 .. 8 /\ l + 2 \in Nat \ {0} /\ (l + 2) + r > Len(s)
  BY <1>1
<1>8. Taken(s, l + 2) = r
  BY <1>4, <1>7, TakenIs
<1> QED BY <1>6, <1>8

\* Eight words: numbers, as many zeros as are missing, and numbers.
LEMMA EightWords ==
  ASSUME NEW x \in Seq(Word), NEW y \in Seq(Word), NEW m \in Nat, Len(x) + m + Len(y) = 8
  PROVE  (x \o Zeros(m)) \o y \in [1 .. 8 -> Word]
<1> DEFINE z == Zeros(m)
           xz == x \o z
<1>1. z \in Seq(Word) /\ Len(z) = m
  <2>1. z \in [1 .. m -> Word]
    BY DEF Zeros, Word
  <2> QED BY <2>1, FunctionLen
<1> HIDE DEF z
<1>2. xz \in Seq(Word) /\ Len(xz) = Len(x) + m
  BY <1>1, ConcatProperties
<1> HIDE DEF xz
<1>3. xz \o y \in Seq(Word) /\ Len(xz \o y) = Len(x) + m + Len(y)
  BY <1>2, ConcatProperties
<1>4. xz \o y \in [1 .. 8 -> Word]
  BY <1>3, LenProperties
<1> QED BY <1>4 DEF xz, z

\* The numbers on both sides of "::", with zeros in between.
GapNumbers(segs, l, r) ==
  NumbersOf(SubSeq(segs, 1, l)) \o Zeros(8 - l - r)
    \o NumbersOf(SubSeq(segs, Len(segs) - r + 1, Len(segs)))

\* A hostname with "::" between numbers is read as them with zeros in between.
LEMMA GapRead ==
  ASSUME NEW segs \in Seq(Segment), NEW l \in 0 .. 7, NEW r \in 0 .. 7,
         l <= Len(segs), r <= Len(segs), IsGap(segs, l, r), l + r # 0
  PROVE  /\ GapNumbers(segs, l, r) \in [1 .. 8 -> Word]
         /\ Ipv6(segs) = NetworkOrder(GapNumbers(segs, l, r))
<1> DEFINE s == Shortened(segs)
           n == Len(segs)
           left == SubSeq(segs, 1, l)
           right == SubSeq(segs, n - r + 1, n)
<1>1. /\ s \in Seq(Segment) /\ HasGap(s, l, r)
      /\ SubSeq(s, 1, l) = left /\ SubSeq(s, l + 2, l + 1 + r) = right
  BY GapShortened, Zenon
<1>2. Taken(s, 1) = l /\ Taken(s, l + 2) = r
  BY <1>1, GapTaken
<1>3. /\ left \in Seq(Segment) /\ Len(left) = l /\ AllNumbers(left)
      /\ right \in Seq(Segment) /\ Len(right) = r /\ AllNumbers(right)
  <2>1. n \in Nat /\ n - r + 1 \in Nat \ {0} /\ n - (n - r + 1) + 1 = r /\ l - 1 + 1 = l
    OBVIOUS
  <2>2. left \in Seq(Segment) /\ Len(left) = l - 1 + 1
    BY PartFacts
  <2>3. right \in Seq(Segment) /\ Len(right) = n - (n - r + 1) + 1
    BY <2>1, PartFacts
  <2>4. AllNumbers(left) /\ AllNumbers(right)
    BY DEF IsGap
  <2> QED BY <2>1, <2>2, <2>3, <2>4
<1> HIDE DEF left, right
<1> DEFINE x == NumbersOf(left)
           y == NumbersOf(right)
<1>4. x \in Seq(Word) /\ Len(x) = l /\ y \in Seq(Word) /\ Len(y) = r
  BY <1>3, NumbersFacts
<1> DEFINE w == (x \o Zeros(8 - l - r)) \o y
<1>5. /\ l + r <= 7 /\ Len(s) = l + 1 + r /\ s[l + 1] = Empty
  BY <1>1 DEF HasGap
<1> HIDE DEF x, y
<1>6. w \in [1 .. 8 -> Word]
  <2>1. 8 - l - r \in Nat /\ Len(x) + (8 - l - r) + Len(y) = 8
    BY <1>4, <1>5
  <2> QED BY <1>4, <2>1, EightWords
<1>7. Ipv6(segs) = Stored(w)
  <2> HIDE DEF s
  <2>1. l < 8 /\ l < Len(s) /\ ~(l + 1 + r < Len(s)) /\ ~(l + r >= 8)
    BY <1>5
  <2> QED BY <1>1, <1>2, <1>5, <2>1, Zenon DEF Ipv6, s, w, x, y
<1>8. GapNumbers(segs, l, r) = w
  BY Zenon DEF GapNumbers, w, x, y, left, right
<1> HIDE DEF w
<1> QED BY <1>6, <1>7, <1>8, StoredFacts

\* Eight numbers are read as they are.
LEMMA FullRead ==
  ASSUME NEW segs \in Seq(Segment), Len(segs) = 8, AllNumbers(segs)
  PROVE  /\ NumbersOf(segs) \in [1 .. 8 -> Word]
         /\ Ipv6(segs) = NetworkOrder(NumbersOf(segs))
<1>1. \A i \in 1 .. 8 : IsNumber(segs[i])
  BY AllNumbersAt
<1>2. ~IsNumber(Empty)
  BY DEF IsNumber, Empty
<1>3. Shortened(segs) = segs
  BY <1>1, <1>2, ShortenedFacts DEF StartsTwice, EndsTwice
<1>4. Taken(segs, 1) = 8
  <2>1. \A j \in 0 .. 8 - 1 : 1 + j <= Len(segs) /\ IsNumber(segs[1 + j])
    BY <1>1
  <2>2. 8 \in 0 .. 8 /\ 1 \in Nat \ {0}
    OBVIOUS
  <2> QED BY <2>1, <2>2, TakenIs, Zenon
<1> DEFINE w == NumbersOf(segs)
<1>5. w \in Seq(Word) /\ Len(w) = 8
  BY NumbersFacts
<1>6. SubSeq(segs, 1, 8) = segs
  BY SubSeqFull
<1>7. Zeros(8 - 8) = <<>> /\ w \o <<>> = w
  BY <1>5, ConcatEmptySeq DEF Zeros
<1> HIDE DEF w
<1>8. Ipv6(segs) = Stored(w)
  <2>1. ~(8 < 8 /\ 8 < Len(segs))
    OBVIOUS
  <2>2. NumbersOf(SubSeq(segs, 1, 8)) \o Zeros(8 - 8) = w
    BY <1>6, <1>7, Zenon DEF w
  <2> QED BY <1>3, <1>4, <2>1, <2>2, Zenon DEF Ipv6
<1>9. w \in [1 .. 8 -> Word]
  BY <1>5, LenProperties
<1> QED BY <1>8, <1>9, StoredFacts DEF w

\* Four numbers between dots are read as they are.
LEMMA DottedRead ==
  ASSUME NEW segs \in Seq(Segment), Len(segs) = 4, AllNumbers(segs)
  PROVE  /\ NumbersOf(segs) \in [1 .. 4 -> Word]
         /\ Ipv4(segs) = NumbersOf(segs)
<1> DEFINE w == NumbersOf(segs)
<1>1. w \in [1 .. 4 -> Word]
  <2>1. w \in Seq(Word) /\ Len(w) = 4
    BY NumbersFacts
  <2> QED BY <2>1, LenProperties
<1>2. Ipv4(segs) = Htonl(Parts4(w))
  BY DEF Ipv4
<1> HIDE DEF w
<1>3. Htonl(Parts4(w)) = [k \in 1 .. 4 |-> w[k]]
  <2>1. \A k \in 1 .. 4 : 5 - k \in 1 .. 4 /\ 5 - (5 - k) = k
    OBVIOUS
  <2>2. \A k \in 1 .. 4 : Parts4(w)[5 - k] = w[k]
    BY <2>1 DEF Parts4
  <2> QED BY <2>2 DEF Htonl
<1>4. Ipv4(segs) = w
  BY <1>1, <1>2, <1>3
<1> QED BY <1>1, <1>4 DEF w

\* The gap of an address other than "::" has numbers beside it.
LEMMA GapsFacts ==
  ASSUME NEW segs \in Seq(Segment), segs # <<Empty, Empty, Empty>>, NEW lr \in Gaps(segs)
  PROVE  /\ lr[1] \in 0 .. 7 /\ lr[2] \in 0 .. 7
         /\ lr[1] <= Len(segs) /\ lr[2] <= Len(segs) /\ IsGap(segs, lr[1], lr[2])
         /\ lr[1] + lr[2] # 0
         /\ ~AllNumbers(segs)
<1> DEFINE l == lr[1]
           r == lr[2]
<1>1. /\ l \in 0 .. 7 /\ r \in 0 .. 7
      /\ l <= Len(segs) /\ r <= Len(segs) /\ IsGap(segs, l, r)
  BY DEF Gaps
<1> HIDE DEF l, r
<1>2. /\ Len(segs) = (IF l = 0 THEN 1 ELSE l) + 1 + (IF r = 0 THEN 1 ELSE r)
      /\ segs[(IF l = 0 THEN 1 ELSE l) + 1] = Empty
      /\ l = 0 => segs[1] = Empty
      /\ r = 0 => segs[Len(segs)] = Empty
  BY <1>1, GapElements, Zenon
<1>3. l + r # 0
  <2> SUFFICES ASSUME l = 0, r = 0 PROVE FALSE
    BY <1>1
  <2>1. Len(segs) = 3 /\ segs[1] = Empty /\ segs[2] = Empty /\ segs[3] = Empty
    BY <1>2
  <2> DEFINE e == <<Empty, Empty, Empty>>
  <2>2. e \in Seq(Segment) /\ Len(e) = 3 /\ e[1] = Empty /\ e[2] = Empty /\ e[3] = Empty
    BY DEF Segment
  <2> HIDE DEF e
  <2>3. Len(segs) = Len(e) /\ \A i \in 1 .. Len(segs) : segs[i] = e[i]
    BY <2>1, <2>2
  <2>4. segs = e
    BY <2>2, <2>3, SeqEqual
  <2> QED BY <2>4 DEF e
<1>4. ~AllNumbers(segs)
  <2> DEFINE a == IF l = 0 THEN 1 ELSE l
  <2>1. a + 1 \in 1 .. Len(segs) /\ segs[a + 1] = Empty
    BY <1>1, <1>2
  <2>2. ~IsNumber(segs[a + 1])
    BY <2>1 DEF IsNumber, Empty
  <2> HIDE DEF a
  <2> QED BY <2>1, <2>2, AllNumbersAt
<1> QED BY <1>1, <1>3, <1>4 DEF l, r

\* "::" is refused: behind the colon that Shortened leaves, a second empty segment ends
\* the tail.
LEMMA AnyRefused == Ipv6(<<Empty, Empty, Empty>>) = Invalid
<1> DEFINE any == <<Empty, Empty, Empty>>
           s == Shortened(any)
<1>1. ~IsNumber(Empty) /\ Empty \in Segment
  BY DEF IsNumber, Empty, Segment
<1>2. any \in Seq(Segment) /\ Len(any) = 3 /\ \A i \in 1 .. 3 : any[i] = Empty
  BY <1>1
<1> HIDE DEF any
<1>3. s \in Seq(Segment) /\ Len(s) = 2 /\ s[1] = Empty /\ s[2] = Empty
  <2>1. StartsTwice(any)
    BY <1>2 DEF StartsTwice
  <2>2. /\ s \in Seq(Segment) /\ Len(s) = Len(any) - 1
        /\ \A i \in 1 .. Len(any) - 1 : s[i] = any[i + 1]
    BY <1>2, <2>1, ShortenedFacts
  <2> HIDE DEF s
  <2> QED BY <1>2, <2>2
<1> HIDE DEF s
<1>4. Taken(s, 1) = 0
  <2>1. 1 \in Nat \ {0} /\ 0 \in 0 .. 8 /\ ~IsNumber(s[1 + 0]) /\ \A j \in 0 .. 0 - 1 : FALSE
    BY <1>1, <1>3
  <2> QED BY <1>3, <2>1, TakenIs
<1>5. Taken(s, 0 + 2) = 0
  <2>1. /\ 0 + 2 \in Nat \ {0} /\ 0 \in 0 .. 8 /\ ~IsNumber(s[0 + 2 + 0])
        /\ \A j \in 0 .. 0 - 1 : FALSE
    BY <1>1, <1>3
  <2> QED BY <1>3, <2>1, TakenIs
<1>6. 0 < 8 /\ 0 < Len(s) /\ 0 + 1 + 0 < Len(s)
  BY <1>3
<1> QED BY <1>4, <1>5, <1>6, Zenon DEF Ipv6, s, any

\* An address is read as what it means, in network byte order, whatever its numbers are
\* and wherever its gap is; "::" and addresses that end in dots are refused.
THEOREM ValidRead ==
  ASSUME NEW sep, NEW segs \in Seq(Segment), Valid(sep, segs)
  PROVE  /\ Refused(sep, segs) => From(sep, segs) = Invalid
         /\ ~Refused(sep, segs) =>
              /\ From(sep, segs) = NetworkOrder(MeantNumbers(segs))
              /\ MeantNumbers(segs) \in [1 .. 4 -> Word] \cup [1 .. 8 -> Word]
<1>1. CASE Dotted(sep, segs)
  <2>1. sep = "dot" /\ Len(segs) = 4 /\ AllNumbers(segs)
    BY <1>1 DEF Dotted
  <2> DEFINE w == NumbersOf(segs)
  <2>2. w \in [1 .. 4 -> Word] /\ From(sep, segs) = w /\ MeantNumbers(segs) = w
    BY <2>1, DottedRead DEF From, MeantNumbers
  <2> HIDE DEF w
  <2>3. NetworkOrder(w) = w
    BY <2>2, FunctionLen DEF NetworkOrder
  <2>4. ~Refused(sep, segs)
    <3>1. Len(segs) # Len(<<Empty, Empty, Empty>>) /\ sep # "mixed"
      BY <2>1
    <3> QED BY <3>1, Zenon DEF Refused, Mixed
  <2> QED BY <2>2, <2>3, <2>4
<1>2. CASE Full(sep, segs)
  <2>1. sep = "colon" /\ Len(segs) = 8 /\ AllNumbers(segs)
    BY <1>2 DEF Full
  <2>2. From(sep, segs) = Ipv6(segs) /\ MeantNumbers(segs) = NumbersOf(segs)
    BY <2>1 DEF From, MeantNumbers
  <2>3. ~Refused(sep, segs)
    <3>1. Len(segs) # Len(<<Empty, Empty, Empty>>) /\ sep # "mixed"
      BY <2>1
    <3> QED BY <3>1, Zenon DEF Refused, Mixed
  <2> QED BY <2>1, <2>2, <2>3, FullRead
<1>3. CASE Mixed(sep, segs)
  <2>1. Refused(sep, segs) /\ sep = "mixed"
    BY <1>3 DEF Refused, Mixed
  <2> QED BY <2>1 DEF From
<1>4. CASE Gapped(sep, segs) /\ segs = <<Empty, Empty, Empty>>
  <2>1. Refused(sep, segs) /\ sep = "colon"
    BY <1>4 DEF Refused, Gapped
  <2> QED BY <1>4, <2>1, AnyRefused DEF From
<1>5. CASE Gapped(sep, segs) /\ segs # <<Empty, Empty, Empty>>
  <2>1. sep = "colon" /\ Gaps(segs) # {}
    BY <1>5 DEF Gapped
  <2> DEFINE lr == CHOOSE lr \in Gaps(segs) : TRUE
  <2>2. lr \in Gaps(segs)
    BY <2>1
  <2>3. From(sep, segs) = Ipv6(segs)
    BY <2>1 DEF From
  <2> HIDE DEF lr
  <2>4. /\ lr[1] \in 0 .. 7 /\ lr[2] \in 0 .. 7
        /\ lr[1] <= Len(segs) /\ lr[2] <= Len(segs) /\ IsGap(segs, lr[1], lr[2])
        /\ lr[1] + lr[2] # 0
        /\ ~AllNumbers(segs)
    BY <1>5, <2>2, GapsFacts
  <2>5. MeantNumbers(segs) = GapNumbers(segs, lr[1], lr[2])
    BY <2>4, Zenon DEF MeantNumbers, GapNumbers, lr
  <2>6. /\ GapNumbers(segs, lr[1], lr[2]) \in [1 .. 8 -> Word]
        /\ Ipv6(segs) = NetworkOrder(GapNumbers(segs, lr[1], lr[2]))
    BY <2>4, GapRead, Zenon
  <2>7. ~Refused(sep, segs)
    BY <1>5, <2>1 DEF Refused, Mixed
  <2> QED BY <2>3, <2>5, <2>6, <2>7
<1> QED BY <1>1, <1>2, <1>3, <1>4, <1>5 DEF Valid

\* The bytes of an address print as its numbers.
LEMMA PrintedBack ==
  ASSUME NEW w \in [1 .. 4 -> Word] \cup [1 .. 8 -> Word]
  PROVE  Printed(NetworkOrder(w)) = w
<1>1. CASE w \in [1 .. 4 -> Word]
  <2>1. Len(w) = 4
    BY <1>1, FunctionLen
  <2> QED BY <2>1 DEF Printed, NetworkOrder
<1>2. CASE w \in [1 .. 8 -> Word]
  BY <1>2, PrintedWords
<1> QED BY <1>1, <1>2

-----------------------------------------------------------------------------
(* Hostnames that are accepted and no addresses                            *)

\* What the loops have found when parse_ipv6 accepts a hostname: eight numbers or
\* nothing but numbers, or a gap with numbers on both sides up to the end.
LEMMA Accepted6 ==
  ASSUME NEW segs \in Seq(Segment), Ipv6(segs) # Invalid
  PROVE  LET s == Shortened(segs)
         IN  /\ s \in Seq(Segment)
             /\ \/ \E a \in 0 .. 8 : /\ (a = 8 /\ a <= Len(s)) \/ a = Len(s)
                                    /\ \A i \in 1 .. a : IsNumber(s[i])
                \/ \E l, r \in 0 .. 7 : HasGap(s, l, r)
<1> DEFINE s == Shortened(segs)
           a == Taken(s, 1)
           t == Taken(s, a + 2)
<1>1. s \in Seq(Segment)
  BY ShortenedFacts
<1> HIDE DEF s
<1>2. /\ a \in 0 .. 8 /\ a <= Len(s) /\ \A i \in 1 .. a : IsNumber(s[i])
  <2>1. /\ a \in 0 .. 8
        /\ \A j \in 0 .. a - 1 : 1 + j <= Len(s) /\ IsNumber(s[1 + j])
    BY <1>1, TakenFacts
  <2> HIDE DEF a
  <2>2. ASSUME NEW i \in 1 .. a PROVE i <= Len(s) /\ IsNumber(s[i])
    <3>1. i - 1 \in 0 .. a - 1 /\ 1 + (i - 1) = i
      BY <2>1
    <3>2. 1 + (i - 1) <= Len(s) /\ IsNumber(s[1 + (i - 1)])
      BY <2>1, <3>1
    <3> QED BY <3>1, <3>2
  <2>3. Len(s) \in Nat
    BY <1>1
  <2>4. a <= Len(s)
    <3>1. CASE a = 0
      BY <2>3, <3>1
    <3>2. CASE a # 0
      <4>1. a \in 1 .. a
        BY <2>1, <3>2
      <4> QED BY <2>2, <4>1
    <3> QED BY <3>1, <3>2
  <2> QED BY <2>1, <2>2, <2>4
<1>3. CASE ~(a < 8 /\ a < Len(s))
  <2>1. (a = 8 /\ a <= Len(s)) \/ a = Len(s)
    <3>1. Len(s) \in Nat
      BY <1>1
    <3> HIDE DEF a
    <3> QED BY <1>2, <1>3, <3>1
  <2> HIDE DEF a
  <2> QED BY <1>1, <1>2, <2>1 DEF s
<1>4. CASE a < 8 /\ a < Len(s)
  <2>1. s[a + 1] = Empty /\ ~(t < 8 /\ a + 1 + t < Len(s)) /\ ~(a + t >= 8)
    BY <1>4, Zenon DEF Ipv6, s
  <2>2. /\ t \in 0 .. 8
        /\ \A j \in 0 .. t - 1 : (a + 2) + j <= Len(s) /\ IsNumber(s[(a + 2) + j])
    <3>1. a + 2 \in Nat \ {0}
      BY <1>2
    <3> HIDE DEF a
    <3> QED BY <1>1, <3>1, TakenFacts
  <2>3. Len(s) \in Nat
    BY <1>1
  <2> HIDE DEF a, t
  <2>4. a \in 0 .. 7 /\ t \in 0 .. 7 /\ a + t <= 7
    BY <1>2, <1>4, <2>1, <2>2
  <2>5. Len(s) = a + 1 + t
    <3>1. Len(s) <= a + 1 + t
      BY <2>1, <2>3, <2>4
    <3>2. CASE t = 0
      BY <1>4, <2>3, <2>4, <3>1, <3>2
    <3>3. CASE t # 0
      <4>1. t - 1 \in 0 .. t - 1
        BY <2>4, <3>3
      <4>2. (a + 2) + (t - 1) <= Len(s)
        BY <2>2, <4>1
      <4> QED BY <2>3, <2>4, <3>1, <4>2
    <3> QED BY <3>2, <3>3
  <2>6. ASSUME NEW j \in 1 .. t PROVE IsNumber(s[a + 1 + j])
    <3>1. j - 1 \in 0 .. t - 1 /\ (a + 2) + (j - 1) = a + 1 + j
      BY <2>4
    <3>2. IsNumber(s[(a + 2) + (j - 1)])
      BY <2>2, <3>1
    <3> QED BY <3>1, <3>2
  <2>7. HasGap(s, a, t)
    BY <1>2, <2>1, <2>4, <2>5, <2>6 DEF HasGap
  <2> QED BY <1>1, <2>4, <2>7 DEF s
<1> QED BY <1>3, <1>4

\* A hostname whose elements are those of a gap is one.
LEMMA GapFromElements ==
  ASSUME NEW segs \in Seq(Segment), NEW l \in 0 .. 7, NEW r \in 0 .. 7, l + r <= 7,
         Len(segs) = (IF l = 0 THEN 1 ELSE l) + 1 + (IF r = 0 THEN 1 ELSE r),
         segs[(IF l = 0 THEN 1 ELSE l) + 1] = Empty,
         \A i \in 1 .. l : IsNumber(segs[i]),
         \A j \in 1 .. r : IsNumber(segs[Len(segs) - r + j]),
         l = 0 => segs[1] = Empty, r = 0 => segs[Len(segs)] = Empty
  PROVE  Gapped("colon", segs)
<1> DEFINE n == Len(segs)
           left == SubSeq(segs, 1, l)
           right == SubSeq(segs, n - r + 1, n)
           A == OrEmpty(left)
           B == OrEmpty(right)
           a == IF l = 0 THEN 1 ELSE l
           b == IF r = 0 THEN 1 ELSE r
<1>1. /\ a \in Nat \ {0} /\ b \in Nat \ {0} /\ n = a + 1 + b /\ segs[a + 1] = Empty
      /\ l <= n /\ r <= n /\ n \in Nat
  OBVIOUS
<1>2. /\ left \in Seq(Segment) /\ Len(left) = l
      /\ \A i \in 1 .. l : left[i] = segs[i]
  <2>1. /\ left \in Seq(Segment) /\ Len(left) = l - 1 + 1
        /\ \A i \in 1 .. l - 1 + 1 : left[i] = segs[1 + i - 1]
    BY <1>1, PartFacts
  <2> HIDE DEF left
  <2>2. l - 1 + 1 = l /\ \A i \in 1 .. l : 1 + i - 1 = i
    OBVIOUS
  <2> QED BY <2>1, <2>2
<1>3. /\ right \in Seq(Segment) /\ Len(right) = r
      /\ \A j \in 1 .. r : right[j] = segs[n - r + j]
  <2>1. n - r + 1 \in Nat \ {0} /\ n - r + 1 <= n + 1 /\ n \in Nat /\ n <= Len(segs)
    BY <1>1
  <2>2. /\ right \in Seq(Segment) /\ Len(right) = n - (n - r + 1) + 1
        /\ \A j \in 1 .. n - (n - r + 1) + 1 : right[j] = segs[(n - r + 1) + j - 1]
    BY <2>1, PartFacts, Zenon
  <2> HIDE DEF right
  <2>3. n - (n - r + 1) + 1 = r /\ \A j \in 1 .. r : (n - r + 1) + j - 1 = n - r + j
    BY <1>1
  <2> QED BY <2>2, <2>3
<1> HIDE DEF left, right
<1>4. AllNumbers(left) /\ AllNumbers(right)
  <2>1. \A i \in 1 .. l : IsNumber(left[i])
    BY <1>2
  <2>2. \A j \in 1 .. r : IsNumber(right[j])
    BY <1>3
  <2> QED BY <1>2, <1>3, <2>1, <2>2, AllNumbersAt
<1>5. A \in Seq(Segment) /\ Len(A) = a /\ \A i \in 1 .. a : A[i] = segs[i]
  <2>1. CASE l = 0
    <3>1. segs[1] = Empty /\ a = 1
      BY <2>1
    <3>2. A \in Seq(Segment) /\ Len(A) = 1 /\ A[1] = Empty
      BY <1>2, <2>1, OrEmptyFacts
    <3> HIDE DEF A, a
    <3> QED BY <3>1, <3>2
  <2>2. CASE l # 0
    BY <1>2, <2>2, OrEmptyFacts
  <2> QED BY <2>1, <2>2
<1>6. B \in Seq(Segment) /\ Len(B) = b /\ \A j \in 1 .. b : B[j] = segs[n - b + j]
  <2>1. CASE r = 0
    <3>1. n - 1 + 1 = n /\ segs[n] = Empty /\ b = 1
      BY <1>1, <2>1
    <3>2. B \in Seq(Segment) /\ Len(B) = 1 /\ B[1] = Empty
      BY <1>3, <2>1, OrEmptyFacts
    <3> HIDE DEF B, n, b
    <3> QED BY <3>1, <3>2
  <2>2. CASE r # 0
    BY <1>3, <2>2, OrEmptyFacts
  <2> QED BY <2>1, <2>2
<1> HIDE DEF A, B, a, b, n
<1> DEFINE e == <<Empty>>
<1>7. e \in Seq(Segment) /\ Len(e) = 1 /\ e[1] = Empty
  BY DEF Segment
<1> HIDE DEF e
<1> DEFINE C == A \o e
<1>8. /\ C \in Seq(Segment) /\ Len(C) = a + 1
      /\ \A i \in 1 .. a + 1 : C[i] = IF i <= a THEN A[i] ELSE e[i - a]
  <2>1. /\ C \in Seq(Segment) /\ Len(C) = Len(A) + Len(e)
        /\ \A i \in 1 .. Len(A) + Len(e) : C[i] = IF i <= Len(A) THEN A[i] ELSE e[i - Len(A)]
    BY <1>5, <1>7, ConcatProperties
  <2> HIDE DEF C
  <2> QED BY <1>5, <1>7, <2>1, Zenon
<1> HIDE DEF C
<1>9. \A i \in 1 .. a + 1 : C[i] = segs[i]
  <2> SUFFICES ASSUME NEW i \in 1 .. a + 1 PROVE C[i] = segs[i]
    OBVIOUS
  <2>1. CASE i <= a
    BY <1>1, <1>5, <1>8, <2>1
  <2>2. CASE i = a + 1
    <3>1. i - a = 1 /\ ~(i <= a)
      BY <1>1, <2>2
    <3> QED BY <1>1, <1>7, <1>8, <2>2, <3>1
  <2> QED BY <1>1, <2>1, <2>2
<1>10. segs = C \o B
  <2>1. /\ C \o B \in Seq(Segment) /\ Len(C \o B) = (a + 1) + b
        /\ \A i \in 1 .. (a + 1) + b :
              (C \o B)[i] = IF i <= a + 1 THEN C[i] ELSE B[i - (a + 1)]
    <3> DEFINE D == C \o B
    <3>1. /\ D \in Seq(Segment) /\ Len(D) = Len(C) + Len(B)
          /\ \A i \in 1 .. Len(C) + Len(B) : D[i] = IF i <= Len(C) THEN C[i] ELSE B[i - Len(C)]
      BY <1>6, <1>8, ConcatProperties
    <3> HIDE DEF D
    <3>2. /\ D \in Seq(Segment) /\ Len(D) = (a + 1) + b
          /\ \A i \in 1 .. (a + 1) + b : D[i] = IF i <= a + 1 THEN C[i] ELSE B[i - (a + 1)]
      BY <1>6, <1>8, <3>1, Zenon
    <3> QED BY <3>2 DEF D
  <2>2. ASSUME NEW i \in 1 .. Len(segs) PROVE segs[i] = (C \o B)[i]
    <3>1. i \in 1 .. (a + 1) + b
      BY <1>1 DEF n
    <3>2. CASE i <= a + 1
      BY <1>1, <1>9, <2>1, <3>1, <3>2
    <3>3. CASE ~(i <= a + 1)
      <4>1. i - (a + 1) \in 1 .. b /\ n - b + (i - (a + 1)) = i
        BY <1>1, <3>1, <3>3
      <4>2. B[i - (a + 1)] = segs[i]
        BY <1>6, <4>1
      <4> QED BY <2>1, <3>1, <3>3, <4>2
    <3> QED BY <3>2, <3>3
  <2>3. Len(segs) = Len(C \o B)
    BY <1>1, <2>1 DEF n
  <2> QED BY <2>1, <2>2, <2>3, SeqEqual
<1>11. IsGap(segs, l, r)
  BY <1>4, <1>10, Zenon DEF IsGap, left, right, A, B, C, e, n
<1>12. <<l, r>> \in Gaps(segs)
  BY <1>1, <1>11 DEF Gaps, n
<1> QED BY <1>12 DEF Gapped

\* The first eight segments are numbers.
LEMMA FirstEight ==
  ASSUME NEW segs \in Seq(Segment), Len(segs) >= 8, \A i \in 1 .. 8 : IsNumber(segs[i])
  PROVE  AllNumbers(SubSeq(segs, 1, 8))
<1> DEFINE u == SubSeq(segs, 1, 8)
<1>1. /\ u \in Seq(Segment) /\ Len(u) = 8 - 1 + 1
      /\ \A i \in 1 .. 8 - 1 + 1 : u[i] = segs[1 + i - 1]
  BY PartFacts
<1> HIDE DEF u
<1>2. \A i \in 1 .. Len(u) : IsNumber(u[i])
  BY <1>1
<1>3. AllNumbers(u)
  BY <1>1, <1>2, AllNumbersAt
<1> QED BY <1>3 DEF u

\* What is accepted besides addresses, at any length.
LEMMA LenientForms ==
  ASSUME segments \in Seq(Segment), segments # <<Empty>>
  PROVE  OnlyLenient
<1> SUFFICES ASSUME Address # Invalid, ~Valid(separator, segments)
             PROVE  separator = "colon" /\ (TooFew \/ OneColon \/ TooMuch)
  BY DEF OnlyLenient
<1> DEFINE n == Len(segments)
           s == Shortened(segments)
<1>1. separator = "colon" /\ Ipv6(segments) # Invalid
  <2>1. separator # "dot"
    BY DEF Address, From, Ipv4, Valid, Dotted
  <2> QED BY <2>1 DEF Address, From
<1> SUFFICES TooFew \/ OneColon \/ TooMuch
  BY <1>1
<1>2. ~Gapped("colon", segments) /\ ~(n = 8 /\ AllNumbers(segments))
  BY <1>1 DEF Valid, Full
<1>3. /\ s \in Seq(Segment)
      /\ \/ \E a \in 0 .. 8 : /\ (a = 8 /\ a <= Len(s)) \/ a = Len(s)
                             /\ \A i \in 1 .. a : IsNumber(s[i])
         \/ \E l, r \in 0 .. 7 : HasGap(s, l, r)
  BY <1>1, Accepted6, Zenon
<1>4. ~IsNumber(Empty) /\ n \in Nat
  BY DEF IsNumber, Empty
<1>5. CASE StartsTwice(segments)
  <2>1. n >= 3 /\ segments[1] = Empty /\ segments[2] = Empty
    BY <1>5 DEF StartsTwice
  <2>2. Len(s) = n - 1 /\ \A i \in 1 .. n - 1 : s[i] = segments[i + 1]
    BY <1>5, ShortenedFacts
  <2> HIDE DEF s, n
  <2>3. ~IsNumber(s[1])
    BY <1>4, <2>1, <2>2
  <2>4. PICK l \in 0 .. 7, r \in 0 .. 7 : HasGap(s, l, r)
    <3>1. ASSUME NEW a \in 0 .. 8, a = 8 \/ a = Len(s), \A i \in 1 .. a : IsNumber(s[i])
          PROVE  FALSE
      <4>1. 1 \in 1 .. a
        BY <1>4, <2>1, <2>2, <3>1
      <4> QED BY <2>3, <3>1, <4>1
    <3> QED BY <1>3, <3>1
  <2>5. /\ l + r <= 7 /\ n - 1 = l + 1 + r
        /\ \A i \in 1 .. l : IsNumber(s[i])
        /\ \A j \in 1 .. r : IsNumber(s[l + 1 + j])
    BY <2>2, <2>4 DEF HasGap
  <2>6. l = 0
    <3>1. l # 0 => 1 \in 1 .. l
      OBVIOUS
    <3> QED BY <2>3, <2>5, <3>1
  <2>7. r # 0 /\ n = 2 + r
    BY <1>4, <2>1, <2>5, <2>6
  <2>8. ASSUME NEW j \in 1 .. r PROVE IsNumber(segments[n - r + j])
    <3>1. l + 1 + j \in 1 .. n - 1 /\ (l + 1 + j) + 1 = n - r + j
      BY <1>4, <2>5, <2>6, <2>7
    <3> QED BY <2>2, <2>5, <3>1
  <2>9. Gapped("colon", segments)
    <3> DEFINE z == 0
    <3>1. /\ z \in 0 .. 7 /\ z + r <= 7 /\ n = 1 + 1 + r /\ z = 0
          /\ \A i \in 1 .. z : IsNumber(segments[i])
      BY <1>4, <2>5, <2>7
    <3> HIDE DEF z
    <3>2. /\ n = (IF z = 0 THEN 1 ELSE z) + 1 + (IF r = 0 THEN 1 ELSE r)
          /\ segments[(IF z = 0 THEN 1 ELSE z) + 1] = Empty
          /\ z = 0 => segments[1] = Empty
          /\ r = 0 => segments[n] = Empty
      BY <2>1, <2>7, <3>1
    <3> QED BY <2>8, <3>1, <3>2, GapFromElements, Zenon DEF n
  <2> QED BY <1>2, <2>9
<1>6. CASE ~StartsTwice(segments) /\ EndsTwice(segments)
  <2>1. n >= 3 /\ segments[n] = Empty /\ segments[n - 1] = Empty
    BY <1>6 DEF EndsTwice
  <2>2. Len(s) = n - 1 /\ \A i \in 1 .. n - 1 : s[i] = segments[i]
    BY <1>6, ShortenedFacts
  <2> HIDE DEF s, n
  <2>3. ~IsNumber(s[n - 1])
    BY <1>4, <2>1, <2>2
  <2>4. CASE \E l, r \in 0 .. 7 : HasGap(s, l, r)
    <3>1. PICK l \in 0 .. 7, r \in 0 .. 7 : HasGap(s, l, r)
      BY <2>4
    <3>2. /\ l + r <= 7 /\ n - 1 = l + 1 + r /\ s[l + 1] = Empty
          /\ \A i \in 1 .. l : IsNumber(s[i])
          /\ \A j \in 1 .. r : IsNumber(s[l + 1 + j])
      BY <2>2, <3>1 DEF HasGap
    <3>3. r = 0
      <4>1. r # 0 => r \in 1 .. r
        OBVIOUS
      <4>2. r # 0 => IsNumber(s[l + 1 + r])
        BY <3>2, <4>1
      <4> QED BY <2>3, <3>2, <4>2
    <3>4. l # 0 /\ n = l + 1 + 1 /\ l + 0 <= 7
      BY <1>4, <2>1, <3>2, <3>3
    <3>5. segments[l + 1] = Empty /\ \A i \in 1 .. l : IsNumber(segments[i])
      BY <1>4, <2>2, <3>2, <3>4
    <3>6. \A j \in 1 .. r : IsNumber(segments[n - r + j])
      BY <3>3
    <3>7. Gapped("colon", segments)
      BY <2>1, <3>2, <3>3, <3>4, <3>5, <3>6, GapFromElements DEF n
    <3> QED BY <1>2, <3>7
  <2>5. CASE \E a \in 0 .. 8 : /\ (a = 8 /\ a <= Len(s)) \/ a = Len(s)
                             /\ \A i \in 1 .. a : IsNumber(s[i])
    <3>1. PICK a \in 0 .. 8 : /\ (a = 8 /\ a <= Len(s)) \/ a = Len(s)
                             /\ \A i \in 1 .. a : IsNumber(s[i])
      BY <2>5
    <3>2. a # n - 1
      <4>1. n - 1 \in 1 .. n - 1
        BY <1>4, <2>1
      <4> QED BY <2>3, <3>1, <4>1
    <3>3. a = 8 /\ 8 <= n - 1
      BY <2>2, <3>1, <3>2
    <3>4. n > 8 /\ \A i \in 1 .. 8 : IsNumber(segments[i])
      BY <1>4, <2>2, <3>1, <3>3
    <3>5. n >= 8
      BY <1>4, <3>4
    <3> QED BY <3>4, <3>5, FirstEight DEF TooMuch, n
  <2> QED BY <1>3, <2>4, <2>5
<1>7. CASE ~StartsTwice(segments) /\ ~EndsTwice(segments)
  <2>1. s = segments
    BY <1>7, ShortenedFacts
  <2>2. CASE \E l, r \in 0 .. 7 : HasGap(s, l, r)
    <3>1. PICK l \in 0 .. 7, r \in 0 .. 7 : HasGap(segments, l, r)
      BY <2>1, <2>2
    <3>2. /\ l + r <= 7 /\ n = l + 1 + r /\ segments[l + 1] = Empty
          /\ \A i \in 1 .. l : IsNumber(segments[i])
          /\ \A j \in 1 .. r : IsNumber(segments[l + 1 + j])
      BY <3>1 DEF HasGap
    <3> HIDE DEF n
    <3>3. CASE l # 0 /\ r # 0
      <4>1. \A j \in 1 .. r : n - r + j = l + 1 + j
        BY <3>2
      <4>2. \A j \in 1 .. r : IsNumber(segments[n - r + j])
        BY <3>2, <4>1
      <4>3. Gapped("colon", segments)
        BY <3>2, <3>3, <4>2, GapFromElements DEF n
      <4> QED BY <1>2, <4>3
    <3>4. CASE l = 0 /\ r = 0
      <4>1. n = 1 /\ segments[1] = Empty
        BY <3>2, <3>4
      <4> DEFINE e == <<Empty>>
      <4>2. e \in Seq(Segment) /\ Len(e) = 1 /\ e[1] = Empty
        BY DEF Segment
      <4> HIDE DEF e
      <4>3. Len(segments) = Len(e) /\ \A i \in 1 .. Len(segments) : segments[i] = e[i]
        BY <4>1, <4>2 DEF n
      <4>4. segments = e
        BY <4>2, <4>3, SeqEqual
      <4> QED BY <4>4 DEF e
    <3>5. CASE l = 0 /\ r # 0
      <4>1. n \in 2 .. 8 /\ segments[1] = Empty
        BY <3>2, <3>5
      <4>2. segments # <<>> /\ Head(segments) = Empty
        BY <4>1 DEF n
      <4> DEFINE u == Tail(segments)
      <4>3. /\ u \in Seq(Segment) /\ Len(u) = n - 1
            /\ \A i \in 1 .. Len(u) : u[i] = segments[i + 1]
        BY <4>2, HeadTailProperties DEF n
      <4> HIDE DEF u
      <4>4. ASSUME NEW i \in 1 .. Len(u) PROVE IsNumber(u[i])
        <5>1. i \in 1 .. r /\ l + 1 + i = i + 1
          BY <3>2, <3>5, <4>3
        <5> QED BY <3>2, <4>3, <5>1
      <4>5. AllNumbers(u)
        BY <4>3, <4>4, AllNumbersAt
      <4> QED BY <4>1, <4>2, <4>5 DEF OneColon, u, n
    <3>6. CASE l # 0 /\ r = 0
      <4>1. n \in 2 .. 8 /\ segments[n] = Empty /\ n = l + 1
        BY <3>2, <3>6
      <4> DEFINE u == Front(segments)
      <4>2. /\ u \in Seq(Segment) /\ Len(u) = n - 1 - 1 + 1
            /\ \A i \in 1 .. n - 1 - 1 + 1 : u[i] = segments[1 + i - 1]
        BY <4>1, PartFacts DEF Front, n
      <4> HIDE DEF u
      <4>3. ASSUME NEW i \in 1 .. Len(u) PROVE IsNumber(u[i])
        <5>1. i \in 1 .. l /\ 1 + i - 1 = i /\ i \in 1 .. n - 1 - 1 + 1
          BY <4>1, <4>2
        <5> QED BY <3>2, <4>2, <5>1
      <4>4. AllNumbers(u) /\ Last(segments) = Empty
        BY <4>1, <4>2, <4>3, AllNumbersAt DEF Last, n
      <4> QED BY <4>1, <4>4 DEF OneColon, u, n
    <3> QED BY <3>3, <3>4, <3>5, <3>6
  <2>3. CASE \E a \in 0 .. 8 : /\ (a = 8 /\ a <= Len(s)) \/ a = Len(s)
                             /\ \A i \in 1 .. a : IsNumber(s[i])
    <3>1. PICK a \in 0 .. 8 : /\ (a = 8 /\ a <= n) \/ a = n
                             /\ \A i \in 1 .. a : IsNumber(segments[i])
      BY <2>1, <2>3
    <3>2. CASE a = n
      <4>1. AllNumbers(segments)
        BY <3>1, <3>2, AllNumbersAt
      <4> QED BY <1>2, <3>1, <3>2, <4>1 DEF TooFew
    <3>3. CASE a = 8 /\ 8 < n
      <4>1. AllNumbers(SubSeq(segments, 1, 8))
        BY <3>1, <3>3, FirstEight
      <4> QED BY <3>3, <4>1 DEF TooMuch
    <3> QED BY <1>4, <3>1, <3>2, <3>3
  <2> QED BY <1>3, <2>2, <2>3
<1> QED BY <1>5, <1>6, <1>7

-----------------------------------------------------------------------------
(* The theorems about addresses                                            *)

\* The segments of a hostname are segments of 16 bits, and never a single empty one.
HostnameInv == segments \in Seq(Segment) /\ segments # <<Empty>>

\* The numbers of a run are 16 bits wide.
LEMMA NumberFits ==
  ASSUME NEW sep, NEW k \in 1 .. 127
  PROVE  Number(NumberAt(sep, k)) \in Segment
<1>1. k \in Word /\ 513 * k \in Word
  <2>1. k \in Nat /\ k < 128
    OBVIOUS
  <2>2. k < 65536 /\ 513 * k \in Nat /\ 513 * k < 65536
    BY <2>1
  <2> QED BY <2>1, <2>2 DEF Word
<1>2. NumberAt(sep, k) \in {k, 513 * k}
  BY DEF NumberAt
<1> QED BY <1>1, <1>2 DEF Segment

\* Every hostname of a run is made of such segments.
LEMMA HostnameInit ==
  ASSUME Init
  PROVE  HostnameInv
<1>1. Empty \in Segment /\ Long \in Segment
  BY DEF Segment
<1>2. CASE segments = <<>>
  BY <1>2 DEF HostnameInv
<1>3. ASSUME NEW kinds \in SeqOf({"empty", "number", "long"}, MaxSegments) \ {<<"empty">>},
             segments = Written(separator, kinds)
      PROVE  HostnameInv
  <2> DEFINE K == {"empty", "number", "long"}
  <2>1. PICK m \in 0 .. MaxSegments : kinds \in [1 .. m -> K]
    BY DEF SeqOf
  <2>2. /\ m \in Nat /\ m <= 127
        /\ DOMAIN kinds = 1 .. m
    BY <2>1, TextsAssumption
  <2>3. ASSUME NEW k \in 1 .. m PROVE Number(NumberAt(separator, k)) \in Segment
    <3>1. k \in 1 .. 127
      BY <2>2, TextsAssumption
    <3> QED BY <3>1, NumberFits
  <2> DEFINE w == [k \in 1 .. m |-> IF kinds[k] = "number" THEN Number(NumberAt(separator, k))
                                    ELSE [kind |-> kinds[k]]]
  <2>4. segments = w
    BY <1>3, <2>2 DEF Written
  <2>5. ASSUME NEW k \in 1 .. m PROVE w[k] \in Segment
    <3>1. kinds[k] \in K
      BY <2>1
    <3>2. CASE kinds[k] = "empty"
      BY <1>1, <3>2 DEF Empty
    <3>3. CASE kinds[k] = "long"
      BY <1>1, <3>3 DEF Long
    <3>4. CASE kinds[k] = "number"
      BY <2>3, <3>4
    <3> QED BY <3>1, <3>2, <3>3, <3>4
  <2>6. w \in Seq(Segment) /\ Len(w) = m
    <3>1. w \in [1 .. m -> Segment]
      BY <2>5
    <3> HIDE DEF w
    <3> QED BY <2>2, <3>1, FunctionLen
  <2>7. segments # <<Empty>>
    <3> SUFFICES ASSUME w = <<Empty>> PROVE FALSE
      BY <2>4
    <3>1. m = 1 /\ w[1] = Empty
      <4>1. Len(<<Empty>>) = 1 /\ <<Empty>>[1] = Empty
        OBVIOUS
      <4> HIDE DEF w
      <4> QED BY <2>6, <4>1, Zenon
    <3>2. kinds[1] \in K /\ kinds = [k \in 1 .. 1 |-> kinds[1]]
      BY <2>1, <3>1
    <3>3. kinds[1] = "empty"
      BY <3>1, <3>2 DEF Empty, Number
    <3>4. kinds = <<"empty">>
      BY <3>2, <3>3
    <3> QED BY <3>4
  <2> QED BY <2>4, <2>6, <2>7 DEF HostnameInv
<1> QED BY <1>2, <1>3 DEF Init

\* Whatever address it is given, from() reads it as the numbers it means, in network byte
\* order, but for "::" and the addresses that end in dots behind colons, which it refuses.
THEOREM AddressesRead == Spec => []ReadAsMeant
<1>1. Init => ReadAsMeant
  BY HostnameInit, ValidRead DEF HostnameInv, ReadAsMeant, Address
<1>2. ReadAsMeant /\ [Next]_vars => ReadAsMeant'
  BY DEF Next, vars, ReadAsMeant, Address
<1> QED BY <1>1, <1>2, PTL DEF Spec

\* What expr prints of an address has the numbers the hostname had.
THEOREM AddressesPrinted == Spec => []PrintedAsMeant
<1>1. Init => PrintedAsMeant
  <2> SUFFICES ASSUME Init, Valid(separator, segments), Address # Invalid
               PROVE  Printed(Address) = MeantNumbers(segments)
    BY DEF PrintedAsMeant
  <2>1. /\ Address = NetworkOrder(MeantNumbers(segments))
        /\ MeantNumbers(segments) \in [1 .. 4 -> Word] \cup [1 .. 8 -> Word]
    BY HostnameInit, ValidRead DEF HostnameInv, Address
  <2> QED BY <2>1, PrintedBack
<1>2. PrintedAsMeant /\ [Next]_vars => PrintedAsMeant'
  BY DEF Next, vars, PrintedAsMeant, Address
<1> QED BY <1>1, <1>2, PTL DEF Spec

\* from() accepts besides addresses only fewer than eight numbers between colons, a single
\* colon at an end, and anything behind eight numbers.
THEOREM AcceptedForms == Spec => []OnlyLenient
<1>1. Init => OnlyLenient
  BY HostnameInit, LenientForms DEF HostnameInv
<1>2. OnlyLenient /\ [Next]_vars => OnlyLenient'
  BY DEF Next, vars, OnlyLenient, TooFew, OneColon, TooMuch, Address
<1> QED BY <1>1, <1>2, PTL DEF Spec

-----------------------------------------------------------------------------
(* Formats                                                                 *)

Piece == {Text(t) : t \in Seq(Token)} \cup {Meta(n) : n \in Name}

\* The next "%{" from a position on.
LEMMA FirstOpen ==
  ASSUME NEW f \in Seq(Token), NEW p \in 1 .. Len(f) + 1, Opens(f, p) # {}
  PROVE  /\ Min(Opens(f, p)) \in p .. Len(f) /\ Min(Opens(f, p)) < Len(f)
         /\ OpensAt(f, Min(Opens(f, p)))
         /\ \A q \in p .. Min(Opens(f, p)) - 1 : ~OpensAt(f, q)
<1> DEFINE O == Opens(f, p)
           m == Min(O)
<1>1. O \in SUBSET Nat /\ O # {} /\ O = {q \in p .. Len(f) : OpensAt(f, q)}
  BY DEF Opens
<1> HIDE DEF O
<1>2. m \in O /\ \A q \in O : m <= q
  BY <1>1, LeastExists
<1>3. m \in p .. Len(f) /\ OpensAt(f, m)
  BY <1>1, <1>2
<1>4. m < Len(f)
  BY <1>3 DEF OpensAt
<1>5. ASSUME NEW q \in p .. m - 1 PROVE ~OpensAt(f, q)
  <2>1. q \in p .. Len(f) /\ ~(m <= q)
    BY <1>3
  <2> QED BY <1>1, <1>2, <2>1
<1> QED BY <1>3, <1>4, <1>5 DEF O

\* The next "}" from a position on.
LEMMA FirstClose ==
  ASSUME NEW f \in Seq(Token), NEW p \in 1 .. Len(f) + 1, Closes(f, p) # {}
  PROVE  /\ Min(Closes(f, p)) \in p .. Len(f)
         /\ f[Min(Closes(f, p))] = CLOSE
         /\ \A q \in p .. Min(Closes(f, p)) - 1 : f[q] # CLOSE
<1> DEFINE C == Closes(f, p)
           m == Min(C)
<1>1. C \in SUBSET Nat /\ C # {} /\ C = {q \in p .. Len(f) : f[q] = CLOSE}
  BY DEF Closes
<1> HIDE DEF C
<1>2. m \in C /\ \A q \in C : m <= q
  BY <1>1, LeastExists
<1>3. m \in p .. Len(f) /\ f[m] = CLOSE
  BY <1>1, <1>2
<1>4. ASSUME NEW q \in p .. m - 1 PROVE f[q] # CLOSE
  <2>1. q \in p .. Len(f) /\ ~(m <= q)
    BY <1>3
  <2> QED BY <1>1, <1>2, <2>1
<1> QED BY <1>3, <1>4 DEF C

\* A "%{" with none before it is the next one.
LEMMA OpenIs ==
  ASSUME NEW f \in Seq(Token), NEW p \in 1 .. Len(f) + 1, NEW q \in p .. Len(f),
         OpensAt(f, q), \A r \in p .. q - 1 : ~OpensAt(f, r)
  PROVE  Opens(f, p) # {} /\ Min(Opens(f, p)) = q
<1> DEFINE m == Min(Opens(f, p))
<1>1. q \in Opens(f, p)
  BY DEF Opens
<1>2. /\ m \in p .. Len(f) /\ OpensAt(f, m)
      /\ \A r \in p .. m - 1 : ~OpensAt(f, r)
  BY <1>1, FirstOpen
<1> HIDE DEF m
<1>3. ~(m < q) /\ ~(q < m)
  BY <1>2
<1>4. m = q
  BY <1>2, <1>3
<1> QED BY <1>1, <1>4 DEF m

\* A "}" with none before it is the next one.
LEMMA CloseIs ==
  ASSUME NEW f \in Seq(Token), NEW p \in 1 .. Len(f) + 1, NEW q \in p .. Len(f),
         f[q] = CLOSE, \A r \in p .. q - 1 : f[r] # CLOSE
  PROVE  Closes(f, p) # {} /\ Min(Closes(f, p)) = q
<1> DEFINE m == Min(Closes(f, p))
<1>1. q \in Closes(f, p)
  BY DEF Closes
<1>2. /\ m \in p .. Len(f) /\ f[m] = CLOSE
      /\ \A r \in p .. m - 1 : f[r] # CLOSE
  BY <1>1, FirstClose
<1> HIDE DEF m
<1>3. ~(m < q) /\ ~(q < m)
  BY <1>2
<1>4. m = q
  BY <1>2, <1>3
<1> QED BY <1>1, <1>4 DEF m

\* What is cut out of a format is a sequence of segments.
LEMMA PieceFacts ==
  ASSUME NEW f \in Seq(Token), NEW a \in 1 .. Len(f) + 1, NEW b \in 0 .. Len(f)
  PROVE  /\ MeantText(f, a, b) \in Seq(Piece)
         /\ MeantName(f, a, b) \in Seq(Piece)
<1>1. ASSUME NEW x \in Piece PROVE <<x>> \in Seq(Piece)
  OBVIOUS
<1>2. CASE a <= b
  <2>1. SubSeq(f, a, b) \in Seq(Token)
    <3>1. a \in Nat \ {0} /\ b \in Nat /\ a <= b + 1 /\ b <= Len(f)
      BY <1>2
    <3> QED BY <3>1, PartFacts
  <2>2. Text(SubSeq(f, a, b)) \in Piece
    BY <2>1 DEF Piece
  <2>3. f[a] \in Name => Meta(f[a]) \in Piece
    BY DEF Piece
  <2>4. <<>> \in Seq(Piece)
    OBVIOUS
  <2> QED BY <1>1, <1>2, <2>2, <2>3, <2>4 DEF MeantText, MeantName
<1>3. CASE ~(a <= b)
  <2>1. a # b
    BY <1>3
  <2> QED BY <1>3, <2>1 DEF MeantText, MeantName
<1> QED BY <1>2, <1>3

\* What the positions of a format mean, where those behind them mean M: a name from s on,
\* and text from p on.
AfterName(f, M, s) ==
  IF Closes(f, s) = {} THEN <<>>
  ELSE MeantName(f, s, Min(Closes(f, s)) - 1) \o M[Min(Closes(f, s)) + 1]
MeaningAt(f, M, p) ==
  IF Opens(f, p) = {} THEN MeantText(f, p, Len(f))
  ELSE MeantText(f, p, Min(Opens(f, p)) - 1) \o AfterName(f, M, Min(Opens(f, p)) + 2)

\* A name is followed by something that is farther on.
LEMMA AfterNameFacts ==
  ASSUME NEW f \in Seq(Token), NEW s \in 1 .. Len(f) + 1, NEW M, NEW N
  PROVE  /\ (\A r \in s + 1 .. Len(f) + 1 : M[r] \in Seq(Piece)) => AfterName(f, M, s) \in Seq(Piece)
         /\ (\A r \in s + 1 .. Len(f) + 1 : M[r] = N[r]) => AfterName(f, M, s) = AfterName(f, N, s)
<1>1. CASE Closes(f, s) = {}
  <2>1. AfterName(f, M, s) = <<>> /\ AfterName(f, N, s) = <<>>
    BY <1>1 DEF AfterName
  <2> QED BY <2>1
<1>2. CASE Closes(f, s) # {}
  <2> DEFINE c == Min(Closes(f, s))
  <2>1. c \in s .. Len(f)
    BY <1>2, FirstClose
  <2>2. /\ AfterName(f, M, s) = MeantName(f, s, c - 1) \o M[c + 1]
        /\ AfterName(f, N, s) = MeantName(f, s, c - 1) \o N[c + 1]
    BY <1>2, Zenon DEF AfterName
  <2> HIDE DEF c
  <2>3. c + 1 \in s + 1 .. Len(f) + 1 /\ c - 1 \in 0 .. Len(f)
    BY <2>1
  <2>4. MeantName(f, s, c - 1) \in Seq(Piece)
    BY <2>3, PieceFacts
  <2>5. ASSUME M[c + 1] \in Seq(Piece) PROVE AfterName(f, M, s) \in Seq(Piece)
    BY <2>2, <2>4, <2>5, ConcatProperties
  <2>6. (M[c + 1] = N[c + 1]) => AfterName(f, M, s) = AfterName(f, N, s)
    BY <2>2, Zenon
  <2> QED BY <2>3, <2>5, <2>6, Zenon
<1> QED BY <1>1, <1>2

\* What a position means depends on those behind it only.
LEMMA MeaningFacts ==
  ASSUME NEW f \in Seq(Token), NEW p \in 1 .. Len(f) + 1, NEW M, NEW N
  PROVE  /\ (\A r \in p + 1 .. Len(f) + 1 : M[r] \in Seq(Piece)) => MeaningAt(f, M, p) \in Seq(Piece)
         /\ (\A r \in p + 1 .. Len(f) + 1 : M[r] = N[r]) => MeaningAt(f, M, p) = MeaningAt(f, N, p)
<1>1. CASE Opens(f, p) = {}
  <2>1. /\ MeaningAt(f, M, p) = MeantText(f, p, Len(f))
        /\ MeaningAt(f, N, p) = MeantText(f, p, Len(f))
    BY <1>1 DEF MeaningAt
  <2>2. Len(f) \in 0 .. Len(f)
    OBVIOUS
  <2>3. MeantText(f, p, Len(f)) \in Seq(Piece)
    BY <2>2, PieceFacts
  <2> QED BY <2>1, <2>3
<1>2. CASE Opens(f, p) # {}
  <2> DEFINE q == Min(Opens(f, p))
             text == MeantText(f, p, q - 1)
             name(K) == AfterName(f, K, q + 2)
  <2>1. q \in p .. Len(f) /\ q < Len(f)
    BY <1>2, FirstOpen
  <2>2. MeaningAt(f, M, p) = text \o name(M) /\ MeaningAt(f, N, p) = text \o name(N)
    BY <1>2, Zenon DEF MeaningAt
  <2> HIDE DEF q
  <2>3. /\ q + 2 \in 1 .. Len(f) + 1 /\ q - 1 \in 0 .. Len(f)
        /\ \A r \in q + 2 + 1 .. Len(f) + 1 : r \in p + 1 .. Len(f) + 1
    BY <2>1
  <2>4. text \in Seq(Piece)
    BY <2>3, PieceFacts
  <2> HIDE DEF text
  <2>5. ASSUME \A r \in p + 1 .. Len(f) + 1 : M[r] \in Seq(Piece)
        PROVE  MeaningAt(f, M, p) \in Seq(Piece)
    <3>1. name(M) \in Seq(Piece)
      BY <2>3, <2>5, AfterNameFacts, Zenon
    <3> HIDE DEF name
    <3> QED BY <2>2, <2>4, <3>1, ConcatProperties
  <2>6. ASSUME \A r \in p + 1 .. Len(f) + 1 : M[r] = N[r]
        PROVE  MeaningAt(f, M, p) = MeaningAt(f, N, p)
    <3>1. name(M) = name(N)
      BY <2>3, <2>6, AfterNameFacts, Zenon
    <3> HIDE DEF name
    <3> QED BY <2>2, <3>1, Zenon
  <2> QED BY <2>5, <2>6
<1> QED BY <1>1, <1>2

\* From each position on a format means what the reference says.
IsMeaning(f, M) == M = [p \in 1 .. Len(f) + 1 |-> MeaningAt(f, M, p)]

\* There is such a meaning, and it consists of segments.
LEMMA MeaningExists ==
  ASSUME NEW f \in Seq(Token)
  PROVE  \E M \in [1 .. Len(f) + 1 -> Seq(Piece)] : IsMeaning(f, M)
<1> DEFINE n == Len(f)
           X == 1 .. n + 1
           D == Seq(Piece)
           rank == [p \in X |-> n + 1 - p]
           step == [z \in X \X [X -> D] |-> MeaningAt(f, z[2], z[1])]
<1>1. n \in Nat /\ D # {}
  <2>1. <<>> \in D /\ n \in Nat
    OBVIOUS
  <2> HIDE DEF D, n
  <2> QED BY <2>1
<1>2. rank \in [X -> 0 .. n] /\ \A p \in X : rank[p] = n + 1 - p
  BY <1>1
<1> HIDE DEF D, rank
<1>3. ASSUME NEW p \in X, NEW M \in [X -> D] PROVE MeaningAt(f, M, p) \in D
  <2>1. \A r \in p + 1 .. n + 1 : M[r] \in Seq(Piece)
    BY <1>1 DEF D
  <2> QED BY <2>1, MeaningFacts, Zenon DEF D
<1>4. /\ step \in [X \X [X -> D] -> D]
      /\ \A p \in X : \A M \in [X -> D] : step[<<p, M>>] = MeaningAt(f, M, p)
  <2>1. \A z \in X \X [X -> D] : MeaningAt(f, z[2], z[1]) \in D
    BY <1>3
  <2> QED BY <2>1
<1>5. ASSUME NEW p \in X, NEW M \in [X -> D], NEW N \in [X -> D],
             \A r \in X : rank[r] < rank[p] => M[r] = N[r]
      PROVE  step[<<p, M>>] = step[<<p, N>>]
  <2>1. ASSUME NEW r \in p + 1 .. n + 1 PROVE M[r] = N[r]
    <3>1. r \in X /\ n + 1 - r < n + 1 - p
      BY <1>1
    <3> QED BY <1>2, <1>5, <3>1
  <2>2. MeaningAt(f, M, p) = MeaningAt(f, N, p)
    BY <2>1, MeaningFacts, Zenon
  <2> QED BY <1>4, <2>2
<1> HIDE DEF step
<1>6. PICK M \in [X -> D] : \A p \in X : M[p] = step[<<p, M>>]
  <2>1. Ranked(X, D, rank, step)
    BY <1>5, Zenon DEF Ranked
  <2>2. step \in RankedSteps(X, D)
    BY <1>4 DEF RankedSteps
  <2>3. n \in Nat /\ D # {} /\ rank \in [X -> 0 .. n]
    BY <1>1, <1>2, Zenon
  <2> HIDE DEF X, n
  <2>4. \E M \in [X -> D] : Solves(M, X, step)
    BY <2>1, <2>2, <2>3, RankedRecursion
  <2> QED BY <2>4, Zenon DEF Solves
<1>7. \A p \in X : M[p] = MeaningAt(f, M, p)
  BY <1>4, <1>6
<1>8. M = [p \in X |-> MeaningAt(f, M, p)]
  <2>1. M = [p \in X |-> M[p]]
    OBVIOUS
  <2> QED BY <1>7, <2>1
<1> QED BY <1>8, Zenon DEF D, IsMeaning

\* A meaning consists of segments, from the end of the format to its beginning.
LEMMA MeaningType ==
  ASSUME NEW f \in Seq(Token), NEW M, IsMeaning(f, M)
  PROVE  M \in [1 .. Len(f) + 1 -> Seq(Piece)]
<1> DEFINE n == Len(f)
           S == {m \in Nat : \A p \in 1 .. n + 1 : p + m > n + 1 => M[p] \in Seq(Piece)}
<1>1. n \in Nat /\ \A p \in 1 .. n + 1 : M[p] = MeaningAt(f, M, p)
  BY Zenon, LenProperties DEF IsMeaning
<1>2. 0 \in S
  BY <1>1
<1>3. ASSUME NEW m \in Nat, m \in S PROVE m + 1 \in S
  <2> SUFFICES ASSUME NEW p \in 1 .. n + 1, p + (m + 1) > n + 1 PROVE M[p] \in Seq(Piece)
    OBVIOUS
  <2>1. ASSUME NEW r \in p + 1 .. n + 1 PROVE M[r] \in Seq(Piece)
    <3>1. r \in 1 .. n + 1 /\ r + m > n + 1
      BY <1>1
    <3> QED BY <1>3, <3>1
  <2>2. MeaningAt(f, M, p) \in Seq(Piece)
    BY <2>1, MeaningFacts, Zenon
  <2> QED BY <1>1, <2>2
<1>4. S = Nat
  <2>1. S \in SUBSET Nat
    OBVIOUS
  <2> HIDE DEF S
  <2> QED BY <1>2, <1>3, <2>1, NumberInduction
<1>5. ASSUME NEW p \in 1 .. n + 1 PROVE M[p] \in Seq(Piece)
  <2>1. n + 1 \in Nat /\ p + (n + 1) > n + 1
    BY <1>1
  <2>2. n + 1 \in S
    BY <1>4, <2>1, Zenon
  <2> QED BY <2>1, <2>2
<1>6. M = [p \in 1 .. n + 1 |-> M[p]]
  BY Zenon DEF IsMeaning
<1> QED BY <1>5, <1>6

\* What MeantSegments says is what the first position means.
LEMMA Meant ==
  ASSUME NEW f \in Seq(Token)
  PROVE  \E M \in [1 .. Len(f) + 1 -> Seq(Piece)] :
           /\ MeantSegments(f) = M[1]
           /\ \A p \in 1 .. Len(f) + 1 : M[p] = MeaningAt(f, M, p)
<1> DEFINE M == CHOOSE g : IsMeaning(f, g)
<1>1. IsMeaning(f, M)
  BY MeaningExists, Zenon
<1>2. MeantSegments(f) = M[1]
  BY Zenon DEF MeantSegments, IsMeaning, MeaningAt, AfterName
<1> HIDE DEF M
<1>3. M \in [1 .. Len(f) + 1 -> Seq(Piece)]
  BY <1>1, MeaningType
<1>4. \A p \in 1 .. Len(f) + 1 : M[p] = MeaningAt(f, M, p)
  BY <1>1, Zenon DEF IsMeaning
<1> QED BY <1>2, <1>3, <1>4

\* The states of the loop over a format.
ParserState(f) ==
  {p \in [meta : BOOLEAN, s : 1 .. Len(f) + 1, i : 1 .. Len(f) + 1, segments : Seq(Piece)] :
     p.s <= p.i}

\* What the loop has cut off and what is left of the format are together what the format
\* means: the segment in hand goes on from s, and has no end between s and i.
Parsed(f, M, p) ==
  IF p.meta THEN /\ p.segments \o AfterName(f, M, p.s) = M[1]
                 /\ \A q \in p.s .. p.i - 1 : f[q] # CLOSE
  ELSE /\ p.segments \o M[p.s] = M[1]
       /\ \A q \in p.s .. p.i - 1 : ~OpensAt(f, q)

\* The segments that the loop cuts off are segments.
LEMMA CutFacts ==
  ASSUME NEW f \in Seq(Token), NEW s \in 1 .. Len(f) + 1, NEW i \in 1 .. Len(f) + 1, s <= i
  PROVE  /\ TextBefore(f, s, i) = MeantText(f, s, i - 1) /\ TextBefore(f, s, i) \in Seq(Piece)
         /\ Named(f, s, i) = MeantName(f, s, i - 1) /\ Named(f, s, i) \in Seq(Piece)
<1>1. i = s <=> ~(s <= i - 1)
  OBVIOUS
<1>2. TextBefore(f, s, i) = MeantText(f, s, i - 1) /\ Named(f, s, i) = MeantName(f, s, i - 1)
  BY <1>1 DEF TextBefore, MeantText, Named, MeantName
<1>3. i - 1 \in 0 .. Len(f)
  OBVIOUS
<1> QED BY <1>2, <1>3, PieceFacts

\* What a turn of the loop does: nothing once the format is over, end a text, end a name,
\* or go on.
IsOver(f, p, q) == p.i = Len(f) + 1 /\ q = p
EndsText(f, p, q) ==
  /\ ~p.meta /\ p.i < Len(f) /\ OpensAt(f, p.i)
  /\ q.meta /\ q.s = p.i + 2 /\ q.i = p.i + 2
  /\ q.segments = p.segments \o TextBefore(f, p.s, p.i)
EndsName(f, p, q) ==
  /\ p.meta /\ p.i <= Len(f) /\ f[p.i] = CLOSE
  /\ ~q.meta /\ q.s = p.i + 1 /\ q.i = p.i + 1
  /\ q.segments = p.segments \o Named(f, p.s, p.i)
GoesOn(f, p, q) ==
  /\ p.i <= Len(f) /\ (p.meta => f[p.i] # CLOSE) /\ (~p.meta => ~OpensAt(f, p.i))
  /\ q.meta = p.meta /\ q.s = p.s /\ q.i = p.i + 1 /\ q.segments = p.segments

\* Every turn of the loop is one of these.
LEMMA TurnFacts ==
  ASSUME NEW f \in Seq(Token), NEW p \in ParserState(f), NEW q, q = ParserStep(f, p)
  PROVE  /\ q \in ParserState(f)
         /\ IsOver(f, p, q) \/ EndsText(f, p, q) \/ EndsName(f, p, q) \/ GoesOn(f, p, q)
<1> DEFINE n == Len(f)
           T == TextBefore(f, p.s, p.i)
           N == Named(f, p.s, p.i)
<1>1. /\ n \in Nat /\ p.meta \in BOOLEAN /\ p.s \in 1 .. n + 1 /\ p.i \in 1 .. n + 1
      /\ p.s <= p.i /\ p.segments \in Seq(Piece)
  BY DEF ParserState
<1>2. T \in Seq(Piece) /\ N \in Seq(Piece)
  BY <1>1, CutFacts, Zenon
<1>3. p.segments \o T \in Seq(Piece) /\ p.segments \o N \in Seq(Piece)
  <2> HIDE DEF T, N
  <2> QED BY <1>1, <1>2, ConcatProperties
<1>4. CASE p.i > n
  <2>1. p.i = n + 1
    BY <1>1, <1>4
  <2>2. q = p
    BY <1>4, Zenon DEF ParserStep
  <2> QED BY <2>1, <2>2, Zenon DEF IsOver
<1>5. CASE ~(p.i > n) /\ ~p.meta /\ OpensAt(f, p.i)
  <2>1. p.i < n
    BY <1>5 DEF OpensAt
  <2>2. q = [meta |-> TRUE, s |-> p.i + 2, i |-> p.i + 2, segments |-> p.segments \o T]
    BY <1>5, Zenon DEF ParserStep, NameBegins
  <2> HIDE DEF T
  <2>3. q \in ParserState(f)
    BY <1>1, <1>3, <2>1, <2>2 DEF ParserState
  <2>4. q.meta /\ q.s = p.i + 2 /\ q.i = p.i + 2 /\ q.segments = p.segments \o T
    BY <2>2
  <2> QED BY <1>5, <2>1, <2>3, <2>4, Zenon DEF T, EndsText
<1>6. CASE ~(p.i > n) /\ p.meta /\ f[p.i] = CLOSE
  <2>1. p.i <= n
    BY <1>1, <1>6
  <2>2. q = [meta |-> FALSE, s |-> p.i + 1, i |-> p.i + 1, segments |-> p.segments \o N]
    BY <1>6, Zenon DEF ParserStep
  <2> HIDE DEF N
  <2>3. q \in ParserState(f)
    BY <1>1, <1>3, <2>1, <2>2 DEF ParserState
  <2>4. ~q.meta /\ q.s = p.i + 1 /\ q.i = p.i + 1 /\ q.segments = p.segments \o N
    BY <2>2
  <2> QED BY <1>6, <2>1, <2>3, <2>4, Zenon DEF N, EndsName
<1>7. CASE ~(p.i > n) /\ ~(~p.meta /\ OpensAt(f, p.i)) /\ ~(p.meta /\ f[p.i] = CLOSE)
  <2>1. p.i <= n
    BY <1>1, <1>7
  <2>2. q = [p EXCEPT !.i = p.i + 1]
    BY <1>7, Zenon DEF ParserStep
  <2>3. /\ q.meta = p.meta /\ q.s = p.s /\ q.i = p.i + 1 /\ q.segments = p.segments
        /\ q \in ParserState(f)
    BY <1>1, <2>1, <2>2 DEF ParserState
  <2> QED BY <1>7, <2>1, <2>3, Zenon DEF GoesOn
<1> QED BY <1>4, <1>5, <1>6, <1>7, Zenon

\* Segments are put together in any order.
LEMMA PiecesAssociative ==
  ASSUME NEW a \in Seq(Piece), NEW b \in Seq(Piece), NEW c \in Seq(Piece)
  PROVE  (a \o b) \o c = a \o (b \o c)
BY ConcatAssociative

\* A turn leaves cut off and left together what they are, and goes on by a character at
\* least.
LEMMA TurnParses ==
  ASSUME NEW f \in Seq(Token), NEW M \in [1 .. Len(f) + 1 -> Seq(Piece)],
         \A r \in 1 .. Len(f) + 1 : M[r] = MeaningAt(f, M, r),
         NEW p \in ParserState(f), Parsed(f, M, p), NEW q, q = ParserStep(f, p)
  PROVE  /\ q \in ParserState(f) /\ Parsed(f, M, q)
         /\ q.i > p.i \/ q.i = Len(f) + 1
<1> DEFINE n == Len(f)
<1>1. /\ n \in Nat /\ p.meta \in BOOLEAN /\ p.s \in 1 .. n + 1 /\ p.i \in 1 .. n + 1
      /\ p.s <= p.i /\ p.segments \in Seq(Piece)
  BY DEF ParserState
<1>2. q \in ParserState(f)
  BY TurnFacts
<1>3. CASE IsOver(f, p, q)
  BY <1>2, <1>3, Zenon DEF IsOver
<1>4. CASE EndsText(f, p, q)
  <2> USE DEF EndsText
  <2> DEFINE t == TextBefore(f, p.s, p.i)
             rest == AfterName(f, M, p.i + 2)
  <2>1. /\ p.segments \o M[p.s] = M[1]
        /\ \A r \in p.s .. p.i - 1 : ~OpensAt(f, r)
    BY <1>4 DEF Parsed
  <2>2. Opens(f, p.s) # {} /\ Min(Opens(f, p.s)) = p.i
    <3>1. p.i \in p.s .. n
      BY <1>1, <1>4
    <3> QED BY <1>1, <1>4, <2>1, <3>1, OpenIs, Zenon
  <2>3. M[p.s] = MeantText(f, p.s, p.i - 1) \o rest
    <3>1. MeaningAt(f, M, p.s) = MeantText(f, p.s, p.i - 1) \o rest
      BY <2>2, Zenon DEF MeaningAt
    <3> QED BY <1>1, <3>1, Zenon
  <2>4. t = MeantText(f, p.s, p.i - 1) /\ t \in Seq(Piece)
    BY <1>1, CutFacts, Zenon
  <2>5. rest \in Seq(Piece)
    <3>1. p.i + 2 \in 1 .. n + 1 /\ \A r \in p.i + 2 + 1 .. n + 1 : r \in 1 .. n + 1
      BY <1>1, <1>4
    <3> QED BY <3>1, AfterNameFacts
  <2>6. q.segments \o rest = M[1]
    <3>1. M[p.s] = t \o rest
      BY <2>3, <2>4, Zenon
    <3>2. q.segments = p.segments \o t
      BY <1>4
    <3> HIDE DEF t, rest
    <3>3. (p.segments \o t) \o rest = p.segments \o (t \o rest)
      BY <1>1, <2>4, <2>5, PiecesAssociative, Zenon
    <3> QED BY <2>1, <3>1, <3>2, <3>3, Zenon
  <2>7. \A r \in q.s .. q.i - 1 : f[r] # CLOSE
    BY <1>1, <1>4
  <2>8. Parsed(f, M, q)
    BY <1>4, <2>6, <2>7, Zenon DEF Parsed
  <2>9. q.i > p.i
    BY <1>1, <1>4
  <2> QED BY <1>2, <2>8, <2>9
<1>5. CASE EndsName(f, p, q)
  <2> USE DEF EndsName
  <2> DEFINE t == Named(f, p.s, p.i)
             rest == M[p.i + 1]
  <2>1. /\ p.segments \o AfterName(f, M, p.s) = M[1]
        /\ \A r \in p.s .. p.i - 1 : f[r] # CLOSE
    BY <1>5 DEF Parsed
  <2>2. Closes(f, p.s) # {} /\ Min(Closes(f, p.s)) = p.i
    <3>1. p.i \in p.s .. n
      BY <1>1, <1>5
    <3> QED BY <1>1, <1>5, <2>1, <3>1, CloseIs, Zenon
  <2>3. AfterName(f, M, p.s) = MeantName(f, p.s, p.i - 1) \o rest
    BY <2>2, Zenon DEF AfterName
  <2>4. t = MeantName(f, p.s, p.i - 1) /\ t \in Seq(Piece)
    BY <1>1, CutFacts, Zenon
  <2>5. rest \in Seq(Piece)
    <3>1. p.i + 1 \in 1 .. n + 1
      BY <1>1, <1>5
    <3> QED BY <3>1
  <2>6. q.segments \o rest = M[1]
    <3>1. AfterName(f, M, p.s) = t \o rest
      BY <2>3, <2>4, Zenon
    <3>2. q.segments = p.segments \o t
      BY <1>5
    <3> HIDE DEF t, rest
    <3>3. (p.segments \o t) \o rest = p.segments \o (t \o rest)
      BY <1>1, <2>4, <2>5, PiecesAssociative, Zenon
    <3> QED BY <2>1, <3>1, <3>2, <3>3, Zenon
  <2>7. \A r \in q.s .. q.i - 1 : ~OpensAt(f, r)
    BY <1>1, <1>5
  <2>8. Parsed(f, M, q)
    <3>1. q.segments \o M[q.s] = M[1]
      BY <1>5, <2>6
    <3> QED BY <1>5, <2>7, <3>1, Zenon DEF Parsed
  <2>9. q.i > p.i
    BY <1>1, <1>5
  <2> QED BY <1>2, <2>8, <2>9
<1>6. CASE GoesOn(f, p, q)
  <2> USE DEF GoesOn
  <2>1. \A r \in q.s .. q.i - 1 : r \in p.s .. p.i - 1 \/ r = p.i
    BY <1>1, <1>6
  <2>2. ASSUME p.meta PROVE Parsed(f, M, q)
    <3>1. /\ p.segments \o AfterName(f, M, p.s) = M[1]
          /\ \A r \in p.s .. p.i - 1 : f[r] # CLOSE
      BY <2>2 DEF Parsed
    <3>2. \A r \in q.s .. q.i - 1 : f[r] # CLOSE
      BY <1>6, <2>1, <2>2, <3>1, Zenon
    <3>3. q.segments \o AfterName(f, M, q.s) = M[1]
      BY <1>6, <3>1, Zenon
    <3>4. q.meta
      BY <1>6, <2>2
    <3> QED BY <3>2, <3>3, <3>4, Zenon DEF Parsed
  <2>3. ASSUME ~p.meta PROVE Parsed(f, M, q)
    <3>1. /\ p.segments \o M[p.s] = M[1]
          /\ \A r \in p.s .. p.i - 1 : ~OpensAt(f, r)
      BY <2>3 DEF Parsed
    <3>2. \A r \in q.s .. q.i - 1 : ~OpensAt(f, r)
      BY <1>6, <2>1, <2>3, <3>1, Zenon
    <3>3. q.segments \o M[q.s] = M[1]
      BY <1>6, <3>1, Zenon
    <3>4. ~q.meta
      BY <1>6, <2>3
    <3> QED BY <3>2, <3>3, <3>4, Zenon DEF Parsed
  <2>4. Parsed(f, M, q)
    BY <1>1, <2>2, <2>3
  <2>5. q.i > p.i
    BY <1>1, <1>6
  <2> QED BY <1>2, <2>4, <2>5
<1> QED BY <1>3, <1>4, <1>5, <1>6, TurnFacts, Zenon

\* The turns of the loop, one after the other.
IsRun(f, A) ==
  A = [k \in 0 .. Len(f) |-> IF k = 0 THEN ParserBegins ELSE ParserStep(f, A[k - 1])]

\* There is such a run.
LEMMA RunExists ==
  ASSUME NEW f \in Seq(Token)
  PROVE  \E A : IsRun(f, A)
<1> DEFINE n == Len(f)
           D == ParserState(f)
           step == [z \in Nat \X D |-> ParserStep(f, z[2])]
<1>1. n \in Nat
  OBVIOUS
<1>2. ParserBegins \in D
  <2>1. 1 \in 1 .. n + 1 /\ <<>> \in Seq(Piece)
    BY <1>1
  <2> QED BY <2>1 DEF ParserBegins, ParserState
<1>3. \A p \in D : ParserStep(f, p) \in D
  BY TurnFacts, Zenon
<1> HIDE DEF D
<1>4. step \in Steps(D) /\ \A k \in Nat : \A p \in D : step[<<k, p>>] = ParserStep(f, p)
  <2>1. \A z \in Nat \X D : ParserStep(f, z[2]) \in D
    BY <1>3
  <2> QED BY <2>1 DEF Steps
<1> HIDE DEF step
<1>5. PICK A \in [0 .. n -> D] : Recursion(A, ParserBegins, step, n)
  <2> HIDE DEF n
  <2> QED BY <1>1, <1>2, <1>4, RecursionExists
<1>6. A[0] = ParserBegins /\ \A k \in 1 .. n : A[k] = step[<<k, A[k - 1]>>]
  BY <1>5, Zenon DEF Recursion
<1>7. ASSUME NEW k \in 0 .. n
      PROVE  A[k] = IF k = 0 THEN ParserBegins ELSE ParserStep(f, A[k - 1])
  <2>1. CASE k = 0
    BY <1>6, <2>1
  <2>2. CASE k # 0
    <3>1. k \in Nat /\ k \in 1 .. n /\ k - 1 \in 0 .. n
      BY <1>1, <2>2
    <3>2. A[k - 1] \in D
      BY <3>1
    <3> QED BY <1>4, <1>6, <2>2, <3>1, <3>2
  <2> QED BY <2>1, <2>2
<1>8. A = [k \in 0 .. n |-> A[k]]
  OBVIOUS
<1>9. IsRun(f, A)
  BY <1>7, <1>8 DEF IsRun
<1> QED BY <1>9

\* The constructor cuts every format into what it means.
THEOREM ParsedAsMeant ==
  ASSUME NEW f \in Seq(Token)
  PROVE  Segments(f) = MeantSegments(f)
<1> DEFINE n == Len(f)
           A == CHOOSE g : IsRun(f, g)
           end == A[n]
<1>1. IsRun(f, A)
  BY RunExists, Zenon
<1>2. Segments(f) = end.segments \o IF end.meta THEN <<>> ELSE TextBefore(f, end.s, n + 1)
  BY Zenon DEF Segments, IsRun
<1> HIDE DEF A
<1>3. PICK M \in [1 .. n + 1 -> Seq(Piece)] :
        /\ MeantSegments(f) = M[1]
        /\ \A p \in 1 .. n + 1 : M[p] = MeaningAt(f, M, p)
  BY Meant
<1>4. n \in Nat
  OBVIOUS
<1>5. \A k \in 0 .. n : A[k] = IF k = 0 THEN ParserBegins ELSE ParserStep(f, A[k - 1])
  BY <1>1, Zenon DEF IsRun
<1> DEFINE Holds(k) == A[k] \in ParserState(f) /\ Parsed(f, M, A[k]) /\ (A[k].i > k \/ A[k].i = n + 1)
           S == {k \in Nat : k <= n => Holds(k)}
<1>6. 0 \in S
  <2>1. A[0] = ParserBegins
    BY <1>4, <1>5
  <2>2. 1 \in 1 .. n + 1 /\ <<>> \in Seq(Piece)
    BY <1>4
  <2>3. /\ ParserBegins \in ParserState(f)
        /\ ~ParserBegins.meta /\ ParserBegins.s = 1 /\ ParserBegins.i = 1
        /\ ParserBegins.segments = <<>>
    BY <2>2 DEF ParserBegins, ParserState
  <2>4. <<>> \o M[1] = M[1]
    BY <2>2
  <2>5. \A q \in 1 .. 1 - 1 : ~OpensAt(f, q)
    OBVIOUS
  <2>6. Parsed(f, M, ParserBegins)
    BY <2>3, <2>4, <2>5, Zenon DEF Parsed
  <2> QED BY <2>1, <2>3, <2>6
<1>7. ASSUME NEW k \in Nat, k \in S PROVE k + 1 \in S
  <2> SUFFICES ASSUME k + 1 <= n PROVE Holds(k + 1)
    OBVIOUS
  <2>1. Holds(k) /\ k <= n
    BY <1>4, <1>7
  <2>2. A[k + 1] = ParserStep(f, A[k])
    BY <1>4, <1>5
  <2>3. /\ A[k + 1] \in ParserState(f) /\ Parsed(f, M, A[k + 1])
        /\ A[k + 1].i > A[k].i \/ A[k + 1].i = n + 1
    BY <1>3, <2>1, <2>2, TurnParses, Zenon
  <2>4. A[k].i \in 1 .. n + 1 /\ A[k + 1].i \in 1 .. n + 1
    BY <2>1, <2>3 DEF ParserState
  <2>5. A[k + 1].i > k + 1 \/ A[k + 1].i = n + 1
    BY <1>4, <2>1, <2>3, <2>4
  <2> QED BY <2>3, <2>5
<1> HIDE DEF Holds
<1>8. Holds(n)
  <2>1. S \in SUBSET Nat
    OBVIOUS
  <2> HIDE DEF S
  <2>2. S = Nat
    BY <1>6, <1>7, <2>1, NumberInduction
  <2> QED BY <1>4, <2>2 DEF S
<1> HIDE DEF end
<1>9. /\ end \in ParserState(f) /\ Parsed(f, M, end) /\ end.i = n + 1
      /\ end.meta \in BOOLEAN /\ end.s \in 1 .. n + 1 /\ end.segments \in Seq(Piece)
  <2>1. end \in ParserState(f) /\ Parsed(f, M, end) /\ (end.i > n \/ end.i = n + 1)
    BY <1>8 DEF Holds, end
  <2>2. end.i \in 1 .. n + 1 /\ end.meta \in BOOLEAN /\ end.s \in 1 .. n + 1 /\ end.segments \in Seq(Piece)
    BY <2>1 DEF ParserState
  <2> QED BY <1>4, <2>1, <2>2
<1>10. end.i - 1 = n
  BY <1>4, <1>9
<1>11. ASSUME end.meta PROVE Segments(f) = M[1]
  <2>1. /\ end.segments \o AfterName(f, M, end.s) = M[1]
        /\ \A q \in end.s .. n : f[q] # CLOSE
    BY <1>9, <1>10, <1>11 DEF Parsed
  <2>2. Closes(f, end.s) = {}
    BY <2>1 DEF Closes
  <2>3. AfterName(f, M, end.s) = <<>>
    BY <2>2, Zenon DEF AfterName
  <2> QED BY <1>2, <1>11, <2>1, <2>3, Zenon
<1>12. ASSUME ~end.meta PROVE Segments(f) = M[1]
  <2>1. /\ end.segments \o M[end.s] = M[1]
        /\ \A q \in end.s .. n : ~OpensAt(f, q)
    BY <1>9, <1>10, <1>12 DEF Parsed
  <2>2. Opens(f, end.s) = {}
    BY <2>1 DEF Opens
  <2>3. M[end.s] = MeantText(f, end.s, n)
    <3>1. MeaningAt(f, M, end.s) = MeantText(f, end.s, n)
      BY <2>2, Zenon DEF MeaningAt
    <3> QED BY <1>3, <1>9, <3>1, Zenon
  <2>4. TextBefore(f, end.s, n + 1) = MeantText(f, end.s, n)
    <3>1. end.s \in 1 .. n + 1 /\ end.i \in 1 .. n + 1 /\ end.s <= end.i
      BY <1>4, <1>9
    <3>2. TextBefore(f, end.s, end.i) = MeantText(f, end.s, end.i - 1)
      BY <3>1, CutFacts, Zenon
    <3> QED BY <1>9, <1>10, <3>2, Zenon
  <2> QED BY <1>2, <1>12, <2>1, <2>3, <2>4, Zenon
<1> QED BY <1>3, <1>9, <1>11, <1>12

\* Every format of a run is one of tokens.
LEMMA FormatInit ==
  ASSUME Init
  PROVE  format \in Seq(Token)
<1>1. CASE format \in SeqOf(Token, MaxLen)
  <2>1. PICK m \in 0 .. MaxLen : format \in [1 .. m -> Token]
    BY <1>1 DEF SeqOf
  <2>2. m \in Nat
    BY <2>1, TextsAssumption
  <2> QED BY <2>1, <2>2, FunctionIsSeq
<1>2. CASE format = <<>>
  BY <1>2
<1> QED BY <1>1, <1>2 DEF Init

\* Whatever format it is given, the constructor cuts it into the texts and names it
\* consists of.
THEOREM FormatsParsed == Spec => []ParsesWhatIsMeant
<1>1. Init => ParsesWhatIsMeant
  BY FormatInit, ParsedAsMeant DEF ParsesWhatIsMeant
<1>2. ParsesWhatIsMeant /\ [Next]_vars => ParsesWhatIsMeant'
  BY DEF Next, vars, ParsesWhatIsMeant
<1> QED BY <1>1, <1>2, PTL DEF Spec

-----------------------------------------------------------------------------
(* Lines                                                                   *)

Values == [Name -> Seq(Token)]

\* What a segment is printed as.
PrintOf(x, value) == IF x.name = NoName THEN x.text ELSE value[x.name]

\* A text is printed as it is, and a name as value says.
LEMMA PrintFacts ==
  ASSUME NEW value \in Values
  PROVE  /\ \A x \in Piece : PrintOf(x, value) \in Seq(Token)
         /\ \A t : PrintOf(Text(t), value) = t
         /\ \A n \in Name : PrintOf(Meta(n), value) = value[n]
<1>1. \A t : Text(t).name = NoName /\ Text(t).text = t
  BY DEF Text
<1>2. \A n : Meta(n).name = n
  BY DEF Meta
<1>3. \A n \in Name : n # NoName /\ value[n] \in Seq(Token)
  <2>1. \A n \in Name : n # NoName
    BY FormatterAssumption
  <2>2. \A n \in Name : value[n] \in Seq(Token)
    BY DEF Values
  <2> QED BY <2>1, <2>2
<1>4. \A t : PrintOf(Text(t), value) = t
  BY <1>1, Zenon DEF PrintOf
<1>5. \A n \in Name : PrintOf(Meta(n), value) = value[n]
  BY <1>2, <1>3, Zenon DEF PrintOf
<1> QED BY <1>3, <1>4, <1>5, Zenon DEF Piece

\* The prints of segments.
PrintsOf(segs, value) == [k \in DOMAIN segs |-> PrintOf(segs[k], value)]

\* One segment more is printed behind the others.
LEMMA JoinedAppend ==
  ASSUME NEW value \in Values, NEW segs \in Seq(Piece), NEW x \in Piece
  PROVE  /\ Joined(segs, value) \in Seq(Token)
         /\ Joined(Append(segs, x), value) = Joined(segs, value) \o PrintOf(x, value)
<1> DEFINE n == Len(segs)
           t == Append(segs, x)
           a == PrintsOf(segs, value)
           b == PrintsOf(t, value)
<1>1. Joined(segs, value) = FlattenSeq(a) /\ Joined(t, value) = FlattenSeq(b)
  BY Zenon DEF Joined, PrintsOf, PrintOf
<1>2. /\ n \in Nat /\ DOMAIN segs = 1 .. n /\ \A k \in 1 .. n : segs[k] \in Piece
      /\ DOMAIN t = 1 .. n + 1 /\ \A k \in 1 .. n : t[k] = segs[k]
      /\ t[n + 1] = x
  BY AppendProperties
<1>3. PrintOf(x, value) \in Seq(Token) /\ \A k \in 1 .. n : PrintOf(segs[k], value) \in Seq(Token)
  BY <1>2, PrintFacts
<1> HIDE DEF t
<1>4. a = [k \in 1 .. n |-> PrintOf(segs[k], value)] /\ b = [k \in 1 .. n + 1 |-> PrintOf(t[k], value)]
  BY <1>2, Zenon DEF PrintsOf
<1>5. a \in Seq(Seq(Token)) /\ Len(a) = n /\ \A k \in 1 .. n : a[k] = PrintOf(segs[k], value)
  <2>1. a \in [1 .. n -> Seq(Token)]
    BY <1>3, <1>4
  <2> HIDE DEF a, n
  <2> QED BY <1>2, <1>4, <2>1, FunctionLen
<1>6. \A k \in 1 .. n + 1 : PrintOf(t[k], value) = IF k = n + 1 THEN PrintOf(x, value) ELSE a[k]
  <2>1. \A k \in 1 .. n + 1 : k = n + 1 \/ k \in 1 .. n
    BY <1>2
  <2>2. ~(n + 1 \in 1 .. n)
    BY <1>2
  <2> HIDE DEF a, n
  <2> QED BY <1>2, <1>5, <2>1, <2>2, Zenon
<1>7. b = Append(a, PrintOf(x, value))
  <2> DEFINE y == PrintOf(x, value)
  <2> HIDE DEF a, b, n, y
  <2>1. b \in [1 .. n + 1 -> Seq(Token)]
    BY <1>2, <1>3, <1>4, <1>5, <1>6 DEF y
  <2>2. b \in Seq(Seq(Token)) /\ Len(b) = n + 1
    BY <1>2, <2>1, FunctionLen
  <2>3. /\ Append(a, y) \in Seq(Seq(Token)) /\ Len(Append(a, y)) = n + 1
        /\ \A k \in 1 .. n : Append(a, y)[k] = a[k]
        /\ Append(a, y)[n + 1] = y
    BY <1>3, <1>5, AppendProperties DEF y
  <2>4. \A k \in 1 .. n + 1 : b[k] = Append(a, y)[k]
    <3>1. \A k \in 1 .. n + 1 : b[k] = IF k = n + 1 THEN y ELSE a[k]
      BY <1>4, <1>6 DEF y
    <3>2. \A k \in 1 .. n + 1 : k = n + 1 \/ k \in 1 .. n
      BY <1>2
    <3> QED BY <2>3, <3>1, <3>2
  <2>5. b = Append(a, y)
    BY <2>2, <2>3, <2>4, SeqEqual
  <2> QED BY <2>5 DEF y
<1> HIDE DEF a, b
<1>8. FlattenSeq(a) \in Seq(Token) /\ FlattenSeq(b) = FlattenSeq(a) \o PrintOf(x, value)
  BY <1>3, <1>5, <1>7, FlattenAppend
<1> QED BY <1>1, <1>8, Zenon DEF t

\* Of no segments nothing is printed.
LEMMA JoinedEmpty ==
  ASSUME NEW value
  PROVE  Joined(<<>>, value) = <<>>
<1>1. PrintsOf(<<>>, value) = <<>>
  BY DEF PrintsOf
<1>2. Joined(<<>>, value) = FlattenSeq(<<>>)
  BY <1>1, Zenon DEF Joined, PrintsOf, PrintOf
<1>3. FlattenSeq(<<>>) = <<>>
  <2>1. Len(<<>>) = 0
    OBVIOUS
  <2> QED BY <2>1, Zenon DEF FlattenSeq
<1> QED BY <1>2, <1>3

\* One segment alone.
LEMMA JoinedOne ==
  ASSUME NEW value \in Values, NEW x \in Piece
  PROVE  Joined(<<x>>, value) = PrintOf(x, value)
<1>1. <<x>> = Append(<<>>, x) /\ <<>> \in Seq(Piece)
  OBVIOUS
<1>2. Joined(<<x>>, value) = Joined(<<>>, value) \o PrintOf(x, value)
  BY <1>1, JoinedAppend
<1>3. PrintOf(x, value) \in Seq(Token)
  BY PrintFacts
<1>4. <<>> \o PrintOf(x, value) = PrintOf(x, value)
  BY <1>3
<1> QED BY <1>2, <1>4, JoinedEmpty

\* Segments and segments behind them are printed one after the other.
LEMMA JoinedConcat ==
  ASSUME NEW value \in Values, NEW a \in Seq(Piece), NEW b \in Seq(Piece)
  PROVE  /\ Joined(a, value) \in Seq(Token)
         /\ Joined(a \o b, value) = Joined(a, value) \o Joined(b, value)
<1> DEFINE J(s) == Joined(s, value)
           S == {s \in Seq(Piece) : J(a \o s) = J(a) \o J(s)}
<1>1. \A s \in Seq(Piece) : J(s) \in Seq(Token)
  <2>1. PICK x : x \in Piece
    <3>1. <<>> \in Seq(Token)
      OBVIOUS
    <3>2. Text(<<>>) \in Piece
      BY <3>1 DEF Piece
    <3> QED BY <3>2
  <2> QED BY <2>1, JoinedAppend
<1>2. <<>> \in S
  <2>1. a \o <<>> = a /\ J(a) \o <<>> = J(a) /\ <<>> \in Seq(Piece)
    <3>1. J(a) \in Seq(Token)
      BY <1>1
    <3> HIDE DEF J
    <3> QED BY <3>1
  <2>2. J(<<>>) = <<>>
    BY JoinedEmpty
  <2> HIDE DEF J
  <2> QED BY <2>1, <2>2
<1>3. ASSUME NEW s \in S, NEW x \in Piece PROVE Append(s, x) \in S
  <2>1. s \in Seq(Piece) /\ J(a \o s) = J(a) \o J(s)
    BY <1>3
  <2>2. Append(s, x) \in Seq(Piece) /\ a \o s \in Seq(Piece)
    BY <2>1, AppendProperties, ConcatProperties
  <2>3. a \o Append(s, x) = Append(a \o s, x)
    BY <2>1, ConcatAppend
  <2> DEFINE y == PrintOf(x, value)
  <2>4. J(Append(a \o s, x)) = J(a \o s) \o y /\ J(Append(s, x)) = J(s) \o y
    BY <2>1, <2>2, JoinedAppend
  <2>5. y \in Seq(Token)
    BY PrintFacts
  <2> HIDE DEF J, y
  <2>6. (J(a) \o J(s)) \o y = J(a) \o (J(s) \o y)
    BY <1>1, <2>1, <2>5, ConcatAssociative
  <2>7. J(a \o Append(s, x)) = J(a) \o J(Append(s, x))
    BY <2>1, <2>3, <2>4, <2>6, Zenon
  <2> QED BY <2>2, <2>7
<1>4. S = Seq(Piece)
  <2>1. S \in SUBSET Seq(Piece)
    OBVIOUS
  <2> HIDE DEF S
  <2>2. \A s \in S, x \in Piece : Append(s, x) \in S
    BY <1>3
  <2> QED BY <1>2, <2>1, <2>2, SequenceInduction
<1> QED BY <1>1, <1>4

\* Two parts of a sequence that meet are one.
LEMMA PartsMeet ==
  ASSUME NEW R, NEW s \in Seq(R), NEW a \in Nat \ {0}, NEW b \in Nat, NEW c \in Nat,
         a <= b + 1, b <= c, c <= Len(s)
  PROVE  SubSeq(s, a, b) \o SubSeq(s, b + 1, c) = SubSeq(s, a, c)
<1> DEFINE x == SubSeq(s, a, b)
           y == SubSeq(s, b + 1, c)
           u == x \o y
<1>1. /\ x \in Seq(R) /\ Len(x) = b - a + 1
      /\ \A k \in 1 .. b - a + 1 : x[k] = s[a + k - 1]
  <2>1. b <= Len(s)
    OBVIOUS
  <2> QED BY <2>1, PartFacts, Zenon
<1>2. /\ y \in Seq(R) /\ Len(y) = c - (b + 1) + 1
      /\ \A k \in 1 .. c - (b + 1) + 1 : y[k] = s[(b + 1) + k - 1]
  <2>1. b + 1 \in Nat \ {0} /\ b + 1 <= c + 1
    OBVIOUS
  <2> QED BY <2>1, PartFacts, Zenon
<1>3. c - (b + 1) + 1 = c - b /\ (b - a + 1) + (c - b) = c - a + 1 /\ b - a + 1 \in Nat /\ c - b \in Nat
  OBVIOUS
<1> HIDE DEF x, y
<1>4. /\ u \in Seq(R) /\ Len(u) = Len(x) + Len(y)
      /\ \A k \in 1 .. Len(x) + Len(y) : u[k] = IF k <= Len(x) THEN x[k] ELSE y[k - Len(x)]
  BY <1>1, <1>2, ConcatProperties
<1> HIDE DEF u
<1>5. Len(u) = c - a + 1
  BY <1>1, <1>2, <1>3, <1>4
<1>6. ASSUME NEW k \in 1 .. c - a + 1 PROVE u[k] = s[a + k - 1]
  <2>1. k \in 1 .. Len(x) + Len(y) /\ k \in Nat
    BY <1>1, <1>2, <1>3
  <2>2. CASE k <= Len(x)
    <3>1. k \in 1 .. b - a + 1
      BY <1>1, <2>1, <2>2
    <3> QED BY <1>1, <1>4, <2>1, <2>2, <3>1
  <2>3. CASE ~(k <= Len(x))
    <3>1. k - Len(x) \in 1 .. c - (b + 1) + 1 /\ (b + 1) + (k - Len(x)) - 1 = a + k - 1
      BY <1>1, <1>3, <2>1, <2>3
    <3>2. y[k - Len(x)] = s[(b + 1) + (k - Len(x)) - 1]
      BY <1>2, <3>1, Zenon
    <3>3. u[k] = y[k - Len(x)]
      BY <1>4, <2>1, <2>3, Zenon
    <3> QED BY <3>1, <3>2, <3>3, Zenon
  <2> QED BY <2>2, <2>3
<1>7. a <= c + 1
  OBVIOUS
<1>8. SubSeq(s, a, c) = u
  <2>1. u \in Seq(R)
    BY <1>4
  <2>2. \A k \in 1 .. c - a + 1 : u[k] = s[a + k - 1]
    BY <1>6
  <2> QED BY <1>5, <1>7, <2>1, <2>2, PartIs
<1> QED BY <1>8 DEF x, y, u

\* What repr() prints for a name.
Written4(n) == <<PERCENT, OPEN, n, CLOSE>>
ReprValue == [n \in Name |-> Written4(n)]

\* A text, cut out of the format, is printed as it was.
LEMMA TextPrinted ==
  ASSUME NEW value \in Values, NEW f \in Seq(Token), NEW a \in 1 .. Len(f) + 1,
         NEW b \in 0 .. Len(f), a <= b + 1
  PROVE  Joined(MeantText(f, a, b), value) = SubSeq(f, a, b)
<1>1. SubSeq(f, a, b) \in Seq(Token) /\ Len(SubSeq(f, a, b)) = b - a + 1
  BY PartFacts
<1>2. CASE a <= b
  <2>1. Text(SubSeq(f, a, b)) \in Piece
    BY <1>1 DEF Piece
  <2>2. Joined(<<Text(SubSeq(f, a, b))>>, value) = PrintOf(Text(SubSeq(f, a, b)), value)
    BY <2>1, JoinedOne
  <2> QED BY <1>2, <2>2, PrintFacts, Zenon DEF MeantText
<1>3. CASE ~(a <= b)
  <2> DEFINE x == SubSeq(f, a, b)
  <2>1. b - a + 1 = 0
    BY <1>3
  <2>2. x \in Seq(Token) /\ Len(x) = 0
    BY <1>1, <2>1, Zenon
  <2> HIDE DEF x
  <2>3. x = <<>>
    BY <2>2
  <2>4. MeantText(f, a, b) = <<>>
    BY <1>3, Zenon DEF MeantText
  <2> QED BY <2>3, <2>4, JoinedEmpty, Zenon DEF x
<1> QED BY <1>2, <1>3

\* A known name is printed as it was written.
LEMMA NamePrinted ==
  ASSUME NEW f \in Seq(Token), NEW q \in Nat \ {0}, OpensAt(f, q), q + 3 <= Len(f),
         f[q + 2] \in Name, f[q + 3] = CLOSE
  PROVE  /\ Closes(f, q + 2) # {} /\ Min(Closes(f, q + 2)) = q + 3
         /\ MeantName(f, q + 2, q + 3 - 1) \in Seq(Piece)
         /\ Joined(MeantName(f, q + 2, q + 3 - 1), ReprValue) = SubSeq(f, q, q + 3)
<1> DEFINE n == f[q + 2]
<1>1. f[q] = PERCENT /\ f[q + 1] = OPEN
  BY DEF OpensAt
<1>2. n \in Name /\ n # CLOSE
  BY FormatterAssumption
<1>3. Closes(f, q + 2) # {} /\ Min(Closes(f, q + 2)) = q + 3
  <2>1. q + 2 \in 1 .. Len(f) + 1 /\ q + 3 \in q + 2 .. Len(f)
    OBVIOUS
  <2>2. \A r \in q + 2 .. q + 3 - 1 : r = q + 2
    OBVIOUS
  <2>3. \A r \in q + 2 .. q + 3 - 1 : f[r] # CLOSE
    BY <1>2, <2>2
  <2>4. q + 3 \in q + 2 .. Len(f) /\ f[q + 3] = CLOSE
    BY <2>1
  <2> DEFINE a == q + 2
             b == q + 3
  <2>5. a \in 1 .. Len(f) + 1 /\ b \in a .. Len(f) /\ f[b] = CLOSE /\ \A r \in a .. b - 1 : f[r] # CLOSE
    BY <2>1, <2>3, <2>4
  <2> HIDE DEF a, b
  <2>6. Closes(f, a) # {} /\ Min(Closes(f, a)) = b
    BY <2>5, CloseIs
  <2> QED BY <2>6 DEF a, b
<1>4. MeantName(f, q + 2, q + 3 - 1) = <<Meta(n)>>
  <2>1. q + 2 = q + 3 - 1
    OBVIOUS
  <2> QED BY <1>2, <2>1, Zenon DEF MeantName
<1>5. Meta(n) \in Piece
  BY <1>2 DEF Piece
<1>6. <<Meta(n)>> \in Seq(Piece)
  BY <1>5
<1>7. ReprValue \in Values /\ ReprValue[n] = Written4(n)
  <2>1. \A m \in Name : Written4(m) \in Seq(Token)
    BY DEF Written4, Token
  <2> QED BY <1>2, <2>1 DEF ReprValue, Values
<1>8. Joined(<<Meta(n)>>, ReprValue) = Written4(n)
  BY <1>2, <1>5, <1>7, JoinedOne, PrintFacts, Zenon
<1>9. Written4(n) = SubSeq(f, q, q + 3)
  <2> DEFINE u == Written4(n)
  <2>1. /\ u \in Seq(Token) /\ Len(u) = 4
        /\ u[1] = PERCENT /\ u[2] = OPEN /\ u[3] = n /\ u[4] = CLOSE
    BY <1>2 DEF Written4, Token
  <2> HIDE DEF u
  <2>2. \A k \in 1 .. 4 : k = 1 \/ k = 2 \/ k = 3 \/ k = 4
    OBVIOUS
  <2>3. q + 1 - 1 = q /\ q + 2 - 1 = q + 1 /\ q + 3 - 1 = q + 2 /\ q + 4 - 1 = q + 3 /\ (q + 3) - q + 1 = 4
    OBVIOUS
  <2>4. \A k \in 1 .. 4 : u[k] = f[q + k - 1]
    BY <1>1, <2>1, <2>2, <2>3
  <2>5. q + 3 \in Nat /\ q <= q + 3 + 1
    OBVIOUS
  <2>6. SubSeq(f, q, q + 3) = u
    BY <2>1, <2>3, <2>4, <2>5, PartIs
  <2> QED BY <2>6 DEF u
<1> QED BY <1>3, <1>4, <1>6, <1>8, <1>9, Zenon

\* repr() gives every format back whose names are all known: what each position means is
\* printed as the format from there on.
LEMMA FormatPrinted ==
  ASSUME NEW f \in Seq(Token), AllKnown(f)
  PROVE  Repr(MeantSegments(f)) = f
<1> DEFINE n == Len(f)
<1>1. PICK M \in [1 .. n + 1 -> Seq(Piece)] :
        /\ MeantSegments(f) = M[1]
        /\ \A p \in 1 .. n + 1 : M[p] = MeaningAt(f, M, p)
  BY Meant
<1>2. n \in Nat
  OBVIOUS
<1>3. ReprValue \in Values
  <2>1. \A m \in Name : Written4(m) \in Seq(Token)
    BY DEF Written4, Token
  <2> QED BY <2>1 DEF ReprValue, Values
<1> DEFINE J(s) == Joined(s, ReprValue)
           S == {m \in Nat : \A p \in 1 .. n + 1 : p + m > n => J(M[p]) = SubSeq(f, p, n)}
<1>4. ASSUME NEW p \in 1 .. n + 1,
             \A r \in p + 1 .. n + 1 : J(M[r]) = SubSeq(f, r, n)
      PROVE  J(M[p]) = SubSeq(f, p, n)
  <2>1. CASE Opens(f, p) = {}
    <3>1. M[p] = MeantText(f, p, n)
      <4>1. MeaningAt(f, M, p) = MeantText(f, p, n)
        BY <2>1, Zenon DEF MeaningAt
      <4> QED BY <1>1, <4>1, Zenon
    <3>2. n \in 0 .. n /\ p <= n + 1
      BY <1>2
    <3> QED BY <1>3, <3>1, <3>2, TextPrinted, Zenon
  <2>2. CASE Opens(f, p) # {}
    <3> DEFINE q == Min(Opens(f, p))
               text == MeantText(f, p, q - 1)
               name == MeantName(f, q + 2, q + 3 - 1)
               rest == M[q + 3 + 1]
    <3>1. q \in p .. n /\ q < n /\ OpensAt(f, q)
      BY <2>2, FirstOpen
    <3>2. M[p] = text \o AfterName(f, M, q + 2)
      <4>1. MeaningAt(f, M, p) = text \o AfterName(f, M, q + 2)
        BY <2>2, Zenon DEF MeaningAt
      <4> QED BY <1>1, <4>1, Zenon
    <3> HIDE DEF q
    <3>3. q + 3 <= n /\ f[q + 2] \in Name /\ f[q + 3] = CLOSE
      <4>1. q \in Opens(f, 1)
        BY <3>1 DEF Opens
      <4> QED BY <4>1 DEF AllKnown
    <3>4. q \in Nat \ {0} /\ q - 1 \in 0 .. n /\ p <= q - 1 + 1 /\ q + 3 + 1 \in p + 1 .. n + 1
      BY <1>2, <3>1, <3>3
    <3>5. /\ Closes(f, q + 2) # {} /\ Min(Closes(f, q + 2)) = q + 3
          /\ name \in Seq(Piece) /\ J(name) = SubSeq(f, q, q + 3)
      <4>1. /\ q \in Nat \ {0} /\ OpensAt(f, q) /\ q + 3 <= Len(f)
            /\ f[q + 2] \in Name /\ f[q + 3] = CLOSE
        BY <3>1, <3>3, <3>4
      <4> QED BY <4>1, NamePrinted
    <3>6. AfterName(f, M, q + 2) = name \o rest
      <4> DEFINE c == Min(Closes(f, q + 2))
      <4>1. AfterName(f, M, q + 2) = MeantName(f, q + 2, c - 1) \o M[c + 1]
        BY <3>5, Zenon DEF AfterName
      <4>2. c = q + 3
        BY <3>5, Zenon
      <4> HIDE DEF c
      <4>3. c - 1 = q + 3 - 1 /\ c + 1 = q + 3 + 1
        BY <3>4, <4>2
      <4>4. MeantName(f, q + 2, c - 1) = name /\ M[c + 1] = rest
        BY <4>3, Zenon
      <4> QED BY <4>1, <4>4, Zenon
    <3>7. text \in Seq(Piece) /\ J(text) = SubSeq(f, p, q - 1)
      BY <1>3, <3>4, PieceFacts, TextPrinted, Zenon
    <3>8. rest \in Seq(Piece) /\ J(rest) = SubSeq(f, q + 3 + 1, n)
      <4>1. q + 3 + 1 \in 1 .. n + 1
        BY <1>2, <3>4
      <4> QED BY <1>4, <3>4, <4>1
    <3> HIDE DEF text, name, rest
    <3>9. name \o rest \in Seq(Piece)
      BY <3>5, <3>8, ConcatProperties
    <3>10. J(M[p]) = J(text) \o (J(name) \o J(rest))
      <4>1. J(name \o rest) = J(name) \o J(rest)
        BY <1>3, <3>5, <3>8, JoinedConcat, Zenon
      <4>2. J(text \o (name \o rest)) = J(text) \o J(name \o rest)
        BY <1>3, <3>7, <3>9, JoinedConcat, Zenon
      <4> QED BY <3>2, <3>6, <4>1, <4>2, Zenon
    <3>11. SubSeq(f, q, q + 3) \o SubSeq(f, q + 3 + 1, n) = SubSeq(f, q, n)
      <4>1. q + 3 \in Nat /\ q <= q + 3 + 1 /\ n <= n
        BY <1>2, <3>4
      <4> QED BY <1>2, <3>3, <3>4, <4>1, PartsMeet, Zenon
    <3>12. SubSeq(f, p, q - 1) \o SubSeq(f, q, n) = SubSeq(f, p, n)
      <4>1. /\ p \in Nat \ {0} /\ q - 1 \in Nat /\ q - 1 <= n /\ n <= n
            /\ q - 1 + 1 = q
        BY <1>2, <3>4
      <4>2. SubSeq(f, p, q - 1) \o SubSeq(f, q - 1 + 1, n) = SubSeq(f, p, n)
        BY <1>2, <3>4, <4>1, PartsMeet, Zenon
      <4> QED BY <4>1, <4>2, Zenon
    <3> HIDE DEF J
    <3> QED BY <3>5, <3>7, <3>8, <3>10, <3>11, <3>12, Zenon
  <2> QED BY <2>1, <2>2
<1>5. 0 \in S
  <2> SUFFICES ASSUME NEW p \in 1 .. n + 1, p + 0 > n PROVE J(M[p]) = SubSeq(f, p, n)
    OBVIOUS
  <2>1. \A r \in p + 1 .. n + 1 : FALSE
    BY <1>2
  <2> HIDE DEF J
  <2> QED BY <1>4, <2>1, Zenon
<1>6. ASSUME NEW m \in Nat, m \in S PROVE m + 1 \in S
  <2> SUFFICES ASSUME NEW p \in 1 .. n + 1, p + (m + 1) > n PROVE J(M[p]) = SubSeq(f, p, n)
    OBVIOUS
  <2>1. ASSUME NEW r \in p + 1 .. n + 1 PROVE J(M[r]) = SubSeq(f, r, n)
    <3>1. r \in 1 .. n + 1 /\ r + m > n
      BY <1>2
    <3> HIDE DEF J
    <3> QED BY <1>6, <3>1
  <2> HIDE DEF J
  <2> QED BY <1>4, <2>1, Zenon
<1>7. S = Nat
  <2>1. S \in SUBSET Nat
    OBVIOUS
  <2> HIDE DEF S
  <2> QED BY <1>5, <1>6, <2>1, NumberInduction
<1>8. J(M[1]) = SubSeq(f, 1, n)
  <2>1. n \in S
    BY <1>2, <1>7, Zenon
  <2>2. 1 \in 1 .. n + 1 /\ 1 + n > n
    BY <1>2
  <2> HIDE DEF J
  <2> QED BY <2>1, <2>2
<1>9. SubSeq(f, 1, n) = f
  OBVIOUS
<1>10. Repr(MeantSegments(f)) = J(M[1])
  BY <1>1, Zenon DEF Repr, ReprValue, Written4
<1> QED BY <1>8, <1>9, <1>10, Zenon

\* Whatever format it is given, repr() gives it back if all names in it are known.
THEOREM FormatsGivenBack == Spec => []ReprFaithful
<1>1. Init => ReprFaithful
  BY FormatInit, ParsedAsMeant, FormatPrinted, Zenon DEF ReprFaithful
<1>2. ReprFaithful /\ [Next]_vars => ReprFaithful'
  BY DEF Next, vars, ReprFaithful
<1> QED BY <1>1, <1>2, PTL DEF Spec

\* How far back the newlines at the end of the first k tokens of a line go.
IsLeft(line, P) ==
  P = [k \in 0 .. Len(line) |-> IF k > 0 /\ line[k] = NEWLINE THEN P[k - 1] ELSE k]

\* There is such a function.
LEMMA LeftExists ==
  ASSUME NEW line \in Seq(Token)
  PROVE  \E P : IsLeft(line, P)
<1> DEFINE n == Len(line)
           step == [z \in Nat \X Nat |-> IF line[z[1]] = NEWLINE THEN z[2] ELSE z[1]]
<1>1. n \in Nat
  OBVIOUS
<1>2. /\ step \in Steps(Nat)
      /\ \A k, x \in Nat : step[<<k, x>>] = IF line[k] = NEWLINE THEN x ELSE k
  BY DEF Steps
<1> HIDE DEF step, n
<1>3. PICK P \in [0 .. n -> Nat] : Recursion(P, 0, step, n)
  BY <1>1, <1>2, RecursionExists
<1>4. P[0] = 0 /\ \A k \in 1 .. n : P[k] = step[<<k, P[k - 1]>>]
  BY <1>3, Zenon DEF Recursion
<1>5. ASSUME NEW k \in 0 .. n
      PROVE  P[k] = IF k > 0 /\ line[k] = NEWLINE THEN P[k - 1] ELSE k
  <2>1. CASE k = 0
    BY <1>4, <2>1
  <2>2. CASE k # 0
    <3>1. k \in Nat /\ k \in 1 .. n /\ k > 0 /\ k - 1 \in 0 .. n
      BY <1>1, <2>2
    <3>2. P[k - 1] \in Nat
      BY <3>1
    <3> QED BY <1>2, <1>4, <3>1, <3>2
  <2> QED BY <2>1, <2>2
<1>6. P = [k \in 0 .. n |-> P[k]]
  OBVIOUS
<1>7. IsLeft(line, P)
  BY <1>5, <1>6 DEF IsLeft, n
<1> QED BY <1>7

\* The loop over the newlines leaves a line that does not end in one, and takes off
\* nothing else.
LEMMA LeftFacts ==
  ASSUME NEW line \in Seq(Token)
  PROVE  /\ LengthLeft(line) \in 0 .. Len(line)
         /\ LengthLeft(line) = 0 \/ line[LengthLeft(line)] # NEWLINE
         /\ \A r \in LengthLeft(line) + 1 .. Len(line) : line[r] = NEWLINE
<1> DEFINE n == Len(line)
           P == CHOOSE g : IsLeft(line, g)
<1>1. n \in Nat
  OBVIOUS
<1>2. IsLeft(line, P)
  BY LeftExists, Zenon
<1>3. LengthLeft(line) = P[n]
  BY Zenon DEF LengthLeft, IsLeft
<1> HIDE DEF P
<1>4. \A k \in 0 .. n : P[k] = IF k > 0 /\ line[k] = NEWLINE THEN P[k - 1] ELSE k
  BY <1>2, Zenon DEF IsLeft
<1> DEFINE Good(k) == /\ P[k] \in 0 .. k
                      /\ P[k] = 0 \/ line[P[k]] # NEWLINE
                      /\ \A r \in P[k] + 1 .. k : line[r] = NEWLINE
           S == {k \in Nat : k <= n => Good(k)}
<1>5. ASSUME NEW k \in 0 .. n, P[k] = k, k = 0 \/ line[k] # NEWLINE
      PROVE  Good(k)
  <2>1. k \in 0 .. k /\ \A r \in k + 1 .. k : FALSE
    OBVIOUS
  <2> QED BY <1>5, <2>1
<1>6. 0 \in S
  <2>1. 0 \in 0 .. n /\ P[0] = 0
    BY <1>1, <1>4
  <2> HIDE DEF Good
  <2> QED BY <1>5, <2>1
<1>7. ASSUME NEW k \in Nat, k \in S PROVE k + 1 \in S
  <2> SUFFICES ASSUME k + 1 <= n PROVE Good(k + 1)
    OBVIOUS
  <2>1. Good(k) /\ k + 1 \in 0 .. n /\ k + 1 - 1 = k /\ k + 1 > 0
    BY <1>1, <1>7
  <2>2. CASE line[k + 1] = NEWLINE
    <3>1. P[k + 1] = P[k]
      BY <1>4, <2>1, <2>2
    <3>2. \A r \in P[k] + 1 .. k + 1 : r \in P[k] + 1 .. k \/ r = k + 1
      BY <2>1
    <3> QED BY <2>1, <2>2, <3>1, <3>2
  <2>3. CASE line[k + 1] # NEWLINE
    <3>1. P[k + 1] = k + 1
      BY <1>4, <2>1, <2>3
    <3> HIDE DEF Good
    <3> QED BY <1>5, <2>1, <2>3, <3>1
  <2> QED BY <2>2, <2>3
<1>8. Good(n)
  <2> HIDE DEF Good
  <2>1. S \in SUBSET Nat
    OBVIOUS
  <2> HIDE DEF S
  <2>2. S = Nat
    BY <1>6, <1>7, <2>1, NumberInduction
  <2> QED BY <1>1, <2>2 DEF S
<1> QED BY <1>3, <1>8, Zenon

\* A line is what is left of it and newlines.
LEMMA LineSplit ==
  ASSUME NEW line \in Seq(Token), NEW j \in 0 .. Len(line),
         \A r \in j + 1 .. Len(line) : line[r] = NEWLINE
  PROVE  /\ SubSeq(line, 1, j) \in Seq(Token) /\ Len(SubSeq(line, 1, j)) = j
         /\ line = SubSeq(line, 1, j) \o Newlines(Len(line) - j)
         /\ j = 0 => line = Newlines(Len(line))
<1> DEFINE n == Len(line)
           u == Newlines(n - j)
<1>1. n \in Nat /\ j \in Nat /\ j <= n /\ n - j \in Nat /\ n - (j + 1) + 1 = n - j
  OBVIOUS
<1>2. u \in Seq(Token) /\ Len(u) = n - j /\ \A k \in 1 .. n - j : u[k] = NEWLINE
  <2> DEFINE m == n - j
  <2>1. m \in Nat /\ NEWLINE \in Token
    BY <1>1 DEF Token
  <2> HIDE DEF m
  <2>2. Newlines(m) \in [1 .. m -> Token] /\ \A k \in 1 .. m : Newlines(m)[k] = NEWLINE
    BY <2>1 DEF Newlines
  <2>3. Newlines(m) \in Seq(Token) /\ Len(Newlines(m)) = m
    BY <2>1, <2>2, FunctionLen
  <2> QED BY <2>2, <2>3 DEF m
<1> HIDE DEF u
<1>3. \A k \in 1 .. n - j : u[k] = line[j + 1 + k - 1]
  <2>1. \A k \in 1 .. n - j : j + 1 + k - 1 \in j + 1 .. n
    BY <1>1
  <2> QED BY <1>2, <2>1
<1>4. SubSeq(line, j + 1, n) = u
  <2>1. j + 1 \in Nat \ {0} /\ n \in Nat /\ j + 1 <= n + 1 /\ n <= Len(line) /\ Len(u) = n - (j + 1) + 1
    BY <1>1, <1>2
  <2>2. \A k \in 1 .. n - (j + 1) + 1 : u[k] = line[(j + 1) + k - 1]
    BY <1>1, <1>3
  <2> QED BY <1>2, <2>1, <2>2, PartIs
<1>5. /\ SubSeq(line, 1, j) \in Seq(Token) /\ Len(SubSeq(line, 1, j)) = j
      /\ line = SubSeq(line, 1, j) \o SubSeq(line, j + 1, n)
  BY SplitAt
<1>6. ASSUME j = 0 PROVE line = Newlines(n)
  <2>1. \A k \in 1 .. n : line[k] = NEWLINE
    BY <1>1, <1>6
  <2>2. line = [k \in 1 .. n |-> line[k]]
    OBVIOUS
  <2> HIDE DEF n
  <2> QED BY <2>1, <2>2, Zenon DEF Newlines
<1> QED BY <1>4, <1>5, <1>6, Zenon DEF u

\* What format() makes of a line.
LEMMA LineFormatted ==
  ASSUME NEW segs, NEW value, Joined(segs, value) \in Seq(Token)
  PROVE  LET full == Joined(segs, value)
             result == Format(segs, value)
         IN  IF result.defined
             THEN /\ Last(result.line) # NEWLINE
                  /\ full = result.line \o Newlines(Len(full) - Len(result.line))
             ELSE full = Newlines(Len(full))
<1> DEFINE full == Joined(segs, value)
           result == Format(segs, value)
           j == LengthLeft(full)
           left == SubSeq(full, 1, j)
<1>1. /\ j \in 0 .. Len(full)
      /\ j = 0 \/ full[j] # NEWLINE
      /\ \A r \in j + 1 .. Len(full) : full[r] = NEWLINE
  BY LeftFacts
<1>2. result = IF j = 0 THEN [defined |-> FALSE] ELSE [defined |-> TRUE, line |-> left]
  BY Zenon DEF Format
<1> HIDE DEF full, j, result
<1>3. /\ left \in Seq(Token) /\ Len(left) = j
      /\ full = left \o Newlines(Len(full) - j)
      /\ j = 0 => full = Newlines(Len(full))
  <2>1. full \in Seq(Token)
    BY DEF full
  <2> QED BY <1>1, <2>1, LineSplit
<1>4. CASE j = 0
  <2>1. ~result.defined
    BY <1>2, <1>4
  <2> QED BY <1>3, <1>4, <2>1, Zenon DEF full, result
<1>5. CASE j # 0
  <2>1. result.defined /\ result.line = left
    BY <1>2, <1>5
  <2>2. Last(left) = full[j]
    <3>1. full \in Seq(Token)
      BY DEF full
    <3>2. j \in Nat /\ 1 <= j + 1 /\ j <= Len(full) /\ j \in 1 .. j - 1 + 1 /\ 1 + j - 1 = j
      BY <1>1, <1>5
    <3>3. left[j] = full[1 + j - 1]
      BY <3>1, <3>2, PartFacts
    <3> QED BY <1>3, <3>2, <3>3, Zenon DEF Last
  <2>3. Last(result.line) # NEWLINE
    BY <1>1, <1>5, <2>1, <2>2, Zenon
  <2>4. full = result.line \o Newlines(Len(full) - Len(result.line))
    BY <1>3, <2>1, Zenon
  <2> QED BY <2>1, <2>3, <2>4, Zenon DEF full, result
<1> QED BY <1>4, <1>5

\* Whatever format and message it is given, a line of the log loses all newlines at its
\* end and nothing else.
THEOREM LinesStripped == Spec => []StripsNewlines
<1>1. ASSUME Init PROVE StripsNewlines
  <2> SUFFICES ASSUME NEW m \in Messages
               PROVE  Joined(Segments(format), [n \in Name |-> Value(n, m)]) \in Seq(Token)
    BY LineFormatted, Zenon DEF StripsNewlines
  <2> DEFINE value == [n \in Name |-> Value(n, m)]
  <2>1. value \in Values
    <3>1. m \in Seq(Token)
      BY TextsAssumption
    <3>2. <<"other">> \in Seq(Token)
      BY DEF Token
    <3> QED BY <3>1, <3>2 DEF Value, Values
  <2>2. Segments(format) \in Seq(Piece)
    <3>1. format \in Seq(Token)
      BY <1>1, FormatInit
    <3>2. PICK M \in [1 .. Len(format) + 1 -> Seq(Piece)] : MeantSegments(format) = M[1]
      BY <3>1, Meant, Zenon
    <3>3. 1 \in 1 .. Len(format) + 1
      BY <3>1
    <3> QED BY <3>1, <3>2, <3>3, ParsedAsMeant
  <2> HIDE DEF value
  <2>3. Joined(Segments(format), value) \in Seq(Token)
    BY <2>1, <2>2, JoinedConcat
  <2> QED BY <2>3 DEF value
<1>2. StripsNewlines /\ [Next]_vars => StripsNewlines'
  BY DEF Next, vars, StripsNewlines
<1> QED BY <1>1, <1>2, PTL DEF Spec

=============================================================================
