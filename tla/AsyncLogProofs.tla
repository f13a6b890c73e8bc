--------------------------- MODULE AsyncLogProofs ---------------------------
(***************************************************************************)
(* The safety properties of AsyncLog hold for every number of threads,     *)
(* loggers and records, and every threshold.                               *)
(*                                                                         *)
(* RefMatches and UsedAlive rest on each other: the destructor sees zero   *)
(* only when no record and no buffer is left, and a logger that is gone    *)
(* gets no new ones.  IInv adds in which call each thread can be, which    *)
(* buffers hold text, what is over once ~worker has begun, and where each  *)
(* record ever logged is.                                                  *)
(*                                                                         *)
(* The last part proves that the log implements Log.  This rests on LogInv:*)
(* what a flush was called for waits in front of it in the queue.          *)
(***************************************************************************)
EXTENDS AsyncLog, SequenceLemmas, FiniteSetTheorems

\* A thread about to append does so to a logger that is alive, a thread in a
\* destructor destroys a dying one.
CallInv ==
  \A t \in Thread :
    /\ tpc[t] = "append" => /\ tlog[t] \in Logger /\ life[tlog[t]] = "alive"
                            /\ nr[t] > 0
    /\ tpc[t] \in DtorPc => tlog[t] \in Logger /\ life[tlog[t]] # "alive"

\* The worker is about to count down, or to notify, some logger or some flush;
\* it has no records in hand outside drain_.
InDrain == wpc \in {"drain", "unref", "notify", "tell"}
WorkerInv ==
  /\ ~InDrain => ready = <<>> /\ held = {}
  /\ wpc \in {"unref", "notify"} => wcur \in Logger
  /\ wpc = "tell" => told # <<>>

\* The buffers that hold text are those with a reference.
BufferInv == \A l \in Logger : buf[l] # <<>> <=> l \in held

\* Nobody logs or flushes once ~worker has begun, so the last drain_ finds all
\* there is and empties it.
EndInv ==
  /\ stop => \A t \in Thread : tpc[t] \in {"idle"} \cup DtorPc
  /\ last => stop /\ logs = <<>>
  /\ wpc = "ended" => last

\* Every record ever logged is written, in the worker's hands, queued, or on its
\* way to the queue.
Somewhere(r) ==
  \/ r \in Range(out[r.to]) \/ r \in Range(buf[r.to])
  \/ r \in Range(ready) \/ r \in Range(logs)
RecordInv ==
  \A t \in Thread : \A n \in 1 .. nr[t] :
    \/ tpc[t] = "append" /\ n = nr[t]
    \/ \E l \in Logger : Somewhere([to |-> l, by |-> t, nr |-> n])

IInv ==
  /\ TypeOK
  /\ CallInv
  /\ WorkerInv
  /\ BufferInv
  /\ EndInv
  /\ RefMatches
  /\ UsedAlive
  /\ RecordInv

-----------------------------------------------------------------------------
(* How many records of a sequence are for a logger                         *)

LEMMA CountNat ==
  ASSUME NEW s \in Seq(Record), NEW l
  PROVE  /\ IsFiniteSet({i \in DOMAIN s : s[i].to = l})
         /\ Count(s, l) \in Nat
<1>1. DOMAIN s = 1..Len(s) /\ Len(s) \in Nat
  OBVIOUS
<1>2. IsFiniteSet(1..Len(s))
  BY <1>1, FS_Interval
<1>3. IsFiniteSet({i \in DOMAIN s : s[i].to = l})
  BY <1>1, <1>2, FS_Subset
<1> QED BY <1>3, FS_CardinalityType DEF Count

LEMMA CountEmpty ==
  ASSUME NEW l
  PROVE  Count(<<>>, l) = 0
<1>1. {i \in DOMAIN <<>> : <<>>[i].to = l} = {}
  OBVIOUS
<1> QED BY <1>1, FS_EmptySet DEF Count

\* An appended record is counted for its own logger.
LEMMA CountAppend ==
  ASSUME NEW s \in Seq(Record), NEW r \in Record, NEW l
  PROVE  Count(Append(s, r), l) = Count(s, l) + One(r.to = l)
<1> DEFINE n == Len(s) + 1
           old == {i \in DOMAIN s : s[i].to = l}
           new == {i \in DOMAIN Append(s, r) : Append(s, r)[i].to = l}
<1>1. /\ n \in Nat /\ DOMAIN s = 1 .. n - 1 /\ DOMAIN Append(s, r) = 1..n
      /\ \A i \in 1 .. n - 1 : Append(s, r)[i] = s[i]
      /\ Append(s, r)[n] = r
  OBVIOUS
<1>2. IsFiniteSet(old) /\ n \notin old
  <2>1. IsFiniteSet(old)
    BY CountNat
  <2>2. n \notin old
    BY <1>1
  <2> QED BY <2>1, <2>2
<1>3. new = IF r.to = l THEN old \cup {n} ELSE old
  BY <1>1
<1>4. Cardinality(old) \in Nat
  BY <1>2, FS_CardinalityType
<1>5. Cardinality(old \cup {n}) = Cardinality(old) + 1
  BY <1>2, FS_AddElement
<1> HIDE DEF n, old, new
<1>6. Cardinality(new) = Cardinality(old) + One(r.to = l)
  BY <1>3, <1>4, <1>5 DEF One
<1> QED BY <1>6 DEF Count, old, new

\* What is counted of a sequence is counted of its head or of its tail.
LEMMA CountHead ==
  ASSUME NEW s \in Seq(Record), s # <<>>, NEW l
  PROVE  Count(s, l) = Count(Tail(s), l) + One(Head(s).to = l)
<1> DEFINE all == {i \in DOMAIN s : s[i].to = l}
           later == {i \in 2..Len(s) : s[i].to = l}
           tl == {i \in DOMAIN Tail(s) : Tail(s)[i].to = l}
           shift == [i \in tl |-> i + 1]
<1>1. /\ Len(s) \in Nat /\ Len(s) > 0 /\ DOMAIN s = 1..Len(s)
      /\ DOMAIN Tail(s) = 1 .. Len(s) - 1
      /\ \A i \in 1 .. Len(s) - 1 : Tail(s)[i] = s[i + 1]
      /\ Head(s) = s[1] /\ Tail(s) \in Seq(Record)
  OBVIOUS
<1>2. IsFiniteSet(tl) /\ Cardinality(tl) \in Nat
  BY <1>1, CountNat, FS_CardinalityType
<1>3. shift \in Bijection(tl, later)
  <2>1. shift \in [tl -> later]
    BY <1>1
  <2>2. \A i, j \in tl : shift[i] = shift[j] => i = j
    BY <1>1
  <2>3. \A k \in later : k - 1 \in tl /\ shift[k - 1] = k
    BY <1>1
  <2> QED BY <2>1, <2>2, <2>3 DEF Bijection, Injection, Surjection, IsInjective
<1>4. IsFiniteSet(later) /\ Cardinality(later) = Cardinality(tl)
  BY <1>2, <1>3, FS_Bijection DEF ExistsBijection
<1>5. 1 \notin later /\ all = IF Head(s).to = l THEN later \cup {1} ELSE later
  BY <1>1
<1>6. Cardinality(later \cup {1}) = Cardinality(later) + 1
  BY <1>4, <1>5, FS_AddElement
<1> HIDE DEF all, later, tl
<1>7. Cardinality(all) = Cardinality(tl) + One(Head(s).to = l)
  BY <1>2, <1>4, <1>5, <1>6 DEF One
<1> QED BY <1>7 DEF Count, all, tl

\* The values of a sequence after Append, Tail and concatenation.
LEMMA RangeFacts ==
  ASSUME NEW S, NEW s \in Seq(S)
  PROVE  /\ \A x \in S : Range(Append(s, x)) = Range(s) \cup {x}
         /\ \A u \in Seq(S) : Range(s \o u) = Range(s) \cup Range(u)
         /\ s # <<>> => Range(s) = {Head(s)} \cup Range(Tail(s))
         /\ s = <<>> => Range(s) = {}
<1>1. \A u : Range(u) = ToSet(u)
  BY DEF Range, ToSet
<1>2. ASSUME s # <<>> PROVE Range(s) = {Head(s)} \cup Range(Tail(s))
  <2>1. s = <<Head(s)>> \o Tail(s) /\ Head(s) \in S /\ Tail(s) \in Seq(S)
    BY <1>2
  <2>2. ToSet(<<Head(s)>>) = {Head(s)}
    BY DEF ToSet
  <2>3. <<Head(s)>> \in Seq(S)
    BY <2>1
  <2>4. ToSet(s) = ToSet(<<Head(s)>>) \cup ToSet(Tail(s))
    BY <2>1, <2>3, ToSetConcat
  <2> QED BY <1>1, <2>2, <2>4
<1> QED BY <1>1, <1>2, ToSetAppend, ToSetConcat, ToSetType

-----------------------------------------------------------------------------
(* The records of a sequence that are for a logger                         *)

\* What the recursion of To computes, up to n.
IsFrom(f, s, l, n) ==
  f = [k \in 0 .. n |->
         IF k = 0 THEN <<>>
         ELSE IF s[k].to = l THEN Append(f[k - 1], s[k]) ELSE f[k - 1]]

\* The recursion defines one function, which To reads at the last position.
LEMMA ToIs ==
  ASSUME NEW s \in Seq(Record), NEW l, NEW f, IsFrom(f, s, l, Len(s))
  PROVE  To(s, l) = f[Len(s)]
<1>1. Len(s) \in Nat
  OBVIOUS
<1>2. PICK g : IsFrom(g, s, l, Len(s)) /\ To(s, l) = g[Len(s)]
  BY DEF To, IsFrom
<1> DEFINE S == {n \in Nat : n <= Len(s) => f[n] = g[n]}
<1>3. 0 \in S
  BY <1>1, <1>2 DEF IsFrom
<1>4. ASSUME NEW n \in Nat, n \in S PROVE n + 1 \in S
  <2> SUFFICES ASSUME n + 1 <= Len(s) PROVE f[n + 1] = g[n + 1]
    OBVIOUS
  <2>1. n + 1 \in 0 .. Len(s) /\ n + 1 # 0 /\ (n + 1) - 1 = n
    BY <1>1
  <2>2. f[n] = g[n]
    BY <1>1, <1>4
  <2>3. \A h : IsFrom(h, s, l, Len(s)) =>
          h[n + 1] = IF s[n + 1].to = l THEN Append(h[n], s[n + 1]) ELSE h[n]
    BY <2>1 DEF IsFrom
  <2> QED BY <1>2, <2>2, <2>3
<1>5. S = Nat
  <2>1. S \in SUBSET Nat
    OBVIOUS
  <2> HIDE DEF S
  <2> QED BY <1>3, <1>4, <2>1, NumberInduction
<1> QED BY <1>1, <1>2, <1>5

LEMMA FromExists ==
  ASSUME NEW s \in Seq(Record), NEW l
  PROVE  \E f \in [0 .. Len(s) -> Seq(Record)] : IsFrom(f, s, l, Len(s))
<1> DEFINE D == Seq(Record)
           step == [p \in Nat \X D |->
                      IF p[1] \in 1 .. Len(s) /\ s[p[1]].to = l
                      THEN Append(p[2], s[p[1]]) ELSE p[2]]
<1>1. Len(s) \in Nat /\ \A k \in 1 .. Len(s) : s[k] \in Record
  OBVIOUS
<1>2. step \in Steps(D)
  <2> USE DEF Steps
  <2> SUFFICES ASSUME NEW p \in Nat \X D
               PROVE  (IF p[1] \in 1 .. Len(s) /\ s[p[1]].to = l
                       THEN Append(p[2], s[p[1]]) ELSE p[2]) \in D
    OBVIOUS
  <2>1. p[2] \in D
    OBVIOUS
  <2> QED BY <1>1, <2>1, AppendProperties
<1> DEFINE none == <<>>
           n == Len(s)
<1>3. none \in D /\ n \in Nat
  OBVIOUS
<1>4. PICK f \in [0 .. n -> D] : Recursion(f, none, step, n)
  <2> HIDE DEF D, none, n, step
  <2> QED BY <1>2, <1>3, RecursionExists
<1>5. f[0] = none /\ \A k \in 1 .. n : f[k] = step[<<k, f[k - 1]>>]
  BY <1>4 DEF Recursion
<1> HIDE DEF D
<1>6. ASSUME NEW k \in 1 .. Len(s)
      PROVE  f[k] = IF s[k].to = l THEN Append(f[k - 1], s[k]) ELSE f[k - 1]
  <2>1. k - 1 \in 0 .. Len(s) /\ k \in Nat
    BY <1>1
  <2>2. <<k, f[k - 1]>> \in Nat \X D
    BY <2>1
  <2> QED BY <1>5, <2>2
<1>7. \A k \in 0 .. Len(s) : k = 0 \/ k \in 1 .. Len(s)
  BY <1>1
<1>8. IsFrom(f, s, l, Len(s))
  BY <1>5, <1>6, <1>7 DEF IsFrom
<1> QED BY <1>8 DEF D

LEMMA ToType ==
  ASSUME NEW s \in Seq(Record), NEW l
  PROVE  To(s, l) \in Seq(Record)
<1>1. PICK f \in [0 .. Len(s) -> Seq(Record)] : IsFrom(f, s, l, Len(s))
  BY FromExists
<1>2. Len(s) \in 0 .. Len(s)
  OBVIOUS
<1> QED BY <1>1, <1>2, ToIs

LEMMA ToEmpty ==
  ASSUME NEW l
  PROVE  To(<<>>, l) = <<>>
<1> DEFINE f == [k \in 0 .. 0 |-> <<>>]
<1>1. <<>> \in Seq(Record) /\ Len(<<>>) = 0
  OBVIOUS
<1>2. IsFrom(f, <<>>, l, 0) /\ f[0] = <<>>
  BY DEF IsFrom
<1> HIDE DEF f
<1> QED BY <1>1, <1>2, ToIs

\* An appended record is last among those of its own logger.
LEMMA ToAppend ==
  ASSUME NEW s \in Seq(Record), NEW r \in Record, NEW l
  PROVE  To(Append(s, r), l) = IF r.to = l THEN Append(To(s, l), r) ELSE To(s, l)
<1> DEFINE n == Len(s)
           u == Append(s, r)
<1>1. /\ n \in Nat /\ u \in Seq(Record) /\ Len(u) = n + 1
      /\ \A i \in 1 .. n : u[i] = s[i]
      /\ u[n + 1] = r
  BY AppendProperties
<1>2. PICK f \in [0 .. n -> Seq(Record)] : IsFrom(f, s, l, n)
  BY FromExists
<1>3. PICK g \in [0 .. n + 1 -> Seq(Record)] : IsFrom(g, u, l, n + 1)
  <2> HIDE DEF n, u
  <2> QED BY <1>1, FromExists
<1>4. To(s, l) = f[n] /\ To(u, l) = g[n + 1]
  BY <1>1, <1>2, <1>3, ToIs
<1> HIDE DEF u
<1> DEFINE h == [k \in 0 .. n |-> g[k]]
<1>5. IsFrom(h, s, l, n)
  <2>1. ASSUME NEW k \in 0 .. n
        PROVE  h[k] = IF k = 0 THEN <<>>
                      ELSE IF s[k].to = l THEN Append(h[k - 1], s[k]) ELSE h[k - 1]
    <3>1. CASE k = 0
      BY <1>1, <1>3, <3>1 DEF IsFrom
    <3>2. CASE k # 0
      <4>1. k \in 1 .. n /\ k - 1 \in 0 .. n /\ k \in 0 .. n + 1
        BY <1>1, <3>2
      <4>2. g[k] = IF u[k].to = l THEN Append(g[k - 1], u[k]) ELSE g[k - 1]
        BY <1>3, <3>2, <4>1 DEF IsFrom
      <4>3. h[k] = g[k] /\ h[k - 1] = g[k - 1]
        BY <4>1
      <4> QED BY <1>1, <3>2, <4>1, <4>2, <4>3
    <3> QED BY <3>1, <3>2
  <2>2. h = [k \in 0 .. n |-> h[k]]
    OBVIOUS
  <2> HIDE DEF h
  <2> QED BY <2>1, <2>2 DEF IsFrom
<1>6. To(s, l) = g[n]
  <2>1. h[n] = g[n]
    BY <1>1
  <2> HIDE DEF h
  <2> QED BY <1>5, <2>1, ToIs
<1>7. g[n + 1] = IF r.to = l THEN Append(g[n], r) ELSE g[n]
  <2>1. n + 1 \in 0 .. n + 1 /\ n + 1 # 0 /\ (n + 1) - 1 = n
    BY <1>1
  <2> HIDE DEF n
  <2>2. g[n + 1] = IF u[n + 1].to = l THEN Append(g[n], u[n + 1]) ELSE g[n]
    BY <1>3, <2>1 DEF IsFrom
  <2> QED BY <1>1, <2>2
<1> QED BY <1>4, <1>6, <1>7 DEF u

LEMMA ToConcat ==
  ASSUME NEW s \in Seq(Record), NEW u \in Seq(Record), NEW l
  PROVE  To(s \o u, l) = To(s, l) \o To(u, l)
<1> DEFINE S == {v \in Seq(Record) : To(s \o v, l) = To(s, l) \o To(v, l)}
<1>1. To(s, l) \in Seq(Record)
  BY ToType
<1>2. <<>> \in S
  <2>1. s \o <<>> = s /\ To(s, l) \o <<>> = To(s, l) /\ <<>> \in Seq(Record)
    BY <1>1
  <2> QED BY <2>1, ToEmpty
<1>3. ASSUME NEW v \in S, NEW x \in Record PROVE Append(v, x) \in S
  <2>1. v \in Seq(Record) /\ To(s \o v, l) = To(s, l) \o To(v, l)
    OBVIOUS
  <2>2. To(v, l) \in Seq(Record) /\ s \o v \in Seq(Record) /\ Append(v, x) \in Seq(Record)
    BY <2>1, ToType, AppendProperties
  <2>3. s \o Append(v, x) = Append(s \o v, x)
    BY <2>1, ConcatAppend
  <2>4. To(s, l) \o Append(To(v, l), x) = Append(To(s, l) \o To(v, l), x)
    BY <1>1, <2>2, ConcatAppend
  <2> HIDE DEF S
  <2>5. To(Append(v, x), l) = IF x.to = l THEN Append(To(v, l), x) ELSE To(v, l)
    BY <2>1, ToAppend
  <2>6. To(Append(s \o v, x), l) = IF x.to = l THEN Append(To(s \o v, l), x) ELSE To(s \o v, l)
    BY <2>2, ToAppend
  <2>7. To(s \o Append(v, x), l) = To(s, l) \o To(Append(v, x), l)
    BY <2>1, <2>3, <2>4, <2>5, <2>6
  <2> QED BY <2>2, <2>7 DEF S
<1>4. S \in SUBSET Seq(Record)
  OBVIOUS
<1> HIDE DEF S
<1>5. S = Seq(Record)
  BY <1>2, <1>3, <1>4, SequenceInduction
<1> QED BY <1>5 DEF S

\* The head of a sequence is first among those of its own logger.
LEMMA ToHead ==
  ASSUME NEW s \in Seq(Record), s # <<>>, NEW l
  PROVE  To(s, l) = IF Head(s).to = l THEN <<Head(s)>> \o To(Tail(s), l) ELSE To(Tail(s), l)
<1>1. /\ Head(s) \in Record /\ Tail(s) \in Seq(Record) /\ s = <<Head(s)>> \o Tail(s)
      /\ <<Head(s)>> \in Seq(Record) /\ <<>> \in Seq(Record)
      /\ <<Head(s)>> = Append(<<>>, Head(s))
  OBVIOUS
<1>2. To(s, l) = To(<<Head(s)>>, l) \o To(Tail(s), l)
  <2>1. \A a, b \in Seq(Record) : s = a \o b => To(s, l) = To(a, l) \o To(b, l)
    BY ToConcat
  <2> QED BY <1>1, <2>1
<1>3. To(<<Head(s)>>, l) = IF Head(s).to = l THEN <<Head(s)>> ELSE <<>>
  <2>1. To(Append(<<>>, Head(s)), l)
          = IF Head(s).to = l THEN Append(To(<<>>, l), Head(s)) ELSE To(<<>>, l)
    BY <1>1, ToAppend
  <2>2. To(<<>>, l) = <<>>
    BY ToEmpty
  <2> QED BY <1>1, <2>1, <2>2, Zenon
<1>4. To(Tail(s), l) \in Seq(Record)
  BY <1>1, ToType
<1>5. <<>> \o To(Tail(s), l) = To(Tail(s), l)
  BY <1>4, ConcatEmptySeq
<1> QED BY <1>2, <1>3, <1>5

\* They are as many as Count counts, and just those of the sequence that are for the logger.
LEMMA ToFacts ==
  ASSUME NEW s \in Seq(Record), NEW l
  PROVE  /\ Len(To(s, l)) = Count(s, l)
         /\ Range(To(s, l)) = {r \in Range(s) : r.to = l}
<1> DEFINE Holds(v) == /\ Len(To(v, l)) = Count(v, l)
                       /\ Range(To(v, l)) = {r \in Range(v) : r.to = l}
           S == {v \in Seq(Record) : Holds(v)}
<1>1. <<>> \in S
  <2>1. <<>> \in Seq(Record) /\ Len(<<>>) = 0
    OBVIOUS
  <2>2. Range(<<>>) = {}
    BY <2>1, RangeFacts
  <2> QED BY <2>1, <2>2, ToEmpty, CountEmpty
<1>2. ASSUME NEW v \in S, NEW x \in Record PROVE Append(v, x) \in S
  <2>1. v \in Seq(Record) /\ Len(To(v, l)) = Count(v, l)
        /\ Range(To(v, l)) = {r \in Range(v) : r.to = l}
    OBVIOUS
  <2>2. To(v, l) \in Seq(Record) /\ Append(v, x) \in Seq(Record)
    BY <2>1, ToType, AppendProperties
  <2>3. /\ Len(Append(To(v, l), x)) = Len(To(v, l)) + 1
        /\ Range(Append(To(v, l), x)) = Range(To(v, l)) \cup {x}
        /\ Range(Append(v, x)) = Range(v) \cup {x}
    BY <2>1, <2>2, AppendProperties, RangeFacts
  <2>4. Count(v, l) \in Nat /\ Count(Append(v, x), l) = Count(v, l) + One(x.to = l)
    BY <2>1, CountNat, CountAppend
  <2>5. To(Append(v, x), l) = IF x.to = l THEN Append(To(v, l), x) ELSE To(v, l)
    BY <2>1, ToAppend
  <2>6. Len(To(Append(v, x), l)) = Count(Append(v, x), l)
    BY <2>1, <2>3, <2>4, <2>5 DEF One
  <2>7. Range(To(Append(v, x), l)) = {r \in Range(Append(v, x)) : r.to = l}
    BY <2>1, <2>3, <2>5
  <2> QED BY <2>2, <2>6, <2>7
<1>3. S \in SUBSET Seq(Record)
  OBVIOUS
<1> HIDE DEF S
<1>4. S = Seq(Record)
  BY <1>1, <1>2, <1>3, SequenceInduction
<1> QED BY <1>4 DEF S

-----------------------------------------------------------------------------
(* The type invariant                                                      *)

ThreadPc == {"idle", "append", "appendNotify"} \cup FlushPc \cup DtorPc

\* A notification changes nothing but lets the worker or one flush test again.
LEMMA NotifyFacts ==
  ASSUME TypeOK, NEW tpcs \in [Thread -> ThreadPc], NotifyWorker(tpcs)
  PROVE  /\ wpc' = wpc \/ (wpc = "blocked" /\ wpc' = "check")
         /\ tpc' \in [Thread -> ThreadPc]
         /\ \A t \in Thread :
              \/ tpc'[t] = tpcs[t]
              \/ tpcs[t] = "flushBlocked" /\ tpc'[t] = "flushCheck"
  BY DEF NotifyWorker, ThreadPc, FlushPc

\* The terms of RefMatches are numbers.
LEMMA CountsNat ==
  ASSUME TypeOK, NEW l
  PROVE  /\ IsFiniteSet(Posting(l)) /\ Cardinality(Posting(l)) \in Nat
         /\ Count(logs, l) \in Nat /\ Count(ready, l) \in Nat
<1>1. IsFiniteSet(Posting(l))
  BY AsyncLogAssumption, FS_Subset DEF Posting
<1> QED BY <1>1, FS_CardinalityType, CountNat DEF TypeOK

\* No reference is negative where it is given back.
LEMMA RefPositive ==
  ASSUME TypeOK, RefMatches, WorkerInv, wpc = "unref"
  PROVE  wcur \in Logger /\ ref[wcur] > 0
<1>1. wcur \in Logger
  BY DEF WorkerInv
<1>2. ref[wcur] = Cardinality(Posting(wcur)) + Count(logs, wcur) + Count(ready, wcur)
                  + One(wcur \in held) + One(wpc = "unref" /\ wcur = wcur)
  BY <1>1 DEF RefMatches
<1> QED BY <1>1, <1>2, CountsNat DEF One

LEMMA TypeStep ==
  ASSUME TypeOK, CallInv, WorkerInv, RefMatches, [Next]_vars
  PROVE  TypeOK'
<1> USE AsyncLogAssumption DEF TypeOK, workerVars, threadVars, loggerVars, WorkerPc, ThreadPc
<1>0. tpc \in [Thread -> ThreadPc] /\ ThreadPc = {"idle", "append", "appendNotify"} \cup FlushPc \cup DtorPc
  OBVIOUS
<1>1. ASSUME NEW t \in Thread, NEW l \in Logger, LogBegin(t, l) PROVE TypeOK'
  <2>1. nr' \in [Thread -> 0 .. MaxLogs]
    <3>1. nr \in [Thread -> 0 .. MaxLogs] /\ MaxLogs \in Nat
      OBVIOUS
    <3>2. nr[t] < MaxLogs /\ nr' = [nr EXCEPT ![t] = nr[t] + 1]
      BY <1>1 DEF LogBegin
    <3> HIDE DEF TypeOK
    <3>3. nr[t] + 1 \in 0 .. MaxLogs
      BY <3>1, <3>2
    <3> QED BY ONLY <3>1, <3>2, <3>3
  <2>2. ref' \in [Logger -> Nat]
    <3>1. ref \in [Logger -> Nat]
      OBVIOUS
    <3>2. ref' = [ref EXCEPT ![l] = ref[l] + 1]
      BY <1>1 DEF LogBegin
    <3> QED BY ONLY <3>1, <3>2
  <2>3. tlog' \in [Thread -> Logger \cup {NoLogger}]
    <3>1. tlog \in [Thread -> Logger \cup {NoLogger}] /\ tlog' = [tlog EXCEPT ![t] = l]
      BY <1>1 DEF LogBegin
    <3> QED BY ONLY <3>1, l \in Logger
  <2>4. tpc' \in [Thread -> ThreadPc]
    <3>1. tpc' = [tpc EXCEPT ![t] = "append"]
      BY <1>1 DEF LogBegin, Goto
    <3> QED BY ONLY <1>0, <3>1
  <2>5. UNCHANGED <<logs, waiters, exit, ready, told, buf, held, wcur, last, wpc,
                    flushed, due, life, out>>
    BY <1>1 DEF LogBegin
  <2> QED BY <2>1, <2>2, <2>3, <2>4, <2>5, Zenon
<1>2. ASSUME NEW t \in Thread, AppendRecord(t) PROVE TypeOK'
  <2>1. [to |-> tlog[t], by |-> t, nr |-> nr[t]] \in Record
    BY <1>2 DEF AppendRecord, CallInv, Record
  <2> QED BY <1>2, <2>1 DEF AppendRecord, Goto
<1>3. ASSUME NEW t \in Thread, AppendNotify(t) PROVE TypeOK'
  BY <1>3, NotifyFacts DEF AppendNotify
<1>4. ASSUME NEW t \in Thread, FlushBegin(t) PROVE TypeOK'
  <2>1. ASSUME NEW l \in Logger PROVE Accepted(l) \in Nat
    <3>1. Count(ready, l) \in Nat /\ Count(logs, l) \in Nat
      BY CountNat
    <3>2. out[l] \in Seq(Record) /\ buf[l] \in Seq(Record)
      OBVIOUS
    <3>3. Len(out[l]) \in Nat /\ Len(buf[l]) \in Nat
      BY ONLY <3>2
    <3>4. \A a, b, c, d \in Nat : a + b + c + d \in Nat
      OBVIOUS
    <3>5. Len(out[l]) + Len(buf[l]) + Count(ready, l) + Count(logs, l) \in Nat
      BY ONLY <3>1, <3>3, <3>4
    <3> QED BY ONLY <3>5 DEF Accepted
  <2>2. due' \in [Thread -> [Logger -> Nat]]
    <3>1. due \in [Thread -> [Logger -> Nat]]
      OBVIOUS
    <3>2. due' = [due EXCEPT ![t] = [l \in Logger |-> Accepted(l)]]
      BY <1>4 DEF FlushBegin
    <3>3. [l \in Logger |-> Accepted(l)] \in [Logger -> Nat]
      BY ONLY <2>1
    <3> QED BY ONLY <3>1, <3>2, <3>3
  <2>3. waiters' \in Seq(Thread)
    <3>1. waiters \in Seq(Thread) /\ waiters' = Append(waiters, t)
      BY <1>4 DEF FlushBegin
    <3> QED BY ONLY <3>1, t \in Thread
  <2>4. flushed' \in [Thread -> BOOLEAN]
    <3>1. flushed \in [Thread -> BOOLEAN] /\ flushed' = [flushed EXCEPT ![t] = FALSE]
      BY <1>4 DEF FlushBegin
    <3> QED BY ONLY <3>1
  <2>5. tpc' \in [Thread -> ThreadPc]
    <3>1. tpc' = [tpc EXCEPT ![t] = "flushNotify"]
      BY <1>4 DEF FlushBegin, Goto
    <3> QED BY ONLY <1>0, <3>1 DEF FlushPc
  <2>6. UNCHANGED <<logs, exit, ready, told, buf, held, wcur, last, wpc, tlog, nr, ref, life, out>>
    BY <1>4 DEF FlushBegin
  <2> QED BY <2>2, <2>3, <2>4, <2>5, <2>6, Zenon
<1>5. ASSUME NEW t \in Thread, FlushNotify(t) PROVE TypeOK'
  <2>1. [tpc EXCEPT ![t] = "flushCheck"] \in [Thread -> ThreadPc]
    BY DEF FlushPc
  <2> QED BY <1>5, <2>1, NotifyFacts DEF FlushNotify
<1>6. ASSUME NEW t \in Thread, FlushReturn(t) PROVE TypeOK'
  BY <1>6 DEF FlushReturn, Goto
<1>7. ASSUME NEW t \in Thread, FlushWait(t) PROVE TypeOK'
  BY <1>7 DEF FlushWait, Goto, FlushPc
<1>8. ASSUME NEW t \in Thread, NEW l \in Logger, Destroy(t, l) PROVE TypeOK'
  <2>1. life' \in [Logger -> {"alive", "dying", "dead"}]
    BY <1>8 DEF Destroy
  <2>2. tlog' \in [Thread -> Logger \cup {NoLogger}] /\ tpc' \in [Thread -> ThreadPc]
    <3>1. CASE ref[l] = 0
      BY <1>8, <3>1 DEF Destroy
    <3>2. CASE ref[l] # 0
      <4>1. tlog' = [tlog EXCEPT ![t] = l] /\ tpc' = [tpc EXCEPT ![t] = "dtorCheck"]
        BY <1>8, <3>2, Zenon DEF Destroy, Goto
      <4>2. "dtorCheck" \in ThreadPc
        BY DEF DtorPc
      <4> QED BY <4>1, <4>2
    <3> QED BY <3>1, <3>2
  <2> QED BY <1>8, <2>1, <2>2 DEF Destroy
<1>9. ASSUME NEW t \in Thread, DestroyReturn(t) PROVE TypeOK'
  BY <1>9 DEF DestroyReturn, Goto
<1>10. ASSUME NEW t \in Thread, DestroyWait(t) PROVE TypeOK'
  BY <1>10 DEF DestroyWait, Goto, DtorPc
<1>11. CASE Stop
  BY <1>11 DEF Stop
<1>12. CASE StopNotify
  BY <1>12, NotifyFacts DEF StopNotify
<1>13. CASE SpuriousWakeup
  BY <1>13 DEF SpuriousWakeup, Goto, FlushPc, DtorPc
<1>14. CASE LoopTest \/ WorkerWait \/ WorkerTimeout
  BY <1>14 DEF LoopTest, WorkerWait, WorkerTimeout
<1>23. CASE Take \/ FinalDrain
  <2>1. <<>> \in Seq(Record) /\ <<>> \in Seq(Thread)
    OBVIOUS
  <2> QED BY <1>23, <2>1 DEF Take, FinalDrain
<1>15. CASE FormatRecord
  <2>1. ready \in Seq(Record) /\ ready # <<>>
    BY <1>15 DEF FormatRecord
  <2>2. Head(ready) \in Record /\ Tail(ready) \in Seq(Record)
    BY <2>1
  <2>3. Head(ready).to \in Logger
    BY <2>2 DEF Record
  <2>4. ref' \in [Logger -> Nat]
    <3>1. [ref EXCEPT ![Head(ready).to] = @ + 1] \in [Logger -> Nat]
      BY <2>3
    <3>2. ref' = ref \/ ref' = [ref EXCEPT ![Head(ready).to] = @ + 1]
      BY <1>15, Zenon DEF FormatRecord, Referenced
    <3> QED BY <3>1, <3>2
  <2>5. buf' \in [Logger -> Seq(Record)]
    BY <1>15, <2>2, <2>3 DEF FormatRecord
  <2> QED BY <1>15, <2>2, <2>3, <2>4, <2>5 DEF FormatRecord
<1>16. ASSUME NEW l \in Logger, WriteBuffer(l) PROVE TypeOK'
  BY <1>16 DEF WriteBuffer
<1>17. CASE Unreference
  BY <1>17, RefPositive DEF Unreference
<1>18. CASE NotifyLogger
  BY <1>18 DEF NotifyLogger, DtorPc
<1>19. CASE SetFlushed
  BY <1>19 DEF SetFlushed, Releasing
<1>20. CASE NotifyFlusher
  <2>1. Tail(told) \in Seq(Thread)
    BY <1>20 DEF NotifyFlusher, WorkerInv
  <2> QED BY <1>20, <2>1 DEF NotifyFlusher
<1>21. CASE DrainEnd
  BY <1>21 DEF DrainEnd
<1>22. CASE UNCHANGED vars
  BY <1>22 DEF vars
<1> QED BY <1>1, <1>2, <1>3, <1>4, <1>5, <1>6, <1>7, <1>8, <1>9, <1>10, <1>11, <1>12,
           <1>13, <1>14, <1>15, <1>16, <1>17, <1>18, <1>19, <1>20, <1>21, <1>22, <1>23
        DEF Next, WorkerStep, ThreadStep, Terminated

-----------------------------------------------------------------------------
(* The reference counts                                                    *)

\* A step that moves no record and takes no reference.
LEMMA RefKept ==
  ASSUME RefMatches, UNCHANGED <<ref, logs, ready, held>>,
         \A t \in Thread : /\ tpc'[t] = "append" <=> tpc[t] = "append"
                           /\ tpc[t] = "append" => tlog'[t] = tlog[t],
         wpc' = "unref" <=> wpc = "unref", wpc = "unref" => wcur' = wcur
  PROVE  RefMatches'
<1>1. \A l : Posting(l)' = Posting(l)
  BY DEF Posting
<1>2. \A l : (wpc' = "unref" /\ wcur' = l) <=> (wpc = "unref" /\ wcur = l)
  OBVIOUS
<1> QED BY <1>1, <1>2 DEF RefMatches, One

\* A thread begins to post, or has posted, for one logger.
LEMMA PostingMoves ==
  ASSUME TypeOK, NEW t \in Thread, NEW l
  PROVE  /\ t \notin Posting(l) =>
              Cardinality(Posting(l) \cup {t}) = Cardinality(Posting(l)) + 1
         /\ t \in Posting(l) =>
              Cardinality(Posting(l) \ {t}) = Cardinality(Posting(l)) - 1
  BY CountsNat, FS_AddElement, FS_RemoveElement

LEMMA RefLogBegin ==
  ASSUME TypeOK, RefMatches, NEW t \in Thread, NEW k \in Logger, LogBegin(t, k)
  PROVE  RefMatches'
<1> SUFFICES ASSUME NEW l \in Logger
             PROVE  ref'[l] = Cardinality(Posting(l)') + Count(logs, l) + Count(ready, l)
                              + One(l \in held) + One(wpc = "unref" /\ wcur = l)
  BY DEF RefMatches, LogBegin, workerVars
<1>1. ref[l] = Cardinality(Posting(l)) + Count(logs, l) + Count(ready, l)
               + One(l \in held) + One(wpc = "unref" /\ wcur = l)
  BY DEF RefMatches
<1>2. ref'[l] = ref[l] + One(l = k)
  BY DEF LogBegin, TypeOK, One
<1>3. t \notin Posting(l) /\ Posting(l)' = IF l = k THEN Posting(l) \cup {t} ELSE Posting(l)
  BY DEF LogBegin, Goto, Posting, TypeOK
<1>4. Cardinality(Posting(l)') = Cardinality(Posting(l)) + One(l = k)
  BY <1>3, PostingMoves, CountsNat DEF One
<1> QED BY <1>1, <1>2, <1>4, CountsNat DEF One

LEMMA RefAppendRecord ==
  ASSUME TypeOK, CallInv, RefMatches, NEW t \in Thread, AppendRecord(t)
  PROVE  RefMatches'
<1> DEFINE r == [to |-> tlog[t], by |-> t, nr |-> nr[t]]
<1>0. r \in Record
  BY DEF AppendRecord, CallInv, TypeOK, Record
<1> SUFFICES ASSUME NEW l \in Logger
             PROVE  ref[l] = Cardinality(Posting(l)') + Count(Append(logs, r), l) + Count(ready, l)
                              + One(l \in held) + One(wpc = "unref" /\ wcur = l)
  BY DEF RefMatches, AppendRecord, workerVars, loggerVars
<1>1. ref[l] = Cardinality(Posting(l)) + Count(logs, l) + Count(ready, l)
               + One(l \in held) + One(wpc = "unref" /\ wcur = l)
  BY DEF RefMatches
<1>2. Count(Append(logs, r), l) = Count(logs, l) + One(r.to = l)
  BY <1>0, CountAppend DEF TypeOK
<1>3. /\ t \in Posting(l) <=> r.to = l
      /\ Posting(l)' = Posting(l) \ {t}
  BY DEF AppendRecord, Goto, Posting, TypeOK
<1>4. Cardinality(Posting(l)') = Cardinality(Posting(l)) - One(r.to = l)
  <2>1. CASE r.to = l
    BY <2>1, <1>3, PostingMoves DEF One
  <2>2. CASE r.to # l
    <3>1. Posting(l)' = Posting(l)
      BY <2>2, <1>3
    <3> QED BY <2>2, <3>1, CountsNat DEF One
  <2> QED BY <2>1, <2>2
<1> HIDE DEF r
<1> QED BY <1>1, <1>2, <1>4, CountsNat DEF One

\* The queue changes hands while nothing is being drained.
LEMMA RefTake ==
  ASSUME TypeOK, RefMatches, ready = <<>>, ready' = logs, logs' = <<>>,
         UNCHANGED <<ref, held, tpc, tlog, wcur>>, wpc # "unref", wpc' # "unref"
  PROVE  RefMatches'
<1> SUFFICES ASSUME NEW l \in Logger
             PROVE  ref[l] = Cardinality(Posting(l)') + Count(<<>>, l) + Count(logs, l)
                              + One(l \in held) + One(FALSE)
  BY DEF RefMatches
<1>1. ref[l] = Cardinality(Posting(l)) + Count(logs, l) + Count(<<>>, l)
               + One(l \in held) + One(FALSE)
  BY DEF RefMatches
<1>2. Posting(l)' = Posting(l)
  BY DEF Posting
<1> QED BY <1>1, <1>2, CountsNat, CountEmpty DEF One

LEMMA RefFormatRecord ==
  ASSUME TypeOK, RefMatches, FormatRecord
  PROVE  RefMatches'
<1> DEFINE k == Head(ready).to
<1>0. ready # <<>> /\ ready \in Seq(Record) /\ k \in Logger
  <2>1. ready # <<>> /\ ready \in Seq(Record)
    BY DEF FormatRecord, TypeOK
  <2>2. Head(ready) \in Record
    BY <2>1
  <2> QED BY <2>1, <2>2 DEF Record
<1>1. \A l : Posting(l)' = Posting(l)
  BY DEF FormatRecord, threadVars, Posting
<1>2. /\ wpc = "drain" /\ wpc' = "unref" /\ wcur' = k /\ held' = held \cup {k}
      /\ ready' = Tail(ready) /\ logs' = logs /\ ref' = Referenced(k)
  BY DEF FormatRecord
<1> SUFFICES ASSUME NEW l \in Logger
             PROVE  ref'[l] = Cardinality(Posting(l)) + Count(logs, l) + Count(Tail(ready), l)
                              + One(l \in held \cup {k}) + One(k = l)
  BY <1>1, <1>2 DEF RefMatches
<1>3. ref[l] = Cardinality(Posting(l)) + Count(logs, l) + Count(ready, l)
               + One(l \in held) + One(FALSE)
  BY <1>2 DEF RefMatches
<1>4. Count(ready, l) = Count(Tail(ready), l) + One(k = l)
  BY <1>0, CountHead
<1>5. Tail(ready) \in Seq(Record)
  BY <1>0
<1>6. Count(Tail(ready), l) \in Nat
  BY <1>5, CountNat
<1>7. ref'[l] = ref[l] + One(l = k /\ k \notin held)
  <2>1. ref[l] \in Nat
    BY DEF TypeOK
  <2>2. CASE k \in held
    BY <2>1, <2>2, <1>2 DEF Referenced, One
  <2>3. CASE k \notin held
    <3>1. ref' = [ref EXCEPT ![k] = @ + 1]
      BY <2>3, <1>2 DEF Referenced
    <3> QED BY <2>1, <2>3, <3>1, <1>0 DEF TypeOK, One
  <2> QED BY <2>2, <2>3
<1>8. One(l \in held \cup {k}) = One(l \in held) + One(l = k /\ k \notin held)
  BY DEF One
<1> HIDE DEF k
<1> QED BY <1>3, <1>4, <1>6, <1>7, <1>8, CountsNat DEF One

LEMMA RefWriteBuffer ==
  ASSUME TypeOK, RefMatches, NEW k \in Logger, WriteBuffer(k)
  PROVE  RefMatches'
<1>1. \A l : Posting(l)' = Posting(l)
  BY DEF WriteBuffer, threadVars, Posting
<1>2. /\ wpc = "drain" /\ wpc' = "unref" /\ wcur' = k /\ k \in held /\ held' = held \ {k}
      /\ UNCHANGED <<ready, logs, ref>>
  BY DEF WriteBuffer
<1> SUFFICES ASSUME NEW l \in Logger
             PROVE  ref[l] = Cardinality(Posting(l)) + Count(logs, l) + Count(ready, l)
                              + One(l \in held \ {k}) + One(k = l)
  BY <1>1, <1>2 DEF RefMatches
<1>3. ref[l] = Cardinality(Posting(l)) + Count(logs, l) + Count(ready, l)
               + One(l \in held) + One(FALSE)
  BY <1>2 DEF RefMatches
<1>4. One(l \in held) = One(l \in held \ {k}) + One(k = l)
  BY <1>2 DEF One
<1> QED BY <1>3, <1>4, CountsNat DEF One

LEMMA RefUnreference ==
  ASSUME TypeOK, WorkerInv, RefMatches, Unreference
  PROVE  RefMatches'
<1>1. \A l : Posting(l)' = Posting(l)
  BY DEF Unreference, threadVars, Posting
<1>2. /\ wpc = "unref" /\ wpc' # "unref" /\ wcur \in Logger
      /\ UNCHANGED <<ready, logs, held>> /\ ref' = [ref EXCEPT ![wcur] = @ - 1]
  BY DEF Unreference, WorkerInv
<1> SUFFICES ASSUME NEW l \in Logger
             PROVE  ref'[l] = Cardinality(Posting(l)) + Count(logs, l) + Count(ready, l)
                              + One(l \in held) + One(FALSE)
  BY <1>1, <1>2 DEF RefMatches
<1>3. ref[l] = Cardinality(Posting(l)) + Count(logs, l) + Count(ready, l)
               + One(l \in held) + One(wcur = l)
  BY <1>2 DEF RefMatches
<1>4. ref'[l] = ref[l] - One(wcur = l)
  BY <1>2 DEF TypeOK, One
<1> QED BY <1>3, <1>4, CountsNat DEF One

LEMMA RefStep ==
  ASSUME TypeOK, CallInv, WorkerInv, RefMatches, [Next]_vars
  PROVE  RefMatches'
<1> USE DEF workerVars, threadVars, loggerVars
<1>1. ASSUME NEW t \in Thread, NEW l \in Logger, LogBegin(t, l) PROVE RefMatches'
  BY <1>1, RefLogBegin
<1>2. ASSUME NEW t \in Thread, AppendRecord(t) PROVE RefMatches'
  BY <1>2, RefAppendRecord
<1>3. ASSUME NEW t \in Thread, AppendNotify(t) PROVE RefMatches'
  <2>1. [tpc EXCEPT ![t] = "idle"] \in [Thread -> ThreadPc]
    BY DEF TypeOK, ThreadPc
  <2>2. /\ wpc' = "unref" <=> wpc = "unref"
        /\ \A u \in Thread : tpc'[u] = "append" <=> tpc[u] = "append"
    BY <1>3, <2>1, NotifyFacts DEF AppendNotify, TypeOK
  <2> QED BY <1>3, <2>2, RefKept DEF AppendNotify
<1>4. ASSUME NEW t \in Thread, FlushBegin(t) PROVE RefMatches'
  BY <1>4, RefKept DEF FlushBegin, Goto, TypeOK
<1>5. ASSUME NEW t \in Thread, FlushNotify(t) PROVE RefMatches'
  <2>1. [tpc EXCEPT ![t] = "flushCheck"] \in [Thread -> ThreadPc]
    BY DEF TypeOK, ThreadPc, FlushPc
  <2>2. /\ wpc' = "unref" <=> wpc = "unref"
        /\ \A u \in Thread : tpc'[u] = "append" <=> tpc[u] = "append"
    BY <1>5, <2>1, NotifyFacts DEF FlushNotify, TypeOK
  <2> QED BY <1>5, <2>2, RefKept DEF FlushNotify
<1>6. ASSUME NEW t \in Thread, FlushReturn(t) \/ FlushWait(t) PROVE RefMatches'
  BY <1>6, RefKept DEF FlushReturn, FlushWait, Goto, TypeOK
<1>7. ASSUME NEW t \in Thread, NEW l \in Logger, Destroy(t, l) PROVE RefMatches'
  <2>1. CASE ref[l] = 0
    BY <1>7, <2>1, RefKept DEF Destroy
  <2>2. CASE ref[l] # 0
    BY <1>7, <2>2, RefKept DEF Destroy, Goto, TypeOK
  <2> QED BY <2>1, <2>2
<1>8. ASSUME NEW t \in Thread, DestroyReturn(t) \/ DestroyWait(t) PROVE RefMatches'
  BY <1>8, RefKept DEF DestroyReturn, DestroyWait, Goto, TypeOK
<1>9. CASE Stop
  BY <1>9, RefKept DEF Stop
<1>10. CASE StopNotify
  <2>1. tpc \in [Thread -> ThreadPc]
    BY DEF TypeOK, ThreadPc
  <2>2. /\ wpc' = "unref" <=> wpc = "unref"
        /\ \A u \in Thread : tpc'[u] = "append" <=> tpc[u] = "append"
    BY <1>10, <2>1, NotifyFacts DEF StopNotify, TypeOK
  <2> QED BY <1>10, <2>2, RefKept DEF StopNotify
<1>11. CASE SpuriousWakeup
  BY <1>11, RefKept DEF SpuriousWakeup, Goto, TypeOK
<1>12. CASE LoopTest \/ WorkerWait \/ WorkerTimeout
  BY <1>12, RefKept DEF LoopTest, WorkerWait, WorkerTimeout
<1>13. CASE Take \/ FinalDrain
  BY <1>13, RefTake DEF Take, FinalDrain, WorkerInv, InDrain
<1>14. CASE FormatRecord
  BY <1>14, RefFormatRecord
<1>15. ASSUME NEW l \in Logger, WriteBuffer(l) PROVE RefMatches'
  BY <1>15, RefWriteBuffer
<1>16. CASE Unreference
  BY <1>16, RefUnreference
<1>17. CASE NotifyLogger
  BY <1>17, RefKept DEF NotifyLogger
<1>18. CASE SetFlushed \/ NotifyFlusher \/ DrainEnd
  BY <1>18, RefKept DEF SetFlushed, NotifyFlusher, DrainEnd
<1>19. CASE UNCHANGED vars
  BY <1>19, RefKept DEF vars
<1> QED BY <1>1, <1>2, <1>3, <1>4, <1>5, <1>6, <1>7, <1>8, <1>9, <1>10, <1>11, <1>12,
           <1>13, <1>14, <1>15, <1>16, <1>17, <1>18, <1>19
        DEF Next, WorkerStep, ThreadStep, Terminated

-----------------------------------------------------------------------------
(* Where the threads and the worker are                                    *)

LEMMA WorkerInvStep ==
  ASSUME TypeOK, WorkerInv, [Next]_vars
  PROVE  WorkerInv'
<1> USE DEF WorkerInv, InDrain, workerVars, threadVars, loggerVars
<1>1. ASSUME NEW tpcs \in [Thread -> ThreadPc], NotifyWorker(tpcs),
             UNCHANGED <<ready, told, held, wcur>>
      PROVE  WorkerInv'
  BY <1>1, NotifyFacts
<1>2. ASSUME NEW t \in Thread, AppendNotify(t) PROVE WorkerInv'
  <2>1. [tpc EXCEPT ![t] = "idle"] \in [Thread -> ThreadPc]
    BY DEF TypeOK, ThreadPc
  <2> QED BY <1>1, <1>2, <2>1 DEF AppendNotify
<1>3. ASSUME NEW t \in Thread, FlushNotify(t) PROVE WorkerInv'
  <2>1. [tpc EXCEPT ![t] = "flushCheck"] \in [Thread -> ThreadPc]
    BY DEF TypeOK, ThreadPc, FlushPc
  <2> QED BY <1>1, <1>3, <2>1 DEF FlushNotify
<1>4. CASE StopNotify
  <2>1. tpc \in [Thread -> ThreadPc]
    BY DEF TypeOK, ThreadPc
  <2> QED BY <1>1, <1>4, <2>1 DEF StopNotify
<1>5. CASE UNCHANGED workerVars
  BY <1>5
<1>6. CASE SpuriousWakeup
  BY <1>6 DEF SpuriousWakeup
<1>7. CASE LoopTest \/ WorkerWait \/ WorkerTimeout \/ Take \/ FinalDrain
  BY <1>7 DEF LoopTest, WorkerWait, WorkerTimeout, Take, FinalDrain
<1>8. CASE FormatRecord
  <2>1. ready # <<>> /\ ready \in Seq(Record)
    BY <1>8 DEF FormatRecord, TypeOK
  <2>2. Head(ready) \in Record
    BY <2>1
  <2> QED BY <1>8, <2>2 DEF FormatRecord, Record
<1>9. ASSUME NEW l \in Logger, WriteBuffer(l) PROVE WorkerInv'
  BY <1>9 DEF WriteBuffer
<1>10. CASE Unreference \/ NotifyLogger
  BY <1>10 DEF Unreference, NotifyLogger
<1>11. CASE SetFlushed \/ NotifyFlusher \/ DrainEnd
  BY <1>11 DEF SetFlushed, Releasing, AllWritten, NotifyFlusher, DrainEnd
<1>12. ASSUME NEW t \in Thread, NEW l \in Logger, LogBegin(t, l) \/ Destroy(t, l)
       PROVE  UNCHANGED workerVars
  BY <1>12 DEF LogBegin, Destroy
<1>13. ASSUME NEW t \in Thread,
              AppendRecord(t) \/ FlushBegin(t) \/ FlushReturn(t) \/ FlushWait(t)
              \/ DestroyReturn(t) \/ DestroyWait(t)
       PROVE  UNCHANGED workerVars
  BY <1>13 DEF AppendRecord, FlushBegin, FlushReturn, FlushWait, DestroyReturn, DestroyWait
<1>14. Stop \/ UNCHANGED vars => UNCHANGED workerVars
  BY DEF Stop, vars
<1> QED BY <1>2, <1>3, <1>4, <1>5, <1>6, <1>7, <1>8, <1>9, <1>10, <1>11, <1>12, <1>13, <1>14
        DEF Next, WorkerStep, ThreadStep, Terminated

\* The steps that only let threads or the worker go on with a wait.
Wakeup ==
  \/ \E t \in Thread : AppendNotify(t) \/ FlushNotify(t) \/ FlushWait(t) \/ DestroyWait(t)
  \/ StopNotify \/ SpuriousWakeup \/ NotifyLogger

LEMMA WakeupFacts ==
  ASSUME TypeOK, Wakeup
  PROVE  /\ UNCHANGED <<logs, ready, buf, held, last, tlog, nr, ref, life, out>>
         /\ UNCHANGED <<waiters, told, flushed, due>>
         /\ stop' = stop
         /\ wpc' = "ended" <=> wpc = "ended"
         /\ wpc' = "tell" <=> wpc = "tell"
         /\ InDrain' <=> InDrain
         /\ \A u \in Thread :
              \/ tpc'[u] = tpc[u]
              \/ tpc[u] = "appendNotify" /\ tpc'[u] = "idle"
              \/ tpc[u] \in FlushPc /\ tpc'[u] \in FlushPc
              \/ tpc[u] \in DtorPc /\ tpc'[u] \in DtorPc
<1> DEFINE Facts == /\ UNCHANGED <<logs, ready, buf, held, last, tlog, nr, ref, life, out>>
                    /\ UNCHANGED <<waiters, told, flushed, due>>
                    /\ stop' = stop
                    /\ wpc' = "ended" <=> wpc = "ended"
                    /\ wpc' = "tell" <=> wpc = "tell"
                    /\ InDrain' <=> InDrain
                    /\ \A u \in Thread :
                         \/ tpc'[u] = tpc[u]
                         \/ tpc[u] = "appendNotify" /\ tpc'[u] = "idle"
                         \/ tpc[u] \in FlushPc /\ tpc'[u] \in FlushPc
                         \/ tpc[u] \in DtorPc /\ tpc'[u] \in DtorPc
<1> USE DEF TypeOK, workerVars, threadVars, loggerVars, ThreadPc, FlushPc, DtorPc, stop
<1>1. ASSUME NEW t \in Thread, AppendNotify(t) PROVE Facts
  <2> DEFINE tpcs == [tpc EXCEPT ![t] = "idle"]
  <2>1. tpcs \in [Thread -> ThreadPc]
    OBVIOUS
  <2>2. NotifyWorker(tpcs) /\ tpc[t] = "appendNotify"
        /\ UNCHANGED <<logs, ready, buf, held, last, tlog, nr, ref, life, out>> /\ stop' = stop
        /\ UNCHANGED <<waiters, told, flushed, due>>
    BY <1>1 DEF AppendNotify
  <2>3. tpc \in [Thread -> ThreadPc]
    OBVIOUS
  <2>4. \A u \in Thread : tpcs[u] = IF u = t THEN "idle" ELSE tpc[u]
    BY ONLY <2>3
  <2> HIDE DEF tpcs
  <2>5. /\ wpc' = wpc \/ (wpc = "blocked" /\ wpc' = "check")
        /\ \A u \in Thread : \/ tpc'[u] = tpcs[u]
                             \/ tpcs[u] = "flushBlocked" /\ tpc'[u] = "flushCheck"
    BY <2>1, <2>2, NotifyFacts
  <2>6. \A u \in Thread :
          \/ tpc'[u] = tpc[u]
          \/ tpc[u] = "appendNotify" /\ tpc'[u] = "idle"
          \/ tpc[u] \in FlushPc /\ tpc'[u] \in FlushPc
          \/ tpc[u] \in DtorPc /\ tpc'[u] \in DtorPc
    BY ONLY <2>2, <2>4, <2>5 DEF FlushPc
  <2>7. /\ wpc' = "ended" <=> wpc = "ended"
        /\ wpc' = "tell" <=> wpc = "tell"
        /\ InDrain' <=> InDrain
    BY ONLY <2>5 DEF InDrain
  <2> QED BY <2>2, <2>6, <2>7
<1>2. ASSUME NEW t \in Thread, FlushNotify(t) PROVE Facts
  <2> DEFINE tpcs == [tpc EXCEPT ![t] = "flushCheck"]
  <2>1. tpcs \in [Thread -> ThreadPc]
    OBVIOUS
  <2>2. NotifyWorker(tpcs) /\ tpc[t] = "flushNotify"
        /\ UNCHANGED <<logs, ready, buf, held, last, tlog, nr, ref, life, out>> /\ stop' = stop
        /\ UNCHANGED <<waiters, told, flushed, due>>
    BY <1>2 DEF FlushNotify
  <2>3. tpc \in [Thread -> ThreadPc]
    OBVIOUS
  <2>4. \A u \in Thread : tpcs[u] = IF u = t THEN "flushCheck" ELSE tpc[u]
    BY ONLY <2>3
  <2> HIDE DEF tpcs
  <2>5. /\ wpc' = wpc \/ (wpc = "blocked" /\ wpc' = "check")
        /\ \A u \in Thread : \/ tpc'[u] = tpcs[u]
                             \/ tpcs[u] = "flushBlocked" /\ tpc'[u] = "flushCheck"
    BY <2>1, <2>2, NotifyFacts
  <2>6. \A u \in Thread :
          \/ tpc'[u] = tpc[u]
          \/ tpc[u] = "appendNotify" /\ tpc'[u] = "idle"
          \/ tpc[u] \in FlushPc /\ tpc'[u] \in FlushPc
          \/ tpc[u] \in DtorPc /\ tpc'[u] \in DtorPc
    BY ONLY <2>2, <2>4, <2>5 DEF FlushPc
  <2>7. /\ wpc' = "ended" <=> wpc = "ended"
        /\ wpc' = "tell" <=> wpc = "tell"
        /\ InDrain' <=> InDrain
    BY ONLY <2>5 DEF InDrain
  <2> QED BY <2>2, <2>6, <2>7
<1>3. ASSUME StopNotify PROVE Facts
  BY <1>3, NotifyFacts DEF StopNotify, InDrain
<1>4. ASSUME SpuriousWakeup PROVE Facts
  BY <1>4 DEF SpuriousWakeup, Goto, InDrain
<1>5. ASSUME NEW t \in Thread, FlushWait(t) \/ DestroyWait(t) PROVE Facts
  BY <1>5 DEF FlushWait, DestroyWait, Goto, InDrain
<1>6. ASSUME NotifyLogger PROVE Facts
  BY <1>6 DEF NotifyLogger, InDrain
<1>7. Facts
  <2> HIDE DEF Facts
  <2> QED BY <1>1, <1>2, <1>3, <1>4, <1>5, <1>6, Zenon DEF Wakeup
<1> QED BY <1>7

LEMMA CallStep ==
  ASSUME TypeOK, CallInv, [Next]_vars
  PROVE  CallInv'
<1> USE DEF CallInv, workerVars, threadVars, loggerVars, DtorPc, FlushPc
<1>1. CASE Wakeup
  <2> SUFFICES ASSUME NEW u \in Thread
               PROVE  /\ tpc'[u] = "append" => /\ tlog'[u] \in Logger /\ life'[tlog'[u]] = "alive"
                                               /\ nr'[u] > 0
                      /\ tpc'[u] \in DtorPc => tlog'[u] \in Logger /\ life'[tlog'[u]] # "alive"
    OBVIOUS
  <2>1. /\ tlog' = tlog /\ nr' = nr /\ life' = life
        /\ \/ tpc'[u] = tpc[u]
           \/ tpc[u] = "appendNotify" /\ tpc'[u] = "idle"
           \/ tpc[u] \in FlushPc /\ tpc'[u] \in FlushPc
           \/ tpc[u] \in DtorPc /\ tpc'[u] \in DtorPc
    BY <1>1, WakeupFacts
  <2>2. /\ tpc[u] = "append" => /\ tlog[u] \in Logger /\ life[tlog[u]] = "alive"
                                /\ nr[u] > 0
        /\ tpc[u] \in DtorPc => tlog[u] \in Logger /\ life[tlog[u]] # "alive"
    OBVIOUS
  <2> QED BY ONLY <2>1, <2>2 DEF FlushPc, DtorPc
<1>2. ASSUME NEW t \in Thread, NEW l \in Logger, LogBegin(t, l) PROVE CallInv'
  <2>1. /\ tpc \in [Thread -> ThreadPc] /\ nr \in [Thread -> 0 .. MaxLogs]
        /\ tlog \in [Thread -> Logger \cup {NoLogger}] /\ MaxLogs \in Nat
    BY AsyncLogAssumption DEF TypeOK, ThreadPc
  <2>2. /\ life[l] = "alive" /\ life' = life
        /\ nr' = [nr EXCEPT ![t] = nr[t] + 1]
        /\ tlog' = [tlog EXCEPT ![t] = l]
        /\ tpc' = [tpc EXCEPT ![t] = "append"]
    BY <1>2 DEF LogBegin, Goto
  <2>3. nr'[t] > 0 /\ tlog'[t] = l /\ tpc'[t] = "append"
    BY ONLY <2>1, <2>2
  <2>4. \A u \in Thread \ {t} : nr'[u] = nr[u] /\ tlog'[u] = tlog[u] /\ tpc'[u] = tpc[u]
    BY ONLY <2>1, <2>2
  <2> QED BY <2>2, <2>3, <2>4
<1>3. ASSUME NEW t \in Thread, AppendRecord(t) PROVE CallInv'
  BY <1>3 DEF AppendRecord, Goto, TypeOK
<1>4. ASSUME NEW t \in Thread, FlushBegin(t) \/ FlushReturn(t) PROVE CallInv'
  BY <1>4 DEF FlushBegin, FlushReturn, Goto, TypeOK
<1>5. ASSUME NEW t \in Thread, NEW l \in Logger, Destroy(t, l) PROVE CallInv'
  <2>1. CASE ref[l] = 0
    BY <1>5, <2>1 DEF Destroy, TypeOK
  <2>2. CASE ref[l] # 0
    BY <1>5, <2>2 DEF Destroy, Goto, TypeOK
  <2> QED BY <2>1, <2>2
<1>6. ASSUME NEW t \in Thread, DestroyReturn(t) PROVE CallInv'
  BY <1>6 DEF DestroyReturn, Goto, TypeOK
<1>7. CASE Stop \/ UNCHANGED vars
  BY <1>7 DEF Stop, vars
<1>8. CASE UNCHANGED <<tpc, tlog, nr, life>>
  BY <1>8
<1>9. ASSUME WorkerStep, ~Wakeup PROVE UNCHANGED <<tpc, tlog, nr, life>>
  BY <1>9 DEF WorkerStep, Wakeup, LoopTest, WorkerWait, WorkerTimeout, Take, FinalDrain,
              FormatRecord, WriteBuffer, Unreference, SetFlushed, NotifyFlusher, DrainEnd
<1> QED BY <1>1, <1>2, <1>3, <1>4, <1>5, <1>6, <1>7, <1>8, <1>9
        DEF Next, ThreadStep, Terminated, Wakeup

LEMMA BufferStep ==
  ASSUME TypeOK, BufferInv, [Next]_vars
  PROVE  BufferInv'
<1> USE DEF BufferInv, workerVars, threadVars, loggerVars
<1>1. CASE UNCHANGED <<buf, held>>
  BY <1>1
<1>2. CASE FormatRecord
  <2>1. ready # <<>> /\ ready \in Seq(Record)
    BY <1>2 DEF FormatRecord, TypeOK
  <2>2. Head(ready) \in Record
    BY <2>1
  <2>3. ASSUME NEW l \in Logger PROVE Append(buf[l], Head(ready)) # <<>>
    <3>1. buf[l] \in Seq(Record)
      BY DEF TypeOK
    <3>2. Len(Append(buf[l], Head(ready))) # 0
      BY <2>2, <3>1, AppendProperties, LenProperties
    <3>3. Len(<<>>) = 0
      OBVIOUS
    <3> QED BY <3>2, <3>3
  <2> QED BY <1>2, <2>2, <2>3 DEF FormatRecord, TypeOK, Record
<1>3. ASSUME NEW l \in Logger, WriteBuffer(l) PROVE BufferInv'
  BY <1>3 DEF WriteBuffer, TypeOK
<1>4. CASE Wakeup
  BY <1>4, WakeupFacts
<1>5. ASSUME NEW t \in Thread, NEW l \in Logger, LogBegin(t, l) \/ Destroy(t, l)
      PROVE  UNCHANGED <<buf, held>>
  BY <1>5 DEF LogBegin, Destroy
<1>6. ASSUME NEW t \in Thread,
             AppendRecord(t) \/ FlushBegin(t) \/ FlushReturn(t) \/ DestroyReturn(t)
      PROVE  UNCHANGED <<buf, held>>
  BY <1>6 DEF AppendRecord, FlushBegin, FlushReturn, DestroyReturn
<1>7. CASE Stop \/ UNCHANGED vars \/ LoopTest \/ WorkerWait \/ WorkerTimeout \/ Take \/ FinalDrain
           \/ Unreference \/ SetFlushed \/ NotifyFlusher \/ DrainEnd
  BY <1>7 DEF Stop, vars, LoopTest, WorkerWait, WorkerTimeout, Take, FinalDrain,
              Unreference, SetFlushed, NotifyFlusher, DrainEnd
<1> QED BY <1>1, <1>2, <1>3, <1>4, <1>5, <1>6, <1>7
        DEF Next, WorkerStep, ThreadStep, Terminated, Wakeup

LEMMA EndStep ==
  ASSUME TypeOK, EndInv, [Next]_vars
  PROVE  EndInv'
<1> USE DEF EndInv, workerVars, threadVars, loggerVars, stop, DtorPc, FlushPc
<1>1. CASE Wakeup
  BY <1>1, WakeupFacts
<1>2. ASSUME NEW t \in Thread, NEW l \in Logger, LogBegin(t, l) PROVE EndInv'
  BY <1>2 DEF LogBegin
<1>3. ASSUME NEW t \in Thread, AppendRecord(t) \/ FlushBegin(t) \/ FlushReturn(t)
      PROVE  EndInv'
  BY <1>3 DEF AppendRecord, FlushBegin, FlushReturn
<1>4. ASSUME NEW t \in Thread, NEW l \in Logger, Destroy(t, l) PROVE EndInv'
  <2>1. CASE ref[l] = 0
    BY <1>4, <2>1 DEF Destroy
  <2>2. CASE ref[l] # 0
    BY <1>4, <2>2 DEF Destroy, Goto, TypeOK
  <2> QED BY <2>1, <2>2
<1>5. ASSUME NEW t \in Thread, DestroyReturn(t) PROVE EndInv'
  BY <1>5 DEF DestroyReturn, Goto, TypeOK
<1>6. CASE Stop
  BY <1>6 DEF Stop
<1>7. CASE LoopTest \/ WorkerWait \/ WorkerTimeout \/ Take \/ FinalDrain
  BY <1>7 DEF LoopTest, WorkerWait, WorkerTimeout, Take, FinalDrain
<1>8. CASE FormatRecord \/ Unreference \/ SetFlushed \/ NotifyFlusher \/ DrainEnd
  BY <1>8 DEF FormatRecord, Unreference, SetFlushed, NotifyFlusher, DrainEnd
<1>9. ASSUME NEW l \in Logger, WriteBuffer(l) PROVE EndInv'
  BY <1>9 DEF WriteBuffer
<1>10. CASE UNCHANGED vars
  BY <1>10 DEF vars
<1> QED BY <1>1, <1>2, <1>3, <1>4, <1>5, <1>6, <1>7, <1>8, <1>9, <1>10
        DEF Next, WorkerStep, ThreadStep, Terminated, Wakeup

-----------------------------------------------------------------------------
(* A logger that is gone is not used                                       *)

\* When the count is zero the worker has nothing of the logger.
LEMMA ZeroMeansUnused ==
  ASSUME TypeOK, BufferInv, RefMatches, NEW l \in Logger, ref[l] = 0
  PROVE  /\ Count(logs, l) = 0 /\ Count(ready, l) = 0
         /\ l \notin held /\ buf[l] = <<>>
         /\ ~(wpc = "unref" /\ wcur = l)
<1>1. ref[l] = Cardinality(Posting(l)) + Count(logs, l) + Count(ready, l)
               + One(l \in held) + One(wpc = "unref" /\ wcur = l)
  BY DEF RefMatches
<1>2. One(l \in held) \in 0..1 /\ One(wpc = "unref" /\ wcur = l) \in 0..1
  BY DEF One
<1>3. /\ Count(logs, l) = 0 /\ Count(ready, l) = 0
      /\ One(l \in held) = 0 /\ One(wpc = "unref" /\ wcur = l) = 0
  <2> DEFINE p == Cardinality(Posting(l))
             c == Count(logs, l)
             d == Count(ready, l)
             h == One(l \in held)
             u == One(wpc = "unref" /\ wcur = l)
  <2>1. p \in Nat /\ c \in Nat /\ d \in Nat /\ h \in 0..1 /\ u \in 0..1
    BY <1>2, CountsNat
  <2>2. p + c + d + h + u = 0
    BY <1>1
  <2> HIDE DEF p, c, d, h, u
  <2>3. c = 0 /\ d = 0 /\ h = 0 /\ u = 0
    BY <2>1, <2>2
  <2> QED BY <2>3 DEF c, d, h, u
<1> QED BY <1>3 DEF One, BufferInv

LEMMA AliveStep ==
  ASSUME TypeOK, CallInv, WorkerInv, BufferInv, RefMatches, UsedAlive, [Next]_vars
  PROVE  UsedAlive'
<1> USE DEF workerVars, threadVars, loggerVars
<1>1. CASE UNCHANGED <<buf, held, logs, ready, life>>
  BY <1>1 DEF UsedAlive
<1>2. ASSUME NEW l \in Logger, ref[l] = 0, life' = [life EXCEPT ![l] = "dead"],
             UNCHANGED <<buf, held, logs, ready>>
      PROVE  UsedAlive'
  BY <1>2, ZeroMeansUnused DEF UsedAlive, TypeOK
<1>3. ASSUME NEW t \in Thread, NEW l \in Logger, Destroy(t, l) PROVE UsedAlive'
  <2>1. CASE ref[l] = 0
    BY <1>2, <1>3, <2>1 DEF Destroy
  <2>2. CASE ref[l] # 0
    BY <1>3, <2>2 DEF Destroy, UsedAlive, TypeOK
  <2> QED BY <2>1, <2>2
<1>4. ASSUME NEW t \in Thread, DestroyReturn(t) PROVE UsedAlive'
  <2>1. tlog[t] \in Logger
    BY <1>4 DEF DestroyReturn, CallInv, DtorPc
  <2> QED BY <1>2, <1>4, <2>1 DEF DestroyReturn
<1>5. ASSUME NEW t \in Thread, AppendRecord(t) PROVE UsedAlive'
  <2> DEFINE r == [to |-> tlog[t], by |-> t, nr |-> nr[t]]
  <2>1. r \in Record /\ life[r.to] # "dead"
    BY <1>5 DEF AppendRecord, CallInv, TypeOK, Record
  <2>2. ASSUME NEW l \in Logger, life[l] = "dead" PROVE Count(Append(logs, r), l) = 0
    <3>1. Count(Append(logs, r), l) = Count(logs, l) + One(r.to = l)
      BY <2>1, CountAppend DEF TypeOK
    <3> QED BY <2>1, <2>2, <3>1 DEF UsedAlive, One
  <2> QED BY <1>5, <2>2 DEF AppendRecord, UsedAlive
<1>6. CASE Take \/ FinalDrain
  <2>1. ready' = logs /\ logs' = <<>> /\ UNCHANGED <<buf, held, life>>
    BY <1>6 DEF Take, FinalDrain
  <2> QED BY <2>1, CountEmpty DEF UsedAlive
<1>7. CASE FormatRecord
  <2> DEFINE k == Head(ready).to
  <2>1. ready # <<>> /\ ready \in Seq(Record)
    BY <1>7 DEF FormatRecord, TypeOK
  <2>2. Head(ready) \in Record /\ Tail(ready) \in Seq(Record)
    BY <2>1
  <2>3. k \in Logger
    BY <2>2 DEF Record
  <2>4. \A l : /\ Count(ready, l) = Count(Tail(ready), l) + One(k = l)
               /\ Count(Tail(ready), l) \in Nat
    BY <2>1, <2>2, CountHead, CountNat
  <2>5. ASSUME NEW l \in Logger, life[l] = "dead" PROVE k # l /\ Count(Tail(ready), l) = 0
    BY <2>4, <2>5 DEF UsedAlive, One
  <2>6. /\ held' = held \cup {k} /\ buf' = [buf EXCEPT ![k] = Append(@, Head(ready))]
        /\ ready' = Tail(ready) /\ UNCHANGED <<logs, life>>
    BY <1>7 DEF FormatRecord
  <2> HIDE DEF k
  <2> QED BY <2>3, <2>5, <2>6 DEF UsedAlive, TypeOK
<1>8. ASSUME NEW l \in Logger, WriteBuffer(l) PROVE UsedAlive'
  BY <1>8 DEF WriteBuffer, UsedAlive, TypeOK
<1>9. CASE Wakeup
  BY <1>1, <1>9, WakeupFacts
<1>10. ASSUME NEW t \in Thread, NEW l \in Logger, LogBegin(t, l) PROVE UsedAlive'
  BY <1>1, <1>10 DEF LogBegin
<1>11. ASSUME NEW t \in Thread, FlushBegin(t) \/ FlushReturn(t) PROVE UsedAlive'
  BY <1>1, <1>11 DEF FlushBegin, FlushReturn
<1>12. CASE Stop \/ UNCHANGED vars \/ LoopTest \/ WorkerWait \/ WorkerTimeout
            \/ Unreference \/ SetFlushed \/ NotifyFlusher \/ DrainEnd
  BY <1>1, <1>12 DEF Stop, vars, LoopTest, WorkerWait, WorkerTimeout,
              Unreference, SetFlushed, NotifyFlusher, DrainEnd
<1> QED BY <1>3, <1>4, <1>5, <1>6, <1>7, <1>8, <1>9, <1>10, <1>11, <1>12
        DEF Next, WorkerStep, ThreadStep, Terminated, Wakeup

-----------------------------------------------------------------------------
(* No record is lost                                                       *)

\* A step in which no thread logs and no record disappears.
LEMMA RecordKept ==
  ASSUME TypeOK, RecordInv, nr' = nr,
         \A t \in Thread : tpc[t] = "append" => tpc'[t] = "append",
         \A r \in Record : Somewhere(r) => Somewhere(r)'
  PROVE  RecordInv'
<1> SUFFICES ASSUME NEW t \in Thread, NEW n \in 1 .. nr[t], ~(tpc'[t] = "append" /\ n = nr[t])
             PROVE  \E l \in Logger : Somewhere([to |-> l, by |-> t, nr |-> n])'
  BY DEF RecordInv
<1>1. PICK l \in Logger : Somewhere([to |-> l, by |-> t, nr |-> n])
  BY DEF RecordInv
<1>2. [to |-> l, by |-> t, nr |-> n] \in Record
  BY AsyncLogAssumption DEF TypeOK, Record
<1> QED BY <1>1, <1>2

LEMMA RecordStep ==
  ASSUME TypeOK, CallInv, WorkerInv, RecordInv, [Next]_vars
  PROVE  RecordInv'
<1> USE DEF workerVars, threadVars, loggerVars
<1>1. CASE /\ UNCHANGED <<buf, out, logs, ready, nr>>
           /\ \A t \in Thread : tpc[t] = "append" => tpc'[t] = "append"
  BY <1>1, RecordKept DEF Somewhere
<1>2. ASSUME NEW t \in Thread, NEW l \in Logger, LogBegin(t, l) PROVE RecordInv'
  <2>1. /\ nr' = [nr EXCEPT ![t] = @ + 1] /\ tpc' = [tpc EXCEPT ![t] = "append"]
        /\ tpc[t] = "idle" /\ UNCHANGED <<buf, out, logs, ready>>
    BY <1>2 DEF LogBegin, Goto
  <2>2. \A r : Somewhere(r)' <=> Somewhere(r)
    BY <2>1 DEF Somewhere
  <2> SUFFICES ASSUME NEW u \in Thread, NEW n \in 1 .. nr'[u], ~(tpc'[u] = "append" /\ n = nr'[u])
               PROVE  \E k \in Logger : Somewhere([to |-> k, by |-> u, nr |-> n])
    BY <2>2 DEF RecordInv
  <2>3. n \in 1 .. nr[u] /\ ~(tpc[u] = "append" /\ n = nr[u])
    BY <2>1 DEF TypeOK
  <2> QED BY <2>3 DEF RecordInv
<1>3. ASSUME NEW t \in Thread, AppendRecord(t) PROVE RecordInv'
  <2> DEFINE r == [to |-> tlog[t], by |-> t, nr |-> nr[t]]
  <2>1. /\ logs' = Append(logs, r) /\ UNCHANGED <<buf, out, ready, nr>>
        /\ \A u \in Thread : u # t => tpc'[u] = tpc[u]
    BY <1>3 DEF AppendRecord, Goto, TypeOK
  <2>2. r \in Record /\ tlog[t] \in Logger
    BY <1>3 DEF AppendRecord, CallInv, TypeOK, Record
  <2>3. Range(logs') = Range(logs) \cup {r}
    BY <2>1, <2>2, RangeFacts DEF TypeOK
  <2>4. \A q : Somewhere(q) \/ q = r => Somewhere(q)'
    BY <2>1, <2>3 DEF Somewhere
  <2> SUFFICES ASSUME NEW u \in Thread, NEW n \in 1 .. nr[u], ~(tpc'[u] = "append" /\ n = nr[u])
               PROVE  \E k \in Logger : Somewhere([to |-> k, by |-> u, nr |-> n])'
    BY <2>1 DEF RecordInv
  <2>5. CASE u = t /\ n = nr[t]
    BY <2>2, <2>4, <2>5
  <2>6. CASE ~(u = t /\ n = nr[t])
    <3>1. ~(tpc[u] = "append" /\ n = nr[u])
      BY <2>1, <2>6
    <3>2. PICK k \in Logger : Somewhere([to |-> k, by |-> u, nr |-> n])
      BY <3>1 DEF RecordInv
    <3> QED BY <2>4, <3>2
  <2> QED BY <2>5, <2>6
<1>4. CASE Take \/ FinalDrain
  <2>1. /\ ready = <<>> /\ ready' = logs /\ UNCHANGED <<buf, out, nr, tpc>>
    BY <1>4 DEF Take, FinalDrain, WorkerInv, InDrain
  <2>2. Range(ready) = {}
    BY <2>1, RangeFacts DEF TypeOK
  <2>3. \A r : Somewhere(r) => Somewhere(r)'
    BY <2>1, <2>2 DEF Somewhere
  <2> QED BY <2>1, <2>3, RecordKept
<1>5. CASE FormatRecord
  <2>1. ready # <<>> /\ ready \in Seq(Record)
    BY <1>5 DEF FormatRecord, TypeOK
  <2>2. Head(ready) \in Record
    BY <2>1
  <2>3. Head(ready).to \in Logger
    BY <2>2 DEF Record
  <2>4. Range(ready) = {Head(ready)} \cup Range(Tail(ready))
    BY <2>1, RangeFacts
  <2>5. /\ buf' = [buf EXCEPT ![Head(ready).to] = Append(@, Head(ready))]
        /\ ready' = Tail(ready) /\ UNCHANGED <<logs, out, nr, tpc>>
    BY <1>5 DEF FormatRecord
  <2>6. Range(buf'[Head(ready).to]) = Range(buf[Head(ready).to]) \cup {Head(ready)}
    BY <2>2, <2>3, <2>5, RangeFacts DEF TypeOK
  <2>7. \A r \in Record : Somewhere(r) => Somewhere(r)'
    <3> SUFFICES ASSUME NEW r \in Record, Somewhere(r) PROVE Somewhere(r)'
      OBVIOUS
    <3>1. CASE r = Head(ready)
      BY <2>6, <3>1 DEF Somewhere
    <3>2. CASE r # Head(ready) /\ r.to = Head(ready).to
      BY <2>4, <2>5, <2>6, <3>2 DEF Somewhere
    <3>3. CASE r.to # Head(ready).to
      <4>1. buf'[r.to] = buf[r.to]
        BY <2>5, <3>3 DEF TypeOK, Record
      <4> QED BY <2>4, <2>5, <3>3, <4>1 DEF Somewhere
    <3> QED BY <3>1, <3>2, <3>3
  <2> QED BY <2>5, <2>7, RecordKept
<1>6. ASSUME NEW l \in Logger, WriteBuffer(l) PROVE RecordInv'
  <2>1. /\ out' = [out EXCEPT ![l] = @ \o buf[l]] /\ buf' = [buf EXCEPT ![l] = <<>>]
        /\ UNCHANGED <<logs, ready, nr, tpc>>
    BY <1>6 DEF WriteBuffer
  <2>2. Range(out'[l]) = Range(out[l]) \cup Range(buf[l])
    BY <2>1, RangeFacts DEF TypeOK
  <2>3. \A r \in Record : Somewhere(r) => Somewhere(r)'
    <3> SUFFICES ASSUME NEW r \in Record, Somewhere(r) PROVE Somewhere(r)'
      OBVIOUS
    <3>1. CASE r.to = l
      BY <2>1, <2>2, <3>1 DEF Somewhere
    <3>2. CASE r.to # l
      <4>1. buf'[r.to] = buf[r.to] /\ out'[r.to] = out[r.to]
        BY <2>1, <3>2 DEF TypeOK, Record
      <4> QED BY <2>1, <4>1 DEF Somewhere
    <3> QED BY <3>1, <3>2
  <2> QED BY <2>1, <2>3, RecordKept
<1>7. CASE Wakeup
  <2>1. \A t \in Thread : tpc[t] = "append" => tpc'[t] = "append"
    BY <1>7, WakeupFacts DEF FlushPc, DtorPc
  <2> QED BY <1>1, <1>7, <2>1, WakeupFacts
<1>8. ASSUME NEW t \in Thread, FlushBegin(t) \/ FlushReturn(t) \/ DestroyReturn(t) PROVE RecordInv'
  BY <1>1, <1>8 DEF FlushBegin, FlushReturn, DestroyReturn, Goto, TypeOK
<1>9. ASSUME NEW t \in Thread, NEW l \in Logger, Destroy(t, l) PROVE RecordInv'
  <2>1. CASE ref[l] = 0
    BY <1>1, <1>9, <2>1 DEF Destroy
  <2>2. CASE ref[l] # 0
    BY <1>1, <1>9, <2>2 DEF Destroy, Goto, TypeOK
  <2> QED BY <2>1, <2>2
<1>10. CASE Stop \/ UNCHANGED vars \/ LoopTest \/ WorkerWait \/ WorkerTimeout
            \/ Unreference \/ SetFlushed \/ NotifyFlusher \/ DrainEnd
  BY <1>1, <1>10 DEF Stop, vars, LoopTest, WorkerWait, WorkerTimeout,
              Unreference, SetFlushed, NotifyFlusher, DrainEnd
<1> QED BY <1>2, <1>3, <1>4, <1>5, <1>6, <1>7, <1>8, <1>9, <1>10
        DEF Next, WorkerStep, ThreadStep, Terminated, Wakeup

-----------------------------------------------------------------------------
(* The theorems                                                            *)

LEMMA InitInv == Init => IInv
<1> SUFFICES ASSUME Init PROVE IInv
  OBVIOUS
<1> USE AsyncLogAssumption DEF Init
<1>1. <<>> \in Seq(Record) /\ <<>> \in Seq(Thread)
  OBVIOUS
<1>2. TypeOK
  <2>1. /\ buf \in [Logger -> Seq(Record)] /\ out \in [Logger -> Seq(Record)]
        /\ ref \in [Logger -> Nat] /\ life \in [Logger -> {"alive", "dying", "dead"}]
    BY <1>1
  <2>2. /\ tlog \in [Thread -> Logger \cup {NoLogger}] /\ nr \in [Thread -> 0 .. MaxLogs]
        /\ flushed \in [Thread -> BOOLEAN] /\ due \in [Thread -> [Logger -> Nat]]
    OBVIOUS
  <2> QED BY <1>1, <2>1, <2>2 DEF TypeOK, WorkerPc
<1>3. CallInv /\ WorkerInv /\ BufferInv /\ EndInv
  BY DEF CallInv, WorkerInv, InDrain, BufferInv, EndInv, DtorPc, stop
<1>4. RefMatches
  <2>1. \A l : Posting(l) = {}
    BY DEF Posting
  <2>2. \A l : Cardinality(Posting(l)) = 0
    BY <2>1, FS_EmptySet
  <2>3. \A l : Count(logs, l) = 0 /\ Count(ready, l) = 0
    BY CountEmpty
  <2> QED BY <2>2, <2>3 DEF RefMatches, One
<1>5. UsedAlive
  BY DEF UsedAlive
<1>6. RecordInv
  BY DEF RecordInv
<1> QED BY <1>2, <1>3, <1>4, <1>5, <1>6 DEF IInv

\* IInv is an invariant: it holds at first and no step of a thread or of the
\* worker breaks it.
THEOREM Inductive == Spec => []IInv
<1>1. IInv /\ [Next]_vars => IInv'
  BY TypeStep, CallStep, WorkerInvStep, BufferStep, EndStep, RefStep, AliveStep, RecordStep
     DEF IInv
<1> QED BY InitInv, <1>1, PTL DEF Spec

\* Every variable of the worker, the threads and the loggers keeps its type; the
\* unsigned ref_ never goes below zero.
THEOREM TypeCorrect == Spec => []TypeOK
<1>1. IInv => TypeOK
  BY DEF IInv
<1> QED BY <1>1, Inductive, PTL

\* The count of a logger is exact at every step.
THEOREM CountsExact == Spec => []RefMatches
<1>1. IInv => RefMatches
  BY DEF IInv
<1> QED BY <1>1, Inductive, PTL

\* The worker has no record and no buffer of a logger that is gone.
THEOREM NoUseAfterDestroy == Spec => []UsedAlive
<1>1. IInv => UsedAlive
  BY DEF IInv
<1> QED BY <1>1, Inductive, PTL

\* When the worker has ended everything logged is written and every count is zero.
THEOREM EverythingWritten == Spec => []NothingLost
<1>1. IInv => NothingLost
  <2> SUFFICES ASSUME IInv, wpc = "ended" PROVE NothingLost!2
    BY DEF NothingLost
  <2>1. /\ logs = <<>> /\ ready = <<>> /\ held = {}
        /\ \A t \in Thread : tpc[t] # "append"
    BY DEF IInv, EndInv, WorkerInv, InDrain, DtorPc
  <2>2. \A l \in Logger : ref[l] = 0
    <3>1. \A l : Posting(l) = {}
      BY <2>1 DEF Posting
    <3>2. \A l : Cardinality(Posting(l)) = 0
      BY <3>1, FS_EmptySet
    <3>3. \A l : Count(logs, l) = 0 /\ Count(ready, l) = 0
      BY <2>1, CountEmpty
    <3> QED BY <2>1, <3>2, <3>3 DEF IInv, RefMatches, One
  <2>3. Range(logs) = {} /\ Range(ready) = {} /\ \A l \in Logger : Range(buf[l]) = {}
    <3>1. \A l \in Logger : buf[l] = <<>>
      BY <2>1 DEF IInv, BufferInv
    <3>2. <<>> \in Seq(Record)
      OBVIOUS
    <3> QED BY <2>1, <3>1, <3>2, RangeFacts
  <2>4. ASSUME NEW t \in Thread, NEW n \in 1 .. nr[t]
        PROVE  \E l \in Logger : [to |-> l, by |-> t, nr |-> n] \in Range(out[l])
    <3>1. PICK l \in Logger : Somewhere([to |-> l, by |-> t, nr |-> n])
      BY <2>1 DEF IInv, RecordInv
    <3> QED BY <2>3, <3>1 DEF Somewhere
  <2> QED BY <2>2, <2>4
<1> QED BY <1>1, Inductive, PTL

-----------------------------------------------------------------------------
(* AsyncLog implements Log: what else the mapping needs                    *)

\* A record that has been posted, wherever it is.
Present(r) ==
  \/ \E l \in Logger : r \in Range(out[l]) \/ r \in Range(buf[l])
  \/ r \in Range(ready) \/ r \in Range(logs)

\* The record a thread is about to post is nowhere yet.
FreshInv ==
  \A r \in Record : Present(r) =>
    /\ r.nr <= nr[r.by]
    /\ tpc[r.by] = "append" => r.nr # nr[r.by]

\* The waiters this drain_ has still to release, the one it is notifying left out:
\* that one may have returned and called flush again.
Unflushed == IF wpc = "tell" THEN Tail(told) ELSE told

\* Who is on a list is in flush, once, and not yet released.
FlushInv ==
  /\ ~InDrain => told = <<>>
  /\ IsInjective(Unflushed) /\ IsInjective(waiters)
  /\ Range(Unflushed) \cap Range(waiters) = {}
  /\ \A t \in Range(Unflushed) \cup Range(waiters) : tpc[t] \in FlushPc /\ ~flushed[t]

\* The records of a logger that are written or in the hands of the worker.
InHand(l) == Len(out[l]) + Len(buf[l]) + Count(ready, l)

\* What a flush waits for is still to be taken, is in this drain_, or is written.
DueInv ==
  \A t \in Thread, l \in Logger :
    /\ tpc[t] \notin FlushPc => due[t][l] = 0
    /\ tpc[t] \in FlushPc /\ flushed[t] => due[t][l] <= Len(out[l])
    /\ t \in Range(Unflushed) => due[t][l] <= InHand(l)
    /\ t \in Range(waiters) => due[t][l] <= Accepted(l)

LogInv == FreshInv /\ FlushInv /\ DueInv

\* The steps of the worker that only move it on.
Moving == LoopTest \/ WorkerWait \/ WorkerTimeout \/ Unreference \/ DrainEnd

LEMMA MovingFacts ==
  ASSUME WorkerInv, Moving
  PROVE  /\ UNCHANGED <<logs, waiters, ready, told, buf, out, held, threadVars, life>>
         /\ wpc # "tell" /\ wpc' # "tell" /\ wpc # "ended"
         /\ ~InDrain' => ~InDrain \/ told = <<>>
  BY DEF Moving, LoopTest, WorkerWait, WorkerTimeout, Unreference, DrainEnd, WorkerInv, InDrain,
         workerVars, loggerVars

\* The steps of a thread that begins or ends a call on a logger.
Calling(t) == DestroyReturn(t) \/ \E l \in Logger : LogBegin(t, l) \/ Destroy(t, l)

LEMMA CallingFacts ==
  ASSUME TypeOK, NEW t \in Thread, Calling(t)
  PROVE  /\ UNCHANGED <<logs, waiters, exit, workerVars, flushed, due, out>>
         /\ \A u \in Thread \ {t} : tpc'[u] = tpc[u]
         /\ tpc[t] \notin FlushPc /\ tpc'[t] \notin FlushPc
<1>1. CASE DestroyReturn(t)
  BY <1>1 DEF DestroyReturn, Goto, TypeOK, FlushPc
<1>2. ASSUME NEW l \in Logger, LogBegin(t, l)
      PROVE  /\ UNCHANGED <<logs, waiters, exit, workerVars, flushed, due, out>>
             /\ \A u \in Thread \ {t} : tpc'[u] = tpc[u]
             /\ tpc[t] \notin FlushPc /\ tpc'[t] \notin FlushPc
  BY <1>2 DEF LogBegin, Goto, TypeOK, FlushPc
<1>3. ASSUME NEW l \in Logger, Destroy(t, l)
      PROVE  /\ UNCHANGED <<logs, waiters, exit, workerVars, flushed, due, out>>
             /\ \A u \in Thread \ {t} : tpc'[u] = tpc[u]
             /\ tpc[t] \notin FlushPc /\ tpc'[t] \notin FlushPc
  <2>1. CASE ref[l] = 0
    BY <1>3, <2>1 DEF Destroy, FlushPc
  <2>2. CASE ref[l] # 0
    BY <1>3, <2>2 DEF Destroy, Goto, TypeOK, FlushPc
  <2> QED BY <2>1, <2>2
<1> QED BY <1>1, <1>2, <1>3 DEF Calling

\* The steps there are.
LEMMA StepKinds ==
  ASSUME [Next]_vars
  PROVE  \/ Wakeup \/ Moving \/ UNCHANGED vars \/ Stop
         \/ \E t \in Thread : Calling(t) \/ AppendRecord(t) \/ FlushBegin(t) \/ FlushReturn(t)
         \/ Take \/ FinalDrain \/ FormatRecord \/ SetFlushed \/ NotifyFlusher
         \/ \E l \in Logger : WriteBuffer(l)
  BY DEF Next, WorkerStep, ThreadStep, Terminated, Wakeup, Moving, Calling

-----------------------------------------------------------------------------
(* Fresh records                                                           *)

LEMMA FreshKept ==
  ASSUME FreshInv, nr' = nr,
         \A t \in Thread : tpc'[t] = "append" => tpc[t] = "append",
         \A r \in Record : Present(r)' => Present(r)
  PROVE  FreshInv'
<1>1. \A r \in Record : r.by \in Thread
  BY DEF Record
<1> QED BY <1>1 DEF FreshInv

LEMMA FreshStep ==
  ASSUME TypeOK, CallInv, WorkerInv, FreshInv, [Next]_vars
  PROVE  FreshInv'
<1> USE DEF workerVars, threadVars, loggerVars
<1>1. CASE /\ UNCHANGED <<buf, out, logs, ready, nr>>
           /\ \A t \in Thread : tpc'[t] = "append" => tpc[t] = "append"
  BY <1>1, FreshKept DEF Present
<1>2. ASSUME NEW t \in Thread, NEW l \in Logger, LogBegin(t, l) PROVE FreshInv'
  <2>1. /\ nr' = [nr EXCEPT ![t] = @ + 1] /\ tpc' = [tpc EXCEPT ![t] = "append"]
        /\ UNCHANGED <<buf, out, logs, ready>>
    BY <1>2 DEF LogBegin, Goto
  <2>2. \A r : Present(r)' <=> Present(r)
    BY <2>1 DEF Present
  <2> SUFFICES ASSUME NEW r \in Record, Present(r)
               PROVE  r.nr <= nr'[r.by] /\ (tpc'[r.by] = "append" => r.nr # nr'[r.by])
    BY <2>2 DEF FreshInv
  <2>3. r.by \in Thread /\ r.nr \in 1 .. MaxLogs /\ MaxLogs \in Nat /\ nr[r.by] \in 0 .. MaxLogs
    BY AsyncLogAssumption DEF Record, TypeOK
  <2>4. r.nr <= nr[r.by] /\ (tpc[r.by] = "append" => r.nr # nr[r.by])
    BY DEF FreshInv
  <2>5. CASE r.by = t
    <3>1. nr'[r.by] = nr[r.by] + 1
      BY <2>1, <2>5 DEF TypeOK
    <3> QED BY ONLY <2>3, <2>4, <3>1
  <2>6. CASE r.by # t
    BY <2>1, <2>3, <2>4, <2>6 DEF TypeOK
  <2> QED BY <2>5, <2>6
<1>3. ASSUME NEW t \in Thread, AppendRecord(t) PROVE FreshInv'
  <2> DEFINE q == [to |-> tlog[t], by |-> t, nr |-> nr[t]]
  <2>1. /\ logs' = Append(logs, q) /\ UNCHANGED <<buf, out, ready, nr>>
        /\ tpc[t] = "append"
        /\ tpc'[t] # "append" /\ \A u \in Thread : u # t => tpc'[u] = tpc[u]
    BY <1>3 DEF AppendRecord, Goto, TypeOK
  <2>2. q \in Record /\ q.by = t /\ q.nr = nr[t] /\ nr[t] \in Nat
    BY <1>3 DEF AppendRecord, CallInv, TypeOK, Record
  <2> HIDE DEF q
  <2>3. Range(logs') = Range(logs) \cup {q}
    BY <2>1, <2>2, RangeFacts DEF TypeOK
  <2>4. \A r : Present(r)' => Present(r) \/ r = q
    BY <2>1, <2>3 DEF Present
  <2> SUFFICES ASSUME NEW r \in Record, Present(r) \/ r = q
               PROVE  r.nr <= nr[r.by] /\ (tpc'[r.by] = "append" => r.nr # nr[r.by])
    BY <2>1, <2>4 DEF FreshInv
  <2>5. CASE r = q
    BY <2>1, <2>2, <2>5
  <2>6. CASE Present(r)
    <3>1. r.by \in Thread
      BY DEF Record
    <3> QED BY <2>1, <2>6, <3>1 DEF FreshInv
  <2> QED BY <2>5, <2>6
<1>4. CASE Take \/ FinalDrain
  <2>1. /\ logs' = <<>> /\ ready' = logs /\ UNCHANGED <<buf, out, nr, tpc>>
    BY <1>4 DEF Take, FinalDrain
  <2>2. Range(logs') = {}
    <3>1. <<>> \in Seq(Record)
      OBVIOUS
    <3> QED BY <2>1, <3>1, RangeFacts
  <2>3. \A r \in Record : Present(r)' => Present(r)
    BY <2>1, <2>2 DEF Present
  <2> QED BY <2>1, <2>3, FreshKept
<1>5. CASE FormatRecord
  <2>1. ready # <<>> /\ ready \in Seq(Record)
    BY <1>5 DEF FormatRecord, TypeOK
  <2>2. Head(ready) \in Record
    BY <2>1
  <2>3. Head(ready).to \in Logger
    BY <2>2 DEF Record
  <2>4. Range(ready) = {Head(ready)} \cup Range(Tail(ready))
    BY <2>1, RangeFacts
  <2>5. /\ buf' = [buf EXCEPT ![Head(ready).to] = Append(@, Head(ready))]
        /\ ready' = Tail(ready) /\ UNCHANGED <<logs, out, nr, tpc>>
    BY <1>5 DEF FormatRecord
  <2>6. \A l \in Logger : Range(buf'[l]) \subseteq Range(buf[l]) \cup {Head(ready)}
    <3> SUFFICES ASSUME NEW l \in Logger PROVE Range(buf'[l]) \subseteq Range(buf[l]) \cup {Head(ready)}
      OBVIOUS
    <3>1. buf[l] \in Seq(Record)
      BY DEF TypeOK
    <3>2. Range(Append(buf[l], Head(ready))) = Range(buf[l]) \cup {Head(ready)}
      BY <2>2, <3>1, RangeFacts
    <3>3. buf'[l] = buf[l] \/ buf'[l] = Append(buf[l], Head(ready))
      BY <2>5 DEF TypeOK
    <3> QED BY <3>2, <3>3
  <2>7. \A r \in Record : Present(r)' => Present(r)
    BY <2>4, <2>5, <2>6 DEF Present
  <2> QED BY <2>5, <2>7, FreshKept
<1>6. ASSUME NEW l \in Logger, WriteBuffer(l) PROVE FreshInv'
  <2>1. /\ out' = [out EXCEPT ![l] = @ \o buf[l]] /\ buf' = [buf EXCEPT ![l] = <<>>]
        /\ UNCHANGED <<logs, ready, nr, tpc>>
    BY <1>6 DEF WriteBuffer
  <2>2. Range(out[l] \o buf[l]) = Range(out[l]) \cup Range(buf[l]) /\ Range(<<>>) = {}
    <3>1. <<>> \in Seq(Record) /\ out[l] \in Seq(Record) /\ buf[l] \in Seq(Record)
      BY DEF TypeOK
    <3>2. Range(<<>>) = {}
      BY <3>1, RangeFacts
    <3>3. Range(out[l] \o buf[l]) = Range(out[l]) \cup Range(buf[l])
      BY <3>1, RangeFacts
    <3> QED BY <3>2, <3>3
  <2>3. \A k \in Logger : /\ out'[k] = IF k = l THEN out[l] \o buf[l] ELSE out[k]
                          /\ buf'[k] = IF k = l THEN <<>> ELSE buf[k]
    BY <2>1 DEF TypeOK
  <2>4. \A r \in Record : Present(r)' => Present(r)
    BY <2>1, <2>2, <2>3 DEF Present
  <2> QED BY <2>1, <2>4, FreshKept
<1>7. CASE Wakeup
  <2>1. \A t \in Thread : tpc'[t] = "append" => tpc[t] = "append"
    BY <1>7, WakeupFacts DEF FlushPc, DtorPc
  <2> QED BY <1>1, <1>7, <2>1, WakeupFacts
<1>8. ASSUME NEW t \in Thread, FlushBegin(t) \/ FlushReturn(t) \/ DestroyReturn(t) PROVE FreshInv'
  BY <1>1, <1>8 DEF FlushBegin, FlushReturn, DestroyReturn, Goto, TypeOK
<1>9. ASSUME NEW t \in Thread, NEW l \in Logger, Destroy(t, l) PROVE FreshInv'
  <2>1. CASE ref[l] = 0
    BY <1>1, <1>9, <2>1 DEF Destroy
  <2>2. CASE ref[l] # 0
    BY <1>1, <1>9, <2>2 DEF Destroy, Goto, TypeOK
  <2> QED BY <2>1, <2>2
<1>10. CASE Stop \/ UNCHANGED vars \/ SetFlushed \/ NotifyFlusher
  BY <1>1, <1>10 DEF Stop, vars, SetFlushed, NotifyFlusher
<1>11. CASE Moving
  BY <1>1, <1>11, MovingFacts
<1> QED BY <1>2, <1>3, <1>4, <1>5, <1>6, <1>7, <1>8, <1>9, <1>10, <1>11, StepKinds
        DEF Calling

-----------------------------------------------------------------------------
(* Flushes                                                                 *)

\* The head of a list without duplicates is not in its tail.
LEMMA TailOfList ==
  ASSUME NEW S, NEW s \in Seq(S), s # <<>>, IsInjective(s)
  PROVE  /\ Tail(s) \in Seq(S) /\ IsInjective(Tail(s))
         /\ Head(s) \in Range(s) /\ Head(s) \notin Range(Tail(s))
         /\ Range(Tail(s)) \subseteq Range(s)
<1>1. /\ Len(s) \in Nat /\ Len(s) > 0 /\ DOMAIN s = 1 .. Len(s)
      /\ DOMAIN Tail(s) = 1 .. Len(s) - 1
      /\ \A i \in 1 .. Len(s) - 1 : Tail(s)[i] = s[i + 1]
      /\ Head(s) = s[1] /\ Tail(s) \in Seq(S)
  OBVIOUS
<1>2. \A i, j \in DOMAIN s : s[i] = s[j] => i = j
  BY DEF IsInjective
<1>3. IsInjective(Tail(s))
  BY <1>1, <1>2 DEF IsInjective
<1>4. Range(Tail(s)) = {s[i + 1] : i \in 1 .. Len(s) - 1}
  BY <1>1 DEF Range
<1>5. Head(s) \in Range(s) /\ Range(Tail(s)) \subseteq Range(s)
  BY <1>1, <1>4 DEF Range
<1>6. Head(s) \notin Range(Tail(s))
  BY <1>1, <1>2, <1>4
<1> QED BY <1>1, <1>3, <1>5, <1>6

LEMMA EmptyList ==
  /\ IsInjective(<<>>) /\ Range(<<>>) = {}
  /\ <<>> \in Seq(Thread) /\ <<>> \in Seq(Record)
<1>1. DOMAIN <<>> = {}
  OBVIOUS
<1> QED BY <1>1 DEF IsInjective, Range

\* A step that changes neither list and lets nobody on them go.
LEMMA FlushKept ==
  ASSUME TypeOK, FlushInv, Unflushed' = Unflushed, waiters' = waiters,
         ~InDrain' => told' = <<>>,
         \A t \in Thread : tpc[t] \in FlushPc /\ ~flushed[t] => tpc'[t] \in FlushPc /\ ~flushed'[t],
         Range(Unflushed) \cup Range(waiters) \subseteq Thread
  PROVE  FlushInv'
  BY DEF FlushInv

LEMMA OnLists ==
  ASSUME TypeOK, WorkerInv
  PROVE  /\ Unflushed \in Seq(Thread)
         /\ Range(Unflushed) \cup Range(waiters) \subseteq Thread
<1>1. told \in Seq(Thread) /\ waiters \in Seq(Thread)
  BY DEF TypeOK
<1>2. Unflushed \in Seq(Thread)
  BY <1>1 DEF Unflushed, WorkerInv
<1> QED BY <1>1, <1>2, RangeConcat

LEMMA FlushStep ==
  ASSUME TypeOK, WorkerInv, BufferInv, FlushInv, [Next]_vars
  PROVE  FlushInv'
<1> USE DEF workerVars, threadVars, loggerVars
<1>1. Unflushed \in Seq(Thread) /\ Range(Unflushed) \cup Range(waiters) \subseteq Thread
  BY OnLists
<1>2. ~InDrain => told = <<>>
  BY DEF FlushInv
<1>3. CASE Wakeup
  <2>1. UNCHANGED <<told, waiters, flushed>> /\ (wpc' = "tell" <=> wpc = "tell") /\ (InDrain' <=> InDrain)
    BY <1>3, WakeupFacts
  <2>2. \A t \in Thread : tpc[t] \in FlushPc => tpc'[t] \in FlushPc
    BY <1>3, WakeupFacts DEF FlushPc, DtorPc
  <2>3. Unflushed' = Unflushed
    BY <2>1 DEF Unflushed
  <2> QED BY <1>1, <1>2, <2>1, <2>2, <2>3, FlushKept
<1>4. CASE Moving
  <2>1. /\ UNCHANGED <<told, waiters, flushed, tpc>> /\ wpc # "tell" /\ wpc' # "tell"
        /\ ~InDrain' => ~InDrain \/ told = <<>>
    BY <1>4, MovingFacts
  <2>2. Unflushed' = Unflushed
    BY <2>1 DEF Unflushed
  <2> QED BY <1>1, <1>2, <2>1, <2>2, FlushKept
<1>5. ASSUME NEW t \in Thread, Calling(t) PROVE FlushInv'
  <2>1. /\ UNCHANGED <<told, waiters, flushed, wpc>>
        /\ \A u \in Thread \ {t} : tpc'[u] = tpc[u]
        /\ tpc[t] \notin FlushPc /\ tpc'[t] \notin FlushPc
    BY <1>5, CallingFacts
  <2>2. Unflushed' = Unflushed /\ (InDrain' <=> InDrain)
    BY <2>1 DEF Unflushed, InDrain
  <2>3. \A u \in Thread : tpc[u] \in FlushPc => tpc'[u] \in FlushPc
    BY <2>1
  <2> QED BY <1>1, <1>2, <2>1, <2>2, <2>3, FlushKept
<1>6. CASE Stop \/ UNCHANGED vars \/ FormatRecord
           \/ (\E t \in Thread : AppendRecord(t)) \/ (\E l \in Logger : WriteBuffer(l))
  <2>1. /\ UNCHANGED <<told, waiters, flushed>>
        /\ wpc' = wpc \/ (wpc = "drain" /\ wpc' = "unref")
        /\ \A t \in Thread : tpc[t] \in FlushPc => tpc'[t] \in FlushPc
    <3>1. CASE \E t \in Thread : AppendRecord(t)
      BY <3>1 DEF AppendRecord, Goto, TypeOK, FlushPc
    <3>2. CASE Stop \/ UNCHANGED vars \/ FormatRecord \/ \E l \in Logger : WriteBuffer(l)
      BY <3>2 DEF Stop, vars, FormatRecord, WriteBuffer
    <3> QED BY <1>6, <3>1, <3>2
  <2>2. Unflushed' = Unflushed /\ (InDrain' <=> InDrain)
    BY <2>1 DEF Unflushed, InDrain
  <2> QED BY <1>1, <1>2, <2>1, <2>2, FlushKept
<1>7. ASSUME NEW t \in Thread, FlushReturn(t) PROVE FlushInv'
  <2>1. /\ UNCHANGED <<told, waiters, flushed, wpc>> /\ flushed[t]
        /\ \A u \in Thread \ {t} : tpc'[u] = tpc[u]
    BY <1>7 DEF FlushReturn, Goto, TypeOK
  <2>2. Unflushed' = Unflushed /\ (InDrain' <=> InDrain)
    BY <2>1 DEF Unflushed, InDrain
  <2>3. \A u \in Thread : tpc[u] \in FlushPc /\ ~flushed[u] => tpc'[u] \in FlushPc /\ ~flushed'[u]
    BY <2>1
  <2> QED BY <1>1, <1>2, <2>1, <2>2, <2>3, FlushKept
<1>8. ASSUME NEW t \in Thread, FlushBegin(t) PROVE FlushInv'
  <2>1. /\ waiters' = Append(waiters, t) /\ UNCHANGED <<told, wpc>>
        /\ flushed' = [flushed EXCEPT ![t] = FALSE]
        /\ tpc' = [tpc EXCEPT ![t] = "flushNotify"]
        /\ tpc[t] \notin FlushPc /\ waiters \in Seq(Thread)
    BY <1>8 DEF FlushBegin, Goto, FlushPc, TypeOK
  <2>2. Unflushed' = Unflushed /\ (InDrain' <=> InDrain)
    BY <2>1 DEF Unflushed, InDrain
  <2>3. t \notin Range(Unflushed) /\ t \notin Range(waiters)
    BY <2>1 DEF FlushInv
  <2>4. Range(waiters') = Range(waiters) \cup {t}
    BY <2>1, RangeAppend
  <2>5. IsInjective(waiters')
    <3>1. t \notin ToSet(waiters)
      BY <2>3 DEF Range, ToSet
    <3> QED BY <2>1, <3>1, ToSetAppend DEF FlushInv
  <2>6. \A u \in Thread : (tpc[u] \in FlushPc /\ ~flushed[u]) \/ u = t
                          => tpc'[u] \in FlushPc /\ ~flushed'[u]
    BY <2>1 DEF TypeOK, FlushPc
  <2>7. \A u \in Range(Unflushed) \cup Range(waiters') : tpc'[u] \in FlushPc /\ ~flushed'[u]
    BY <1>1, <2>4, <2>6 DEF FlushInv
  <2> QED BY <1>2, <2>1, <2>2, <2>3, <2>4, <2>5, <2>7 DEF FlushInv
<1>9. CASE Take \/ FinalDrain
  <2>1. /\ told' = waiters /\ waiters' = <<>> /\ wpc' = "drain" /\ UNCHANGED <<tpc, flushed>>
    BY <1>9 DEF Take, FinalDrain
  <2>2. Unflushed' = waiters /\ InDrain'
    BY <2>1 DEF Unflushed, InDrain
  <2> QED BY <2>1, <2>2, EmptyList DEF FlushInv
<1>10. CASE SetFlushed
  <2>1. /\ told # <<>> /\ wpc = "drain" /\ wpc' = "tell" /\ UNCHANGED <<told, waiters, tpc>>
        /\ flushed' = [flushed EXCEPT ![Head(told)] = TRUE]
    BY <1>10 DEF SetFlushed, Releasing
  <2>2. Unflushed = told /\ Unflushed' = Tail(told) /\ InDrain'
    BY <2>1 DEF Unflushed, InDrain
  <2>3. /\ IsInjective(Tail(told))
        /\ Head(told) \in Range(told) /\ Head(told) \notin Range(Tail(told))
        /\ Range(Tail(told)) \subseteq Range(told)
    BY <1>1, <2>1, <2>2, TailOfList DEF FlushInv
  <2>4. Head(told) \notin Range(waiters)
    BY <2>2, <2>3 DEF FlushInv
  <2>5. \A u \in Range(Tail(told)) \cup Range(waiters) : u # Head(told) /\ flushed'[u] = flushed[u]
    BY <1>1, <2>1, <2>2, <2>3, <2>4 DEF TypeOK
  <2> QED BY <2>1, <2>2, <2>3, <2>5 DEF FlushInv
<1>11. CASE NotifyFlusher
  <2>1. /\ told' = Tail(told) /\ wpc = "tell" /\ wpc' = "drain" /\ UNCHANGED <<waiters, tpc, flushed>>
    BY <1>11 DEF NotifyFlusher
  <2>2. Unflushed' = Unflushed /\ InDrain'
    BY <2>1 DEF Unflushed, InDrain
  <2> QED BY <1>1, <2>1, <2>2, FlushKept
<1> QED BY <1>3, <1>4, <1>5, <1>6, <1>7, <1>8, <1>9, <1>10, <1>11, StepKinds

\* How one step changes what is written, buffered, being drained and queued of a logger:
\* not at all, one record is queued, the queue is taken, one record is formatted, the
\* buffer is written.
Moved(o, b, c, d, o1, b1, c1, d1) ==
  \/ o1 = o /\ b1 = b /\ c1 = c /\ (d1 = d \/ d1 = d + 1)
  \/ o1 = o /\ b1 = b /\ c = 0 /\ c1 = d /\ d1 = 0
  \/ o1 = o /\ b1 = b + 1 /\ c = c1 + 1 /\ d1 = d
  \/ o1 = o + b /\ b1 = 0 /\ c1 = c /\ d1 = d

Grown(o, b, c, d, o1, b1, c1, d1) ==
  /\ o \in Nat /\ o + b + c \in Nat /\ o + b + c + d \in Nat
  /\ o1 \in Nat /\ o1 + b1 + c1 \in Nat /\ o1 + b1 + c1 + d1 \in Nat
  /\ o1 >= o /\ o1 + b1 + c1 >= o + b + c /\ o1 + b1 + c1 + d1 >= o + b + c + d

LEMMA MovedGrows ==
  ASSUME NEW o \in Nat, NEW b \in Nat, NEW c \in Nat, NEW d \in Nat,
         NEW o1, NEW b1, NEW c1 \in Nat, NEW d1, Moved(o, b, c, d, o1, b1, c1, d1)
  PROVE  Grown(o, b, c, d, o1, b1, c1, d1)
  BY DEF Moved, Grown

\* Records leave the worker's hands only for the backend, and the queue only for the
\* worker's hands: none of the three amounts ever goes down.
LEMMA AmountsGrow ==
  ASSUME TypeOK, CallInv, WorkerInv, [Next]_vars, NEW l \in Logger
  PROVE  /\ Len(out[l]) \in Nat /\ InHand(l) \in Nat /\ Accepted(l) \in Nat
         /\ Len(out[l])' \in Nat /\ InHand(l)' \in Nat /\ Accepted(l)' \in Nat
         /\ Len(out[l])' >= Len(out[l])
         /\ InHand(l)' >= InHand(l)
         /\ Accepted(l)' >= Accepted(l)
<1> USE DEF workerVars, threadVars, loggerVars
<1> DEFINE Change == Moved(Len(out[l]), Len(buf[l]), Count(ready, l), Count(logs, l),
                           Len(out'[l]), Len(buf'[l]), Count(ready', l), Count(logs', l))
           CountsOK == Count(ready', l) \in Nat
<1>0. Len(out[l]) \in Nat /\ Len(buf[l]) \in Nat /\ Count(ready, l) \in Nat /\ Count(logs, l) \in Nat
  <2>1. out[l] \in Seq(Record) /\ buf[l] \in Seq(Record)
    BY DEF TypeOK
  <2>2. Len(out[l]) \in Nat /\ Len(buf[l]) \in Nat
    BY <2>1
  <2>3. Count(ready, l) \in Nat /\ Count(logs, l) \in Nat
    BY CountNat DEF TypeOK
  <2> QED BY <2>2, <2>3
<1>1. ASSUME UNCHANGED <<out, buf, ready, logs>> PROVE Change /\ CountsOK
  BY <1>0, <1>1 DEF Moved
<1>2. ASSUME NEW t \in Thread, AppendRecord(t) PROVE Change /\ CountsOK
  <2> DEFINE r == [to |-> tlog[t], by |-> t, nr |-> nr[t]]
  <2>1. r \in Record
    BY <1>2 DEF AppendRecord, CallInv, TypeOK, Record
  <2>2. logs' = Append(logs, r) /\ UNCHANGED <<out, buf, ready>>
    BY <1>2 DEF AppendRecord
  <2> HIDE DEF r
  <2>3. Count(logs', l) = Count(logs, l) + One(r.to = l)
    BY <2>1, <2>2, CountAppend DEF TypeOK
  <2>4. Count(logs', l) = Count(logs, l) \/ Count(logs', l) = Count(logs, l) + 1
    BY ONLY <1>0, <2>3 DEF One
  <2> QED BY ONLY <1>0, <2>2, <2>4 DEF Moved
<1>3. ASSUME Take \/ FinalDrain PROVE Change /\ CountsOK
  <2>1. /\ ready = <<>> /\ ready' = logs /\ logs' = <<>> /\ UNCHANGED <<buf, out>>
    BY <1>3 DEF Take, FinalDrain, WorkerInv, InDrain
  <2>2. Count(ready, l) = 0 /\ Count(logs', l) = 0
    BY <2>1, CountEmpty
  <2> QED BY ONLY <1>0, <2>1, <2>2 DEF Moved
<1>4. ASSUME FormatRecord PROVE Change /\ CountsOK
  <2>1. ready # <<>> /\ ready \in Seq(Record)
    BY <1>4 DEF FormatRecord, TypeOK
  <2>2. Head(ready) \in Record /\ Tail(ready) \in Seq(Record)
    BY <2>1
  <2>3. Head(ready).to \in Logger
    BY <2>2 DEF Record
  <2>4. /\ buf' = [buf EXCEPT ![Head(ready).to] = Append(@, Head(ready))]
        /\ ready' = Tail(ready) /\ UNCHANGED <<logs, out>>
    BY <1>4 DEF FormatRecord
  <2>5. Count(ready, l) = Count(ready', l) + One(Head(ready).to = l)
    BY <2>1, <2>4, CountHead
  <2>6. Count(ready', l) \in Nat
    BY <2>2, <2>4, CountNat
  <2>7. buf'[l] = IF Head(ready).to = l THEN Append(buf[l], Head(ready)) ELSE buf[l]
    BY <2>3, <2>4 DEF TypeOK
  <2>8. Len(Append(buf[l], Head(ready))) = Len(buf[l]) + 1
    <3>1. buf[l] \in Seq(Record)
      BY DEF TypeOK
    <3> QED BY <2>2, <3>1, AppendProperties
  <2>9. CASE Head(ready).to = l
    <3>1. Count(ready, l) = Count(ready', l) + 1 /\ Len(buf'[l]) = Len(buf[l]) + 1
      BY <2>5, <2>7, <2>8, <2>9 DEF One
    <3> QED BY ONLY <1>0, <2>4, <2>6, <3>1 DEF Moved
  <2>10. CASE Head(ready).to # l
    <3>1. Count(ready', l) = Count(ready, l) /\ Len(buf'[l]) = Len(buf[l])
      BY <2>5, <2>6, <2>7, <2>10 DEF One
    <3> QED BY ONLY <1>0, <2>4, <2>6, <3>1 DEF Moved
  <2> QED BY <2>9, <2>10
<1>5. ASSUME NEW k \in Logger, WriteBuffer(k) PROVE Change /\ CountsOK
  <2>1. /\ out' = [out EXCEPT ![k] = @ \o buf[k]] /\ buf' = [buf EXCEPT ![k] = <<>>]
        /\ UNCHANGED <<logs, ready>>
    BY <1>5 DEF WriteBuffer
  <2>2. out[l] \in Seq(Record) /\ buf[l] \in Seq(Record)
    BY DEF TypeOK
  <2>3. CASE k = l
    <3>1. out'[l] = out[l] \o buf[l] /\ buf'[l] = <<>>
      BY <2>1, <2>3 DEF TypeOK
    <3>2. Len(out[l] \o buf[l]) = Len(out[l]) + Len(buf[l])
      BY <2>2, ConcatProperties
    <3>3. Len(<<>>) = 0
      OBVIOUS
    <3> QED BY ONLY <1>0, <2>1, <3>1, <3>2, <3>3 DEF Moved
  <2>4. CASE k # l
    <3>1. out'[l] = out[l] /\ buf'[l] = buf[l]
      BY <2>1, <2>4 DEF TypeOK
    <3> QED BY ONLY <1>0, <2>1, <3>1 DEF Moved
  <2> QED BY <2>3, <2>4
<1>6. ASSUME Wakeup PROVE Change /\ CountsOK
  BY <1>1, <1>6, WakeupFacts
<1>7. ASSUME Moving PROVE Change /\ CountsOK
  BY <1>1, <1>7, MovingFacts
<1>8. ASSUME NEW t \in Thread, Calling(t) PROVE Change /\ CountsOK
  BY <1>1, <1>8, CallingFacts
<1>9. ASSUME \/ Stop \/ UNCHANGED vars \/ SetFlushed \/ NotifyFlusher
             \/ \E t \in Thread : FlushBegin(t) \/ FlushReturn(t)
      PROVE  Change /\ CountsOK
  BY <1>1, <1>9 DEF Stop, vars, SetFlushed, NotifyFlusher, FlushBegin, FlushReturn
<1>10. Change /\ CountsOK
  <2> HIDE DEF Change, CountsOK
  <2> QED BY <1>2, <1>3, <1>4, <1>5, <1>6, <1>7, <1>8, <1>9, StepKinds
<1>11. Grown(Len(out[l]), Len(buf[l]), Count(ready, l), Count(logs, l),
             Len(out'[l]), Len(buf'[l]), Count(ready', l), Count(logs', l))
  BY ONLY <1>0, <1>10, MovedGrows
<1> QED BY ONLY <1>11 DEF InHand, Accepted, Grown

LEMMA DueStep ==
  ASSUME TypeOK, CallInv, WorkerInv, BufferInv, FlushInv, DueInv, [Next]_vars
  PROVE  DueInv'
<1> USE DEF workerVars, threadVars, loggerVars
<1>1. Range(Unflushed) \cup Range(waiters) \subseteq Thread
  BY OnLists
<1>2. \A t \in Thread, l \in Logger : due[t][l] \in Nat
  BY DEF TypeOK
\* A step of somebody else.
<1> DEFINE Same(t) == /\ due'[t] = due[t] /\ (tpc'[t] \in FlushPc <=> tpc[t] \in FlushPc)
                      /\ flushed'[t] = flushed[t]
                      /\ t \in Range(Unflushed') => t \in Range(Unflushed)
                      /\ t \in Range(waiters') => t \in Range(waiters)
           Holds(t) == \A l \in Logger :
                         /\ tpc[t] \notin FlushPc => due[t][l] = 0
                         /\ tpc[t] \in FlushPc /\ flushed[t] => due[t][l] <= Len(out[l])
                         /\ t \in Range(Unflushed) => due[t][l] <= InHand(l)
                         /\ t \in Range(waiters) => due[t][l] <= Accepted(l)
<1>3. ASSUME NEW t \in Thread, Same(t) PROVE Holds(t)'
  <2> SUFFICES ASSUME NEW l \in Logger
               PROVE  /\ tpc'[t] \notin FlushPc => due'[t][l] = 0
                      /\ tpc'[t] \in FlushPc /\ flushed'[t] => due'[t][l] <= Len(out[l])'
                      /\ t \in Range(Unflushed') => due'[t][l] <= InHand(l)'
                      /\ t \in Range(waiters') => due'[t][l] <= Accepted(l)'
    OBVIOUS
  <2>1. /\ tpc[t] \notin FlushPc => due[t][l] = 0
        /\ tpc[t] \in FlushPc /\ flushed[t] => due[t][l] <= Len(out[l])
        /\ t \in Range(Unflushed) => due[t][l] <= InHand(l)
        /\ t \in Range(waiters) => due[t][l] <= Accepted(l)
    BY DEF DueInv
  <2>2. \A n, a, b \in Nat : n <= a /\ b >= a => n <= b
    OBVIOUS
  <2>3. due[t][l] \in Nat
    BY <1>2
  <2>4. /\ Len(out[l]) \in Nat /\ InHand(l) \in Nat /\ Accepted(l) \in Nat
        /\ Len(out[l])' \in Nat /\ InHand(l)' \in Nat /\ Accepted(l)' \in Nat
        /\ Len(out[l])' >= Len(out[l])
        /\ InHand(l)' >= InHand(l)
        /\ Accepted(l)' >= Accepted(l)
    BY AmountsGrow
  <2>5. /\ due[t][l] <= Len(out[l]) => due[t][l] <= Len(out[l])'
        /\ due[t][l] <= InHand(l) => due[t][l] <= InHand(l)'
        /\ due[t][l] <= Accepted(l) => due[t][l] <= Accepted(l)'
    BY ONLY <2>2, <2>3, <2>4
  <2> QED BY <1>3, <2>1, <2>5
<1>4. (\A t \in Thread : Holds(t)') => DueInv'
  BY DEF DueInv
<1> HIDE DEF Holds
<1>5. CASE Wakeup
  <2>1. UNCHANGED <<told, waiters, flushed, due>> /\ (wpc' = "tell" <=> wpc = "tell")
    BY <1>5, WakeupFacts
  <2>2. \A t \in Thread : tpc'[t] \in FlushPc <=> tpc[t] \in FlushPc
    BY <1>5, WakeupFacts DEF FlushPc, DtorPc
  <2>3. Unflushed' = Unflushed
    BY <2>1 DEF Unflushed
  <2> QED BY <1>3, <1>4, <2>1, <2>2, <2>3
<1>6. CASE Moving
  <2>1. UNCHANGED <<told, waiters, threadVars>> /\ wpc # "tell" /\ wpc' # "tell"
    BY <1>6, MovingFacts
  <2>2. Unflushed' = Unflushed
    BY <2>1 DEF Unflushed
  <2> QED BY <1>3, <1>4, <2>1, <2>2
<1>7. ASSUME NEW t \in Thread, Calling(t) PROVE DueInv'
  <2>1. /\ UNCHANGED <<told, waiters, flushed, due, wpc>>
        /\ \A u \in Thread \ {t} : tpc'[u] = tpc[u]
        /\ tpc[t] \notin FlushPc /\ tpc'[t] \notin FlushPc
    BY <1>7, CallingFacts
  <2>2. Unflushed' = Unflushed
    BY <2>1 DEF Unflushed
  <2> QED BY <1>3, <1>4, <2>1, <2>2
<1>8. CASE Stop \/ UNCHANGED vars \/ FormatRecord
           \/ (\E t \in Thread : AppendRecord(t)) \/ (\E l \in Logger : WriteBuffer(l))
  <2>1. /\ UNCHANGED <<told, waiters, flushed, due>>
        /\ wpc' = wpc \/ (wpc = "drain" /\ wpc' = "unref")
        /\ \A t \in Thread : tpc'[t] \in FlushPc <=> tpc[t] \in FlushPc
    <3>1. CASE \E t \in Thread : AppendRecord(t)
      BY <3>1 DEF AppendRecord, Goto, TypeOK, FlushPc
    <3>2. CASE Stop \/ UNCHANGED vars \/ FormatRecord \/ \E l \in Logger : WriteBuffer(l)
      BY <3>2 DEF Stop, vars, FormatRecord, WriteBuffer
    <3> QED BY <1>8, <3>1, <3>2
  <2>2. Unflushed' = Unflushed
    BY <2>1 DEF Unflushed
  <2> QED BY <1>3, <1>4, <2>1, <2>2
<1>9. ASSUME NEW t \in Thread, FlushReturn(t) PROVE DueInv'
  <2>1. /\ UNCHANGED <<told, waiters, flushed, wpc>> /\ flushed[t]
        /\ due' = [due EXCEPT ![t] = [l \in Logger |-> 0]]
        /\ tpc' = [tpc EXCEPT ![t] = "idle"]
    BY <1>9 DEF FlushReturn, Goto
  <2>2. Unflushed' = Unflushed
    BY <2>1 DEF Unflushed
  <2>3. ASSUME NEW u \in Thread, u # t PROVE Holds(u)'
    BY <1>3, <2>1, <2>2, <2>3 DEF TypeOK
  <2>4. Holds(t)'
    <3>1. t \notin Range(Unflushed) /\ t \notin Range(waiters)
      BY <2>1 DEF FlushInv
    <3>2. tpc'[t] \notin FlushPc /\ \A l \in Logger : due'[t][l] = 0
      BY <2>1 DEF TypeOK, FlushPc
    <3> QED BY <2>1, <2>2, <3>1, <3>2 DEF Holds
  <2> QED BY <1>4, <2>3, <2>4
<1>10. ASSUME NEW t \in Thread, FlushBegin(t) PROVE DueInv'
  <2>1. /\ waiters' = Append(waiters, t) /\ UNCHANGED <<told, wpc, out, buf, ready, logs>>
        /\ flushed' = [flushed EXCEPT ![t] = FALSE]
        /\ due' = [due EXCEPT ![t] = [l \in Logger |-> Accepted(l)]]
        /\ tpc' = [tpc EXCEPT ![t] = "flushNotify"]
        /\ tpc[t] \notin FlushPc /\ waiters \in Seq(Thread)
    BY <1>10 DEF FlushBegin, Goto, FlushPc, TypeOK
  <2>2. Unflushed' = Unflushed
    BY <2>1 DEF Unflushed
  <2>3. Range(waiters') = Range(waiters) \cup {t}
    BY <2>1, RangeAppend
  <2>4. ASSUME NEW u \in Thread, u # t PROVE Holds(u)'
    BY <1>3, <2>1, <2>2, <2>3, <2>4 DEF TypeOK
  <2>5. Holds(t)'
    <3>1. t \notin Range(Unflushed)
      BY <2>1 DEF FlushInv
    <3>2. \A l \in Logger : due'[t][l] = Accepted(l) /\ Accepted(l)' = Accepted(l)
      BY <2>1 DEF TypeOK, Accepted
    <3>3. \A l \in Logger : Accepted(l) \in Nat
      BY AmountsGrow
    <3>4. tpc'[t] \in FlushPc /\ ~flushed'[t]
      BY <2>1 DEF TypeOK, FlushPc
    <3>5. \A l \in Logger : due'[t][l] <= Accepted(l)'
      BY ONLY <3>2, <3>3
    <3> QED BY <2>2, <3>1, <3>4, <3>5 DEF Holds
  <2> QED BY <1>4, <2>4, <2>5
<1>11. CASE Take \/ FinalDrain
  <2>1. /\ told = <<>> /\ ready = <<>> /\ told' = waiters /\ waiters' = <<>> /\ wpc' = "drain"
        /\ ready' = logs /\ UNCHANGED <<tpc, flushed, due, out, buf>>
    BY <1>11 DEF Take, FinalDrain, FlushInv, WorkerInv, InDrain
  <2>2. Unflushed' = waiters /\ Range(waiters') = {}
    BY <2>1, EmptyList DEF Unflushed
  <2>3. \A l \in Logger : InHand(l)' = Accepted(l)
    <3> SUFFICES ASSUME NEW l \in Logger PROVE InHand(l)' = Accepted(l)
      OBVIOUS
    <3>1. Count(ready, l) = 0
      BY <2>1, CountEmpty
    <3>2. Len(out[l]) \in Nat /\ Len(buf[l]) \in Nat /\ Count(logs, l) \in Nat
      <4>1. out[l] \in Seq(Record) /\ buf[l] \in Seq(Record)
        BY DEF TypeOK
      <4>2. Len(out[l]) \in Nat /\ Len(buf[l]) \in Nat
        BY <4>1, LenProperties
      <4>3. Count(logs, l) \in Nat
        BY CountNat DEF TypeOK
      <4> QED BY <4>2, <4>3
    <3>3. InHand(l)' = Len(out[l]) + Len(buf[l]) + Count(logs, l)
      BY <2>1 DEF InHand
    <3>4. Accepted(l) = Len(out[l]) + Len(buf[l]) + 0 + Count(logs, l)
      BY <3>1 DEF Accepted
    <3> QED BY ONLY <3>2, <3>3, <3>4
  <2>4. ASSUME NEW t \in Thread PROVE Holds(t)'
    <3>1. \A l \in Logger :
            /\ tpc[t] \notin FlushPc => due[t][l] = 0
            /\ tpc[t] \in FlushPc /\ flushed[t] => due[t][l] <= Len(out[l])
            /\ t \in Range(waiters) => due[t][l] <= Accepted(l)
      BY DEF DueInv
    <3> QED BY <2>1, <2>2, <2>3, <3>1 DEF Holds
  <2> QED BY <1>4, <2>4
<1>12. CASE SetFlushed
  <2>1. /\ told # <<>> /\ wpc = "drain" /\ wpc' = "tell"
        /\ ready = <<>> /\ held = {}
        /\ UNCHANGED <<told, waiters, tpc, due, out, buf, ready, logs>>
        /\ flushed' = [flushed EXCEPT ![Head(told)] = TRUE]
    BY <1>12 DEF SetFlushed, Releasing, AllWritten
  <2>2. Unflushed = told /\ Unflushed' = Tail(told) /\ told \in Seq(Thread)
    BY <2>1 DEF Unflushed, TypeOK
  <2>3. /\ Head(told) \in Range(told) /\ Head(told) \notin Range(Tail(told))
        /\ Range(Tail(told)) \subseteq Range(told)
    BY <2>1, <2>2, TailOfList DEF FlushInv
  <2>4. ASSUME NEW u \in Thread, u # Head(told) PROVE Holds(u)'
    BY <1>3, <2>1, <2>2, <2>3, <2>4 DEF TypeOK
  <2>5. ASSUME NEW u \in Thread, u = Head(told) PROVE Holds(u)'
    <3> SUFFICES ASSUME NEW l \in Logger
                 PROVE  /\ tpc[u] \in FlushPc
                        /\ due[u][l] <= Len(out[l])
                        /\ u \notin Range(Tail(told)) /\ u \notin Range(waiters)
      BY <2>1, <2>2, <2>5 DEF Holds
    <3>1. due[u][l] <= InHand(l)
      BY <2>2, <2>3, <2>5 DEF DueInv
    <3>2. InHand(l) = Len(out[l])
      <4>1. buf[l] = <<>>
        BY <2>1 DEF BufferInv
      <4>2. Len(buf[l]) = 0 /\ Count(ready, l) = 0
        BY <2>1, <4>1, CountEmpty
      <4>3. Len(out[l]) \in Nat
        BY AmountsGrow
      <4> QED BY ONLY <4>2, <4>3 DEF InHand
    <3>3. tpc[u] \in FlushPc /\ u \notin Range(waiters)
      BY <2>2, <2>3, <2>5 DEF FlushInv
    <3> QED BY <2>3, <2>5, <3>1, <3>2, <3>3
  <2> QED BY <1>4, <2>4, <2>5
<1>13. CASE NotifyFlusher
  <2>1. /\ told' = Tail(told) /\ wpc = "tell" /\ wpc' = "drain"
        /\ UNCHANGED <<waiters, tpc, flushed, due>>
    BY <1>13 DEF NotifyFlusher
  <2>2. Unflushed' = Unflushed
    BY <2>1 DEF Unflushed
  <2> QED BY <1>3, <1>4, <2>1, <2>2
<1> QED BY <1>5, <1>6, <1>7, <1>8, <1>9, <1>10, <1>11, <1>12, <1>13, StepKinds

-----------------------------------------------------------------------------
(* The mapping                                                             *)

Totals(o, b, c, d, p) == p \in Nat /\ o + p = o + b + c + d

LEMMA TotalsOf ==
  ASSUME NEW o \in Nat, NEW b \in Nat, NEW c \in Nat, NEW d \in Nat
  PROVE  Totals(o, b, c, d, b + c + d)
  BY DEF Totals

\* What is pending of a logger are records; FlushBegin counts them.
LEMMA PendingFacts ==
  ASSUME TypeOK, NEW l \in Logger
  PROVE  /\ out[l] \in Seq(Record) /\ buf[l] \in Seq(Record)
         /\ To(ready, l) \in Seq(Record) /\ To(logs, l) \in Seq(Record)
         /\ Pending[l] = (buf[l] \o To(ready, l)) \o To(logs, l)
         /\ Pending[l] \in Seq(Record)
         /\ Range(Pending[l]) \subseteq Range(buf[l]) \cup Range(ready) \cup Range(logs)
         /\ Len(Pending[l]) \in Nat
         /\ Len(out[l]) + Len(Pending[l]) = Accepted(l)
<1>1. out[l] \in Seq(Record) /\ buf[l] \in Seq(Record)
  BY DEF TypeOK
<1>2. ready \in Seq(Record) /\ logs \in Seq(Record)
  BY DEF TypeOK
<1>3. To(ready, l) \in Seq(Record) /\ To(logs, l) \in Seq(Record)
  BY <1>2, ToType
<1>4. /\ Len(To(ready, l)) = Count(ready, l) /\ Len(To(logs, l)) = Count(logs, l)
      /\ Range(To(ready, l)) \subseteq Range(ready) /\ Range(To(logs, l)) \subseteq Range(logs)
  <2>1. Len(To(ready, l)) = Count(ready, l) /\ Range(To(ready, l)) = {r \in Range(ready) : r.to = l}
    BY <1>2, ToFacts
  <2>2. Len(To(logs, l)) = Count(logs, l) /\ Range(To(logs, l)) = {r \in Range(logs) : r.to = l}
    BY <1>2, ToFacts
  <2> QED BY <2>1, <2>2
<1>5. Pending[l] = (buf[l] \o To(ready, l)) \o To(logs, l)
  BY DEF Pending
<1> DEFINE a == buf[l] \o To(ready, l)
<1>6. /\ a \in Seq(Record) /\ Len(a) = Len(buf[l]) + Len(To(ready, l))
      /\ Range(a) = Range(buf[l]) \cup Range(To(ready, l))
  BY <1>1, <1>3, ConcatFacts
<1> HIDE DEF a
<1>7. /\ a \o To(logs, l) \in Seq(Record) /\ Len(a \o To(logs, l)) = Len(a) + Len(To(logs, l))
      /\ Range(a \o To(logs, l)) = Range(a) \cup Range(To(logs, l))
  BY ONLY <1>3, <1>6, ConcatFacts
<1>8. Pending[l] = a \o To(logs, l)
  BY <1>5 DEF a
<1>9. Len(out[l]) \in Nat /\ Len(buf[l]) \in Nat /\ Count(ready, l) \in Nat /\ Count(logs, l) \in Nat
  <2>1. Len(out[l]) \in Nat /\ Len(buf[l]) \in Nat
    BY <1>1, LenProperties
  <2> QED BY <1>2, <2>1, CountNat
<1>10. Len(Pending[l]) = Len(buf[l]) + Count(ready, l) + Count(logs, l)
  BY ONLY <1>4, <1>6, <1>7, <1>8, <1>9
<1>11. Len(Pending[l]) \in Nat /\ Len(out[l]) + Len(Pending[l]) = Accepted(l)
  <2>1. Totals(Len(out[l]), Len(buf[l]), Count(ready, l), Count(logs, l),
               Len(buf[l]) + Count(ready, l) + Count(logs, l))
    BY ONLY <1>9, TotalsOf
  <2>2. /\ Len(buf[l]) + Count(ready, l) + Count(logs, l) \in Nat
        /\ Len(out[l]) + (Len(buf[l]) + Count(ready, l) + Count(logs, l)) = Accepted(l)
    BY ONLY <2>1 DEF Totals, Accepted
  <2> QED BY ONLY <1>10, <2>2
<1>12. Range(Pending[l]) \subseteq Range(buf[l]) \cup Range(ready) \cup Range(logs)
  BY <1>4, <1>6, <1>7, <1>8
<1>13. Pending[l] \in Seq(Record)
  BY <1>7, <1>8
<1> QED BY <1>1, <1>3, <1>5, <1>11, <1>12, <1>13

\* Steps of which the user sees nothing.
LEMMA QuietStep ==
  ASSUME \A l \in Logger : Pending[l]' = Pending[l],
         UNCHANGED <<out, due, life>>, wpc' = "ended" <=> wpc = "ended"
  PROVE  UNCHANGED AbstractLog!vars
<1>1. Pending' = Pending
  BY DEF Pending
<1>2. (wpc = "ended")' = (wpc = "ended")
  OBVIOUS
<1> QED BY <1>1, <1>2 DEF AbstractLog!vars

LEMMA StillStep ==
  ASSUME UNCHANGED <<logs, ready, buf, out, due, life>>, wpc' = "ended" <=> wpc = "ended"
  PROVE  UNCHANGED AbstractLog!vars
  BY QuietStep DEF Pending

\* append: the record is pending, as the last of its logger.
LEMMA PostStep ==
  ASSUME IInv, LogInv, NEW t \in Thread, AppendRecord(t)
  PROVE  AbstractLog!Next
<1> DEFINE l == tlog[t]
           r == [to |-> tlog[t], by |-> t, nr |-> nr[t]]
<1>1. /\ logs' = Append(logs, r) /\ tpc[t] = "append"
      /\ UNCHANGED <<ready, buf, out, due, life, wpc>>
  BY DEF AppendRecord, workerVars, loggerVars
<1>2. l \in Logger /\ life[l] = "alive" /\ r \in Record /\ r.to = l /\ r.by = t /\ r.nr = nr[t]
  BY <1>1 DEF IInv, TypeOK, CallInv, Record
<1> HIDE DEF l, r
<1>3. wpc # "ended"
  BY <1>1 DEF IInv, EndInv, DtorPc
<1>4. AbstractLog!Fresh(r)
  <2> SUFFICES ASSUME NEW k \in Logger PROVE r \notin Range(out[k] \o Pending[k])
    <3>1. \A k \in Logger : DOMAIN (out[k] \o Pending[k]) = 1 .. Len(out[k] \o Pending[k])
      <4>1. \A k \in Logger : out[k] \o Pending[k] \in Seq(Record)
        BY PendingFacts, ConcatFacts DEF IInv
      <4> QED BY <4>1, LenProperties
    <3> QED BY <3>1 DEF AbstractLog!Fresh, Range
  <2>1. /\ out[k] \in Seq(Record) /\ Pending[k] \in Seq(Record)
        /\ Range(Pending[k]) \subseteq Range(buf[k]) \cup Range(ready) \cup Range(logs)
    BY PendingFacts DEF IInv
  <2>2. Range(out[k] \o Pending[k]) = Range(out[k]) \cup Range(Pending[k])
    BY <2>1, RangeConcat
  <2>3. ~Present(r)
    BY <1>1, <1>2 DEF LogInv, FreshInv
  <2> QED BY <2>1, <2>2, <2>3 DEF Present
<1>5. Pending' = [Pending EXCEPT ![l] = Append(@, r)]
  <2>1. ASSUME NEW k \in Logger
        PROVE  (buf[k] \o To(ready, k)) \o To(Append(logs, r), k)
                 = IF k = l THEN Append(Pending[k], r) ELSE Pending[k]
    <3>1. /\ buf[k] \o To(ready, k) \in Seq(Record) /\ To(logs, k) \in Seq(Record)
          /\ Pending[k] = (buf[k] \o To(ready, k)) \o To(logs, k)
      BY PendingFacts, ConcatProperties DEF IInv
    <3>2. To(Append(logs, r), k) = IF r.to = k THEN Append(To(logs, k), r) ELSE To(logs, k)
      <4>1. logs \in Seq(Record)
        BY DEF IInv, TypeOK
      <4> QED BY <1>2, <4>1, ToAppend
    <3>3. (buf[k] \o To(ready, k)) \o Append(To(logs, k), r)
            = Append((buf[k] \o To(ready, k)) \o To(logs, k), r)
      <4>1. /\ buf[k] \in Seq(Record) /\ To(ready, k) \in Seq(Record)
            /\ To(logs, k) \in Seq(Record)
        <5>1. TypeOK
          BY DEF IInv
        <5> QED BY <5>1, PendingFacts
      <4>2. \A a, b, d \in Seq(Record) : (a \o b) \o Append(d, r) = Append((a \o b) \o d, r)
        BY <1>2, AppendLast
      <4> QED BY <4>1, <4>2, Zenon
    <3> QED BY <1>2, <3>1, <3>2, <3>3
  <2>2. Pending' = [k \in Logger |-> (buf[k] \o To(ready, k)) \o To(Append(logs, r), k)]
    BY <1>1 DEF Pending
  <2>3. Pending = [k \in Logger |-> Pending[k]]
    BY DEF Pending
  <2>4. [Pending EXCEPT ![l] = Append(@, r)]
          = [k \in Logger |-> IF k = l THEN Append(Pending[k], r) ELSE Pending[k]]
    BY <2>3
  <2> QED BY <2>1, <2>2, <2>4
<1>6. UNCHANGED <<out, due, {k \in Logger : life[k] = "dead"}, wpc = "ended">>
  BY <1>1
<1>7. AbstractLog!Post(l, r)
  BY <1>2, <1>3, <1>4, <1>5, <1>6 DEF AbstractLog!Post
<1> QED BY <1>2, <1>7 DEF AbstractLog!Next

\* The write of a buffer: the records in it are the oldest ones pending.
LEMMA WriteStep ==
  ASSUME IInv, NEW l \in Logger, WriteBuffer(l)
  PROVE  AbstractLog!Next
<1>1. /\ ready = <<>> /\ l \in held /\ wpc = "drain" /\ wpc' = "unref"
      /\ out' = [out EXCEPT ![l] = @ \o buf[l]] /\ buf' = [buf EXCEPT ![l] = <<>>]
      /\ UNCHANGED <<logs, ready, due, life>>
  BY DEF WriteBuffer, threadVars
<1>2. life[l] # "dead" /\ buf[l] # <<>>
  BY <1>1 DEF IInv, UsedAlive, BufferInv
<1>3. ASSUME NEW k \in Logger
      PROVE  /\ buf[k] \in Seq(Record) /\ To(logs, k) \in Seq(Record)
             /\ Pending[k] = buf[k] \o To(logs, k)
  <2>1. /\ buf[k] \in Seq(Record) /\ To(logs, k) \in Seq(Record)
        /\ Pending[k] = (buf[k] \o To(ready, k)) \o To(logs, k)
    BY PendingFacts DEF IInv
  <2>2. buf[k] \o To(ready, k) = buf[k]
    BY <1>1, <2>1, ToEmpty, ConcatEmptySeq
  <2> QED BY <2>1, <2>2
<1> DEFINE n == Len(buf[l])
<1>4. /\ n \in 1 .. Len(Pending[l])
      /\ SubSeq(Pending[l], 1, n) = buf[l]
      /\ SubSeq(Pending[l], n + 1, Len(Pending[l])) = To(logs, l)
  <2>1. Len(Pending[l]) = Len(buf[l]) + Len(To(logs, l)) /\ Len(buf[l]) > 0
        /\ Len(buf[l]) \in Nat /\ Len(To(logs, l)) \in Nat
    <3>1. buf[l] \in Seq(Record) /\ To(logs, l) \in Seq(Record) /\ Pending[l] = buf[l] \o To(logs, l)
      BY <1>3
    <3>2. Len(buf[l] \o To(logs, l)) = Len(buf[l]) + Len(To(logs, l))
      BY <3>1, ConcatProperties
    <3>3. Len(buf[l]) \in Nat /\ Len(buf[l]) # 0
      BY <1>2, <3>1
    <3>4. Len(To(logs, l)) \in Nat
      BY <3>1
    <3> QED BY <3>1, <3>2, <3>3, <3>4
  <2>2. n \in 1 .. Len(Pending[l])
    BY <2>1
  <2>3. /\ SubSeq(buf[l] \o To(logs, l), 1, Len(buf[l])) = buf[l]
        /\ SubSeq(buf[l] \o To(logs, l), Len(buf[l]) + 1, Len(buf[l] \o To(logs, l))) = To(logs, l)
    BY <1>3, CutConcat
  <2>4. Pending[l] = buf[l] \o To(logs, l)
    BY <1>3
  <2> QED BY ONLY <2>2, <2>3, <2>4
<1> HIDE DEF n
<1>5. out' = [out EXCEPT ![l] = @ \o SubSeq(Pending[l], 1, n)]
  BY <1>1, <1>4
<1>6. Pending' = [Pending EXCEPT ![l] = SubSeq(@, n + 1, Len(@))]
  <2>1. ASSUME NEW k \in Logger
        PROVE  (buf'[k] \o To(ready, k)) \o To(logs, k)
                 = IF k = l THEN SubSeq(Pending[k], n + 1, Len(Pending[k])) ELSE Pending[k]
    <3>1. CASE k = l
      <4>1. buf'[k] = <<>>
        BY <1>1, <3>1 DEF IInv, TypeOK
      <4>2. To(ready, k) = <<>> /\ To(logs, k) \in Seq(Record)
        BY <1>1, <1>3, ToEmpty
      <4>3. <<>> \o <<>> = <<>> /\ <<>> \o To(logs, k) = To(logs, k)
        BY <4>2, ConcatEmptySeq, EmptyList
      <4> QED BY <1>4, <3>1, <4>1, <4>2, <4>3
    <3>2. CASE k # l
      <4>1. buf'[k] = buf[k]
        BY <1>1, <3>2 DEF IInv, TypeOK
      <4> QED BY <3>2, <4>1, PendingFacts DEF IInv
    <3> QED BY <3>1, <3>2
  <2>2. Pending' = [k \in Logger |-> (buf'[k] \o To(ready, k)) \o To(logs, k)]
    BY <1>1 DEF Pending
  <2>3. Pending = [k \in Logger |-> Pending[k]]
    BY DEF Pending
  <2>4. [Pending EXCEPT ![l] = SubSeq(@, n + 1, Len(@))]
          = [k \in Logger |-> IF k = l THEN SubSeq(Pending[k], n + 1, Len(Pending[k])) ELSE Pending[k]]
    BY <2>3
  <2> QED BY <2>1, <2>2, <2>4
<1>7. UNCHANGED <<due, {k \in Logger : life[k] = "dead"}, wpc = "ended">>
  BY <1>1
<1>8. AbstractLog!Write(l)
  BY <1>2, <1>4, <1>5, <1>6, <1>7 DEF AbstractLog!Write
<1> QED BY <1>8 DEF AbstractLog!Next

\* The end of a destructor: nothing of the logger is pending.
LEMMA CloseStep ==
  ASSUME IInv, NEW l \in Logger, ref[l] = 0, life' = [life EXCEPT ![l] = "dead"],
         UNCHANGED <<logs, ready, buf, out, due, wpc>>
  PROVE  AbstractLog!Next
<1>1. /\ buf[l] = <<>> /\ Count(ready, l) = 0 /\ Count(logs, l) = 0
  BY ZeroMeansUnused DEF IInv
<1>2. Pending[l] = <<>>
  <2>1. /\ ready \in Seq(Record) /\ logs \in Seq(Record)
        /\ To(ready, l) \in Seq(Record) /\ To(logs, l) \in Seq(Record)
    BY ToType DEF IInv, TypeOK
  <2>2. Len(To(ready, l)) = 0 /\ Len(To(logs, l)) = 0
    BY <1>1, <2>1, ToFacts
  <2>3. To(ready, l) = <<>> /\ To(logs, l) = <<>>
    BY <2>1, <2>2
  <2>4. (<<>> \o <<>>) \o <<>> = <<>>
    BY ConcatEmptySeq, EmptyList
  <2> QED BY <1>1, <2>3, <2>4 DEF Pending
<1>3. Pending' = Pending
  BY DEF Pending
<1>4. {k \in Logger : life'[k] = "dead"} = {k \in Logger : life[k] = "dead"} \cup {l}
  BY DEF IInv, TypeOK
<1>5. AbstractLog!Close(l)
  BY <1>2, <1>3, <1>4 DEF AbstractLog!Close
<1> QED BY <1>5 DEF AbstractLog!Next

\* A flush waits for what is written and what is pending when it is called, and returns
\* when that much is written.
LEMMA FlushSteps ==
  ASSUME IInv, LogInv, NEW t \in Thread, FlushBegin(t) \/ FlushReturn(t)
  PROVE  AbstractLog!Next
<1>1. UNCHANGED <<Pending, out, {k \in Logger : life[k] = "dead"}, wpc = "ended">>
  <2>1. UNCHANGED <<logs, ready, buf, out, life, wpc>>
    BY DEF FlushBegin, FlushReturn, workerVars, loggerVars
  <2> QED BY <2>1 DEF Pending
<1>2. CASE FlushBegin(t)
  <2>1. wpc # "ended"
    BY <1>2 DEF FlushBegin, IInv, EndInv
  <2>2. \A l \in Logger : Len(out[l]) + Len(Pending[l]) = Accepted(l)
    BY PendingFacts DEF IInv
  <2>3. due' = [due EXCEPT ![t] = [l \in Logger |-> Len(out[l]) + Len(Pending[l])]]
    <3>1. [l \in Logger |-> Len(out[l]) + Len(Pending[l])] = [l \in Logger |-> Accepted(l)]
      BY <2>2
    <3>2. due' = [due EXCEPT ![t] = [l \in Logger |-> Accepted(l)]]
      BY <1>2 DEF FlushBegin
    <3> QED BY <3>1, <3>2
  <2>4. AbstractLog!FlushCall(t)
    BY <1>1, <2>1, <2>3 DEF AbstractLog!FlushCall
  <2> QED BY <2>4 DEF AbstractLog!Next
<1>3. CASE FlushReturn(t)
  <2>1. \A l \in Logger : due[t][l] <= Len(out[l])
    BY <1>3 DEF FlushReturn, LogInv, DueInv, FlushPc
  <2>2. due' = [due EXCEPT ![t] = AbstractLog!NothingDue]
    BY <1>3 DEF FlushReturn, AbstractLog!NothingDue
  <2>3. AbstractLog!FlushReturn(t)
    BY <1>1, <2>1, <2>2 DEF AbstractLog!FlushReturn
  <2> QED BY <2>3 DEF AbstractLog!Next
<1> QED BY <1>2, <1>3

\* The end of the last drain_: nothing is pending and nobody is in flush.
LEMMA ShutStep ==
  ASSUME IInv, LogInv, DrainEnd
  PROVE  AbstractLog!Next \/ UNCHANGED AbstractLog!vars
<1>1. /\ ready = <<>> /\ held = {} /\ wpc = "drain" /\ wpc' = IF last THEN "ended" ELSE "test"
      /\ UNCHANGED <<logs, ready, buf, out, due, life>>
  BY DEF DrainEnd, AllWritten, threadVars, loggerVars
<1>2. CASE ~last
  BY <1>1, <1>2, StillStep
<1>3. CASE last
  <2>1. logs = <<>> /\ \A t \in Thread : tpc[t] \notin FlushPc
    BY <1>3 DEF IInv, EndInv, FlushPc, DtorPc
  <2>2. \A l \in Logger : Pending[l] = <<>>
    <3>1. \A l \in Logger : buf[l] = <<>>
      BY <1>1 DEF IInv, BufferInv
    <3>2. \A l : To(<<>>, l) = <<>>
      BY ToEmpty
    <3>3. (<<>> \o <<>>) \o <<>> = <<>>
      BY ConcatEmptySeq, EmptyList
    <3> QED BY <1>1, <2>1, <3>1, <3>2, <3>3 DEF Pending
  <2>3. \A t \in Thread : due[t] = AbstractLog!NothingDue
    <3> SUFFICES ASSUME NEW t \in Thread PROVE due[t] = [l \in Logger |-> 0]
      BY DEF AbstractLog!NothingDue
    <3>1. due[t] \in [Logger -> Nat]
      BY DEF IInv, TypeOK
    <3>2. \A l \in Logger : due[t][l] = 0
      BY <2>1 DEF LogInv, DueInv
    <3> QED BY <3>1, <3>2
  <2>4. UNCHANGED <<Pending, out, due, {k \in Logger : life[k] = "dead"}>>
    BY <1>1 DEF Pending
  <2>5. (wpc = "ended")' = TRUE
    BY <1>1, <1>3
  <2>6. AbstractLog!Shut
    BY <2>2, <2>3, <2>4, <2>5 DEF AbstractLog!Shut
  <2> QED BY <2>6 DEF AbstractLog!Next
<1> QED BY <1>2, <1>3

\* Records that move from the queue to the worker's hands, and from there to a buffer, stay
\* pending in the same order.
LEMMA CarryStep ==
  ASSUME IInv, Take \/ FinalDrain \/ FormatRecord
  PROVE  UNCHANGED AbstractLog!vars
<1>1. UNCHANGED <<out, due, life>> /\ wpc # "ended" /\ wpc' # "ended"
  BY DEF Take, FinalDrain, FormatRecord, threadVars, loggerVars
<1> SUFFICES ASSUME NEW l \in Logger PROVE Pending[l]' = Pending[l]
  BY <1>1, QuietStep
<1> DEFINE a == buf[l]
           b == To(ready, l)
           c == To(logs, l)
<1>2. a \in Seq(Record) /\ b \in Seq(Record) /\ c \in Seq(Record)
  BY PendingFacts DEF IInv
<1>3. Pending[l] = (a \o b) \o c /\ Pending[l]' = (buf'[l] \o To(ready', l)) \o To(logs', l)
  BY DEF Pending
<1>4. CASE Take \/ FinalDrain
  <2>1. ready = <<>> /\ ready' = logs /\ logs' = <<>> /\ buf' = buf
    BY <1>4 DEF Take, FinalDrain, IInv, WorkerInv, InDrain
  <2>2. b = <<>> /\ To(logs', l) = <<>>
    BY <2>1, ToEmpty
  <2>3. Pending[l]' = (a \o c) \o <<>>
    BY <1>3, <2>1, <2>2
  <2> HIDE DEF a, b, c
  <2>4. a \o c \in Seq(Record) /\ a \o <<>> = a
    BY <1>2, ConcatProperties, ConcatEmptySeq
  <2>5. (a \o c) \o <<>> = a \o c
    BY <2>4, ConcatEmptySeq
  <2> QED BY <1>3, <2>2, <2>3, <2>4, <2>5
<1>5. CASE FormatRecord
  <2>1. ready # <<>> /\ ready \in Seq(Record)
    BY <1>5 DEF FormatRecord, IInv, TypeOK
  <2>2. Head(ready) \in Record /\ Tail(ready) \in Seq(Record)
    BY <2>1
  <2>3. Head(ready).to \in Logger
    BY <2>2 DEF Record
  <2>4. /\ buf' = [buf EXCEPT ![Head(ready).to] = Append(@, Head(ready))]
        /\ ready' = Tail(ready) /\ logs' = logs
    BY <1>5 DEF FormatRecord
  <2> DEFINE r == Head(ready)
             d == To(ready', l)
  <2>5. b = IF r.to = l THEN <<r>> \o d ELSE d
    BY <2>1, <2>4, ToHead
  <2>6. buf'[l] = IF r.to = l THEN Append(a, r) ELSE a
    BY <2>3, <2>4 DEF IInv, TypeOK
  <2>7. d \in Seq(Record)
    BY <2>2, <2>4, ToType
  <2>8. Append(a, r) \o d = a \o (<<r>> \o d)
    <3>1. \A u, v \in Seq(Record), x \in Record : Append(u, x) \o v = u \o (<<x>> \o v)
      BY AppendConcat
    <3> QED BY <1>2, <2>2, <2>7, <3>1, Zenon
  <2>9. Pending[l]' = (buf'[l] \o d) \o c
    BY <1>3, <2>4
  <2> HIDE DEF a, b, c, d, r
  <2> QED BY <1>3, <2>5, <2>6, <2>8, <2>9
<1> QED BY <1>4, <1>5

LEMMA Simulation ==
  ASSUME IInv, LogInv, [Next]_vars
  PROVE  [AbstractLog!Next]_(AbstractLog!vars)
<1> USE DEF workerVars, threadVars, loggerVars
<1>1. CASE Wakeup
  <2>1. TypeOK
    BY DEF IInv
  <2> QED BY <1>1, <2>1, WakeupFacts, StillStep
<1>2. CASE DrainEnd
  BY <1>2, ShutStep
<1>3. CASE LoopTest \/ WorkerWait \/ WorkerTimeout \/ Unreference \/ SetFlushed \/ NotifyFlusher
  <2>1. UNCHANGED <<logs, ready, buf, out, due, life>> /\ wpc # "ended" /\ wpc' # "ended"
    BY <1>3 DEF LoopTest, WorkerWait, WorkerTimeout, Unreference, SetFlushed, NotifyFlusher
  <2> QED BY <2>1, StillStep
<1>4. CASE Stop \/ UNCHANGED vars
  <2>1. UNCHANGED <<logs, ready, buf, out, due, life, wpc>>
    BY <1>4 DEF Stop, vars
  <2> QED BY <2>1, StillStep
<1>5. CASE Take \/ FinalDrain \/ FormatRecord
  BY <1>5, CarryStep
<1>6. ASSUME NEW l \in Logger, WriteBuffer(l) PROVE AbstractLog!Next
  BY <1>6, WriteStep
<1>7. ASSUME NEW t \in Thread, AppendRecord(t) PROVE AbstractLog!Next
  BY <1>7, PostStep
<1>8. ASSUME NEW t \in Thread, FlushBegin(t) \/ FlushReturn(t) PROVE AbstractLog!Next
  BY <1>8, FlushSteps
<1>9. ASSUME NEW t \in Thread, NEW l \in Logger, LogBegin(t, l) PROVE UNCHANGED AbstractLog!vars
  <2>1. UNCHANGED <<logs, ready, buf, out, due, life, wpc>>
    BY <1>9 DEF LogBegin
  <2> QED BY <2>1, StillStep
<1>10. ASSUME NEW t \in Thread, NEW l \in Logger, Destroy(t, l)
       PROVE  AbstractLog!Next \/ UNCHANGED AbstractLog!vars
  <2>1. UNCHANGED <<logs, ready, buf, out, due, wpc>>
    BY <1>10 DEF Destroy
  <2>2. CASE ref[l] = 0
    <3>1. life' = [life EXCEPT ![l] = "dead"]
      BY <1>10, <2>2 DEF Destroy
    <3> QED BY <2>1, <2>2, <3>1, CloseStep
  <2>3. CASE ref[l] # 0
    <3>1. life' = [life EXCEPT ![l] = "dying"] /\ life[l] = "alive"
      BY <1>10, <2>3 DEF Destroy
    <3>2. {k \in Logger : life'[k] = "dead"} = {k \in Logger : life[k] = "dead"}
      BY <3>1 DEF IInv, TypeOK
    <3> QED BY <2>1, <3>2 DEF AbstractLog!vars, Pending
  <2> QED BY <2>2, <2>3
<1>11. ASSUME NEW t \in Thread, DestroyReturn(t) PROVE AbstractLog!Next
  <2>1. tlog[t] \in Logger
    BY <1>11 DEF DestroyReturn, IInv, CallInv, DtorPc
  <2>2. /\ ref[tlog[t]] = 0 /\ life' = [life EXCEPT ![tlog[t]] = "dead"]
        /\ UNCHANGED <<logs, ready, buf, out, due, wpc>>
    BY <1>11 DEF DestroyReturn
  <2> QED BY <2>1, <2>2, CloseStep
<1> QED BY <1>1, <1>2, <1>3, <1>4, <1>5, <1>6, <1>7, <1>8, <1>9, <1>10, <1>11, StepKinds
        DEF Moving, Calling

LEMMA InitSimulation == Init => AbstractLog!Init /\ LogInv
<1> SUFFICES ASSUME Init PROVE AbstractLog!Init /\ LogInv
  OBVIOUS
<1>1. \A l \in Logger : Pending[l] = <<>>
  <2>1. \A l : To(<<>>, l) = <<>>
    BY ToEmpty
  <2>2. (<<>> \o <<>>) \o <<>> = <<>>
    BY ConcatEmptySeq, EmptyList
  <2> QED BY <2>1, <2>2 DEF Pending, Init
<1>2. Pending = [l \in Logger |-> <<>>]
  <2>1. Pending = [l \in Logger |-> Pending[l]]
    BY DEF Pending
  <2> QED BY <1>1, <2>1
<1>3. AbstractLog!Init
  BY <1>2 DEF Init, AbstractLog!Init, AbstractLog!NothingDue
<1>4. \A r : ~Present(r)
  BY EmptyList DEF Init, Present
<1>5. FreshInv /\ FlushInv
  BY <1>4, EmptyList DEF Init, FreshInv, FlushInv, Unflushed
<1>6. DueInv
  BY EmptyList DEF Init, DueInv, Unflushed, FlushPc
<1> QED BY <1>3, <1>5, <1>6 DEF LogInv

\* The lists of waiters and what each flush waits for stay right.
THEOREM FlushesServed == Spec => []LogInv
<1>1. IInv /\ LogInv /\ [Next]_vars => LogInv'
  BY FreshStep, FlushStep, DueStep DEF IInv, LogInv
<1> QED BY InitSimulation, Inductive, <1>1, PTL DEF Spec

\* Every behaviour of the loggers, the threads and the worker is one of the log that Log
\* describes: each accepted record comes out of its logger's backend once, in order, no flush
\* returns before what it found accepted is out, and no destructor, of a logger or of the
\* worker, while something of its own is pending.  (This is the safety part of
\* ImplementsLog.)
THEOREM LogImplemented == Spec => AbstractLog!Safety
<1>1. Init => AbstractLog!Init
  BY InitSimulation
<1>2. IInv /\ LogInv /\ [Next]_vars => [AbstractLog!Next]_(AbstractLog!vars)
  BY Simulation
<1> QED BY <1>1, <1>2, Inductive, FlushesServed, PTL DEF Spec, AbstractLog!Safety

=============================================================================
