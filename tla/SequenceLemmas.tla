--------------------------- MODULE SequenceLemmas ---------------------------
(***************************************************************************)
(* What the operations on the lists of the scheduler and on the stack of   *)
(* coroutines do to the elements of a sequence and to its having no        *)
(* duplicates.  A list without duplicates is an injective sequence.        *)
(*                                                                         *)
(* Then what the proofs about loops rest on: induction, with the set of    *)
(* numbers or of sequences for which the claim holds as its parameter,     *)
(* functions defined by recursion, and sequences put together.             *)
(***************************************************************************)
EXTENDS Integers, SequencesExt, SequenceTheorems, WellFoundedInduction, TLAPS

\* The elements of a sequence over S are in S; the empty one has none.
LEMMA ToSetType ==
  ASSUME NEW S, NEW s \in Seq(S)
  PROVE  /\ ToSet(s) \in SUBSET S
         /\ ToSet(s) = {s[i] : i \in 1..Len(s)}
         /\ s = <<>> <=> ToSet(s) = {}
<1>1. DOMAIN s = 1..Len(s) /\ Len(s) \in Nat /\ \A i \in 1..Len(s) : s[i] \in S
  OBVIOUS
<1>2. s = <<>> => ToSet(s) = {}
  BY DEF ToSet
<1>3. ASSUME s # <<>> PROVE ToSet(s) # {}
  <2>1. 1 \in DOMAIN s
    BY <1>1, <1>3
  <2> QED BY <2>1 DEF ToSet
<1> QED BY <1>1, <1>2, <1>3 DEF ToSet

\* A function on 1..n is a sequence.
LEMMA FunctionIsSeq ==
  ASSUME NEW S, NEW n \in Nat, NEW f \in [1..n -> S]
  PROVE  f \in Seq(S)
  BY SeqDef

\* Appending adds one element and keeps a list free of duplicates if the
\* element is not there yet.
LEMMA ToSetAppend ==
  ASSUME NEW S, NEW s \in Seq(S), NEW x \in S
  PROVE  /\ Append(s, x) \in Seq(S)
         /\ ToSet(Append(s, x)) = ToSet(s) \cup {x}
         /\ IsInjective(s) /\ x \notin ToSet(s) => IsInjective(Append(s, x))
<1> DEFINE t == Append(s, x)
<1>1. Len(s) \in Nat /\ DOMAIN s = 1..Len(s)
  OBVIOUS
<1>2. /\ t \in Seq(S) /\ DOMAIN t = 1..(Len(s) + 1)
      /\ \A i \in 1..Len(s) : t[i] = s[i]
      /\ t[Len(s) + 1] = x
  BY AppendProperties
<1> HIDE DEF t
<1>3. ToSet(t) = ToSet(s) \cup {x}
  <2>1. ToSet(t) \subseteq ToSet(s) \cup {x}
    BY <1>1, <1>2 DEF ToSet
  <2>2. ToSet(s) \cup {x} \subseteq ToSet(t)
    BY <1>1, <1>2 DEF ToSet
  <2> QED BY <2>1, <2>2
<1>4. IsInjective(s) /\ x \notin ToSet(s) => IsInjective(t)
  BY <1>1, <1>2 DEF ToSet, IsInjective
<1> QED BY <1>2, <1>3, <1>4 DEF t

\* Concatenation joins the elements.
LEMMA ToSetConcat ==
  ASSUME NEW S, NEW s \in Seq(S), NEW t \in Seq(S)
  PROVE  /\ s \o t \in Seq(S)
         /\ ToSet(s \o t) = ToSet(s) \cup ToSet(t)
<1>1. s \o t \in Seq(S) OBVIOUS
<1>2. ToSet(s \o t) \subseteq ToSet(s) \cup ToSet(t)
  BY DEF ToSet
<1>3. ToSet(s) \subseteq ToSet(s \o t)
  BY DEF ToSet
<1>4. ToSet(t) \subseteq ToSet(s \o t)
  <2> SUFFICES ASSUME NEW i \in 1..Len(t) PROVE t[i] \in ToSet(s \o t)
    BY DEF ToSet
  <2>1. Len(s) + i \in 1..Len(s \o t) /\ (s \o t)[Len(s) + i] = t[i]
    OBVIOUS
  <2> QED BY <2>1 DEF ToSet
<1> QED BY <1>1, <1>2, <1>3, <1>4

\* The last element and what is before it.
LEMMA FrontLast ==
  ASSUME NEW S, NEW s \in Seq(S), s # <<>>
  PROVE  /\ Last(s) \in S
         /\ Front(s) \in Seq(S)
         /\ ToSet(s) = ToSet(Front(s)) \cup {Last(s)}
         /\ IsInjective(s) => IsInjective(Front(s)) /\ Last(s) \notin ToSet(Front(s))
<1> DEFINE n == Len(s)
<1>1. n \in Nat \ {0} /\ DOMAIN s = 1..n /\ \A i \in 1..n : s[i] \in S
  OBVIOUS
<1>2. /\ Front(s) \in Seq(S)
      /\ Len(Front(s)) = n - 1
      /\ \A i \in 1..(n - 1) : Front(s)[i] = s[i]
  <2>1. \A i \in 1..(n - 1) : s[i] \in S
    BY <1>1
  <2>2. /\ SubSeq(s, 1, n - 1) \in Seq(S)
        /\ Len(SubSeq(s, 1, n - 1)) = IF 1 <= n - 1 THEN n - 1 - 1 + 1 ELSE 0
        /\ \A i \in 1..(n - 1 - 1 + 1) : SubSeq(s, 1, n - 1)[i] = s[1 + i - 1]
    BY <1>1, <2>1, SubSeqProperties
  <2> QED BY <1>1, <2>2 DEF Front
<1>3. DOMAIN Front(s) = 1..(n - 1)
  BY <1>2
<1>4. Last(s) = s[n]
  BY DEF Last
<1> HIDE DEF n
<1>5. ToSet(s) = ToSet(Front(s)) \cup {Last(s)}
  <2>1. ToSet(s) \subseteq ToSet(Front(s)) \cup {Last(s)}
    BY <1>1, <1>2, <1>3, <1>4 DEF ToSet
  <2>2. ToSet(Front(s)) \cup {Last(s)} \subseteq ToSet(s)
    BY <1>1, <1>2, <1>3, <1>4 DEF ToSet
  <2> QED BY <2>1, <2>2
<1>6. IsInjective(s) => IsInjective(Front(s)) /\ Last(s) \notin ToSet(Front(s))
  BY <1>1, <1>2, <1>3, <1>4 DEF ToSet, IsInjective
<1> QED BY <1>1, <1>2, <1>4, <1>5, <1>6

\* Without the head of the middle one of three lists every later element moves
\* down by one.
LEMMA RemoveHeadIndex ==
  ASSUME NEW S, NEW a \in Seq(S), NEW b \in Seq(S), NEW d \in Seq(S), b # <<>>,
         NEW u, u = a \o b \o d, NEW v, v = a \o Tail(b) \o d, NEW k, k = Len(a) + 1
  PROVE  /\ u \in Seq(S) /\ v \in Seq(S) /\ Len(v) = Len(u) - 1 /\ Len(u) \in Nat
         /\ DOMAIN u = 1..Len(u) /\ DOMAIN v = 1..Len(v)
         /\ k \in 1..Len(u) /\ u[k] = Head(b) /\ Head(b) \in S
         /\ \A i \in 1..Len(v) : v[i] = IF i < k THEN u[i] ELSE u[i + 1]
<1> DEFINE ab == a \o b
           at == a \o Tail(b)
<1>1. /\ Len(a) \in Nat /\ Len(b) \in Nat \ {0} /\ Len(d) \in Nat
      /\ Head(b) = b[1] /\ Head(b) \in S
  BY HeadTailProperties, LenProperties
<1>2. /\ Tail(b) \in Seq(S) /\ Len(Tail(b)) = Len(b) - 1
      /\ \A i \in 1..(Len(b) - 1) : Tail(b)[i] = b[i + 1]
  BY HeadTailProperties
<1>3. /\ ab \in Seq(S) /\ Len(ab) = Len(a) + Len(b)
      /\ \A i \in 1..(Len(a) + Len(b)) : ab[i] = IF i <= Len(a) THEN a[i] ELSE b[i - Len(a)]
  BY ConcatProperties
<1>4. /\ at \in Seq(S) /\ Len(at) = Len(a) + Len(b) - 1
      /\ \A i \in 1..(Len(a) + Len(b) - 1) :
           at[i] = IF i <= Len(a) THEN a[i] ELSE Tail(b)[i - Len(a)]
  BY <1>1, <1>2, ConcatProperties
<1>5. /\ u \in Seq(S) /\ Len(u) = Len(ab) + Len(d)
      /\ \A i \in 1..(Len(ab) + Len(d)) :
           u[i] = IF i <= Len(ab) THEN ab[i] ELSE d[i - Len(ab)]
  <2>1. u = ab \o d
    BY ConcatAssociative
  <2> QED BY <1>3, <2>1, ConcatProperties
<1>6. /\ v \in Seq(S) /\ Len(v) = Len(at) + Len(d)
      /\ \A i \in 1..(Len(at) + Len(d)) :
           v[i] = IF i <= Len(at) THEN at[i] ELSE d[i - Len(at)]
  <2>1. v = at \o d
    BY <1>2, ConcatAssociative
  <2> QED BY <1>4, <2>1, ConcatProperties
<1> HIDE DEF ab, at
<1>7. Len(v) = Len(u) - 1 /\ k \in 1..Len(u)
  BY <1>1, <1>3, <1>4, <1>5, <1>6
<1>8. u[k] = Head(b)
  BY <1>1, <1>3, <1>5
<1>9. ASSUME NEW i \in 1..Len(v) PROVE v[i] = IF i < k THEN u[i] ELSE u[i + 1]
  <2>1. CASE i < k
    BY <1>1, <1>3, <1>4, <1>5, <1>6, <2>1
  <2>2. CASE k <= i /\ i <= Len(at)
    <3>1. i - Len(a) \in 1..(Len(b) - 1)
      BY <1>1, <1>4, <2>2
    <3>2. v[i] = b[(i - Len(a)) + 1]
      BY <1>1, <1>2, <1>4, <1>6, <2>2, <3>1
    <3>3. u[i + 1] = b[(i + 1) - Len(a)]
      BY <1>1, <1>3, <1>4, <1>5, <2>2, <3>1
    <3> QED BY <1>1, <2>2, <3>2, <3>3
  <2>3. CASE Len(at) < i
    BY <1>1, <1>3, <1>4, <1>5, <1>6, <2>3
  <2> QED BY <1>1, <1>4, <2>1, <2>2, <2>3
<1> QED BY <1>1, <1>5, <1>6, <1>7, <1>8, <1>9

\* Taking the head off the middle one of three lists removes that element only.
LEMMA RemoveHead ==
  ASSUME NEW S, NEW a \in Seq(S), NEW b \in Seq(S), NEW d \in Seq(S),
         b # <<>>, IsInjective(a \o b \o d)
  PROVE  /\ Head(b) \in S
         /\ Head(b) \in ToSet(a \o b \o d)
         /\ IsInjective(a \o Tail(b) \o d)
         /\ ToSet(a \o Tail(b) \o d) = ToSet(a \o b \o d) \ {Head(b)}
<1> DEFINE u == a \o b \o d
           v == a \o Tail(b) \o d
           k == Len(a) + 1
<1>1. u \in Seq(S) /\ v \in Seq(S) /\ Len(v) = Len(u) - 1 /\ k \in 1..Len(u)
  BY RemoveHeadIndex
<1>2. u[k] = Head(b) /\ Head(b) \in S
  BY RemoveHeadIndex
<1>3. \A i \in 1..Len(v) : v[i] = IF i < k THEN u[i] ELSE u[i + 1]
  BY RemoveHeadIndex
<1>4. DOMAIN u = 1..Len(u) /\ DOMAIN v = 1..Len(v) /\ IsInjective(u)
  BY <1>1
<1>5. k \in Nat /\ Len(u) \in Nat /\ Len(v) \in Nat
  BY <1>1
<1> HIDE DEF u, v, k
<1>6. IsInjective(v)
  <2> SUFFICES ASSUME NEW i \in 1..Len(v), NEW j \in 1..Len(v), v[i] = v[j]
               PROVE  i = j
    BY <1>4 DEF IsInjective
  <2> DEFINE at(m) == IF m < k THEN m ELSE m + 1
  <2>1. at(i) \in 1..Len(u) /\ at(j) \in 1..Len(u)
    BY <1>1, <1>5
  <2>2. u[at(i)] = u[at(j)]
    BY <1>3
  <2>3. at(i) = at(j)
    BY <1>4, <2>1, <2>2 DEF IsInjective
  <2> QED BY <2>3, <1>5
<1>7. Head(b) \notin ToSet(v)
  <2> SUFFICES ASSUME NEW i \in 1..Len(v), v[i] = u[k] PROVE FALSE
    BY <1>2, <1>4 DEF ToSet
  <2> DEFINE at == IF i < k THEN i ELSE i + 1
  <2>1. at \in 1..Len(u) /\ at # k
    BY <1>1, <1>5
  <2>2. u[at] = u[k]
    BY <1>3
  <2> HIDE DEF at
  <2>3. at = k
    BY <1>1, <1>4, <2>1, <2>2 DEF IsInjective
  <2> QED BY <2>1, <2>3
<1>8. ToSet(v) \subseteq ToSet(u)
  BY <1>1, <1>3, <1>4, <1>5 DEF ToSet
<1>9. ToSet(u) \subseteq ToSet(v) \cup {Head(b)}
  <2> SUFFICES ASSUME NEW i \in 1..Len(u), i # k
               PROVE  \E j \in 1..Len(v) : v[j] = u[i]
    BY <1>2, <1>4 DEF ToSet
  <2>1. CASE i < k
    <3>1. i \in 1..Len(v) /\ v[i] = u[i]
      BY <2>1, <1>1, <1>3, <1>5
    <3> QED BY <3>1
  <2>2. CASE i > k
    <3>1. i - 1 \in 1..Len(v) /\ ~(i - 1 < k) /\ (i - 1) + 1 = i
      BY <2>2, <1>1, <1>5
    <3>2. v[i - 1] = u[i]
      BY <3>1, <1>3
    <3> QED BY <3>1, <3>2
  <2> QED BY <2>1, <2>2, <1>5
<1>10. Head(b) \in ToSet(u)
  BY <1>1, <1>2, <1>4 DEF ToSet
<1> QED BY <1>2, <1>6, <1>7, <1>8, <1>9, <1>10 DEF u, v

\* Moving the head of the second of three lists to the end of the first one
\* changes nothing in the whole.
LEMMA MoveHead ==
  ASSUME NEW S, NEW a \in Seq(S), NEW b \in Seq(S), NEW d \in Seq(S), b # <<>>
  PROVE  /\ Append(a, Head(b)) \in Seq(S)
         /\ Tail(b) \in Seq(S)
         /\ Append(a, Head(b)) \o Tail(b) \o d = a \o b \o d
<1>1. Head(b) \in S /\ Tail(b) \in Seq(S) /\ Append(a, Head(b)) \in Seq(S)
  OBVIOUS
<1>2. Append(a, Head(b)) \o Tail(b) = a \o b
  <2> DEFINE u == Append(a, Head(b)) \o Tail(b)
             v == a \o b
  <2>1. u \in Seq(S) /\ v \in Seq(S) /\ Len(u) = Len(v)
    BY <1>1
  <2>2. \A i \in 1..Len(u) : u[i] = v[i]
    BY <1>1
  <2> HIDE DEF u, v
  <2>3. u = v
    BY <2>1, <2>2, SeqEqual
  <2> QED BY <2>3 DEF u, v
<1> QED BY <1>1, <1>2

\* Appending to the last of three lists appends to the whole.
LEMMA AppendLast ==
  ASSUME NEW S, NEW a \in Seq(S), NEW b \in Seq(S), NEW d \in Seq(S), NEW x \in S
  PROVE  a \o b \o Append(d, x) = Append(a \o b \o d, x)
<1> DEFINE u == a \o b \o Append(d, x)
           v == Append(a \o b \o d, x)
<1>1. u \in Seq(S) /\ v \in Seq(S) /\ Len(u) = Len(v)
  OBVIOUS
<1>2. \A i \in 1..Len(u) : u[i] = v[i]
  OBVIOUS
<1> HIDE DEF u, v
<1>3. u = v
  BY <1>1, <1>2, SeqEqual
<1> QED BY <1>3 DEF u, v

\* The same with one sequence before the last.
LEMMA ConcatAppend ==
  ASSUME NEW S, NEW a \in Seq(S), NEW b \in Seq(S), NEW x \in S
  PROVE  a \o Append(b, x) = Append(a \o b, x)
<1> DEFINE u == a \o Append(b, x)
           v == Append(a \o b, x)
<1>1. u \in Seq(S) /\ v \in Seq(S) /\ Len(u) = Len(v)
  OBVIOUS
<1>2. \A i \in 1..Len(u) : u[i] = v[i]
  OBVIOUS
<1> HIDE DEF u, v
<1>3. u = v
  BY <1>1, <1>2, SeqEqual
<1> QED BY <1>3 DEF u, v

\* Appending an element is putting it before what follows.
LEMMA AppendConcat ==
  ASSUME NEW S, NEW a \in Seq(S), NEW b \in Seq(S), NEW x \in S
  PROVE  Append(a, x) \o b = a \o (<<x>> \o b)
<1> DEFINE u == Append(a, x) \o b
           v == a \o (<<x>> \o b)
<1>1. u \in Seq(S) /\ v \in Seq(S) /\ Len(u) = Len(v)
  OBVIOUS
<1>2. \A i \in 1..Len(u) : u[i] = v[i]
  OBVIOUS
<1> HIDE DEF u, v
<1>3. u = v
  BY <1>1, <1>2, SeqEqual
<1> QED BY <1>3 DEF u, v

\* Two sequences put together can be cut again where they meet.
LEMMA CutConcat ==
  ASSUME NEW S, NEW a \in Seq(S), NEW b \in Seq(S)
  PROVE  /\ SubSeq(a \o b, 1, Len(a)) = a
         /\ SubSeq(a \o b, Len(a) + 1, Len(a \o b)) = b
<1> DEFINE u == SubSeq(a \o b, 1, Len(a))
           v == SubSeq(a \o b, Len(a) + 1, Len(a \o b))
<1>1. /\ u \in Seq(S) /\ Len(u) = Len(a)
      /\ v \in Seq(S) /\ Len(v) = Len(b)
  OBVIOUS
<1>2. \A i \in 1..Len(u) : u[i] = a[i]
  OBVIOUS
<1>3. \A i \in 1..Len(v) : v[i] = b[i]
  OBVIOUS
<1> HIDE DEF u, v
<1>4. u = a /\ v = b
  BY <1>1, <1>2, <1>3, SeqEqual
<1> QED BY <1>4 DEF u, v

-----------------------------------------------------------------------------
(* Streams: sequences of growing numbers                                   *)

Increasing(s) == \A i, j \in DOMAIN s : i < j => s[i] < s[j]

\* The elements of a sequence put together from two are those of both.
LEMMA RangeConcat ==
  ASSUME NEW S, NEW s \in Seq(S), NEW t \in Seq(S)
  PROVE  /\ s \o t \in Seq(S)
         /\ Range(s \o t) = Range(s) \cup Range(t)
         /\ Range(s) \in SUBSET S
<1>1. \A r : Range(r) = ToSet(r)
  BY DEF Range, ToSet
<1>2. s \o t \in Seq(S) /\ ToSet(s \o t) = ToSet(s) \cup ToSet(t)
  BY ToSetConcat
<1>3. ToSet(s) \in SUBSET S
  BY ToSetType
<1> QED BY <1>1, <1>2, <1>3

\* Type, length and elements of two sequences put together.
LEMMA ConcatFacts ==
  ASSUME NEW S, NEW s \in Seq(S), NEW t \in Seq(S)
  PROVE  /\ s \o t \in Seq(S)
         /\ Len(s) \in Nat /\ Len(t) \in Nat
         /\ Len(s \o t) = Len(s) + Len(t)
         /\ Range(s \o t) = Range(s) \cup Range(t)
<1>1. s \o t \in Seq(S) /\ Len(s \o t) = Len(s) + Len(t) /\ Len(s) \in Nat /\ Len(t) \in Nat
  OBVIOUS
<1> QED BY <1>1, RangeConcat

\* Appending adds one element.
LEMMA RangeAppend ==
  ASSUME NEW S, NEW s \in Seq(S), NEW x \in S
  PROVE  Append(s, x) \in Seq(S) /\ Range(Append(s, x)) = Range(s) \cup {x}
BY ToSetAppend DEF Range, ToSet

\* Two streams are one if the second goes on where the first ends.
LEMMA IncreasingConcat ==
  ASSUME NEW s \in Seq(Nat), NEW t \in Seq(Nat)
  PROVE  Increasing(s \o t) <=> /\ Increasing(s) /\ Increasing(t)
                                /\ \A x \in Range(s), y \in Range(t) : x < y
<1> DEFINE u == s \o t
<1>1. /\ Len(s) \in Nat /\ Len(t) \in Nat /\ Len(u) = Len(s) + Len(t)
      /\ DOMAIN s = 1..Len(s) /\ DOMAIN t = 1..Len(t) /\ DOMAIN u = 1..Len(u)
      /\ \A i \in 1..Len(s) : u[i] = s[i]
      /\ \A i \in 1..Len(t) : u[Len(s) + i] = t[i]
      /\ \A i \in 1..Len(u) : i > Len(s) => i - Len(s) \in 1..Len(t) /\ u[i] = t[i - Len(s)]
  OBVIOUS
<1> HIDE DEF u
<1>2. ASSUME Increasing(u)
      PROVE  Increasing(s) /\ Increasing(t) /\ \A x \in Range(s), y \in Range(t) : x < y
  <2>1. Increasing(s)
    BY <1>1, <1>2 DEF Increasing
  <2>2. ASSUME NEW i \in 1..Len(t), NEW j \in 1..Len(t), i < j
        PROVE  t[i] < t[j]
    <3>1. /\ Len(s) + i \in DOMAIN u /\ Len(s) + j \in DOMAIN u /\ Len(s) + i < Len(s) + j
          /\ u[Len(s) + i] = t[i] /\ u[Len(s) + j] = t[j]
      BY <1>1, <2>2
    <3> QED BY <1>2, <3>1 DEF Increasing
  <2>3. ASSUME NEW i \in 1..Len(s), NEW j \in 1..Len(t)
        PROVE  s[i] < t[j]
    <3>1. /\ i \in DOMAIN u /\ Len(s) + j \in DOMAIN u /\ i < Len(s) + j
          /\ u[i] = s[i] /\ u[Len(s) + j] = t[j]
      BY <1>1
    <3> QED BY <1>2, <3>1 DEF Increasing
  <2> QED BY <1>1, <2>1, <2>2, <2>3 DEF Increasing, Range
<1>3. ASSUME Increasing(s), Increasing(t), \A x \in Range(s), y \in Range(t) : x < y,
             NEW i \in 1..Len(u), NEW j \in 1..Len(u), i < j
      PROVE  u[i] < u[j]
  <2>1. CASE j <= Len(s)
    <3>1. i \in DOMAIN s /\ j \in DOMAIN s /\ u[i] = s[i] /\ u[j] = s[j]
      BY <1>1, <1>3, <2>1
    <3> QED BY <1>3, <3>1 DEF Increasing
  <2>2. CASE i > Len(s)
    <3>1. /\ i - Len(s) \in DOMAIN t /\ j - Len(s) \in DOMAIN t /\ i - Len(s) < j - Len(s)
          /\ u[i] = t[i - Len(s)] /\ u[j] = t[j - Len(s)]
      BY <1>1, <1>3, <2>2
    <3> QED BY <1>3, <3>1 DEF Increasing
  <2>3. CASE i <= Len(s) /\ j > Len(s)
    <3>1. i \in DOMAIN s /\ u[i] = s[i] /\ j - Len(s) \in DOMAIN t /\ u[j] = t[j - Len(s)]
      BY <1>1, <2>3
    <3>2. u[i] \in Range(s) /\ u[j] \in Range(t)
      BY <3>1 DEF Range
    <3> QED BY <1>3, <3>2
  <2> QED BY <1>1, <2>1, <2>2, <2>3
<1>4. Increasing(u) <=> /\ Increasing(s) /\ Increasing(t)
                        /\ \A x \in Range(s), y \in Range(t) : x < y
  BY <1>1, <1>2, <1>3 DEF Increasing
<1> QED BY <1>4 DEF u

\* Two streams put together have the elements of both.
LEMMA StreamConcat ==
  ASSUME NEW s \in Seq(Nat), NEW t \in Seq(Nat)
  PROVE  /\ s \o t \in Seq(Nat) /\ Range(s \o t) = Range(s) \cup Range(t)
         /\ Range(s) \subseteq Nat /\ Range(t) \subseteq Nat
BY RangeConcat

\* Streams are put together in any order.
LEMMA StreamAssociative ==
  ASSUME NEW r \in Seq(Nat), NEW s \in Seq(Nat), NEW t \in Seq(Nat)
  PROVE  (r \o s) \o t = r \o (s \o t)
BY ConcatAssociative

\* A stream without a piece of it is a stream, of the other elements.
LEMMA CutOut ==
  ASSUME NEW r \in Seq(Nat), NEW s \in Seq(Nat), NEW t \in Seq(Nat), Increasing((r \o s) \o t)
  PROVE  /\ r \o t \in Seq(Nat) /\ Increasing(r \o t)
         /\ Range((r \o s) \o t) = Range(r \o t) \cup Range(s)
         /\ Range(r \o t) \cap Range(s) = {}
<1>1. r \o s \in Seq(Nat) /\ r \o t \in Seq(Nat)
  BY StreamConcat
<1>2. /\ Range(r \o s) = Range(r) \cup Range(s) /\ Range(r \o t) = Range(r) \cup Range(t)
      /\ Range(s) \subseteq Nat
  BY StreamConcat
<1>3. Range((r \o s) \o t) = Range(r \o s) \cup Range(t)
  BY <1>1, StreamConcat
<1>4. Increasing(r \o s) /\ Increasing(t) /\ \A x \in Range(r \o s), y \in Range(t) : x < y
  BY <1>1, IncreasingConcat
<1>5. Increasing(r) /\ \A x \in Range(r), y \in Range(s) : x < y
  BY <1>4, IncreasingConcat
<1>6. Increasing(r \o t)
  <2>1. \A x \in Range(r), y \in Range(t) : x < y
    BY <1>2, <1>4
  <2> QED BY <1>4, <1>5, <2>1, IncreasingConcat
<1>7. ASSUME NEW x \in Range(s), x \in Range(r \o t)
      PROVE  FALSE
  <2>1. x \in Nat /\ (x \in Range(r) \/ x \in Range(t))
    BY <1>2, <1>7
  <2>2. x < x
    BY <1>2, <1>4, <1>5, <1>7, <2>1
  <2> QED BY <2>1, <2>2
<1> QED BY <1>1, <1>2, <1>3, <1>6, <1>7

\* A number that is larger than all of a stream goes on with it.
LEMMA IncreasingAppend ==
  ASSUME NEW s \in Seq(Nat), NEW n \in Nat, Increasing(s), \A x \in Range(s) : x < n
  PROVE  Append(s, n) \in Seq(Nat) /\ Increasing(Append(s, n)) /\ Range(Append(s, n)) = Range(s) \cup {n}
<1>1. /\ Len(s) \in Nat /\ DOMAIN s = 1 .. Len(s) /\ DOMAIN Append(s, n) = 1 .. Len(s) + 1
      /\ \A i \in 1 .. Len(s) : Append(s, n)[i] = s[i]
      /\ Append(s, n)[Len(s) + 1] = n
  BY AppendProperties
<1>2. \A i \in 1 .. Len(s) : s[i] < n
  BY <1>1 DEF Range
<1>3. Increasing(Append(s, n))
  <2> SUFFICES ASSUME NEW i \in 1 .. Len(s) + 1, NEW j \in 1 .. Len(s) + 1, i < j
               PROVE  Append(s, n)[i] < Append(s, n)[j]
    BY <1>1 DEF Increasing
  <2>1. CASE j \in 1 .. Len(s)
    BY <1>1, <2>1 DEF Increasing
  <2>2. CASE j = Len(s) + 1
    BY <1>1, <1>2, <2>2
  <2> QED BY <1>1, <2>1, <2>2
<1> QED BY <1>3, RangeAppend

\* A sequence is its first n elements and the others.
LEMMA SplitAt ==
  ASSUME NEW S, NEW s \in Seq(S), NEW n \in 0..Len(s)
  PROVE  /\ SubSeq(s, 1, n) \in Seq(S) /\ Len(SubSeq(s, 1, n)) = n
         /\ SubSeq(s, n + 1, Len(s)) \in Seq(S)
         /\ s = SubSeq(s, 1, n) \o SubSeq(s, n + 1, Len(s))
<1> DEFINE a == SubSeq(s, 1, n)
           b == SubSeq(s, n + 1, Len(s))
           u == a \o b
<1>1. n \in Nat /\ Len(s) \in Nat /\ n <= Len(s)
  OBVIOUS
<1>2. a \in Seq(S) /\ Len(a) = n /\ \A i \in 1..n : a[i] = s[i]
  OBVIOUS
<1>3. b \in Seq(S) /\ Len(b) = Len(s) - n
  OBVIOUS
<1>4. \A i \in 1..Len(s) - n : b[i] = s[n + i]
  OBVIOUS
<1> HIDE DEF a, b
<1>5. u \in Seq(S) /\ Len(u) = Len(s)
  BY <1>1, <1>2, <1>3
<1>6. \A i \in 1..n : u[i] = s[i]
  BY <1>1, <1>2, <1>3
<1>7. \A i \in n + 1..Len(s) : u[i] = b[i - n] /\ i - n \in 1..Len(s) - n /\ n + (i - n) = i
  BY <1>1, <1>2, <1>3
<1> HIDE DEF u
<1>8. \A i \in n + 1..Len(s) : u[i] = s[i]
  BY <1>4, <1>7
<1>9. \A i \in 1..Len(s) : u[i] = s[i]
  BY <1>1, <1>6, <1>8
<1>10. s = u
  BY <1>5, <1>9, SeqEqual
<1> QED BY <1>2, <1>3, <1>10 DEF a, b, u

\* Moving the first element of one sequence behind another leaves both together alone.
LEMMA PassOn ==
  ASSUME NEW S, NEW a \in Seq(S), NEW b \in Seq(S), b # <<>>
  PROVE  /\ Append(a, Head(b)) \in Seq(S) /\ Tail(b) \in Seq(S)
         /\ Append(a, Head(b)) \o Tail(b) = a \o b
<1>1. <<>> \in Seq(S) /\ a \o b \o <<>> = a \o b
  OBVIOUS
<1>2. Append(a, Head(b)) \o Tail(b) \o <<>> = Append(a, Head(b)) \o Tail(b)
  BY MoveHead, <1>1
<1> QED BY <1>1, <1>2, MoveHead

\* Moving the first byte of a stream behind another leaves both together alone.
LEMMA StreamPassOn ==
  ASSUME NEW a \in Seq(Nat), NEW b \in Seq(Nat), b # <<>>
  PROVE  Append(a, Head(b)) \o Tail(b) = a \o b
BY PassOn

\* A byte more at the end of the last of three streams is one at the end of them all.
LEMMA StreamAppend ==
  ASSUME NEW a \in Seq(Nat), NEW b \in Seq(Nat), NEW d \in Seq(Nat), NEW n \in Nat
  PROVE  (a \o b) \o Append(d, n) = Append((a \o b) \o d, n)
BY AppendLast

\* The smaller one of two numbers.
LEMMA MinOfTwo ==
  ASSUME NEW a \in Nat, NEW b \in Nat
  PROVE  /\ Min({a, b}) \in {a, b} /\ Min({a, b}) \in Nat
         /\ Min({a, b}) <= a /\ Min({a, b}) <= b
<1>1. \E x \in {a, b} : \A y \in {a, b} : x <= y
  OBVIOUS
<1>2. Min({a, b}) \in {a, b} /\ \A y \in {a, b} : Min({a, b}) <= y
  BY <1>1 DEF Min
<1> QED BY <1>2

\* A set of numbers that is not empty has a least element.
LEMMA LeastExists ==
  ASSUME NEW S \in SUBSET Nat, S # {}
  PROVE  Min(S) \in S /\ \A y \in S : Min(S) <= y
<1>1. \E x \in S : \A y \in S : ~(<<y, x>> \in OpToRel(<, Nat))
  BY NatLessThanWellFounded, WFMin
<1>2. OpToRel(<, Nat) = {p \in Nat \X Nat : p[1] < p[2]}
  BY Zenon DEF OpToRel
<1>3. \A x, y \in Nat : y < x => <<y, x>> \in {p \in Nat \X Nat : p[1] < p[2]}
  OBVIOUS
<1>4. \E x \in S : \A y \in S : ~(y < x)
  BY <1>1, <1>2, <1>3, Zenon
<1>5. \E x \in S : \A y \in S : x <= y
  BY <1>4
<1> QED BY <1>5 DEF Min

-----------------------------------------------------------------------------
(* Induction, with sets for the induction hypotheses                       *)

\* A set of numbers that has zero and with each number the next one has all of them: the
\* least number it misses would not be zero and have no number before it.
LEMMA NumberInduction ==
  ASSUME NEW S \in SUBSET Nat, 0 \in S, \A n \in Nat : n \in S => n + 1 \in S
  PROVE  S = Nat
<1>1. SUFFICES ASSUME Nat \ S # {} PROVE FALSE
  OBVIOUS
<1>2. \E p \in Nat \ S : \A q \in Nat \ S : ~(<<q, p>> \in OpToRel(<, Nat))
  BY <1>1, NatLessThanWellFounded, WFMin
<1>3. OpToRel(<, Nat) = {r \in Nat \X Nat : r[1] < r[2]}
  BY Zenon DEF OpToRel
<1>4. PICK p \in Nat \ S : \A q \in Nat \ S : ~(q < p)
  <2>1. \A p, q \in Nat : q < p => <<q, p>> \in {r \in Nat \X Nat : r[1] < r[2]}
    OBVIOUS
  <2> QED BY <1>2, <1>3, <2>1
<1>5. p # 0 /\ p - 1 \in Nat
  BY <1>1
<1>6. p - 1 \in S
  BY <1>4, <1>5
<1> QED BY <1>4, <1>5, <1>6

\* A set of sequences that has the empty one and with each sequence those with one
\* element more has all of them.
LEMMA SequenceInduction ==
  ASSUME NEW R, NEW S \in SUBSET Seq(R), <<>> \in S,
         \A s \in S, x \in R : Append(s, x) \in S
  PROVE  S = Seq(R)
<1> DEFINE N == {n \in Nat : \A s \in Seq(R) : Len(s) = n => s \in S}
<1>1. 0 \in N
  <2>1. \A s \in Seq(R) : Len(s) = 0 => s = <<>>
    OBVIOUS
  <2> QED BY <2>1
<1>2. ASSUME NEW n \in Nat, n \in N PROVE n + 1 \in N
  <2> SUFFICES ASSUME NEW s \in Seq(R), Len(s) = n + 1 PROVE s \in S
    OBVIOUS
  <2>1. s # <<>>
    OBVIOUS
  <2>2. PICK t \in Seq(R), e \in R : s = Append(t, e)
    BY <2>1, SequenceEmptyOrAppend
  <2>3. Len(t) \in Nat /\ Len(s) = Len(t) + 1
    BY <2>2
  <2>4. Len(t) = n
    BY <2>3
  <2>5. t \in S
    BY <1>2, <2>4
  <2> QED BY <2>2, <2>5
<1> HIDE DEF N
<1>3. N = Nat
  <2>1. N \in SUBSET Nat
    BY DEF N
  <2> QED BY <1>1, <1>2, <2>1, NumberInduction
<1>4. ASSUME NEW s \in Seq(R) PROVE s \in S
  <2>1. Len(s) \in Nat
    OBVIOUS
  <2> QED BY <1>3, <2>1 DEF N
<1> QED BY <1>4

\* What a recursion over 0 .. n defines exists: a function with the value b at zero and
\* after that, at each number, what the step makes of the number and the value before it.
Steps(D) == [Nat \X D -> D]
Recursion(f, b, step, n) == f[0] = b /\ \A k \in 1 .. n : f[k] = step[<<k, f[k - 1]>>]

LEMMA RecursionExists ==
  ASSUME NEW D, NEW b \in D, NEW step \in Steps(D), NEW n \in Nat
  PROVE  \E f \in [0 .. n -> D] : Recursion(f, b, step, n)
<1> USE DEF Steps
<1> DEFINE Is(m, f) == f[0] = b /\ \A k \in 1 .. m : f[k] = step[<<k, f[k - 1]>>]
           S == {m \in Nat : \E f \in [0 .. m -> D] : Is(m, f)}
<1>1. 0 \in S
  <2> DEFINE f == [k \in 0 .. 0 |-> b]
  <2>1. f \in [0 .. 0 -> D] /\ Is(0, f)
    OBVIOUS
  <2> QED BY <2>1
<1>2. ASSUME NEW m \in Nat, m \in S PROVE m + 1 \in S
  <2>1. PICK f \in [0 .. m -> D] : Is(m, f)
    BY <1>2
  <2> DEFINE g == [k \in 0 .. m + 1 |-> IF k = m + 1 THEN step[<<m + 1, f[m]>>] ELSE f[k]]
  <2>2. step[<<m + 1, f[m]>>] \in D
    OBVIOUS
  <2>3. g \in [0 .. m + 1 -> D]
    BY <2>2
  <2>4. g[m + 1] = step[<<m + 1, f[m]>>] /\ \A k \in 0 .. m : g[k] = f[k]
    OBVIOUS
  <2> HIDE DEF g
  <2>5. g[0] = b
    BY <2>1, <2>4
  <2>6. ASSUME NEW k \in 1 .. m + 1 PROVE g[k] = step[<<k, g[k - 1]>>]
    <3>1. CASE k = m + 1
      <4>1. k - 1 = m /\ m \in 0 .. m
        BY <3>1
      <4> QED BY <2>4, <3>1, <4>1
    <3>2. CASE k \in 1 .. m
      <4>1. k \in 0 .. m /\ k - 1 \in 0 .. m
        BY <3>2
      <4> QED BY <2>1, <2>4, <3>2, <4>1
    <3> QED BY <3>1, <3>2
  <2> QED BY <2>3, <2>5, <2>6
<1>3. S = Nat
  <2> HIDE DEF Is
  <2>1. S \in SUBSET Nat
    OBVIOUS
  <2> HIDE DEF S
  <2> QED BY <1>1, <1>2, <2>1, NumberInduction
<1> QED BY <1>3 DEF Recursion

\* A recursion that has at each point only to do with points of a lower rank defines a
\* function.  Points may be of any kind, and the rank is at most n.
RankedSteps(X, D) == [X \X [X -> D] -> D]
Ranked(X, D, rank, step) ==
  \A x \in X : \A g, h \in [X -> D] :
    (\A y \in X : rank[y] < rank[x] => g[y] = h[y]) => step[<<x, g>>] = step[<<x, h>>]
Solves(f, X, step) == \A x \in X : f[x] = step[<<x, f>>]

LEMMA RankedRecursion ==
  ASSUME NEW X, NEW D, D # {}, NEW n \in Nat, NEW rank \in [X -> 0 .. n],
         NEW step \in RankedSteps(X, D), Ranked(X, D, rank, step)
  PROVE  \E f \in [X -> D] : Solves(f, X, step)
<1> USE DEF RankedSteps, Ranked, Solves
<1> DEFINE Upto(m, f) == \A x \in X : rank[x] < m => f[x] = step[<<x, f>>]
           S == {m \in Nat : \E f \in [X -> D] : Upto(m, f)}
<1>1. 0 \in S
  <2>1. PICK d \in D : TRUE
    OBVIOUS
  <2>2. [x \in X |-> d] \in [X -> D]
    OBVIOUS
  <2>3. \A x \in X : ~(rank[x] < 0)
    OBVIOUS
  <2> QED BY <2>2, <2>3
<1>2. ASSUME NEW m \in Nat, m \in S PROVE m + 1 \in S
  <2>1. PICK f \in [X -> D] : Upto(m, f)
    BY <1>2
  <2> DEFINE g == [x \in X |-> step[<<x, f>>]]
  <2>2. g \in [X -> D] /\ \A x \in X : g[x] = step[<<x, f>>]
    OBVIOUS
  <2> HIDE DEF g
  <2>3. ASSUME NEW x \in X, rank[x] < m + 1 PROVE g[x] = step[<<x, g>>]
    <3>1. ASSUME NEW y \in X, rank[y] < rank[x] PROVE f[y] = g[y]
      <4>1. rank[y] \in Nat /\ rank[x] \in Nat
        OBVIOUS
      <4>2. rank[y] < m
        BY <2>3, <3>1, <4>1
      <4> QED BY <2>1, <2>2, <4>2
    <3>2. step[<<x, f>>] = step[<<x, g>>]
      BY <2>2, <3>1, Zenon
    <3> QED BY <2>2, <3>2
  <2> QED BY <2>2, <2>3
<1> HIDE DEF Upto
<1>3. S = Nat
  <2>1. S \in SUBSET Nat
    OBVIOUS
  <2> HIDE DEF S
  <2> QED BY <1>1, <1>2, <2>1, NumberInduction
<1>4. PICK f \in [X -> D] : Upto(n + 1, f)
  <2>1. n + 1 \in Nat
    OBVIOUS
  <2> QED BY <1>3, <2>1, Zenon
<1>5. ASSUME NEW x \in X PROVE rank[x] < n + 1
  <2>1. rank[x] \in 0 .. n
    OBVIOUS
  <2> QED BY <2>1
<1> QED BY <1>4, <1>5 DEF Upto

-----------------------------------------------------------------------------
(* Sequences of sequences put together                                     *)

\* What is put together after each of the sequences.
Sums(s, A) == A[0] = <<>> /\ \A k \in 1 .. Len(s) : A[k] = A[k - 1] \o s[k]

\* There is such a function.
LEMMA SumsExist ==
  ASSUME NEW T, NEW s \in Seq(Seq(T))
  PROVE  \E A \in [0 .. Len(s) -> Seq(T)] : Sums(s, A)
<1> DEFINE D == Seq(T)
           n == Len(s)
           none == <<>>
           step == [z \in Nat \X D |-> IF z[1] \in 1 .. n THEN z[2] \o s[z[1]] ELSE z[2]]
<1>1. n \in Nat /\ none \in D /\ \A k \in 1 .. n : s[k] \in D
  OBVIOUS
<1>2. \A x, y \in D : x \o y \in D
  BY ConcatProperties
<1> HIDE DEF D, n
<1>3. /\ step \in Steps(D)
      /\ \A k \in 1 .. n : \A x \in D : step[<<k, x>>] = x \o s[k]
  <2>1. \A z \in Nat \X D : (IF z[1] \in 1 .. n THEN z[2] \o s[z[1]] ELSE z[2]) \in D
    BY <1>1, <1>2
  <2>2. \A k \in 1 .. n : k \in Nat
    BY <1>1
  <2> QED BY <2>1, <2>2 DEF Steps
<1> HIDE DEF step
<1>4. PICK A \in [0 .. n -> D] : Recursion(A, none, step, n)
  <2> HIDE DEF none
  <2> QED BY <1>1, <1>3, RecursionExists
<1>5. A[0] = <<>> /\ \A k \in 1 .. n : A[k] = step[<<k, A[k - 1]>>]
  BY <1>4, Zenon DEF Recursion
<1>6. ASSUME NEW k \in 1 .. n PROVE A[k] = A[k - 1] \o s[k]
  <2>1. k - 1 \in 0 .. n
    BY <1>1
  <2>2. A[k - 1] \in D
    BY <2>1
  <2> QED BY <1>3, <1>5, <2>2
<1>7. Sums(s, A)
  BY <1>5, <1>6, Zenon DEF Sums, n
<1> QED BY <1>7 DEF n, D

\* FlattenSeq ends where that function does.
LEMMA FlattenIs ==
  ASSUME NEW T, NEW s \in Seq(Seq(T)), NEW A \in [0 .. Len(s) -> Seq(T)], Sums(s, A)
  PROVE  FlattenSeq(s) = A[Len(s)]
<1> DEFINE n == Len(s)
           Is(F) == F = [i \in 1 .. n |-> IF i = 1 THEN s[i] ELSE F[i - 1] \o s[i]]
           F == CHOOSE g : Is(g)
<1>1. n \in Nat
  OBVIOUS
<1>2. A[0] = <<>> /\ \A k \in 1 .. n : A[k] = A[k - 1] \o s[k]
  BY Zenon DEF Sums
<1>3. CASE n = 0
  <2>1. s = <<>>
    BY <1>3
  <2>2. FlattenSeq(s) = s
    BY <1>3, Zenon DEF FlattenSeq
  <2> QED BY <1>2, <1>3, <2>1, <2>2
<1>4. CASE n # 0
  <2>1. \A i \in 1 .. n : A[i] = IF i = 1 THEN s[i] ELSE A[i - 1] \o s[i]
    <3>1. 1 \in 1 .. n /\ 1 - 1 = 0
      BY <1>1, <1>4
    <3>2. s[1] \in Seq(T)
      BY <3>1
    <3>3. <<>> \o s[1] = s[1]
      BY <3>2
    <3>4. A[1] = A[1 - 1] \o s[1]
      BY <1>2, <3>1, Zenon
    <3>5. A[1] = s[1]
      BY <1>2, <3>1, <3>3, <3>4, Zenon
    <3> QED BY <1>2, <3>5, Zenon
  <2> DEFINE G == [i \in 1 .. n |-> A[i]]
  <2>2. Is(G)
    <3>1. \A i \in 1 .. n : i # 1 => i - 1 \in 1 .. n
      BY <1>1
    <3>2. \A i \in 1 .. n : G[i] = A[i]
      OBVIOUS
    <3>3. \A i \in 1 .. n : G[i] = IF i = 1 THEN s[i] ELSE G[i - 1] \o s[i]
      <4> HIDE DEF G
      <4> QED BY <2>1, <3>1, <3>2, Zenon
    <3>4. G = [i \in 1 .. n |-> G[i]]
      OBVIOUS
    <3> HIDE DEF G
    <3> QED BY <3>3, <3>4
  <2>3. Is(F)
    <3> HIDE DEF G, Is
    <3> QED BY <2>2, Zenon
  <2>4. FlattenSeq(s) = F[n]
    BY <1>4, Zenon DEF FlattenSeq
  <2> HIDE DEF F
  <2>5. \A i \in 1 .. n : F[i] = IF i = 1 THEN s[i] ELSE F[i - 1] \o s[i]
    BY <2>3, Zenon
  <2> DEFINE S == {k \in Nat : k + 1 <= n => F[k + 1] = A[k + 1]}
  <2>6. 0 \in S
    <3>1. 1 \in 1 .. n
      BY <1>1, <1>4
    <3> QED BY <2>1, <2>5, <3>1
  <2>7. ASSUME NEW k \in Nat, k \in S PROVE k + 1 \in S
    <3> SUFFICES ASSUME k + 1 + 1 <= n PROVE F[k + 1 + 1] = A[k + 1 + 1]
      OBVIOUS
    <3> DEFINE i == k + 1 + 1
    <3>1. i \in 1 .. n /\ i # 1 /\ i - 1 = k + 1
      BY <1>1
    <3>2. F[i - 1] = A[i - 1]
      <4>1. F[k + 1] = A[k + 1]
        BY <1>1, <2>7
      <4> QED BY <3>1, <4>1
    <3> HIDE DEF i
    <3>3. F[i] = A[i]
      BY <2>1, <2>5, <3>1, <3>2, Zenon
    <3> QED BY <3>3 DEF i
  <2>8. S = Nat
    <3>1. S \in SUBSET Nat
      OBVIOUS
    <3> HIDE DEF S
    <3> QED BY <2>6, <2>7, <3>1, NumberInduction
  <2>9. n - 1 \in Nat /\ n - 1 + 1 = n
    BY <1>1, <1>4
  <2>10. n - 1 \in S
    BY <2>8, <2>9, Zenon
  <2>11. F[n] = A[n]
    BY <1>1, <2>9, <2>10
  <2> QED BY <2>4, <2>11
<1> QED BY <1>3, <1>4

\* A sequence more is put behind the others.
LEMMA FlattenAppend ==
  ASSUME NEW T, NEW s \in Seq(Seq(T)), NEW x \in Seq(T)
  PROVE  /\ FlattenSeq(s) \in Seq(T)
         /\ FlattenSeq(Append(s, x)) = FlattenSeq(s) \o x
<1> DEFINE n == Len(s)
           t == Append(s, x)
<1>1. PICK A \in [0 .. n -> Seq(T)] : Sums(s, A)
  BY SumsExist
<1> DEFINE B == [k \in 0 .. n + 1 |-> IF k = n + 1 THEN A[n] \o x ELSE A[k]]
<1>2. n \in Nat /\ n \in 0 .. n
  OBVIOUS
<1>3. FlattenSeq(s) = A[n] /\ A[n] \in Seq(T)
  BY <1>1, <1>2, FlattenIs
<1>4. /\ t \in Seq(Seq(T)) /\ Len(t) = n + 1
      /\ \A k \in 1 .. n : t[k] = s[k]
      /\ t[n + 1] = x
  BY AppendProperties
<1>5. A[n] \o x \in Seq(T)
  <2> DEFINE a == A[n]
  <2>1. a \in Seq(T)
    BY <1>3
  <2> HIDE DEF a
  <2>2. a \o x \in Seq(T)
    BY <2>1, ConcatProperties
  <2> QED BY <2>2 DEF a
<1>6. /\ B \in [0 .. n + 1 -> Seq(T)]
      /\ B[n + 1] = A[n] \o x /\ \A k \in 0 .. n : B[k] = A[k]
  BY <1>2, <1>5
<1> HIDE DEF B, t
<1>7. Sums(t, B)
  <2>1. A[0] = <<>> /\ \A k \in 1 .. n : A[k] = A[k - 1] \o s[k]
    BY <1>1, Zenon DEF Sums
  <2>2. B[0] = <<>>
    BY <1>2, <1>6, <2>1
  <2>3. ASSUME NEW k \in 1 .. n + 1 PROVE B[k] = B[k - 1] \o t[k]
    <3>1. CASE k = n + 1
      <4>1. k - 1 = n
        BY <1>2, <3>1
      <4>2. B[k - 1] = A[n]
        BY <1>2, <1>6, <4>1
      <4> QED BY <1>4, <1>6, <3>1, <4>2, Zenon
    <3>2. CASE k # n + 1
      <4>1. k \in 1 .. n /\ k \in 0 .. n /\ k - 1 \in 0 .. n
        BY <1>2, <3>2
      <4> QED BY <1>4, <1>6, <2>1, <4>1, Zenon
    <3> QED BY <3>1, <3>2
  <2> QED BY <1>4, <2>2, <2>3, Zenon DEF Sums
<1>8. FlattenSeq(t) = B[n + 1]
  <2>1. B \in [0 .. Len(t) -> Seq(T)]
    BY <1>4, <1>6, Zenon
  <2>2. FlattenSeq(t) = B[Len(t)]
    BY <1>4, <1>7, <2>1, FlattenIs, Zenon
  <2> QED BY <1>4, <2>2, Zenon
<1>9. FlattenSeq(t) = FlattenSeq(s) \o x
  BY <1>3, <1>6, <1>8, Zenon
<1> QED BY <1>3, <1>9 DEF t

=============================================================================
