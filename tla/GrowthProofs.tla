---------------------------- MODULE GrowthProofs ----------------------------
(***************************************************************************)
(* The tables of scheduler and poller stay in step, and the only index     *)
(* past the end of one is a power of two, for every number of descriptors. *)
(*                                                                         *)
(* The tables grow at different moments (~socket asks the poller only), so *)
(* that one is never behind the other needs more than what adjust_size_    *)
(* was asked for: every size is 0 or a power of two (SizeInv), and of two  *)
(* that are above an index none is below its bit_ceil.                     *)
(***************************************************************************)
EXTENDS Growth, FiniteSetTheorems, WellFoundedInduction, TLAPS

Size == {0} \cup PowersOfTwo

SizeInv == nodesSize \in Size /\ focusSize \in Size

\* The handler works on a descriptor, and nothing undefined has happened before.
PcInv == (pc = "handler" => cur \in Fd) /\ (IsDefined => why = "nothing")

IInv ==
  /\ TypeOK
  /\ SizeInv
  /\ PcInv
  /\ BatchFits
  /\ HandlerInBounds
  /\ OnlyPowersEscape

-----------------------------------------------------------------------------

\* bit_ceil of a descriptor is the least power of two that is not below it.
LEMMA BitCeilLeast ==
  ASSUME NEW n \in Fd
  PROVE  /\ BitCeil(n) \in PowersOfTwo \cap Nat /\ n <= BitCeil(n)
         /\ \A q \in PowersOfTwo : q >= n => BitCeil(n) <= q
<1> DEFINE above == {q \in PowersOfTwo : q >= n}
<1>1. n \in Nat /\ n <= 2^20
  <2>1. 2^20 = 1048576
    OBVIOUS
  <2> QED BY <2>1, GrowthAssumption DEF Fd
<1>2. PowersOfTwo \subseteq Int
  BY DEF PowersOfTwo
<1>3. above \subseteq Nat
  <2>1. ASSUME NEW q \in PowersOfTwo, q >= n
        PROVE  q \in Nat
    <3>1. q \in Int
      BY <1>2
    <3> QED BY <1>1, <2>1, <3>1
  <2> QED BY <2>1
<1>4. above # {}
  <2>1. 2^20 \in PowersOfTwo
    BY DEF PowersOfTwo
  <2> QED BY <1>1, <2>1
<1>5. PICK p \in above : \A q \in above : ~(q < p)
  <2>1. \E p \in above : \A q \in above : ~(<<q, p>> \in OpToRel(<, Nat))
    BY <1>3, <1>4, NatLessThanWellFounded, WFMin
  <2>2. OpToRel(<, Nat) = {r \in Nat \X Nat : r[1] < r[2]}
    BY Zenon DEF OpToRel
  <2>3. \A p, q \in Nat : q < p => <<q, p>> \in {r \in Nat \X Nat : r[1] < r[2]}
    OBVIOUS
  <2> HIDE DEF above
  <2> QED BY <1>3, <2>1, <2>2, <2>3, Zenon
<1>6. p \in PowersOfTwo /\ p >= n /\ \A q \in PowersOfTwo : q >= n => p <= q
  BY <1>3, <1>5
<1>7. /\ BitCeil(n) \in PowersOfTwo /\ BitCeil(n) >= n
      /\ \A q \in PowersOfTwo : q >= n => BitCeil(n) <= q
  BY <1>6 DEF BitCeil
<1>8. BitCeil(n) \in Nat
  BY <1>3, <1>7
<1> HIDE DEF above
<1> QED BY <1>1, <1>7, <1>8

\* A table that is asked for an index keeps its kind of size, never shrinks, and has
\* room for the index unless the index is a power of two and its new size.
LEMMA AdjustedGrows ==
  ASSUME NEW size \in Size \cap Nat, NEW n \in Fd
  PROVE  /\ Adjusted(size, n) \in Size \cap Nat
         /\ size <= Adjusted(size, n)
         /\ n < Adjusted(size, n) \/ (n = Adjusted(size, n) /\ n \in PowersOfTwo)
<1>1. n \in Nat
  BY GrowthAssumption DEF Fd
<1>2. CASE size > n
  BY <1>1, <1>2 DEF Adjusted
<1>3. CASE ~(size > n)
  <2>1. Adjusted(size, n) = BitCeil(n)
    BY <1>3 DEF Adjusted
  <2> QED BY <1>1, <1>3, <2>1, BitCeilLeast DEF Size
<1> QED BY <1>2, <1>3

\* Two tables that are asked for the same index stay in order.
LEMMA AdjustedMonotone ==
  ASSUME NEW a \in Size \cap Nat, NEW b \in Size \cap Nat, a <= b, NEW n \in Fd
  PROVE  Adjusted(a, n) <= Adjusted(b, n)
BY BitCeilLeast, GrowthAssumption DEF Adjusted, Size, Fd

\* Descriptors below the size of a table are no more than that.
LEMMA Fits ==
  ASSUME NEW W \in SUBSET Fd, NEW n \in Nat, \A fd \in W : fd < n
  PROVE  Cardinality(W) <= n
<1>1. W \subseteq 1 .. n
  BY GrowthAssumption DEF Fd
<1>2. IsFiniteSet(1 .. n) /\ Cardinality(1 .. n) = n
  BY FS_Interval
<1>3. Cardinality(W) <= Cardinality(1 .. n)
  BY <1>1, <1>2, FS_Subset
<1> QED BY <1>2, <1>3

-----------------------------------------------------------------------------

\* The tables are empty at first.
LEMMA Initial == Init => IInv
<1> SUFFICES ASSUME Init PROVE IInv
  OBVIOUS
<1>1. Cardinality({}) = 0
  BY FS_EmptySet
<1> QED
  BY <1>1 DEF Init, IInv, TypeOK, SizeInv, PcInv, BatchFits, HandlerInBounds, OnlyPowersEscape, IsDefined, Size

\* poller::subscribe keeps focus_ and evs_ alike.
LEMMA SubscribedTables ==
  ASSUME TypeOK, SizeInv, IsDefined, BatchFits, NEW fd \in Fd, Subscribed(fd)
  PROVE  /\ focusSize' \in Size \cap Nat /\ focusSize <= focusSize'
         /\ evsSize' = focusSize' /\ evsBuffer' \in Nat
         /\ fd < focusSize' \/ (fd = focusSize' /\ fd \in PowersOfTwo)
<1>1. focusSize \in Size \cap Nat /\ evsSize = focusSize /\ evsBuffer \in Nat
  BY DEF TypeOK, SizeInv, BatchFits
<1>2. focusSize' = Adjusted(focusSize, fd)
  BY DEF Subscribed
<1>3. evsSize' = focusSize'
  BY <1>1, <1>2 DEF Subscribed, EvsAdjusted, Adjusted
<1>4. evsBuffer' \in Nat
  BY <1>1 DEF Subscribed, BufferAdjusted
<1> QED BY <1>1, <1>2, <1>3, <1>4, AdjustedGrows

\* The descriptors that are waited on fit a table that has them all in bounds.
LEMMA WaitingFits ==
  ASSUME waiting' \in SUBSET Fd, nodesSize' \in Nat, evsSize' \in Nat,
         nodesSize' <= evsSize', \A fd \in waiting' : fd < nodesSize'
  PROVE  Cardinality(waiting') <= evsSize'
<1>1. Cardinality(waiting') <= nodesSize'
  BY Fits
<1>2. Cardinality(waiting') \in Nat
  <2>1. MaxFd \in Int
    BY GrowthAssumption
  <2>2. IsFiniteSet(Fd)
    BY <2>1, FS_Interval DEF Fd
  <2> QED BY <2>2, FS_Subset, FS_CardinalityType
<1> QED BY <1>1, <1>2

\* A post adjusts both tables, so they stay in order, and either has room for the
\* descriptor or stops there.
LEMMA PostStep ==
  ASSUME IInv, NEW fd \in Fd, Post(fd)
  PROVE  IInv'
<1> USE DEF IInv
<1>1. TypeOK /\ SizeInv /\ IsDefined /\ BatchFits /\ HandlerInBounds /\ why = "nothing"
  BY DEF Post, InUserCode, IsDefined, PcInv
<1>2. /\ nodesSize \in Size \cap Nat /\ focusSize \in Size \cap Nat /\ nodesSize <= focusSize
      /\ fd \in Nat
  BY <1>1, GrowthAssumption DEF TypeOK, SizeInv, BatchFits, Fd
<1>3. /\ nodesSize' \in Size \cap Nat /\ nodesSize <= nodesSize'
      /\ fd < nodesSize' \/ (fd = nodesSize' /\ fd \in PowersOfTwo)
  BY <1>2, AdjustedGrows DEF Post
<1>4. /\ focusSize' \in Size \cap Nat /\ focusSize <= focusSize'
      /\ evsSize' = focusSize' /\ evsBuffer' \in Nat
      /\ fd < focusSize' \/ (fd = focusSize' /\ fd \in PowersOfTwo)
  BY <1>1, SubscribedTables DEF Post
<1>5. nodesSize' <= focusSize'
  BY <1>2, AdjustedMonotone DEF Post, Subscribed
<1>6. waiting' = waiting \cup {fd} /\ fd \in open /\ UNCHANGED <<open, iterBuffer, left, cur>>
  BY DEF Post, loop
<1>7. /\ waiting' \in SUBSET open' /\ open' \in SUBSET Fd /\ left' \in SUBSET waiting'
      /\ iterBuffer' \in Nat /\ cur' \in Fd \cup {0}
  BY <1>1, <1>6 DEF TypeOK
<1>8. CASE fd < nodesSize' /\ fd < focusSize'
  <2>1. pc' = pc /\ why' = why /\ culprit' = culprit
    BY <1>8 DEF Post, Goto
  <2>2. TypeOK'
    BY <1>1, <1>3, <1>4, <1>7, <2>1 DEF TypeOK
  <2>3. SizeInv' /\ PcInv'
    BY <1>3, <1>4, <1>6, <2>1 DEF SizeInv, PcInv, IsDefined
  <2>4. HandlerInBounds'
    <3>1. \A f \in waiting \cup ({cur} \ {0}) : f < nodesSize /\ f \in Nat
      BY <1>1, GrowthAssumption DEF HandlerInBounds, TypeOK, Fd
    <3>2. \A f \in waiting' \cup ({cur'} \ {0}) : f < nodesSize'
      BY <1>2, <1>3, <1>6, <1>8, <3>1
    <3> QED BY <3>2 DEF HandlerInBounds
  <2>5. BatchFits'
    <3>1. IsDefined' /\ \A f \in waiting' : f < nodesSize'
      BY <1>1, <2>1, <2>4 DEF HandlerInBounds, IsDefined
    <3>2. Cardinality(waiting') <= evsSize'
      BY <1>3, <1>4, <1>5, <1>7, <3>1, WaitingFits
    <3> QED BY <1>4, <1>5, <3>2 DEF BatchFits
  <2>6. OnlyPowersEscape'
    BY <1>1, <2>1 DEF OnlyPowersEscape
  <2> QED BY <2>2, <2>3, <2>4, <2>5, <2>6
<1>9. CASE ~(fd < nodesSize' /\ fd < focusSize')
  <2>1. pc' = "undefined" /\ why' = "index" /\ culprit' = fd
    BY <1>9 DEF Post, Undefined
  <2>2. TypeOK'
    BY <1>3, <1>4, <1>7, <2>1 DEF TypeOK
  <2>3. SizeInv' /\ PcInv' /\ BatchFits' /\ HandlerInBounds'
    BY <1>3, <1>4, <2>1 DEF SizeInv, PcInv, BatchFits, HandlerInBounds, IsDefined
  <2>4. OnlyPowersEscape'
    BY <1>2, <1>3, <1>4, <1>9, <2>1 DEF OnlyPowersEscape
  <2> QED BY <2>2, <2>3, <2>4
<1> QED BY <1>8, <1>9

\* ~socket adjusts the tables of the poller only.
LEMMA CloseStep ==
  ASSUME IInv, NEW fd \in Fd, CloseSocket(fd)
  PROVE  IInv'
<1> USE DEF IInv
<1>1. TypeOK /\ SizeInv /\ IsDefined /\ BatchFits /\ HandlerInBounds /\ why = "nothing"
  BY DEF CloseSocket, InUserCode, IsDefined, PcInv
<1>2. /\ focusSize' \in Size \cap Nat /\ focusSize <= focusSize'
      /\ evsSize' = focusSize' /\ evsBuffer' \in Nat
      /\ fd < focusSize' \/ (fd = focusSize' /\ fd \in PowersOfTwo)
  BY <1>1, SubscribedTables DEF CloseSocket
<1>3. UNCHANGED <<nodesSize, waiting, iterBuffer, left, cur>>
  BY DEF CloseSocket, loop
<1>4. nodesSize \in Size \cap Nat /\ focusSize \in Size \cap Nat /\ nodesSize' <= focusSize'
  BY <1>1, <1>2, <1>3 DEF TypeOK, SizeInv, BatchFits
<1>5. Cardinality(waiting) <= evsSize'
  <2>1. \A f \in waiting' : f < nodesSize'
    BY <1>1, <1>3 DEF HandlerInBounds
  <2>2. waiting' \in SUBSET Fd
    BY <1>1, <1>3 DEF TypeOK
  <2> QED BY <1>2, <1>3, <1>4, <2>1, <2>2, WaitingFits
<1>6. open' \in SUBSET Fd /\ waiting' \in SUBSET open'
  BY <1>1, <1>3 DEF CloseSocket, TypeOK
<1>7. CASE fd < focusSize'
  <2>1. pc' = pc /\ why' = why /\ culprit' = culprit
    BY <1>7 DEF CloseSocket, Goto
  <2> QED
    BY <1>1, <1>2, <1>3, <1>4, <1>5, <1>6, <2>1
    DEF TypeOK, SizeInv, PcInv, BatchFits, HandlerInBounds, OnlyPowersEscape, IsDefined
<1>8. CASE ~(fd < focusSize')
  <2>1. pc' = "undefined" /\ why' = "index" /\ culprit' = fd
    BY <1>8 DEF CloseSocket, Undefined
  <2>2. fd = focusSize' /\ fd \in PowersOfTwo
    BY <1>2, <1>8
  <2> QED
    BY <1>1, <1>2, <1>3, <1>4, <1>6, <2>1, <2>2
    DEF TypeOK, SizeInv, PcInv, BatchFits, HandlerInBounds, OnlyPowersEscape, IsDefined
<1> QED BY <1>7, <1>8

\* The handler subscribes a descriptor that is within bounds already.
LEMMA HandlerEndStep ==
  ASSUME IInv, HandlerEnd
  PROVE  IInv'
<1> USE DEF IInv
<1>1. TypeOK /\ SizeInv /\ IsDefined /\ BatchFits /\ HandlerInBounds /\ why = "nothing" /\ cur \in Fd
  BY DEF HandlerEnd, IsDefined, PcInv
<1>2. cur < nodesSize
  <2>1. cur # 0
    BY <1>1, GrowthAssumption DEF Fd
  <2> QED BY <1>1, <2>1 DEF HandlerInBounds
<1>3. /\ focusSize' \in Size \cap Nat /\ focusSize <= focusSize'
      /\ evsSize' = focusSize' /\ evsBuffer' \in Nat
  BY <1>1, SubscribedTables DEF HandlerEnd
<1>4. nodesSize \in Size \cap Nat /\ focusSize \in Nat /\ nodesSize <= focusSize'
  BY <1>1, <1>3 DEF TypeOK, SizeInv, BatchFits
<1>5. UNCHANGED <<nodesSize, open, waiting, iterBuffer, left>> /\ cur' = 0
  BY DEF HandlerEnd
<1>6. cur < nodesSize /\ cur < focusSize'
  <2>1. cur \in Nat
    BY <1>1, GrowthAssumption DEF Fd
  <2> QED BY <1>2, <1>3, <1>4, <2>1
<1>7. pc' = "batch" /\ why' = why /\ culprit' = culprit
  BY <1>6 DEF HandlerEnd, Goto
<1>8. Cardinality(waiting) <= evsSize'
  <2>1. \A f \in waiting' : f < nodesSize'
    BY <1>1, <1>5 DEF HandlerInBounds
  <2>2. waiting' \in SUBSET Fd
    BY <1>1, <1>5 DEF TypeOK
  <2> QED BY <1>3, <1>4, <1>5, <2>1, <2>2, WaitingFits
<1> QED
  BY <1>1, <1>3, <1>4, <1>5, <1>7, <1>8
  DEF TypeOK, SizeInv, PcInv, BatchFits, HandlerInBounds, OnlyPowersEscape, IsDefined

\* The descriptor of an event is waited on, hence within bounds.
LEMMA HandlerBeginStep ==
  ASSUME IInv, NEW fd \in Fd, HandlerBegin(fd)
  PROVE  IInv'
<1> USE DEF IInv
<1>1. TypeOK /\ SizeInv /\ IsDefined /\ BatchFits /\ HandlerInBounds /\ why = "nothing"
  BY DEF HandlerBegin, IsDefined, PcInv
<1>2. fd \in waiting /\ fd < nodesSize /\ fd \in Nat \ {0} /\ nodesSize \in Nat
  BY <1>1, GrowthAssumption DEF HandlerBegin, TypeOK, HandlerInBounds, Fd
<1>3. /\ UNCHANGED <<tables, open, iterBuffer>>
      /\ left' = left \ {fd} /\ cur' = fd /\ waiting' \in {waiting, waiting \ {fd}}
  BY DEF HandlerBegin, EventsAfter
<1>4. /\ open' \in SUBSET Fd /\ waiting' \in SUBSET open' /\ left' \in SUBSET waiting'
      /\ waiting' \subseteq waiting
  BY <1>1, <1>3 DEF TypeOK
<1>5. CASE iterBuffer # evsBuffer
  <2>1. pc' = "undefined" /\ why' = "iterator" /\ culprit' = fd
    BY <1>5 DEF HandlerBegin, Undefined
  <2> QED
    BY <1>1, <1>3, <1>4, <2>1
    DEF TypeOK, SizeInv, PcInv, BatchFits, HandlerInBounds, OnlyPowersEscape, IsDefined, tables
<1>6. CASE iterBuffer = evsBuffer
  <2>1. pc' = "handler" /\ why' = why /\ culprit' = culprit
    BY <1>2, <1>6 DEF HandlerBegin, Goto
  <2>2. Cardinality(waiting') <= evsSize'
    <3>1. /\ waiting' \in SUBSET Fd /\ nodesSize' \in Nat /\ evsSize' \in Nat /\ nodesSize' <= evsSize'
          /\ \A f \in waiting' : f < nodesSize'
      BY <1>1, <1>3, <1>4 DEF TypeOK, BatchFits, HandlerInBounds, tables
    <3> QED BY <3>1, WaitingFits
  <2> QED
    BY <1>1, <1>2, <1>3, <1>4, <2>1, <2>2
    DEF TypeOK, SizeInv, PcInv, BatchFits, HandlerInBounds, OnlyPowersEscape, IsDefined, tables
<1> QED BY <1>5, <1>6

\* No step leaves the invariant.
LEMMA Inductive == IInv /\ [Next]_vars => IInv'
<1> SUFFICES ASSUME IInv, [Next]_vars PROVE IInv'
  OBVIOUS
<1>1. CASE OpenSocket
  <2>1. UNCHANGED <<tables, waiting, pc, loop, why, culprit>> /\ open \subseteq open' /\ open' \in SUBSET Fd
    BY <1>1 DEF OpenSocket, IInv, TypeOK
  <2> QED
    BY <2>1 DEF IInv, TypeOK, SizeInv, PcInv, BatchFits, HandlerInBounds, OnlyPowersEscape, IsDefined, tables, loop
<1>2. ASSUME NEW fd \in Fd, Post(fd) PROVE IInv'
  BY <1>2, PostStep
<1>3. ASSUME NEW fd \in Fd, CloseSocket(fd) PROVE IInv'
  BY <1>3, CloseStep
<1>4. ASSUME NEW fd \in Fd, HandlerBegin(fd) PROVE IInv'
  BY <1>4, HandlerBeginStep
<1>5. CASE Poll
  BY <1>5
  DEF Poll, Goto, IInv, TypeOK, SizeInv, PcInv, BatchFits, HandlerInBounds, OnlyPowersEscape, IsDefined, tables
<1>6. CASE HandlerEnd
  BY <1>6, HandlerEndStep
<1>7. CASE PollDone
  BY <1>7
  DEF PollDone, Goto, IInv, TypeOK, SizeInv, PcInv, BatchFits, HandlerInBounds, OnlyPowersEscape, IsDefined, tables, loop
<1>8. CASE UNCHANGED vars
  BY <1>8
  DEF vars, IInv, TypeOK, SizeInv, PcInv, BatchFits, HandlerInBounds, OnlyPowersEscape, IsDefined, tables, loop
<1> QED BY <1>1, <1>2, <1>3, <1>4, <1>5, <1>6, <1>7, <1>8 DEF Next

-----------------------------------------------------------------------------

\* The inductive invariant holds at every step.
THEOREM Invariant == Spec => []IInv
  BY Initial, Inductive, PTL DEF Spec

\* Every variable keeps its type, and no event of a batch is handled twice.
THEOREM TypeCorrect == Spec => []TypeOK
  BY Invariant, PTL DEF IInv

\* However the tables grew, one epoll_wait has room for every descriptor waited on.
THEOREM RoomForEvents == Spec => []BatchFits
  BY Invariant, PTL DEF IInv

\* The handler's accesses to descriptor_nodes_ are within bounds, although it never
\* adjusts the table.
THEOREM HandlerSafe == Spec => []HandlerInBounds
  BY Invariant, PTL DEF IInv

\* Only a descriptor that is a power of two is ever past the end of a table.
THEOREM OnlyPowers == Spec => []OnlyPowersEscape
  BY Invariant, PTL DEF IInv

=============================================================================
