---------------------------- MODULE ClientProofs ----------------------------
(***************************************************************************)
(* The safety properties of Client hold for every input, every size of the *)
(* buffer and every connection.                                            *)
(*                                                                         *)
(* What is printed, received and on its way is one stream of growing       *)
(* numbers (StreamInv): a step moves bytes along it, adds a line at its    *)
(* end or cuts its end off.  A connect that has failed leaves a socket on  *)
(* which every wait ends with a hangup (ConnectInv).                       *)
(***************************************************************************)
EXTENDS Client, SequenceLemmas, FiniteSetTheorems

Dead == {"failed", "broken", "gone"}
Before == {"start", "connecting", "terminated"}

ConnectInv ==
  /\ event # {} => Waiting
  /\ pc = "writing" => RDHANGUP \notin event
  /\ event \cap {ERROR, HANGUP} # {} => link \in Dead
  /\ link \in {"none", "progress"} => pc \in Before /\ event = {}
  /\ pc \in {"start", "connecting"} => connected = "unknown"
  /\ pc \in Before => /\ typed = 0 /\ dropped = {}
                      /\ printed = <<>> /\ inbox = <<>> /\ outbox = <<>>
  /\ connected = "no" /\ pc # "terminated" =>
       link \in Dead /\ (event # {} => HANGUP \in event)

Stream == printed \o inbox \o outbox
Unsent == IF pc = "writing" THEN Range(line) ELSE {}

StreamInv ==
  /\ Increasing(Stream) /\ Increasing(line)
  /\ Range(Stream) \subseteq (1 .. typed) \ dropped
  /\ dropped \subseteq 1 .. typed /\ Unsent \subseteq 1 .. typed
  /\ \A x \in Range(Stream) \cup dropped, y \in Unsent : x < y
  /\ link = "up" => Range(Stream) = (1 .. typed) \ (dropped \cup Unsent)
  /\ answered \in 0 .. Len(printed)
  /\ pc = "undefined" => Len(printed) - answered >= BufSize

IInv ==
  /\ TypeOK
  /\ ConnectInv
  /\ FailedConnectNoticed
  /\ StreamInv

-----------------------------------------------------------------------------
(* Types and streams                                                       *)

\* The stream is a sequence of numbers.
LEMMA StreamType ==
  ASSUME TypeOK
  PROVE  /\ Stream \in Seq(Nat) /\ Stream = printed \o (inbox \o outbox)
         /\ Range(Stream) = Range(printed) \cup Range(inbox) \cup Range(outbox)
         /\ Range(Stream) \subseteq Nat
<1>1. printed \in Seq(Nat) /\ inbox \in Seq(Nat) /\ outbox \in Seq(Nat)
  BY DEF TypeOK
<1>2. /\ printed \o inbox \in Seq(Nat)
      /\ Range(printed \o inbox) = Range(printed) \cup Range(inbox)
  BY <1>1, StreamConcat
<1>3. /\ Stream \in Seq(Nat) /\ Range(Stream) = Range(printed \o inbox) \cup Range(outbox)
      /\ Range(Stream) \subseteq Nat
  <2>1. Stream = (printed \o inbox) \o outbox
    BY DEF Stream
  <2> QED BY <1>1, <1>2, <2>1, StreamConcat
<1>4. Stream = printed \o (inbox \o outbox)
  BY <1>1, StreamAssociative DEF Stream
<1> QED BY <1>2, <1>3, <1>4

\* An empty stream is increasing and has no elements.
LEMMA EmptyStream ==
  Increasing(<<>>) /\ Range(<<>>) = {} /\ <<>> \o <<>> \o <<>> = <<>> /\ <<>> \in Seq(Nat)
  BY DEF Increasing, Range

\* A step that leaves the bytes alone leaves the invariant of the stream alone, unless the
\* line is forgotten while the connection is up.
LEMMA StreamSame ==
  ASSUME StreamInv, UNCHANGED <<printed, answered, inbox, outbox, typed, line, dropped>>,
         link' = "up" => link = "up" /\ (pc' = "writing" <=> pc = "writing"),
         pc' = "writing" => pc = "writing", pc' # "undefined" \/ pc = "undefined"
  PROVE  StreamInv'
<1>1. /\ Stream' = Stream /\ line' = line /\ dropped' = dropped /\ typed' = typed
      /\ printed' = printed /\ answered' = answered
  BY DEF Stream
<1>2. Unsent' \subseteq Unsent /\ (link' = "up" => Unsent' = Unsent)
  BY DEF Unsent
<1> QED BY <1>1, <1>2 DEF StreamInv

\* What is left of a stream whose end is cut off is a stream.
LEMMA StreamCut ==
  ASSUME TypeOK, StreamInv, UNCHANGED <<pc, printed, answered, inbox, typed, line, dropped>>,
         outbox' = <<>>, link' # "up"
  PROVE  StreamInv'
<1>1. printed \o inbox \in Seq(Nat) /\ outbox \in Seq(Nat) /\ Stream = (printed \o inbox) \o outbox
  BY DEF TypeOK, Stream
<1>2. Stream' = printed \o inbox
  BY <1>1 DEF Stream
<1>3. Increasing(Stream') /\ Range(Stream') \subseteq Range(Stream)
  <2>1. Increasing(printed \o inbox)
    BY <1>1, IncreasingConcat DEF StreamInv
  <2>2. Range(printed \o inbox) \subseteq Range(Stream)
    BY <1>1, StreamConcat
  <2> QED BY <1>2, <2>1, <2>2
<1>4. Unsent' = Unsent
  BY DEF Unsent
<1> QED BY <1>3, <1>4 DEF StreamInv

-----------------------------------------------------------------------------
(* Each part of the invariant                                              *)

\* At first nothing is sent, and nobody has connected.
LEMMA Initial == Init => IInv
<1> SUFFICES ASSUME Init PROVE IInv
  OBVIOUS
<1>1. TypeOK
  BY ClientAssumption DEF Init, TypeOK, Ended
<1>2. ConnectInv /\ FailedConnectNoticed
  BY DEF Init, ConnectInv, FailedConnectNoticed, Before, Dead
<1>3. Stream = <<>>
  BY EmptyStream DEF Stream, Init
<1>4. StreamInv
  BY <1>3, EmptyStream DEF Init, StreamInv, Unsent
<1> QED BY <1>1, <1>2, <1>4 DEF IInv

\* How many bytes a call moves.
LEMMA Moved ==
  ASSUME TypeOK
  PROVE  /\ Min({Len(line), SendRoom - Len(outbox)}) \in 0 .. Len(line)
         /\ Min({Len(line), SendRoom - Len(outbox)}) + Len(outbox) <= SendRoom
         /\ Min({BufSize, Len(inbox)}) \in 0 .. Len(inbox)
<1>1. /\ Len(line) \in Nat /\ SendRoom - Len(outbox) \in Nat /\ Len(outbox) \in Nat
      /\ BufSize \in Nat /\ Len(inbox) \in Nat /\ SendRoom \in Nat
  BY ClientAssumption DEF TypeOK
<1> QED BY <1>1, MinOfTwo

\* Every variable keeps its type.
LEMMA TypeStep ==
  ASSUME TypeOK, [Next]_vars
  PROVE  TypeOK'
<1> USE DEF TypeOK, Ended
<1>1. CASE ConnectNow \/ ConnectLater \/ ConnectFails
  BY <1>1 DEF ConnectNow, ConnectLater, ConnectFails, ioVars
<1>2. CASE Poll
  BY <1>2 DEF Poll, Reported, Condition, Event, READ, WRITE, ERROR, HANGUP, RDHANGUP, ioVars
<1>3. CASE ConnectResumes
  BY <1>3 DEF ConnectResumes, ResumedTo, ioVars
<1>4. CASE GetLine
  <2>1. Head(lines) \in Nat /\ Tail(lines) \in Seq(Nat)
    BY <1>4 DEF GetLine
  <2>2. line' \in Seq(Nat)
    <3>1. line' \in [1 .. Head(lines) -> Nat]
      BY <1>4, <2>1 DEF GetLine
    <3> QED BY <2>1, <3>1, FunctionIsSeq
  <2> QED BY <1>4, <2>1, <2>2 DEF GetLine
<1>5. CASE EndOfInput \/ HandlerEnds \/ WriteFails
  BY <1>5 DEF EndOfInput, HandlerEnds, WriteFails, ResumedTo, ioVars
<1>6. CASE LineWritten
  <2> DEFINE n == Min({Len(line), SendRoom - Len(outbox)})
  <2>1. n \in 0 .. Len(line) /\ n + Len(outbox) <= SendRoom
    BY Moved
  <2>2. outbox' = outbox \o SubSeq(line, 1, n) /\ dropped' = dropped \cup Range(SubSeq(line, n + 1, Len(line)))
    BY <1>6 DEF LineWritten, Stored
  <2>3. line \in Seq(Nat) /\ outbox \in Seq(Nat)
    OBVIOUS
  <2> DEFINE a == SubSeq(line, 1, n)
             b == SubSeq(line, n + 1, Len(line))
  <2> HIDE DEF n
  <2>4. a \in Seq(Nat) /\ Len(a) = n /\ b \in Seq(Nat)
    <3> HIDE DEF TypeOK
    <3> QED BY <2>1, <2>3, SplitAt
  <2> HIDE DEF a, b
  <2>5. outbox' = outbox \o a /\ dropped' = dropped \cup Range(b)
    BY <2>2 DEF a, b
  <2>6. outbox' \in Seq(Nat) /\ Len(outbox') = Len(outbox) + n
    <3> HIDE DEF TypeOK
    <3>1. outbox \o a \in Seq(Nat) /\ Len(outbox \o a) = Len(outbox) + Len(a)
      BY <2>3, <2>4, ConcatProperties
    <3> QED BY <2>4, <2>5, <3>1
  <2>7. dropped' \in SUBSET Nat
    BY <2>4, <2>5, StreamConcat
  <2>8. Len(outbox') <= SendRoom
    BY <2>1, <2>6, ClientAssumption
  <2> QED BY <1>6, <2>6, <2>7, <2>8 DEF LineWritten, ResumedTo
<1>7. CASE ReplyRead
  <2> DEFINE n == Min({BufSize, Len(inbox)})
  <2>1. n \in 0 .. Len(inbox)
    BY Moved
  <2>2. SubSeq(inbox, 1, n) \in Seq(Nat) /\ SubSeq(inbox, n + 1, Len(inbox)) \in Seq(Nat)
    BY <2>1, SplitAt
  <2>3. printed' = printed \o SubSeq(inbox, 1, n) /\ inbox' = SubSeq(inbox, n + 1, Len(inbox))
    BY <1>7 DEF ReplyRead, Unread
  <2> DEFINE a == SubSeq(inbox, 1, n)
             b == SubSeq(inbox, n + 1, Len(inbox))
  <2> HIDE DEF n, a, b
  <2>4. printed' \in Seq(Nat) /\ inbox' \in Seq(Nat)
    <3>1. a \in Seq(Nat) /\ b \in Seq(Nat) /\ printed \in Seq(Nat)
      BY <2>2 DEF a, b
    <3>2. printed' = printed \o a /\ inbox' = b
      BY <2>3 DEF a, b
    <3> QED BY <3>1, <3>2, StreamConcat
  <2>5. pc' \in {"undefined", "getline"}
    BY <1>7 DEF ReplyRead, ResumedTo
  <2>6. answered' \in Nat
    BY <1>7 DEF ReplyRead
  <2> QED BY <1>7, <2>4, <2>5, <2>6 DEF ReplyRead, ResumedTo
<1>8. CASE Accepted \/ Refused
  BY <1>8 DEF Accepted, Refused, ioVars
<1>9. CASE Echo
  <2>1. /\ inbox' \in Seq(Nat) /\ outbox' \in Seq(Nat) /\ Len(outbox') = Len(outbox) - 1
    BY <1>9 DEF Echo
  <2>2. Len(outbox') <= SendRoom
    BY <2>1, ClientAssumption
  <2> QED BY <1>9, <2>1, <2>2 DEF Echo
<1>10. CASE ServerCloses \/ Reset
  <2>1. outbox' \in Seq(Nat) /\ Len(outbox') <= SendRoom
    <3>1. outbox' = <<>>
      BY <1>10 DEF ServerCloses, Reset
    <3> QED BY <3>1, ClientAssumption
  <2> QED BY <1>10, <2>1 DEF ServerCloses, Reset
<1>11. CASE UNCHANGED vars
  BY <1>11 DEF vars, ioVars
<1> QED
  BY <1>1, <1>2, <1>3, <1>4, <1>5, <1>6, <1>7, <1>8, <1>9, <1>10, <1>11
  DEF Next, ClientStep, PollTimesOut

\* A connect that has failed leaves a socket that reports a hangup to whoever waits.
LEMMA ConnectStep ==
  ASSUME TypeOK, ConnectInv, FailedConnectNoticed, [Next]_vars
  PROVE  ConnectInv' /\ FailedConnectNoticed'
<1> USE DEF ConnectInv, FailedConnectNoticed, Before, Dead, Waiting
<1>1. CASE ConnectNow \/ ConnectLater \/ ConnectFails
  BY <1>1 DEF ConnectNow, ConnectLater, ConnectFails, ioVars
<1>2. CASE Poll
  <2>1. /\ event' = Condition \cap (Mask \cup {ERROR, HANGUP}) /\ event = {} /\ event' # {} /\ Waiting
        /\ UNCHANGED <<pc, connected, link, ioVars>>
    BY <1>2 DEF Poll, Reported
  <2>2. link \in {"none", "progress"} => Condition = {}
    BY DEF Condition, ConnectInv
  <2>3. link \in Dead => HANGUP \in event'
    BY <2>1 DEF Condition
  <2>4. event' \cap {ERROR, HANGUP} # {} => link \in Dead
    BY <2>1 DEF Condition, READ, WRITE, ERROR, HANGUP, RDHANGUP
  <2>5. pc = "writing" => RDHANGUP \notin event'
    BY <2>1 DEF Mask, WriteMask, READ, WRITE, ERROR, HANGUP, RDHANGUP
  <2> QED BY <2>1, <2>2, <2>3, <2>4, <2>5 DEF ioVars
<1>3. CASE ConnectResumes
  BY <1>3 DEF ConnectResumes, ResumedTo, ioVars
<1>4. CASE GetLine \/ EndOfInput
  BY <1>4 DEF GetLine, EndOfInput, ioVars
<1>5. CASE HandlerEnds
  BY <1>5 DEF HandlerEnds, ResumedTo, ioVars
<1>6. CASE WriteFails \/ LineWritten
  BY <1>6 DEF WriteFails, LineWritten, EventError, ResumedTo, ioVars
<1>7. CASE ReplyRead
  BY <1>7 DEF ReplyRead, EventError, ResumedTo
<1>8. CASE Accepted \/ Refused \/ Echo \/ ServerCloses \/ Reset
  BY <1>8 DEF Accepted, Refused, Echo, ServerCloses, Reset, ioVars
<1>9. CASE UNCHANGED vars
  BY <1>9 DEF vars, ioVars
<1> QED
  BY <1>1, <1>2, <1>3, <1>4, <1>5, <1>6, <1>7, <1>8, <1>9
  DEF Next, ClientStep, PollTimesOut

\* A new line goes on where the input has come to.
LEMMA LineStep ==
  ASSUME TypeOK, StreamInv, GetLine
  PROVE  StreamInv'
<1> DEFINE n == Head(lines)
<1>1. n \in Nat /\ typed \in Nat /\ pc = "getline" /\ typed' = typed + n /\ pc' = "writing"
  BY DEF TypeOK, GetLine
<1>2. /\ line' = [k \in 1 .. n |-> typed + k]
      /\ UNCHANGED <<link, printed, answered, inbox, outbox, dropped>>
  BY DEF GetLine
<1> HIDE DEF n
<1>3. Increasing(line')
  BY <1>1, <1>2 DEF Increasing
<1>4. Unsent' = {typed + k : k \in 1 .. n} /\ Unsent = {}
  BY <1>1, <1>2 DEF Unsent, Range
<1>5. Unsent' = typed + 1 .. typed + n
  <2>1. \A x \in typed + 1 .. typed + n : x - typed \in 1 .. n /\ x = typed + (x - typed)
    BY <1>1
  <2> QED BY <1>1, <1>4, <2>1
<1>6. Stream' = Stream
  BY <1>2 DEF Stream
<1>7. Range(Stream) \subseteq (1 .. typed) \ dropped /\ dropped \subseteq 1 .. typed
  BY DEF StreamInv
<1>8. link' = "up" => Range(Stream) = (1 .. typed) \ dropped
  BY <1>2, <1>4 DEF StreamInv
<1>9. (1 .. typed) \ dropped = (1 .. typed + n) \ (dropped \cup (typed + 1 .. typed + n))
  BY <1>1, <1>7
<1>10. /\ Range(Stream') \subseteq (1 .. typed') \ dropped' /\ dropped' \subseteq 1 .. typed'
       /\ Unsent' \subseteq 1 .. typed'
       /\ \A x \in Range(Stream') \cup dropped', y \in Unsent' : x < y
  <2>1. 1 .. typed \subseteq 1 .. typed + n /\ typed + 1 .. typed + n \subseteq 1 .. typed + n
    BY <1>1
  <2>2. \A x \in 1 .. typed, y \in typed + 1 .. typed + n : x < y
    BY <1>1
  <2>3. Range(Stream') = Range(Stream) /\ dropped' = dropped /\ typed' = typed + n
    BY <1>1, <1>2, <1>6
  <2> QED BY <1>5, <1>7, <2>1, <2>2, <2>3
<1>11. link' = "up" => Range(Stream') = (1 .. typed') \ (dropped' \cup Unsent')
  BY <1>1, <1>2, <1>5, <1>6, <1>8, <1>9
<1> QED BY <1>1, <1>2, <1>3, <1>6, <1>10, <1>11 DEF StreamInv

\* write() moves the beginning of the line to the end of the stream, and the rest is
\* dropped.
LEMMA WriteStep ==
  ASSUME TypeOK, StreamInv, LineWritten
  PROVE  StreamInv'
<1> DEFINE n == Min({Len(line), SendRoom - Len(outbox)})
           a == SubSeq(line, 1, n)
           b == SubSeq(line, n + 1, Len(line))
<1>1. line \in Seq(Nat) /\ outbox \in Seq(Nat) /\ printed \o inbox \in Seq(Nat) /\ n \in 0 .. Len(line)
  BY Moved DEF TypeOK
<1>2. a \in Seq(Nat) /\ b \in Seq(Nat) /\ line = a \o b
  BY <1>1, SplitAt
<1>3. /\ outbox' = outbox \o a /\ dropped' = dropped \cup Range(b)
      /\ UNCHANGED <<link, typed, line, inbox, printed, answered>> /\ pc = "writing" /\ pc' = "reading"
  BY DEF LineWritten, Stored, ResumedTo
<1> HIDE DEF n, a, b
<1>4. Range(line) = Range(a) \cup Range(b) /\ Range(a) \subseteq Nat /\ Range(b) \subseteq Nat
  BY <1>2, StreamConcat
<1>5. Increasing(a) /\ \A x \in Range(a), y \in Range(b) : x < y
  BY <1>2, IncreasingConcat DEF StreamInv
<1>6. Stream \in Seq(Nat) /\ Stream = (printed \o inbox) \o outbox /\ Range(Stream) \subseteq Nat
  BY StreamType DEF Stream
<1>7. Stream' = Stream \o a
  <2>1. (printed \o inbox) \o (outbox \o a) = ((printed \o inbox) \o outbox) \o a
    BY <1>1, <1>2, StreamAssociative
  <2> QED BY <1>3, <1>6, <2>1 DEF Stream
<1>8. Unsent = Range(line) /\ Unsent' = {}
  BY <1>3 DEF Unsent
<1>9. /\ \A x \in Range(Stream) \cup dropped, y \in Range(line) : x < y
      /\ Range(line) \subseteq 1 .. typed /\ Range(Stream) \subseteq (1 .. typed) \ dropped
      /\ dropped \subseteq 1 .. typed
      /\ link = "up" => Range(Stream) = (1 .. typed) \ (dropped \cup Range(line))
  BY <1>8 DEF StreamInv
<1>10. Range(Stream') = Range(Stream) \cup Range(a)
  BY <1>2, <1>6, <1>7, StreamConcat
<1>11. Increasing(Stream')
  <2>1. \A x \in Range(Stream), y \in Range(a) : x < y
    BY <1>4, <1>9
  <2> QED BY <1>2, <1>5, <1>6, <1>7, <2>1, IncreasingConcat DEF StreamInv
<1>12. Range(a) \cap (dropped \cup Range(b)) = {}
  <2>1. ASSUME NEW x \in Range(a), x \in dropped \cup Range(b)
        PROVE  x < x
    BY <1>4, <1>5, <1>9, <2>1
  <2>2. \A x \in Range(a) : x \in Nat /\ ~(x < x)
    BY <1>4
  <2> QED BY <2>1, <2>2
<1>13. Range(Stream) \cap Range(b) = {}
  <2>1. ASSUME NEW x \in Range(Stream), x \in Range(b)
        PROVE  x < x
    BY <1>4, <1>9, <2>1
  <2>2. \A x \in Range(Stream) : x \in Nat /\ ~(x < x)
    BY <1>6
  <2> QED BY <2>1, <2>2
<1>14. Range(Stream') \subseteq (1 .. typed') \ dropped' /\ dropped' \subseteq 1 .. typed'
  BY <1>3, <1>4, <1>9, <1>10, <1>12, <1>13
<1>15. link' = "up" => Range(Stream') = (1 .. typed') \ dropped'
  BY <1>3, <1>4, <1>9, <1>10, <1>12, <1>13
<1> QED BY <1>3, <1>8, <1>11, <1>14, <1>15 DEF StreamInv

\* What a read takes from the socket it leaves in what is printed.
LEMMA ReadStep ==
  ASSUME TypeOK, StreamInv, ReplyRead
  PROVE  StreamInv'
<1> DEFINE n == Min({BufSize, Len(inbox)})
           a == SubSeq(inbox, 1, n)
           b == SubSeq(inbox, n + 1, Len(inbox))
<1>1. inbox \in Seq(Nat) /\ outbox \in Seq(Nat) /\ printed \in Seq(Nat) /\ n \in 0 .. Len(inbox)
  BY Moved DEF TypeOK
<1>2. a \in Seq(Nat) /\ b \in Seq(Nat) /\ inbox = a \o b /\ Len(a) = n
  BY <1>1, SplitAt
<1>3. /\ printed' = printed \o a /\ answered' = Len(printed) /\ inbox' = b
      /\ UNCHANGED <<link, typed, line, outbox, dropped>> /\ pc = "reading"
      /\ pc' = IF n = BufSize THEN "undefined" ELSE "getline"
  BY DEF ReplyRead, Unread, ResumedTo
<1> HIDE DEF n, a, b
<1>4. Stream' = Stream
  <2>1. (printed \o a) \o b = printed \o inbox
    BY <1>1, <1>2, StreamAssociative
  <2> QED BY <1>3, <2>1 DEF Stream
<1>5. Unsent' = {} /\ Unsent = {}
  BY <1>3 DEF Unsent
<1>6. answered' \in 0 .. Len(printed') /\ (pc' = "undefined" => Len(printed') - answered' >= BufSize)
  <2>1. Len(printed') = Len(printed) + n /\ Len(printed) \in Nat /\ n \in Nat
    <3>1. Len(printed \o a) = Len(printed) + Len(a) /\ Len(printed) \in Nat /\ Len(a) \in Nat
      BY <1>1, <1>2, ConcatProperties, LenProperties
    <3> QED BY <1>2, <1>3, <3>1
  <2> QED BY <1>3, <2>1, ClientAssumption
<1> QED BY <1>3, <1>4, <1>5, <1>6 DEF StreamInv

\* The server passes a byte on from what was sent to what is received.
LEMMA EchoStep ==
  ASSUME TypeOK, StreamInv, Echo
  PROVE  StreamInv'
<1>1. inbox \in Seq(Nat) /\ outbox \in Seq(Nat) /\ printed \in Seq(Nat) /\ outbox # <<>>
  BY DEF TypeOK, Echo
<1>2. /\ inbox' = Append(inbox, Head(outbox)) /\ outbox' = Tail(outbox)
      /\ UNCHANGED <<pc, link, typed, line, printed, answered, dropped>>
  BY DEF Echo
<1>3. inbox' \in Seq(Nat) /\ outbox' \in Seq(Nat) /\ inbox' \o outbox' = inbox \o outbox
  BY <1>1, <1>2, PassOn
<1>4. Stream' = Stream
  <2>1. (printed \o inbox') \o outbox' = printed \o (inbox' \o outbox')
    BY <1>1, <1>3, StreamAssociative
  <2>2. (printed \o inbox) \o outbox = printed \o (inbox \o outbox)
    BY <1>1, StreamAssociative
  <2> QED BY <1>2, <1>3, <2>1, <2>2 DEF Stream
<1>5. Unsent' = Unsent
  BY <1>2 DEF Unsent
<1> QED BY <1>2, <1>4, <1>5 DEF StreamInv

\* Every step leaves what is printed, received and on its way a stream.
LEMMA StreamStep ==
  ASSUME IInv, [Next]_vars
  PROVE  StreamInv'
<1>1. TypeOK /\ ConnectInv /\ StreamInv
  BY DEF IInv
<1>2. CASE ConnectNow
  <2>1. /\ UNCHANGED <<printed, answered, inbox, outbox, typed, line, dropped>>
        /\ pc = "start" /\ pc' = "getline"
    BY <1>2 DEF ConnectNow, ioVars
  <2>2. typed = 0 /\ dropped = {} /\ Stream = <<>>
    BY <1>1, <2>1, EmptyStream DEF ConnectInv, Before, Stream
  <2>3. Stream' = <<>> /\ Unsent' = {}
    BY <2>1, <2>2 DEF Stream, Unsent
  <2> QED BY <1>1, <2>1, <2>2, <2>3, EmptyStream DEF StreamInv
<1>3. CASE Accepted
  <2>1. UNCHANGED <<pc, printed, answered, inbox, outbox, typed, line, dropped>> /\ link = "progress"
    BY <1>3 DEF Accepted, ioVars
  <2>2. typed = 0 /\ dropped = {} /\ Stream = <<>> /\ pc \in Before
    BY <1>1, <2>1, EmptyStream DEF ConnectInv, Before, Stream
  <2>3. Stream' = <<>> /\ Unsent' = {}
    BY <2>1, <2>2 DEF Stream, Unsent, Before
  <2> QED BY <1>1, <2>1, <2>2, <2>3, EmptyStream DEF StreamInv, Before
<1>4. CASE ConnectLater \/ ConnectFails \/ Poll \/ ConnectResumes \/ EndOfInput \/ Refused
  <2>1. /\ UNCHANGED <<printed, answered, inbox, outbox, typed, line, dropped>>
        /\ link' = "up" => link = "up" /\ (pc' = "writing" <=> pc = "writing")
        /\ pc' = "writing" => pc = "writing"
        /\ pc' # "undefined" \/ pc = "undefined"
    BY <1>4 DEF ConnectLater, ConnectFails, Poll, ConnectResumes, EndOfInput, Refused, ResumedTo, ioVars
  <2> QED BY <1>1, <2>1, StreamSame
<1>5. CASE HandlerEnds \/ WriteFails
  <2>1. UNCHANGED <<printed, answered, inbox, outbox, typed, line, dropped, link>> /\ pc' # "writing" /\ pc' # "undefined"
    BY <1>5 DEF HandlerEnds, WriteFails, ResumedTo, ioVars
  <2>2. pc = "writing" => link # "up"
    <3>1. ASSUME HandlerEnds, pc = "writing"
          PROVE  link # "up"
      <4>1. event \cap {ERROR, HANGUP} # {}
        BY <1>1, <3>1 DEF HandlerEnds, EventError, ConnectInv
      <4> QED BY <1>1, <4>1 DEF ConnectInv, Dead
    <3>2. WriteFails => link # "up"
      BY DEF WriteFails
    <3> QED BY <1>5, <3>1, <3>2
  <2> QED BY <1>1, <2>1, <2>2, StreamSame
<1>6. CASE GetLine
  BY <1>1, <1>6, LineStep
<1>7. CASE LineWritten
  BY <1>1, <1>7, WriteStep
<1>8. CASE ReplyRead
  BY <1>1, <1>8, ReadStep
<1>9. CASE Echo
  BY <1>1, <1>9, EchoStep
<1>10. CASE ServerCloses \/ Reset
  <2>1. UNCHANGED <<pc, printed, answered, inbox, typed, line, dropped>> /\ outbox' = <<>> /\ link' # "up"
    BY <1>10 DEF ServerCloses, Reset
  <2> QED BY <1>1, <2>1, StreamCut
<1>11. CASE UNCHANGED vars
  <2>1. UNCHANGED <<pc, link, printed, answered, inbox, outbox, typed, line, dropped>>
    BY <1>11 DEF vars, ioVars
  <2> QED BY <1>1, <2>1, StreamSame
<1> QED
  BY <1>2, <1>3, <1>4, <1>5, <1>6, <1>7, <1>8, <1>9, <1>10, <1>11
  DEF Next, ClientStep, PollTimesOut

-----------------------------------------------------------------------------
(* The theorems                                                            *)

\* A stream within a finite set is no longer than the set is large.
LEMMA StreamLength ==
  ASSUME NEW T, IsFiniteSet(T), NEW s \in Seq(Nat), Increasing(s), Range(s) \subseteq T
  PROVE  Len(s) <= Cardinality(T)
<1>1. Len(s) \in Nat /\ DOMAIN s = 1 .. Len(s) /\ \A i \in 1 .. Len(s) : s[i] \in Nat
  OBVIOUS
<1>2. s \in [1 .. Len(s) -> T]
  BY <1>1 DEF Range
<1>3. \A i, j \in 1 .. Len(s) : s[i] = s[j] => i = j
  <2> SUFFICES ASSUME NEW i \in 1 .. Len(s), NEW j \in 1 .. Len(s), i < j
               PROVE  s[i] # s[j]
    BY <1>1
  <2>1. s[i] < s[j] /\ s[i] \in Nat /\ s[j] \in Nat
    BY <1>1 DEF Increasing
  <2> QED BY <2>1
<1>4. s \in Injection(1 .. Len(s), T)
  BY <1>1, <1>2, <1>3 DEF Injection, IsInjective
<1>5. Cardinality(1 .. Len(s)) <= Cardinality(T)
  BY <1>4, FS_Injection
<1>6. Cardinality(1 .. Len(s)) = Len(s)
  <2>1. Cardinality(1 .. Len(s)) = IF 1 > Len(s) THEN 0 ELSE Len(s) - 1 + 1
    BY <1>1, FS_Interval
  <2> QED BY <1>1, <2>1
<1> QED BY <1>5, <1>6

\* An increasing sequence of elements of another is no longer than the other.
LEMMA WithinLength ==
  ASSUME NEW s \in Seq(Nat), Increasing(s), NEW t \in Seq(Nat), Range(s) \subseteq Range(t)
  PROVE  Len(s) <= Len(t)
<1>1. Len(t) \in Nat /\ t \in [1 .. Len(t) -> Nat]
  OBVIOUS
<1>2. IsFiniteSet(1 .. Len(t)) /\ Cardinality(1 .. Len(t)) = Len(t)
  <2>1. 1 \in Int /\ Len(t) \in Int
    BY <1>1
  <2>2. /\ IsFiniteSet(1 .. Len(t))
        /\ Cardinality(1 .. Len(t)) = IF 1 > Len(t) THEN 0 ELSE Len(t) - 1 + 1
    BY <2>1, FS_Interval
  <2> QED BY <1>1, <2>2
<1>3. Range(t) = {t[i] : i \in 1 .. Len(t)}
  BY <1>1 DEF Range
<1>4. IsFiniteSet(Range(t)) /\ Cardinality(Range(t)) <= Len(t)
  <2>1. t \in Surjection(1 .. Len(t), Range(t))
    BY <1>1, <1>3 DEF Surjection
  <2> QED BY <1>2, <2>1, FS_Surjection
<1>5. Len(s) <= Cardinality(Range(t))
  BY <1>4, StreamLength
<1>6. Len(s) \in Nat /\ Cardinality(Range(t)) \in Nat
  BY <1>4, FS_CardinalityType
<1> QED BY <1>1, <1>4, <1>5, <1>6

\* The invariant gives the property: what a read that fills the buffer brings are as many
\* bytes, stored and not printed before.
LEMMA EchoOfStream == IInv => PrintsEcho
<1> SUFFICES ASSUME IInv PROVE PrintsEcho
  OBVIOUS
<1>1. TypeOK /\ StreamInv
  BY DEF IInv
<1> DEFINE before == SubSeq(printed, 1, answered)
           answer == SubSeq(printed, answered + 1, Len(printed))
           stored == (1 .. typed) \ (dropped \cup Unsent)
<1>2. Ascending(Stream)
  BY <1>1 DEF StreamInv, Increasing, Ascending
<1>3. link = "up" => Range(Stream) = stored
  BY <1>1 DEF StreamInv
<1>4. ASSUME pc = "undefined"
      PROVE  /\ Cardinality(stored \ Range(before)) >= BufSize
             /\ Range(answer) \subseteq Range(line) => Len(line) >= BufSize
  <2>1. /\ printed \in Seq(Nat) /\ inbox \o outbox \in Seq(Nat) /\ line \in Seq(Nat)
        /\ Stream = printed \o (inbox \o outbox)
    BY <1>1, StreamType, StreamConcat DEF TypeOK
  <2>2. Increasing(printed) /\ Range(printed) \subseteq Range(Stream)
    <3>1. Increasing(printed \o (inbox \o outbox))
      BY <1>1, <2>1 DEF StreamInv
    <3>2. Range(printed \o (inbox \o outbox)) = Range(printed) \cup Range(inbox \o outbox)
      BY <2>1, StreamConcat
    <3> QED BY <2>1, <3>1, <3>2, IncreasingConcat
  <2>3. Range(printed) \subseteq stored
    BY <1>1, <1>4, <2>2 DEF StreamInv, Unsent
  <2>4. answered \in 0 .. Len(printed) /\ Len(printed) - answered >= BufSize
    BY <1>1, <1>4 DEF StreamInv
  <2>5. /\ before \in Seq(Nat) /\ answer \in Seq(Nat) /\ printed = before \o answer
        /\ Len(answer) = Len(printed) - answered
    <3>1. /\ before \in Seq(Nat) /\ answer \in Seq(Nat) /\ printed = before \o answer
          /\ Len(before) = answered
      BY <2>1, <2>4, SplitAt
    <3> HIDE DEF before, answer
    <3>2. Len(before \o answer) = Len(before) + Len(answer) /\ Len(before) \in Nat /\ Len(answer) \in Nat
      BY <3>1, ConcatProperties, LenProperties
    <3> QED BY <3>1, <3>2
  <2> DEFINE T == stored \ Range(before)
  <2>6. IsFiniteSet(T)
    <3>1. IsFiniteSet(1 .. typed)
      BY <1>1, FS_Interval DEF TypeOK
    <3> QED BY <3>1, FS_Difference
  <2> HIDE DEF before, answer, stored
  <2>7. Len(answer) >= BufSize /\ Len(answer) \in Nat /\ BufSize \in Nat /\ Len(line) \in Nat
    BY <2>1, <2>4, <2>5, ClientAssumption
  <2>8. /\ Increasing(answer) /\ Range(answer) \subseteq Range(printed)
        /\ Range(before) \cap Range(answer) = {}
    <3>1. /\ Increasing(answer) /\ \A x \in Range(before), y \in Range(answer) : x < y
      BY <2>2, <2>5, IncreasingConcat
    <3>2. /\ Range(printed) = Range(before) \cup Range(answer)
          /\ Range(before) \subseteq Nat
      BY <2>5, StreamConcat
    <3>3. \A x \in Range(before) : x \in Nat /\ ~(x < x)
      BY <3>2
    <3> QED BY <3>1, <3>2, <3>3
  <2>9. Range(answer) \subseteq T
    BY <2>3, <2>8
  <2>10. Cardinality(T) >= BufSize
    <3> HIDE DEF T
    <3>1. Len(answer) <= Cardinality(T) /\ Cardinality(T) \in Nat
      BY <2>5, <2>6, <2>8, <2>9, StreamLength, FS_CardinalityType
    <3> QED BY <2>7, <3>1
  <2>11. Range(answer) \subseteq Range(line) => Len(line) >= BufSize
    <3>1. Range(answer) \subseteq Range(line) => Len(answer) <= Len(line)
      BY <2>1, <2>5, <2>8, WithinLength
    <3> QED BY <2>7, <3>1
  <2> QED BY <2>10, <2>11
<1> QED BY <1>2, <1>3, <1>4 DEF PrintsEcho, Stream, Unsent

\* Every step keeps the invariant.
LEMMA Inductive == IInv /\ [Next]_vars => IInv'
<1> SUFFICES ASSUME IInv, [Next]_vars PROVE IInv'
  OBVIOUS
<1>1. TypeOK /\ ConnectInv /\ FailedConnectNoticed
  BY DEF IInv
<1>2. TypeOK'
  BY <1>1, TypeStep
<1>3. ConnectInv' /\ FailedConnectNoticed'
  BY <1>1, ConnectStep
<1>4. StreamInv'
  BY StreamStep
<1> QED BY <1>2, <1>3, <1>4 DEF IInv

\* The invariant holds in every state the client of examples/client.cxx reaches, with its
\* server and its connection.
THEOREM Invariant == Spec => []IInv
<1>1. Init => IInv
  BY Initial
<1>2. IInv /\ [Next]_vars => IInv'
  BY Inductive
<1> QED BY <1>1, <1>2, PTL DEF Spec

\* Every variable keeps its type, and what is on its way never exceeds what the
\* connection holds (write() of socket stores what fits).
THEOREM TypeCorrect == Spec => []TypeOK
<1>1. IInv => TypeOK
  BY DEF IInv
<1> QED BY <1>1, Invariant, PTL

\* A connect whose failure client::async_connect ignores sends and prints nothing: the
\* awaiter of the first write sees the hangup and the handler returns.
THEOREM ConnectNoticed == Spec => []FailedConnectNoticed
<1>1. IInv => FailedConnectNoticed
  BY DEF IInv
<1> QED BY <1>1, Invariant, PTL

\* What the client prints is what it sent, in order and no byte twice, complete but for
\* what a short write dropped.  Its buffer overflows only at a read before which as many
\* bytes were stored and not yet printed, and which brings the answer to a line as long
\* as the buffer or bytes of earlier lines.
THEOREM EchoPrinted == Spec => []PrintsEcho
<1>1. IInv => PrintsEcho
  BY EchoOfStream
<1> QED BY <1>1, Invariant, PTL

=============================================================================
