-------------------------- MODULE EchoServerProofs --------------------------
(***************************************************************************)
(* The safety properties of EchoServer hold for any number of peers, every *)
(* size of the buffer and every number of descriptors, and however much    *)
(* the peers send.                                                         *)
(*                                                                         *)
(* The batch of one epoll_wait names each coroutine once (BatchInv), so    *)
(* that handling an event cannot take away what a later one needs, and     *)
(* what a peer has sent is one stream of growing numbers on its way        *)
(* through the server and back (StreamInv).                                *)
(***************************************************************************)
EXTENDS EchoServer, SequenceLemmas, FiniteSetTheorems

\* Which sockets the sessions and the queue of the listening socket use.
SocketInv ==
  /\ Live \subseteq Open
  /\ \A p \in Peer : /\ peer[p] = "new" => sock[p] = "none"
                     /\ sock[p] \in {"none", "queued"} => session[p] = "none"
                     /\ sock[p] = "open" => session[p] # "none"
                     /\ session[p] # "writing" => data[p] = <<>>
  /\ IsInjective(backlog) /\ \A p \in ToSet(backlog) : sock[p] = "queued"
  /\ Orphans # {} \/ process = "undefined" => home = "frame" /\ server = "ended"

Whos == {batch[i].who : i \in DOMAIN batch}

\* The events at hand are for different coroutines, each of which still waits or has left
\* its node, and for the accept while there is a connection to accept.
BatchInv ==
  /\ \A i, j \in DOMAIN batch : batch[i].who = batch[j].who => i = j
  /\ Whos \subseteq Live \cup Orphans \cup {Listener}
  /\ Listener \in Whos => server = "accepting" /\ backlog # <<>>

Stream(p) == got[p] \o outbox[p] \o data[p] \o inbox[p]
Whole(p) == session[p] \notin {"done", "destroyed"} /\ sock[p] # "refused" /\ ~IsReset(p)

OneStream(p) ==
  /\ Increasing(Stream(p))
  /\ Range(Stream(p)) \subseteq (1 .. sent[p]) \ dropped[p]
  /\ dropped[p] \subseteq 1 .. sent[p]
  /\ Whole(p) => Range(Stream(p)) = (1 .. sent[p]) \ dropped[p]

StreamInv == \A p \in Peer : OneStream(p)

IInv ==
  /\ TypeOK
  /\ SocketInv
  /\ BatchInv
  /\ StreamInv

-----------------------------------------------------------------------------
(* Types                                                                   *)

\* At first nobody has connected.
LEMMA Initial == Init => IInv
<1> SUFFICES ASSUME Init PROVE IInv
  OBVIOUS
<1>1. TypeOK
  BY EchoServerAssumption DEF Init, TypeOK
<1>2. SocketInv /\ BatchInv
  BY DEF Init, SocketInv, BatchInv, Live, Open, Orphans, Whos, IsInjective, ToSet
<1>3. StreamInv
  <2> SUFFICES ASSUME NEW p \in Peer PROVE OneStream(p)
    BY DEF StreamInv
  <2>1. Stream(p) = <<>>
    BY DEF Init, Stream
  <2>2. Increasing(<<>>) /\ Range(<<>>) = {}
    BY DEF Increasing, Range
  <2>3. dropped[p] = {} /\ sent[p] = 0 /\ 1 .. 0 = {}
    BY DEF Init
  <2> QED BY <2>1, <2>2, <2>3 DEF OneStream
<1> QED BY <1>1, <1>2, <1>3 DEF IInv

\* How many bytes a session reads, and how many it writes.
LEMMA Moved ==
  ASSUME TypeOK, NEW p \in Peer
  PROVE  /\ Min({Asked, Len(inbox[p])}) \in 0 .. Len(inbox[p])
         /\ Min({Asked, Len(inbox[p])}) <= BufSize
         /\ Min({Len(data[p]), SendRoom - Len(outbox[p])}) \in 0 .. Len(data[p])
         /\ Min({Len(data[p]), SendRoom - Len(outbox[p])}) + Len(outbox[p]) <= SendRoom
<1>1. inbox[p] \in Seq(Nat) /\ data[p] \in Seq(Nat) /\ outbox[p] \in Seq(Nat)
  BY DEF TypeOK
<1>2. /\ Len(data[p]) \in Nat /\ SendRoom - Len(outbox[p]) \in Nat /\ Len(outbox[p]) \in Nat
      /\ Asked \in Nat /\ Asked = BufSize /\ Len(inbox[p]) \in Nat /\ SendRoom \in Nat
  BY <1>1, EchoServerAssumption, LenProperties DEF TypeOK, Asked
<1> HIDE DEF Asked
<1>3. /\ Min({Asked, Len(inbox[p])}) \in Nat /\ Min({Asked, Len(inbox[p])}) <= Len(inbox[p])
      /\ Min({Asked, Len(inbox[p])}) <= Asked
  BY <1>2, MinOfTwo
<1>4. /\ Min({Len(data[p]), SendRoom - Len(outbox[p])}) \in Nat
      /\ Min({Len(data[p]), SendRoom - Len(outbox[p])}) <= Len(data[p])
      /\ Min({Len(data[p]), SendRoom - Len(outbox[p])}) <= SendRoom - Len(outbox[p])
  BY <1>2, MinOfTwo
<1> QED BY <1>2, <1>3, <1>4

\* What is left of the batch when its first event is handled.
LEMMA Handled ==
  ASSUME TypeOK, BatchInv, NEW w, Handles(w)
  PROVE  /\ process = "running" /\ w \in Whos /\ w \in Peer \cup {Listener}
         /\ Head(batch).e \in SUBSET Event
         /\ batch' = Tail(batch) =>
              /\ batch' \in Seq([who : Peer \cup {Listener}, e : SUBSET Event])
              /\ \A i, j \in DOMAIN batch' : batch'[i].who = batch'[j].who => i = j
              /\ Whos' = Whos \ {w}
<1> DEFINE Item == [who : Peer \cup {Listener}, e : SUBSET Event]
<1>1. batch \in Seq(Item) /\ batch # <<>> /\ Head(batch).who = w /\ process = "running"
  BY DEF TypeOK, Handles
<1>2. /\ Head(batch) = batch[1] /\ Head(batch) \in Item /\ DOMAIN batch = 1 .. Len(batch)
      /\ Len(batch) \in Nat \ {0}
  <2> HIDE DEF Item
  <2> QED BY <1>1
<1>3. w \in Whos /\ w \in Peer \cup {Listener} /\ Head(batch).e \in SUBSET Event
  BY <1>1, <1>2 DEF Whos
<1>4. ASSUME batch' = Tail(batch)
      PROVE  /\ batch' \in Seq(Item)
             /\ \A i, j \in DOMAIN batch' : batch'[i].who = batch'[j].who => i = j
             /\ Whos' = Whos \ {w}
  <2>1. /\ batch' \in Seq(Item) /\ DOMAIN batch' = 1 .. Len(batch) - 1
        /\ \A i \in 1 .. Len(batch) - 1 : batch'[i] = batch[i + 1]
    <3> HIDE DEF Item
    <3> QED BY <1>1, <1>4
  <2>2. \A i \in 1 .. Len(batch) - 1 : i + 1 \in 1 .. Len(batch) /\ i + 1 # 1
    BY <1>2
  <2>3. \A i, j \in 1 .. Len(batch) : batch[i].who = batch[j].who => i = j
    BY <1>2 DEF BatchInv
  <2>4. \A i, j \in DOMAIN batch' : batch'[i].who = batch'[j].who => i = j
    <3> SUFFICES ASSUME NEW i \in 1 .. Len(batch) - 1, NEW j \in 1 .. Len(batch) - 1,
                        batch'[i].who = batch'[j].who
                 PROVE  i = j
      BY <2>1
    <3>1. i + 1 = j + 1
      BY <2>1, <2>2, <2>3
    <3> QED BY <3>1
  <2>5. Whos' = {batch[i + 1].who : i \in 1 .. Len(batch) - 1}
    BY <2>1 DEF Whos
  <2>6. Whos' \subseteq Whos \ {w}
    <3> SUFFICES ASSUME NEW i \in 1 .. Len(batch) - 1
                 PROVE  batch[i + 1].who \in Whos /\ batch[i + 1].who # w
      BY <2>5
    <3>1. i + 1 \in 1 .. Len(batch) /\ 1 \in 1 .. Len(batch) /\ i + 1 # 1
      BY <1>2, <2>2
    <3>2. batch[1].who = w
      BY <1>1, <1>2
    <3>3. batch[i + 1].who # w
      BY <2>3, <3>1, <3>2
    <3> QED BY <1>2, <3>1, <3>3 DEF Whos
  <2>7. Whos \ {w} \subseteq Whos'
    <3> SUFFICES ASSUME NEW i \in 1 .. Len(batch), batch[i].who # w
                 PROVE  batch[i].who \in Whos'
      BY <1>2 DEF Whos
    <3>1. i - 1 \in 1 .. Len(batch) - 1 /\ (i - 1) + 1 = i
      BY <1>1, <1>2
    <3> QED BY <2>5, <3>1
  <2> QED BY <2>1, <2>4, <2>6, <2>7
<1> QED BY <1>1, <1>3, <1>4

\* What epoll_wait gives: the events of different coroutines that wait.
LEMMA Polled ==
  ASSUME TypeOK, Poll
  PROVE  /\ batch' \in Seq([who : Peer \cup {Listener}, e : SUBSET Event])
         /\ \A i, j \in DOMAIN batch' : batch'[i].who = batch'[j].who => i = j
         /\ Whos' \subseteq Triggered
<1>1. PICK order \in SetToSeqs(Triggered) :
        batch' = [i \in DOMAIN order |-> [who |-> order[i], e |-> Reported(order[i])]]
  BY DEF Poll
<1>2. Triggered \subseteq Peer \cup {Listener}
  BY DEF Triggered, Live
<1>3. IsFiniteSet(Triggered)
  <2>1. IsFiniteSet(Peer \cup {Listener})
    BY EchoServerAssumption, FS_AddElement
  <2> QED BY <1>2, <2>1, FS_Subset
<1>4. Cardinality(Triggered) \in Nat
  BY <1>3, FS_CardinalityType
<1> DEFINE n == Cardinality(Triggered)
<1>5. order \in [1 .. n -> Triggered] /\ \A i, j \in 1 .. n : i # j => order[i] # order[j]
  BY DEF SetToSeqs
<1> HIDE DEF n
<1>6. \A who \in Triggered : Reported(who) \in SUBSET Event
  <2> SUFFICES ASSUME NEW who \in Triggered PROVE Reported(who) \subseteq Event
    OBVIOUS
  <2>1. Condition(who) \subseteq Event
    BY DEF Condition, Event, READ, WRITE, ERROR, HANGUP, RDHANGUP
  <2> QED BY <2>1 DEF Reported, Event
<1> DEFINE Item == [who : Peer \cup {Listener}, e : SUBSET Event]
<1>7. batch' \in [1 .. n -> Item] /\ \A i \in 1 .. n : batch'[i].who = order[i]
  BY <1>1, <1>2, <1>5, <1>6
<1>8. batch' \in Seq(Item)
  <2> HIDE DEF Item
  <2> QED BY <1>4, <1>7, FunctionIsSeq DEF n
<1>9. DOMAIN batch' = 1 .. n
  BY <1>7
<1>10. \A i, j \in DOMAIN batch' : batch'[i].who = batch'[j].who => i = j
  BY <1>5, <1>7, <1>9
<1>11. Whos' \subseteq Triggered
  BY <1>5, <1>7, <1>9 DEF Whos
<1> QED BY <1>8, <1>10, <1>11

\* Every variable keeps its type.
LEMMA TypeStep ==
  ASSUME TypeOK, SocketInv, BatchInv, [Next]_vars
  PROVE  TypeOK'
<1> USE DEF TypeOK
<1>1. CASE Poll
  BY <1>1, Polled DEF Poll, connectionVars, peerVars
<1>2. ASSUME NEW p \in Peer, SessionEnds(p)
      PROVE  TypeOK'
  <2>1. batch' \in Seq([who : Peer \cup {Listener}, e : SUBSET Event])
    <3> HIDE DEF TypeOK
    <3> QED BY <1>2, Handled DEF SessionEnds
  <2>2. process' \in {"running", "exited", "aborted", "killed", "undefined"}
    BY <1>2 DEF SessionEnds, AfterWriteError, AfterMessage
  <2>3. session' = [session EXCEPT ![p] = "done"] /\ data' = [data EXCEPT ![p] = <<>>]
    BY <1>2 DEF SessionEnds
  <2>4. data' \in [Peer -> Seq(Nat)] /\ \A q \in Peer : Len(data'[q]) <= BufSize
    BY <2>3, EchoServerAssumption
  <2> QED BY <1>2, <2>1, <2>2, <2>3, <2>4 DEF SessionEnds, connectionVars, peerVars
<1>3. ASSUME NEW p \in Peer, SessionReads(p)
      PROVE  TypeOK'
  <2>1. batch' \in Seq([who : Peer \cup {Listener}, e : SUBSET Event])
    <3> HIDE DEF TypeOK
    <3> QED BY <1>3, Handled DEF SessionReads
  <2> DEFINE n == Min({Asked, Len(inbox[p])})
             a == SubSeq(inbox[p], 1, n)
             b == SubSeq(inbox[p], n + 1, Len(inbox[p]))
  <2>2. n \in 0 .. Len(inbox[p]) /\ n <= BufSize /\ inbox[p] \in Seq(Nat)
    BY Moved
  <2>3. /\ data' = [data EXCEPT ![p] = a] /\ inbox' = [inbox EXCEPT ![p] = b]
        /\ session' = [session EXCEPT ![p] = "writing"]
        /\ UNCHANGED <<home, room, process, server, sock, backlog, outbox, peerVars, dropped>>
    BY <1>3 DEF SessionReads
  <2>4. a \in Seq(Nat) /\ Len(a) = n /\ b \in Seq(Nat)
    <3> HIDE DEF n, TypeOK
    <3> QED BY <2>2, SplitAt
  <2> HIDE DEF n, a, b
  <2>5. data' \in [Peer -> Seq(Nat)] /\ \A q \in Peer : Len(data'[q]) <= BufSize
    BY <2>2, <2>3, <2>4
  <2>6. inbox' \in [Peer -> Seq(Nat)]
    BY <2>3, <2>4
  <2>7. session' \in [Peer -> {"none", "reading", "writing", "done", "destroyed"}]
    BY <2>3
  <2> QED BY <2>1, <2>3, <2>5, <2>6, <2>7 DEF peerVars
<1>4. ASSUME NEW p \in Peer, SessionWrites(p)
      PROVE  TypeOK'
  <2>1. batch' \in Seq([who : Peer \cup {Listener}, e : SUBSET Event])
    <3> HIDE DEF TypeOK
    <3> QED BY <1>4, Handled DEF SessionWrites
  <2> DEFINE n == Min({Len(data[p]), SendRoom - Len(outbox[p])})
             a == SubSeq(data[p], 1, n)
             b == SubSeq(data[p], n + 1, Len(data[p]))
  <2>2. /\ n \in 0 .. Len(data[p]) /\ n + Len(outbox[p]) <= SendRoom
        /\ data[p] \in Seq(Nat) /\ outbox[p] \in Seq(Nat) /\ Len(outbox[p]) \in Nat /\ dropped[p] \in SUBSET Nat
    BY Moved, LenProperties
  <2>3. /\ outbox' = [outbox EXCEPT ![p] = outbox[p] \o a]
        /\ dropped' = [dropped EXCEPT ![p] = dropped[p] \cup Range(b)]
        /\ data' = [data EXCEPT ![p] = <<>>] /\ session' = [session EXCEPT ![p] = "reading"]
        /\ UNCHANGED <<home, room, process, server, sock, backlog, inbox, peerVars>>
    BY <1>4 DEF SessionWrites, LeftToWrite
  <2>4. a \in Seq(Nat) /\ Len(a) = n /\ b \in Seq(Nat)
    <3> HIDE DEF n, TypeOK
    <3> QED BY <2>2, SplitAt
  <2> HIDE DEF n, a, b
  <2>5. /\ outbox[p] \o a \in Seq(Nat) /\ Len(outbox[p] \o a) = Len(outbox[p]) + Len(a)
        /\ Range(b) \subseteq Nat
    <3> HIDE DEF TypeOK
    <3> QED BY <2>2, <2>4, ConcatProperties, StreamConcat
  <2>6. outbox' \in [Peer -> Seq(Nat)] /\ \A q \in Peer : Len(outbox'[q]) <= SendRoom
    BY <2>2, <2>3, <2>4, <2>5
  <2>7. data' \in [Peer -> Seq(Nat)] /\ \A q \in Peer : Len(data'[q]) <= BufSize
    BY <2>3, EchoServerAssumption
  <2>8. dropped' \in [Peer -> SUBSET Nat]
    BY <2>2, <2>3, <2>5
  <2>9. session' \in [Peer -> {"none", "reading", "writing", "done", "destroyed"}]
    BY <2>3
  <2> QED BY <2>1, <2>3, <2>6, <2>7, <2>8, <2>9 DEF peerVars
<1>5. ASSUME NEW p \in Peer, SessionWriteFails(p) \/ OrphanResumed(p)
      PROVE  TypeOK'
  BY <1>5 DEF SessionWriteFails, OrphanResumed, AfterWriteError, AfterMessage, connectionVars, peerVars
<1>6. CASE Accept
  <2>1. batch' \in Seq([who : Peer \cup {Listener}, e : SUBSET Event]) /\ backlog # <<>>
    <3> HIDE DEF TypeOK
    <3> QED BY <1>6, Handled DEF Accept, BatchInv
  <2> DEFINE p == Head(backlog)
  <2>2. p \in Peer /\ Tail(backlog) \in Seq(Peer)
    BY <2>1
  <2>3. /\ session' = [Destroyed(Finished) EXCEPT ![p] = "reading"]
        /\ sock' = [q \in Peer |-> IF q = p THEN "open" ELSE IF q \in Finished THEN "closed" ELSE sock[q]]
        /\ inbox' = [q \in Peer |-> IF q \in Finished THEN <<>> ELSE inbox[q]]
        /\ backlog' = Tail(backlog) /\ server' = "accepting"
        /\ UNCHANGED <<home, room, process, data, outbox, peerVars, dropped>>
    BY <1>6 DEF Accept, AfterAccept
  <2> HIDE DEF p
  <2>4. session' \in [Peer -> {"none", "reading", "writing", "done", "destroyed"}]
    BY <2>2, <2>3 DEF Destroyed
  <2>5. inbox' \in [Peer -> Seq(Nat)]
    BY <2>3
  <2>6. sock' \in [Peer -> {"none", "queued", "open", "closed", "refused"}]
    BY <2>3
  <2> QED BY <2>1, <2>2, <2>3, <2>4, <2>5, <2>6 DEF peerVars
<1>7. CASE AcceptFails
  <2>1. batch' \in Seq([who : Peer \cup {Listener}, e : SUBSET Event])
    <3> HIDE DEF TypeOK
    <3> QED BY <1>7, Handled DEF AcceptFails
  <2>2. session' \in [Peer -> {"none", "reading", "writing", "done", "destroyed"}]
    BY <1>7 DEF AcceptFails, Destroyed
  <2>3. inbox' \in [Peer -> Seq(Nat)]
    BY <1>7 DEF AcceptFails
  <2>4. data' \in [Peer -> Seq(Nat)] /\ \A q \in Peer : Len(data'[q]) <= BufSize
    BY <1>7, EchoServerAssumption DEF AcceptFails
  <2>5. sock' \in [Peer -> {"none", "queued", "open", "closed", "refused"}]
    BY <1>7 DEF AcceptFails
  <2>6. process' \in {"running", "exited", "aborted", "killed", "undefined"}
    BY <1>7 DEF AcceptFails, AfterMessage
  <2> QED BY <1>7, <2>1, <2>2, <2>3, <2>4, <2>5, <2>6 DEF AcceptFails, peerVars
<1>8. CASE Exit
  BY <1>8 DEF Exit, peerVars
<1>9. ASSUME NEW p \in Peer, Connect(p)
      PROVE  TypeOK'
  <2>1. backlog' \in Seq(Peer)
    <3>1. backlog \in Seq(Peer) /\ backlog' = Append(backlog, p)
      BY <1>9 DEF Connect
    <3> HIDE DEF TypeOK
    <3> QED BY <3>1
  <2>2. peer' \in [Peer -> {"new", "open", "fin", "reset", "broken"}]
    BY <1>9 DEF Connect
  <2>3. sock' \in [Peer -> {"none", "queued", "open", "closed", "refused"}]
    BY <1>9 DEF Connect
  <2>4. UNCHANGED <<processVars, inbox, outbox, sent, got, dropped>>
    BY <1>9 DEF Connect
  <2> QED BY <2>1, <2>2, <2>3, <2>4 DEF processVars
<1>10. ASSUME NEW p \in Peer, Send(p)
       PROVE  TypeOK'
  <2>1. /\ sent' = [sent EXCEPT ![p] = sent[p] + 1] /\ inbox' = [inbox EXCEPT ![p] = Append(inbox[p], sent'[p])]
        /\ UNCHANGED <<processVars, sock, backlog, outbox, peer, got, dropped>>
    BY <1>10 DEF Send
  <2>2. sent[p] + 1 \in Nat /\ sent'[p] = sent[p] + 1 /\ inbox[p] \in Seq(Nat)
    BY <2>1
  <2>3. Append(inbox[p], sent'[p]) \in Seq(Nat)
    BY <2>2
  <2>4. sent' \in [Peer -> Nat] /\ inbox' \in [Peer -> Seq(Nat)]
    BY <2>1, <2>2, <2>3
  <2> QED BY <2>1, <2>4 DEF processVars
<1>11. ASSUME NEW p \in Peer, Receive(p)
       PROVE  TypeOK'
  <2>1. /\ got' = [got EXCEPT ![p] = Append(got[p], Head(outbox[p]))]
        /\ outbox' = [outbox EXCEPT ![p] = Tail(outbox[p])] /\ outbox[p] # <<>>
        /\ UNCHANGED <<processVars, sock, backlog, inbox, peer, sent, dropped>>
    BY <1>11 DEF Receive
  <2>2. outbox[p] \in Seq(Nat) /\ got[p] \in Seq(Nat) /\ Len(outbox[p]) <= SendRoom
    OBVIOUS
  <2>3. /\ Append(got[p], Head(outbox[p])) \in Seq(Nat) /\ Tail(outbox[p]) \in Seq(Nat)
        /\ Len(Tail(outbox[p])) <= SendRoom
    <3> HIDE DEF TypeOK
    <3> QED BY <2>1, <2>2, EchoServerAssumption
  <2> QED BY <2>1, <2>3 DEF processVars
<1>12. ASSUME NEW p \in Peer, Shutdown(p) \/ Reset(p)
       PROVE  TypeOK'
  <2>1. /\ \/ peer' = [peer EXCEPT ![p] = "fin"] \/ peer' = [peer EXCEPT ![p] = "reset"]
           \/ peer' = [peer EXCEPT ![p] = "broken"]
        /\ outbox' \in {outbox, [outbox EXCEPT ![p] = <<>>]}
        /\ UNCHANGED <<processVars, sock, backlog, inbox, sent, got, dropped>>
    BY <1>12 DEF Shutdown, Reset, connectionVars
  <2>2. outbox' \in [Peer -> Seq(Nat)] /\ \A q \in Peer : Len(outbox'[q]) <= SendRoom
    <3>1. CASE outbox' = outbox
      BY <3>1
    <3>2. CASE outbox' = [outbox EXCEPT ![p] = <<>>]
      BY <3>2, EchoServerAssumption
    <3> QED BY <2>1, <3>1, <3>2
  <2>3. peer' \in [Peer -> {"new", "open", "fin", "reset", "broken"}]
    BY <2>1
  <2> QED BY <2>1, <2>2, <2>3 DEF processVars
<1>13. CASE UNCHANGED vars
  BY <1>13 DEF vars, processVars, connectionVars, peerVars
<1> QED
  BY <1>1, <1>2, <1>3, <1>4, <1>5, <1>6, <1>7, <1>8, <1>9, <1>10, <1>11, <1>12, <1>13
  DEF Next, LoopStep, PollTimesOut

-----------------------------------------------------------------------------
(* Sockets and events                                                      *)

\* The head of a queue without duplicates is not in the rest of it.
LEMMA HeadOfQueue ==
  ASSUME NEW S, NEW q \in Seq(S), q # <<>>, IsInjective(q)
  PROVE  /\ Head(q) \in ToSet(q) /\ ToSet(Tail(q)) \subseteq ToSet(q) \ {Head(q)}
         /\ IsInjective(Tail(q))
<1>1. /\ Len(q) \in Nat \ {0} /\ DOMAIN q = 1 .. Len(q) /\ Head(q) = q[1]
      /\ DOMAIN Tail(q) = 1 .. Len(q) - 1 /\ \A i \in 1 .. Len(q) - 1 : Tail(q)[i] = q[i + 1]
  OBVIOUS
<1>2. \A i, j \in 1 .. Len(q) : q[i] = q[j] => i = j
  BY <1>1 DEF IsInjective
<1>3. \A i \in 1 .. Len(q) - 1 : i + 1 \in 1 .. Len(q) /\ i + 1 # 1 /\ 1 \in 1 .. Len(q)
  BY <1>1
<1>4. ToSet(q) = {q[i] : i \in 1 .. Len(q)} /\ ToSet(Tail(q)) = {Tail(q)[i] : i \in 1 .. Len(q) - 1}
  BY <1>1 DEF ToSet
<1>5. Head(q) \in ToSet(q)
  BY <1>1, <1>4
<1>6. ASSUME NEW i \in 1 .. Len(q) - 1
      PROVE  Tail(q)[i] \in ToSet(q) /\ Tail(q)[i] # Head(q)
  <2>1. Tail(q)[i] = q[i + 1] /\ Head(q) = q[1]
    BY <1>1
  <2>2. q[i + 1] # q[1]
    BY <1>2, <1>3
  <2> QED BY <1>3, <1>4, <2>1, <2>2
<1>7. ASSUME NEW i \in 1 .. Len(q) - 1, NEW j \in 1 .. Len(q) - 1, Tail(q)[i] = Tail(q)[j]
      PROVE  i = j
  <2>1. i + 1 = j + 1
    BY <1>1, <1>2, <1>3, <1>7
  <2> QED BY <2>1
<1>8. IsInjective(Tail(q))
  BY <1>1, <1>7 DEF IsInjective
<1> QED BY <1>4, <1>5, <1>6, <1>8

\* Who waits does so on an open socket, and who was destroyed with the socket open was
\* destroyed with the list of clients.
LEMMA SocketStep ==
  ASSUME TypeOK, SocketInv, BatchInv, [Next]_vars
  PROVE  SocketInv'
<1> USE DEF SocketInv, Live, Open, Orphans
<1>1. CASE Poll
  BY <1>1 DEF Poll, connectionVars, peerVars
<1>2. ASSUME NEW p \in Peer, SessionEnds(p)
      PROVE  SocketInv'
  <2>1. /\ session' = [session EXCEPT ![p] = "done"] /\ data' = [data EXCEPT ![p] = <<>>]
        /\ p \in Live /\ process' # "undefined"
        /\ UNCHANGED <<home, server, connectionVars, peerVars>>
    BY <1>2 DEF SessionEnds, AfterWriteError, AfterMessage, Handles
  <2> QED BY <2>1 DEF TypeOK, connectionVars, peerVars
<1>3. ASSUME NEW p \in Peer, SessionReads(p)
      PROVE  SocketInv'
  <2>1. /\ session' = [session EXCEPT ![p] = "writing"] /\ session[p] = "reading"
        /\ \A q \in Peer \ {p} : data'[q] = data[q]
        /\ UNCHANGED <<home, process, server, sock, backlog, peer>>
    BY <1>3 DEF SessionReads, TypeOK, peerVars
  <2> QED BY <2>1 DEF TypeOK
<1>4. ASSUME NEW p \in Peer, SessionWrites(p)
      PROVE  SocketInv'
  <2>1. /\ session' = [session EXCEPT ![p] = "reading"] /\ session[p] = "writing"
        /\ data' = [data EXCEPT ![p] = <<>>]
        /\ UNCHANGED <<home, process, server, sock, backlog, peer>>
    BY <1>4 DEF SessionWrites, LeftToWrite, peerVars
  <2> QED BY <2>1 DEF TypeOK
<1>5. ASSUME NEW p \in Peer, SessionWriteFails(p) \/ OrphanResumed(p)
      PROVE  SocketInv'
  <2>1. UNCHANGED <<home, server, session, data, sock, backlog, peer>>
    BY <1>5 DEF SessionWriteFails, OrphanResumed, connectionVars, peerVars
  <2>2. process' = "undefined" => process = "undefined" \/ Orphans # {}
    BY <1>5 DEF SessionWriteFails, OrphanResumed, AfterWriteError, AfterMessage
  <2> QED BY <2>1, <2>2
<1>6. CASE Accept
  <2> DEFINE p == Head(backlog)
  <2>1. Listener \in Whos /\ process = "running"
    BY <1>6, Handled DEF Accept
  <2>2. server = "accepting" /\ backlog # <<>> /\ backlog \in Seq(Peer)
    BY <2>1 DEF BatchInv, TypeOK
  <2>3. /\ p \in ToSet(backlog) /\ p \in Peer /\ Tail(backlog) \in Seq(Peer)
        /\ ToSet(Tail(backlog)) \subseteq ToSet(backlog) \ {p} /\ IsInjective(Tail(backlog))
    <3> HIDE DEF SocketInv
    <3>1. IsInjective(backlog)
      BY DEF SocketInv
    <3> QED BY <2>2, <3>1, HeadOfQueue
  <2>4. /\ session' = [Destroyed(Finished) EXCEPT ![p] = "reading"]
        /\ sock' = [q \in Peer |-> IF q = p THEN "open" ELSE IF q \in Finished THEN "closed" ELSE sock[q]]
        /\ backlog' = Tail(backlog) /\ UNCHANGED <<home, process, data, peer>>
    BY <1>6 DEF Accept, peerVars
  <2> HIDE DEF p
  <2>5. Destroyed(Finished) = session
    BY DEF Destroyed, Finished, TypeOK
  <2>6. sock[p] = "queued" /\ session[p] = "none" /\ Orphans = {}
    BY <2>2, <2>3
  <2>7. session' = [session EXCEPT ![p] = "reading"] /\ p \notin Finished
    BY <2>4, <2>5, <2>6 DEF Finished
  <2>8. Live' = Live \cup {p} /\ Orphans' = {}
    <3>1. \A q \in Peer : session'[q] = IF q = p THEN "reading" ELSE session[q]
      BY <2>3, <2>7 DEF TypeOK
    <3>2. \A q \in Peer : session[q] # "destroyed"
      BY <2>6
    <3> HIDE DEF SocketInv
    <3>3. Live' = Live \cup {p}
      BY <2>3, <3>1
    <3>4. Orphans' = {}
      BY <3>1, <3>2
    <3> QED BY <3>3, <3>4
  <2>9. Live' \subseteq Open'
    BY <2>3, <2>4, <2>8 DEF Finished
  <2>10. \A q \in Peer : /\ peer'[q] = "new" => sock'[q] = "none"
                         /\ sock'[q] \in {"none", "queued"} => session'[q] = "none"
                         /\ sock'[q] = "open" => session'[q] # "none"
                         /\ session'[q] # "writing" => data'[q] = <<>>
    <3> SUFFICES ASSUME NEW q \in Peer
                 PROVE  /\ peer'[q] = "new" => sock'[q] = "none"
                        /\ sock'[q] \in {"none", "queued"} => session'[q] = "none"
                        /\ sock'[q] = "open" => session'[q] # "none"
                        /\ session'[q] # "writing" => data'[q] = <<>>
      OBVIOUS
    <3>1. /\ session'[q] = IF q = p THEN "reading" ELSE session[q]
          /\ sock'[q] = IF q = p THEN "open" ELSE IF q \in Finished THEN "closed" ELSE sock[q]
          /\ peer'[q] = peer[q] /\ data'[q] = data[q]
      BY <2>3, <2>4, <2>7 DEF TypeOK
    <3>2. q \in Finished => sock[q] = "open"
      BY DEF Finished
    <3>3. CASE q = p
      BY <2>6, <3>1, <3>3
    <3>4. CASE q # p
      BY <3>1, <3>2, <3>4
    <3> QED BY <3>3, <3>4
  <2>11. IsInjective(backlog') /\ \A q \in ToSet(backlog') : sock'[q] = "queued"
    <3>1. \A q \in ToSet(backlog) : q \in Peer
      BY <2>2, ToSetType
    <3> QED BY <2>3, <2>4, <3>1 DEF Finished
  <2>12. process' # "undefined"
    BY <2>1, <2>4
  <2> QED BY <2>8, <2>9, <2>10, <2>11, <2>12
<1>7. CASE AcceptFails
  <2>1. /\ session' = Destroyed(ListDies) /\ server' = "ended" /\ process' # "undefined"
        /\ sock' = [p \in Peer |-> IF sock[p] = "queued" THEN "refused"
                                   ELSE IF p \in ListDies THEN "closed" ELSE sock[p]]
        /\ data' = [p \in Peer |-> IF p \in ListDies THEN <<>> ELSE data[p]]
        /\ backlog' = <<>> /\ UNCHANGED <<home, peer>>
    BY <1>7 DEF AcceptFails, AfterMessage, errc, peerVars, Handles
  <2>2. Listener \in Whos
    BY <1>7, Handled DEF AcceptFails
  <2>3. Orphans = {}
    <3>1. server = "accepting"
      BY <2>2 DEF BatchInv
    <3> QED BY <3>1
  <2>4. IsInjective(<<>>) /\ ToSet(<<>>) = {}
    BY DEF IsInjective, ToSet
  <2>5. CASE home = "frame"
    BY <2>1, <2>4, <2>5 DEF ListDies, Destroyed, TypeOK
  <2>6. CASE home # "frame"
    <3>1. session' = session /\ data' = data
      BY <2>1, <2>6 DEF ListDies, Destroyed, TypeOK
    <3> QED BY <2>1, <2>3, <2>4, <2>6, <3>1 DEF ListDies
  <2> QED BY <2>5, <2>6
<1>8. CASE Exit
  <2>1. /\ Live = {} /\ Orphans = {} /\ process' = "exited"
        /\ sock' = [p \in Peer |-> IF sock[p] = "open" THEN "closed" ELSE sock[p]]
        /\ UNCHANGED <<home, server, session, data, backlog, peer>>
    BY <1>8 DEF Exit, peerVars
  <2>2. \A p \in ToSet(backlog) : p \in Peer
    BY ToSetType DEF TypeOK
  <2> QED BY <2>1, <2>2
<1>9. ASSUME NEW p \in Peer, Connect(p)
      PROVE  SocketInv'
  <2>1. /\ peer[p] = "new" /\ peer' = [peer EXCEPT ![p] = "open"] /\ sock' = [sock EXCEPT ![p] = "queued"]
        /\ backlog' = Append(backlog, p) /\ UNCHANGED <<home, server, process, session, data>>
    BY <1>9 DEF Connect, processVars
  <2>2. sock[p] = "none" /\ p \notin ToSet(backlog)
    BY <2>1
  <2>3. IsInjective(backlog') /\ ToSet(backlog') = ToSet(backlog) \cup {p}
    <3>1. backlog \in Seq(Peer) /\ IsInjective(backlog)
      BY DEF TypeOK
    <3> QED BY <2>1, <2>2, <3>1, ToSetAppend
  <2>4. \A q \in ToSet(backlog) : q \in Peer
    BY ToSetType DEF TypeOK
  <2>5. \A q \in Peer : /\ sock'[q] = IF q = p THEN "queued" ELSE sock[q]
                        /\ peer'[q] = IF q = p THEN "open" ELSE peer[q]
    BY <2>1 DEF TypeOK
  <2>6. Live' = Live /\ Orphans' = Orphans /\ Live' \subseteq Open'
    BY <2>1, <2>2, <2>5
  <2>7. \A q \in Peer : /\ peer'[q] = "new" => sock'[q] = "none"
                        /\ sock'[q] \in {"none", "queued"} => session'[q] = "none"
                        /\ sock'[q] = "open" => session'[q] # "none"
                        /\ session'[q] # "writing" => data'[q] = <<>>
    BY <2>1, <2>2, <2>5
  <2>8. IsInjective(backlog') /\ \A q \in ToSet(backlog') : sock'[q] = "queued"
    BY <2>3, <2>4, <2>5
  <2> QED BY <2>1, <2>6, <2>7, <2>8
<1>10. ASSUME NEW p \in Peer, Send(p) \/ Receive(p)
       PROVE  SocketInv'
  <2>1. UNCHANGED <<home, server, process, session, data, sock, backlog, peer>>
    BY <1>10 DEF Send, Receive, processVars
  <2> QED BY <2>1
<1>11. ASSUME NEW p \in Peer, Shutdown(p) \/ Reset(p)
       PROVE  SocketInv'
  <2>1. /\ peer[p] # "new" /\ \A q \in Peer : peer'[q] = "new" => peer[q] = "new"
        /\ UNCHANGED <<home, server, process, session, data, sock, backlog>>
    BY <1>11 DEF Shutdown, Reset, processVars, connectionVars, TypeOK
  <2> QED BY <2>1
<1>12. CASE UNCHANGED vars
  BY <1>12 DEF vars, processVars, connectionVars, peerVars
<1> QED
  BY <1>1, <1>2, <1>3, <1>4, <1>5, <1>6, <1>7, <1>8, <1>9, <1>10, <1>11, <1>12
  DEF Next, LoopStep, PollTimesOut

\* Handling one event leaves those at hand for the others as they are.
LEMMA BatchStep ==
  ASSUME TypeOK, SocketInv, BatchInv, [Next]_vars
  PROVE  BatchInv'
<1>1. CASE Poll
  <2>1. UNCHANGED <<server, session, backlog>>
    BY <1>1 DEF Poll, connectionVars
  <2>2. Triggered \subseteq Live \cup {Listener} /\ Live' = Live /\ Orphans' = Orphans
    BY <2>1 DEF Triggered, Live, Orphans
  <2>3. Listener \in Triggered => server = "accepting" /\ backlog # <<>>
    BY DEF Triggered, Reported
  <2> QED BY <1>1, <2>1, <2>2, <2>3, Polled DEF BatchInv
<1>2. ASSUME NEW p \in Peer, SessionEnds(p) \/ SessionReads(p) \/ SessionWrites(p)
      PROVE  BatchInv'
  <2>1. /\ Handles(p) /\ batch' = Tail(batch) /\ UNCHANGED <<server, backlog>>
        /\ \A q \in Peer \ {p} : session'[q] = session[q]
    BY <1>2 DEF SessionEnds, SessionReads, SessionWrites, connectionVars, TypeOK
  <2>2. /\ \A i, j \in DOMAIN batch' : batch'[i].who = batch'[j].who => i = j
        /\ Whos' = Whos \ {p}
    BY <2>1, Handled
  <2>3. Live \cup Orphans \subseteq Live' \cup Orphans' \cup {p}
    BY <2>1 DEF Live, Orphans
  <2> QED BY <2>1, <2>2, <2>3 DEF BatchInv
<1>3. ASSUME NEW p \in Peer, SessionWriteFails(p) \/ OrphanResumed(p)
      PROVE  BatchInv'
  <2>1. UNCHANGED <<server, session, batch, backlog>>
    BY <1>3 DEF SessionWriteFails, OrphanResumed, connectionVars
  <2> QED BY <2>1 DEF BatchInv, Whos, Live, Orphans
<1>4. CASE Accept \/ AcceptFails
  <2>1. Handles(Listener) /\ batch' = Tail(batch)
    BY <1>4 DEF Accept, AcceptFails
  <2>2. /\ \A i, j \in DOMAIN batch' : batch'[i].who = batch'[j].who => i = j
        /\ Whos' = Whos \ {Listener}
    BY <2>1, Handled
  <2>3. Live \cup Orphans \subseteq Live' \cup Orphans'
    <3>1. session' = Destroyed(ListDies) \/ session' = [Destroyed(Finished) EXCEPT ![Head(backlog)] = "reading"]
      BY <1>4 DEF Accept, AcceptFails
    <3> QED BY <3>1 DEF Destroyed, Live, Orphans, TypeOK
  <2> QED BY <2>2, <2>3 DEF BatchInv
<1>5. CASE Exit
  <2>1. batch = <<>> /\ batch' = <<>> /\ UNCHANGED <<server, session, backlog>>
    BY <1>5 DEF Exit
  <2> QED BY <2>1 DEF BatchInv, Whos
<1>6. ASSUME NEW p \in Peer, Connect(p)
      PROVE  BatchInv'
  <2>1. backlog' # <<>> /\ UNCHANGED <<server, session, batch>>
    <3>1. backlog \in Seq(Peer) /\ backlog' = Append(backlog, p)
      BY <1>6 DEF Connect, TypeOK
    <3>2. backlog' # <<>>
      BY <3>1
    <3> QED BY <1>6, <3>2 DEF Connect, processVars
  <2> QED BY <2>1 DEF BatchInv, Whos, Live, Orphans
<1>7. ASSUME NEW p \in Peer, Send(p) \/ Receive(p) \/ Shutdown(p) \/ Reset(p)
      PROVE  BatchInv'
  <2>1. UNCHANGED <<server, session, batch, backlog>>
    BY <1>7 DEF Send, Receive, Shutdown, Reset, processVars, connectionVars
  <2> QED BY <2>1 DEF BatchInv, Whos, Live, Orphans
<1>8. CASE UNCHANGED vars
  <2>1. UNCHANGED <<server, session, batch, backlog>>
    BY <1>8 DEF vars, processVars, connectionVars
  <2> QED BY <2>1 DEF BatchInv, Whos, Live, Orphans
<1> QED
  BY <1>1, <1>2, <1>3, <1>4, <1>5, <1>6, <1>7, <1>8
  DEF Next, LoopStep, PollTimesOut

-----------------------------------------------------------------------------
(* Streams                                                                 *)

\* The four parts of a stream are streams of numbers.
LEMMA StreamType ==
  ASSUME TypeOK, NEW p \in Peer
  PROVE  /\ got[p] \in Seq(Nat) /\ outbox[p] \in Seq(Nat) /\ data[p] \in Seq(Nat) /\ inbox[p] \in Seq(Nat)
         /\ got[p] \o outbox[p] \in Seq(Nat) /\ (got[p] \o outbox[p]) \o data[p] \in Seq(Nat)
         /\ Stream(p) \in Seq(Nat) /\ Range(Stream(p)) \subseteq Nat
         /\ Stream(p) = ((got[p] \o outbox[p]) \o data[p]) \o inbox[p]
<1>1. got[p] \in Seq(Nat) /\ outbox[p] \in Seq(Nat) /\ data[p] \in Seq(Nat) /\ inbox[p] \in Seq(Nat)
  BY DEF TypeOK
<1>2. got[p] \o outbox[p] \in Seq(Nat)
  BY <1>1, StreamConcat
<1>3. (got[p] \o outbox[p]) \o data[p] \in Seq(Nat)
  BY <1>1, <1>2, StreamConcat
<1>4. Stream(p) = ((got[p] \o outbox[p]) \o data[p]) \o inbox[p]
  BY DEF Stream
<1>5. Stream(p) \in Seq(Nat)
  BY <1>1, <1>3, <1>4, StreamConcat
<1>6. Range(Stream(p)) \subseteq Nat
  BY <1>5, StreamConcat
<1> QED BY <1>1, <1>2, <1>3, <1>4, <1>5, <1>6

\* A step that moves bytes along a stream at most keeps it.
LEMMA StreamSame ==
  ASSUME NEW p \in Peer, OneStream(p), Stream(p)' = Stream(p),
         sent'[p] = sent[p], dropped'[p] = dropped[p], Whole(p)' => Whole(p)
  PROVE  OneStream(p)'
BY DEF OneStream

\* What is left of a stream is a stream.
LEMMA StreamCut ==
  ASSUME NEW p \in Peer, OneStream(p), Increasing(Stream(p)'), Range(Stream(p)') \subseteq Range(Stream(p)),
         sent'[p] = sent[p], dropped'[p] = dropped[p], ~Whole(p)'
  PROVE  OneStream(p)'
BY DEF OneStream

\* A stream of four parts without one of the later three, or without the last two.
LEMMA FourParts ==
  ASSUME NEW g \in Seq(Nat), NEW o \in Seq(Nat), NEW d \in Seq(Nat), NEW n \in Seq(Nat),
         Increasing(((g \o o) \o d) \o n)
  PROVE  /\ Increasing(((g \o o) \o <<>>) \o n) /\ Increasing(((g \o o) \o <<>>) \o <<>>)
         /\ Increasing(((g \o o) \o d) \o <<>>) /\ Increasing(((g \o <<>>) \o d) \o n)
         /\ Range(((g \o o) \o <<>>) \o n) \subseteq Range(((g \o o) \o d) \o n)
         /\ Range(((g \o o) \o <<>>) \o <<>>) \subseteq Range(((g \o o) \o d) \o n)
         /\ Range(((g \o o) \o d) \o <<>>) \subseteq Range(((g \o o) \o d) \o n)
         /\ Range(((g \o <<>>) \o d) \o n) \subseteq Range(((g \o o) \o d) \o n)
<1> DEFINE x == g \o o
           y == x \o d
           z == y \o n
<1>1. x \in Seq(Nat)
  BY StreamConcat
<1> HIDE DEF x
<1>2. y \in Seq(Nat)
  BY <1>1, StreamConcat
<1>3. Increasing(x \o n) /\ Range(x \o n) \subseteq Range(z)
  <2>1. Increasing((x \o d) \o n)
    BY DEF x
  <2>2. Increasing(x \o n) /\ Range((x \o d) \o n) = Range(x \o n) \cup Range(d)
    BY <1>1, <2>1, CutOut
  <2> QED BY <2>2
<1> HIDE DEF y
<1>4. Increasing(y) /\ Range(y) \subseteq Range(z)
  <2>1. Increasing(y \o n)
    BY DEF x, y
  <2>2. Increasing(y)
    BY <1>2, <2>1, IncreasingConcat
  <2>3. Range(y \o n) = Range(y) \cup Range(n)
    BY <1>2, StreamConcat
  <2> QED BY <2>2, <2>3
<1>5. Increasing(x) /\ Range(x) \subseteq Range(z)
  <2>1. Increasing(x \o d)
    BY <1>4 DEF y
  <2>2. Increasing(x)
    BY <1>1, <2>1, IncreasingConcat
  <2>3. Range(x \o d) = Range(x) \cup Range(d)
    BY <1>1, StreamConcat
  <2> QED BY <1>4, <2>2, <2>3 DEF y
<1> DEFINE t == d \o n
<1>6. t \in Seq(Nat)
  BY StreamConcat
<1>7. z = (g \o o) \o t
  <2>1. (x \o d) \o n = x \o (d \o n)
    BY <1>1, StreamAssociative
  <2> QED BY <2>1 DEF x, y
<1>8. (g \o d) \o n = g \o t
  BY StreamAssociative
<1> HIDE DEF t
<1>9. Increasing((g \o o) \o t)
  BY <1>7 DEF x, y
<1>10. Increasing(g \o t) /\ Range(g \o t) \subseteq Range(z)
  <2>1. Increasing(g \o t) /\ Range((g \o o) \o t) = Range(g \o t) \cup Range(o)
    BY <1>6, <1>9, CutOut
  <2> QED BY <1>7, <2>1
<1>11. \A s \in Seq(Nat) : s \o <<>> = s
  OBVIOUS
<1>12. x \o <<>> = x /\ y \o <<>> = y /\ g \o <<>> = g
  BY <1>1, <1>2, <1>11
<1>13. /\ x = g \o o /\ y = (g \o o) \o d /\ z = ((g \o o) \o d) \o n
  BY DEF x, y
<1> HIDE DEF z
<1> QED BY <1>3, <1>4, <1>5, <1>8, <1>10, <1>12, <1>13

\* A stream without what the session has read, and one without what is on its way in or
\* out either.
LEMMA Cuts ==
  ASSUME TypeOK, NEW p \in Peer, Increasing(Stream(p))
  PROVE  /\ LET s == ((got[p] \o outbox[p]) \o <<>>) \o inbox[p]
            IN  Increasing(s) /\ Range(s) \subseteq Range(Stream(p))
         /\ LET s == ((got[p] \o outbox[p]) \o <<>>) \o <<>>
            IN  Increasing(s) /\ Range(s) \subseteq Range(Stream(p))
         /\ LET s == ((got[p] \o outbox[p]) \o data[p]) \o <<>>
            IN  Increasing(s) /\ Range(s) \subseteq Range(Stream(p))
         /\ LET s == ((got[p] \o <<>>) \o data[p]) \o inbox[p]
            IN  Increasing(s) /\ Range(s) \subseteq Range(Stream(p))
<1> DEFINE g == got[p]
           o == outbox[p]
           d == data[p]
           n == inbox[p]
<1>1. /\ g \in Seq(Nat) /\ o \in Seq(Nat) /\ d \in Seq(Nat) /\ n \in Seq(Nat)
  BY StreamType
<1>2. Stream(p) = ((g \o o) \o d) \o n
  BY StreamType
<1> HIDE DEF g, o, d, n
<1>3. Increasing(((g \o o) \o d) \o n)
  BY <1>2
<1>4. /\ Increasing(((g \o o) \o <<>>) \o n) /\ Increasing(((g \o o) \o <<>>) \o <<>>)
      /\ Increasing(((g \o o) \o d) \o <<>>) /\ Increasing(((g \o <<>>) \o d) \o n)
      /\ Range(((g \o o) \o <<>>) \o n) \subseteq Range(((g \o o) \o d) \o n)
      /\ Range(((g \o o) \o <<>>) \o <<>>) \subseteq Range(((g \o o) \o d) \o n)
      /\ Range(((g \o o) \o d) \o <<>>) \subseteq Range(((g \o o) \o d) \o n)
      /\ Range(((g \o <<>>) \o d) \o n) \subseteq Range(((g \o o) \o d) \o n)
  BY <1>1, <1>3, FourParts
<1> QED BY <1>2, <1>4 DEF g, o, d, n

\* What a session reads it takes from the front of what has arrived.
LEMMA ReadStep ==
  ASSUME TypeOK, SocketInv, NEW p \in Peer, OneStream(p), SessionReads(p)
  PROVE  OneStream(p)'
<1> DEFINE n == Min({Asked, Len(inbox[p])})
           a == SubSeq(inbox[p], 1, n)
           b == SubSeq(inbox[p], n + 1, Len(inbox[p]))
           x == got[p] \o outbox[p]
<1>1. inbox[p] \in Seq(Nat) /\ x \in Seq(Nat) /\ n \in 0 .. Len(inbox[p]) /\ Stream(p) = (x \o data[p]) \o inbox[p]
  BY Moved, StreamType
<1>2. /\ data'[p] = a /\ inbox'[p] = b /\ got'[p] \o outbox'[p] = x
      /\ sent'[p] = sent[p] /\ dropped'[p] = dropped[p] /\ sock'[p] = sock[p] /\ peer'[p] = peer[p]
      /\ session[p] = "reading" /\ session'[p] = "writing"
  BY DEF SessionReads, peerVars, TypeOK
<1>3. Stream(p)' = (x \o a) \o b
  BY <1>2 DEF Stream
<1> HIDE DEF n, x
<1>4. a \in Seq(Nat) /\ b \in Seq(Nat) /\ inbox[p] = a \o b
  BY <1>1, SplitAt
<1> HIDE DEF a, b
<1>5. data[p] = <<>>
  BY <1>2 DEF SocketInv
<1>6. x \o <<>> = x
  BY <1>1
<1>7. (x \o a) \o b = x \o (a \o b)
  BY <1>1, <1>4, StreamAssociative
<1>8. Stream(p)' = Stream(p)
  BY <1>1, <1>3, <1>4, <1>5, <1>6, <1>7
<1>9. Whole(p)' => Whole(p)
  BY <1>2 DEF Whole, IsReset
<1> QED BY <1>2, <1>8, <1>9, StreamSame

\* What a session writes goes behind what is on its way already, and the rest is dropped.
LEMMA WriteStep ==
  ASSUME TypeOK, NEW p \in Peer, OneStream(p), SessionWrites(p)
  PROVE  OneStream(p)'
<1> DEFINE k == Min({Len(data[p]), SendRoom - Len(outbox[p])})
           a == SubSeq(data[p], 1, k)
           b == SubSeq(data[p], k + 1, Len(data[p]))
           x == got[p] \o outbox[p]
           n == inbox[p]
<1>1. /\ data[p] \in Seq(Nat) /\ n \in Seq(Nat) /\ x \in Seq(Nat) /\ k \in 0 .. Len(data[p])
      /\ got[p] \in Seq(Nat) /\ outbox[p] \in Seq(Nat)
      /\ Stream(p) = (x \o data[p]) \o n
  BY Moved, StreamType
<1>2. /\ outbox'[p] = outbox[p] \o a /\ dropped'[p] = dropped[p] \cup Range(b) /\ data'[p] = <<>>
      /\ got'[p] = got[p] /\ inbox'[p] = n /\ sent'[p] = sent[p]
      /\ sock'[p] = sock[p] /\ peer'[p] = peer[p] /\ session[p] = "writing" /\ session'[p] = "reading"
  BY DEF SessionWrites, LeftToWrite, peerVars, TypeOK
<1>3. Stream(p)' = ((got[p] \o (outbox[p] \o a)) \o <<>>) \o n
  BY <1>2 DEF Stream
<1> HIDE DEF k, n
<1>4. a \in Seq(Nat) /\ b \in Seq(Nat) /\ data[p] = a \o b
  BY <1>1, SplitAt
<1> HIDE DEF a, b
<1>5. got[p] \o (outbox[p] \o a) = x \o a
  BY <1>1, <1>4, StreamAssociative
<1> HIDE DEF x
<1>6. x \o a \in Seq(Nat) /\ (x \o a) \o <<>> = x \o a
  BY <1>1, <1>4
<1>7. x \o (a \o b) = (x \o a) \o b
  <2>1. x \in Seq(Nat) /\ a \in Seq(Nat) /\ b \in Seq(Nat)
    BY <1>1, <1>4
  <2> QED BY <2>1, StreamAssociative
<1> DEFINE y == x \o a
<1>8. y \in Seq(Nat) /\ Stream(p)' = y \o n /\ Stream(p) = (y \o b) \o n
  BY <1>1, <1>3, <1>4, <1>5, <1>6, <1>7
<1> HIDE DEF y
<1>9. Increasing((y \o b) \o n)
  BY <1>8 DEF OneStream
<1>10. /\ Increasing(y \o n) /\ Range((y \o b) \o n) = Range(y \o n) \cup Range(b)
       /\ Range(y \o n) \cap Range(b) = {}
  BY <1>1, <1>4, <1>8, <1>9, CutOut
<1>11. /\ Range(y \o n) \cup Range(b) \subseteq (1 .. sent[p]) \ dropped[p]
       /\ dropped[p] \subseteq 1 .. sent[p]
       /\ Whole(p) => Range(y \o n) \cup Range(b) = (1 .. sent[p]) \ dropped[p]
  BY <1>8, <1>10 DEF OneStream
<1>12. Whole(p)' => Whole(p)
  BY <1>2 DEF Whole, IsReset
<1>13. Increasing(Stream(p)')
  BY <1>8, <1>10
<1>14. Range(Stream(p)') \subseteq (1 .. sent'[p]) \ dropped'[p] /\ dropped'[p] \subseteq 1 .. sent'[p]
  BY <1>2, <1>8, <1>10, <1>11
<1>15. Whole(p)' => Range(Stream(p)') = (1 .. sent'[p]) \ dropped'[p]
  BY <1>2, <1>8, <1>10, <1>11, <1>12
<1> QED BY <1>13, <1>14, <1>15 DEF OneStream

\* The byte a peer sends is one larger than those it has sent.
LEMMA SendStep ==
  ASSUME TypeOK, NEW p \in Peer, OneStream(p), Send(p)
  PROVE  OneStream(p)'
<1> DEFINE n == sent[p] + 1
           s == Stream(p)
<1>1. /\ got[p] \o outbox[p] \in Seq(Nat) /\ data[p] \in Seq(Nat) /\ inbox[p] \in Seq(Nat)
      /\ s \in Seq(Nat) /\ s = ((got[p] \o outbox[p]) \o data[p]) \o inbox[p]
  BY StreamType
<1>2. sent[p] \in Nat /\ n \in Nat
  BY DEF TypeOK
<1>3. /\ inbox'[p] = Append(inbox[p], n) /\ sent'[p] = n
      /\ got'[p] = got[p] /\ outbox'[p] = outbox[p] /\ data'[p] = data[p] /\ dropped'[p] = dropped[p]
      /\ session'[p] = session[p] /\ sock'[p] = sock[p] /\ peer'[p] = peer[p]
  BY DEF Send, processVars, TypeOK
<1>4. Stream(p)' = ((got[p] \o outbox[p]) \o data[p]) \o Append(inbox[p], n)
  BY <1>3 DEF Stream
<1> HIDE DEF n
<1>5. Stream(p)' = Append(s, n)
  <2> DEFINE x == got[p] \o outbox[p]
             d == data[p]
             i == inbox[p]
  <2>1. x \in Seq(Nat) /\ d \in Seq(Nat) /\ i \in Seq(Nat) /\ s = (x \o d) \o i
    BY <1>1
  <2>2. Stream(p)' = (x \o d) \o Append(i, n)
    BY <1>4
  <2> HIDE DEF x, d, i
  <2>3. (x \o d) \o Append(i, n) = Append((x \o d) \o i, n)
    <3>1. x \in Seq(Nat) /\ d \in Seq(Nat) /\ i \in Seq(Nat) /\ n \in Nat
      BY <1>2, <2>1
    <3> HIDE DEF s
    <3> QED BY <3>1, StreamAppend
  <2> QED BY <2>1, <2>2, <2>3
<1>6. /\ Increasing(s) /\ Range(s) \subseteq (1 .. sent[p]) \ dropped[p] /\ dropped[p] \subseteq 1 .. sent[p]
      /\ Whole(p) => Range(s) = (1 .. sent[p]) \ dropped[p]
  BY DEF OneStream
<1> HIDE DEF s
<1>7. n = sent[p] + 1
  BY DEF n
<1>8. \A x \in Range(s) : x < n
  BY <1>2, <1>6, <1>7
<1>9. Increasing(Append(s, n)) /\ Range(Append(s, n)) = Range(s) \cup {n}
  BY <1>1, <1>2, <1>6, <1>8, IncreasingAppend
<1>10. 1 .. n = (1 .. sent[p]) \cup {n} /\ n \notin 1 .. sent[p]
  BY <1>2, <1>7
<1>11. Whole(p)' => Whole(p)
  BY <1>3 DEF Whole, IsReset
<1>12. Range(Stream(p)') \subseteq (1 .. sent'[p]) \ dropped'[p] /\ dropped'[p] \subseteq 1 .. sent'[p]
  BY <1>3, <1>5, <1>6, <1>9, <1>10
<1>13. Whole(p)' => Range(Stream(p)') = (1 .. sent'[p]) \ dropped'[p]
  BY <1>3, <1>5, <1>6, <1>9, <1>10, <1>11
<1> QED BY <1>5, <1>9, <1>12, <1>13 DEF OneStream

\* A byte that arrives at the peer goes on to what it has got.
LEMMA ReceiveStep ==
  ASSUME TypeOK, NEW p \in Peer, OneStream(p), Receive(p)
  PROVE  OneStream(p)'
<1>1. got[p] \in Seq(Nat) /\ outbox[p] \in Seq(Nat) /\ outbox[p] # <<>>
  BY StreamType DEF Receive
<1>2. /\ got'[p] = Append(got[p], Head(outbox[p])) /\ outbox'[p] = Tail(outbox[p])
      /\ data'[p] = data[p] /\ inbox'[p] = inbox[p] /\ sent'[p] = sent[p] /\ dropped'[p] = dropped[p]
      /\ session'[p] = session[p] /\ sock'[p] = sock[p] /\ peer'[p] = peer[p]
  BY DEF Receive, processVars, TypeOK
<1>3. got'[p] \o outbox'[p] = got[p] \o outbox[p]
  BY <1>1, <1>2, StreamPassOn
<1>4. Stream(p)' = Stream(p)
  BY <1>2, <1>3 DEF Stream
<1>5. Whole(p)' => Whole(p)
  BY <1>2 DEF Whole, IsReset
<1> QED BY <1>2, <1>4, <1>5, StreamSame

\* Every step leaves what each peer has sent a stream.
LEMMA StreamStep ==
  ASSUME IInv, [Next]_vars
  PROVE  StreamInv'
<1> SUFFICES ASSUME NEW q \in Peer PROVE OneStream(q)'
  BY DEF StreamInv
<1>1. TypeOK /\ SocketInv /\ BatchInv /\ OneStream(q)
  BY DEF IInv, StreamInv
<1>2. Stream(q) = ((got[q] \o outbox[q]) \o data[q]) \o inbox[q] /\ Increasing(Stream(q))
  BY <1>1 DEF Stream, OneStream
\* A step that leaves the bytes of q alone.
<1>3. ASSUME got'[q] = got[q], outbox'[q] = outbox[q], data'[q] = data[q], inbox'[q] = inbox[q],
             sent'[q] = sent[q], dropped'[q] = dropped[q], Whole(q)' => Whole(q)
      PROVE  OneStream(q)'
  <2>1. Stream(q)' = Stream(q)
    BY <1>3 DEF Stream
  <2> QED BY <1>1, <1>3, <2>1, StreamSame
<1>4. CASE Poll \/ Exit \/ UNCHANGED vars
  <2>1. /\ UNCHANGED <<got, outbox, data, inbox, sent, dropped, session, peer>>
        /\ sock'[q] = "refused" <=> sock[q] = "refused"
    BY <1>1, <1>4 DEF Poll, Exit, vars, processVars, connectionVars, peerVars, TypeOK
  <2> QED BY <1>3, <2>1 DEF Whole, IsReset
<1>5. ASSUME NEW p \in Peer, SessionEnds(p)
      PROVE  OneStream(q)'
  <2>1. /\ UNCHANGED <<got, outbox, inbox, sent, dropped, sock, peer>>
        /\ session' = [session EXCEPT ![p] = "done"] /\ data' = [data EXCEPT ![p] = <<>>]
    BY <1>5 DEF SessionEnds, connectionVars, peerVars
  <2>2. CASE q = p
    <3>1. Stream(q)' = ((got[q] \o outbox[q]) \o <<>>) \o inbox[q] /\ ~Whole(q)'
      BY <1>1, <2>1, <2>2 DEF Stream, Whole, TypeOK
    <3>2. Increasing(Stream(q)') /\ Range(Stream(q)') \subseteq Range(Stream(q))
      BY <1>1, <1>2, <3>1, Cuts
    <3> QED BY <1>1, <2>1, <3>1, <3>2, StreamCut
  <2>3. CASE q # p
    <3>1. data'[q] = data[q] /\ session'[q] = session[q]
      BY <1>1, <2>1, <2>3 DEF TypeOK
    <3> QED BY <1>3, <2>1, <3>1 DEF Whole, IsReset
  <2> QED BY <2>2, <2>3
<1>6. ASSUME NEW p \in Peer, SessionReads(p) \/ SessionWrites(p) \/ Send(p) \/ Receive(p)
      PROVE  OneStream(q)'
  <2>1. CASE q = p
    BY <1>1, <1>6, <2>1, ReadStep, WriteStep, SendStep, ReceiveStep
  <2>2. CASE q # p
    <3>1. /\ got'[q] = got[q] /\ outbox'[q] = outbox[q] /\ data'[q] = data[q] /\ inbox'[q] = inbox[q]
          /\ sent'[q] = sent[q] /\ dropped'[q] = dropped[q]
          /\ session'[q] = session[q] /\ UNCHANGED <<sock, peer>>
      BY <1>1, <1>6, <2>2 DEF SessionReads, SessionWrites, Send, Receive, processVars, peerVars, TypeOK
    <3> QED BY <1>3, <3>1 DEF Whole, IsReset
  <2> QED BY <2>1, <2>2
<1>7. ASSUME NEW p \in Peer, SessionWriteFails(p) \/ OrphanResumed(p)
      PROVE  OneStream(q)'
  <2>1. UNCHANGED <<got, outbox, data, inbox, sent, dropped, session, sock, peer>>
    BY <1>7 DEF SessionWriteFails, OrphanResumed, connectionVars, peerVars
  <2> QED BY <1>3, <2>1 DEF Whole, IsReset
<1>8. CASE Accept
  <2> DEFINE p == Head(backlog)
  <2>1. /\ session' = [Destroyed(Finished) EXCEPT ![p] = "reading"]
        /\ sock' = [r \in Peer |-> IF r = p THEN "open" ELSE IF r \in Finished THEN "closed" ELSE sock[r]]
        /\ inbox' = [r \in Peer |-> IF r \in Finished THEN <<>> ELSE inbox[r]]
        /\ UNCHANGED <<data, outbox, got, sent, dropped, peer>>
    BY <1>8 DEF Accept, peerVars
  <2>2. p \in ToSet(backlog)
    <3>1. backlog # <<>> /\ backlog \in Seq(Peer) /\ IsInjective(backlog)
      BY <1>1, <1>8, Handled DEF Accept, BatchInv, SocketInv, TypeOK
    <3> QED BY <3>1, HeadOfQueue
  <2> HIDE DEF p
  <2>3. sock[p] = "queued"
    BY <1>1, <2>2 DEF SocketInv
  <2>4. CASE q \in Finished
    <3>1. session'[q] = "done"
      BY <1>1, <2>1, <2>3, <2>4 DEF Finished, Open, Destroyed, Live, TypeOK
    <3>2. Stream(q)' = ((got[q] \o outbox[q]) \o data[q]) \o <<>> /\ ~Whole(q)'
      BY <2>1, <2>4, <3>1 DEF Stream, Whole
    <3>3. Increasing(Stream(q)') /\ Range(Stream(q)') \subseteq Range(Stream(q))
      BY <1>1, <1>2, <3>2, Cuts
    <3> QED BY <1>1, <2>1, <3>2, <3>3, StreamCut
  <2>5. CASE q = p
    <3>1. session[q] = "none" /\ sock[q] = "queued"
      BY <1>1, <2>3, <2>5 DEF SocketInv
    <3>2. inbox'[q] = inbox[q]
      BY <2>1, <3>1 DEF Finished
    <3> QED BY <1>3, <2>1, <3>1, <3>2 DEF Whole, IsReset
  <2>6. CASE q \notin Finished /\ q # p
    <3>1. session'[q] = session[q] /\ sock'[q] = sock[q] /\ inbox'[q] = inbox[q]
      BY <1>1, <2>1, <2>6 DEF Destroyed, TypeOK
    <3> QED BY <1>3, <2>1, <3>1 DEF Whole, IsReset
  <2> QED BY <2>4, <2>5, <2>6
<1>9. CASE AcceptFails
  <2>1. /\ session' = Destroyed(ListDies)
        /\ sock' = [p \in Peer |-> IF sock[p] = "queued" THEN "refused"
                                   ELSE IF p \in ListDies THEN "closed" ELSE sock[p]]
        /\ inbox' = [p \in Peer |-> IF sock[p] = "queued" \/ p \in ListDies THEN <<>> ELSE inbox[p]]
        /\ data' = [p \in Peer |-> IF p \in ListDies THEN <<>> ELSE data[p]]
        /\ UNCHANGED <<outbox, got, sent, dropped, peer>>
    BY <1>9 DEF AcceptFails, peerVars
  <2>2. CASE q \in ListDies
    <3>1. sock[q] = "open" /\ session[q] # "none"
      BY <1>1, <2>2 DEF ListDies, Open, SocketInv
    <3>2. session'[q] \in {"done", "destroyed"}
      BY <1>1, <2>1, <2>2, <3>1 DEF Destroyed, Live, TypeOK
    <3>3. Stream(q)' = ((got[q] \o outbox[q]) \o <<>>) \o <<>> /\ ~Whole(q)'
      BY <2>1, <2>2, <3>2 DEF Stream, Whole
    <3>4. Increasing(Stream(q)') /\ Range(Stream(q)') \subseteq Range(Stream(q))
      BY <1>1, <1>2, <3>3, Cuts
    <3> QED BY <1>1, <2>1, <3>3, <3>4, StreamCut
  <2>3. CASE q \notin ListDies /\ sock[q] = "queued"
    <3>1. Stream(q)' = ((got[q] \o outbox[q]) \o data[q]) \o <<>> /\ ~Whole(q)'
      BY <2>1, <2>3 DEF Stream, Whole
    <3>2. Increasing(Stream(q)') /\ Range(Stream(q)') \subseteq Range(Stream(q))
      BY <1>1, <1>2, <3>1, Cuts
    <3> QED BY <1>1, <2>1, <3>1, <3>2, StreamCut
  <2>4. CASE q \notin ListDies /\ sock[q] # "queued"
    <3>1. /\ session'[q] = session[q] /\ sock'[q] = sock[q] /\ inbox'[q] = inbox[q]
          /\ data'[q] = data[q]
      BY <2>1, <2>4 DEF Destroyed
    <3> QED BY <1>3, <2>1, <3>1 DEF Whole, IsReset
  <2> QED BY <2>2, <2>3, <2>4
<1>10. ASSUME NEW p \in Peer, Connect(p) \/ Shutdown(p)
       PROVE  OneStream(q)'
  <2>1. /\ UNCHANGED <<got, outbox, data, inbox, sent, dropped, session>>
        /\ ~IsReset(q)' => ~IsReset(q)
    BY <1>1, <1>10 DEF Connect, Shutdown, IsReset, processVars, connectionVars, TypeOK
  <2>2. sock'[q] # "refused" => sock[q] # "refused"
    <3>1. CASE Connect(p)
      <4>1. sock[p] = "none" /\ sock' = [sock EXCEPT ![p] = "queued"]
        BY <1>1, <3>1 DEF Connect, SocketInv
      <4> QED BY <1>1, <4>1 DEF TypeOK
    <3>2. CASE Shutdown(p)
      BY <3>2 DEF Shutdown, connectionVars
    <3> QED BY <1>10, <3>1, <3>2
  <2> QED BY <1>3, <2>1, <2>2 DEF Whole
<1>11. ASSUME NEW p \in Peer, Reset(p)
       PROVE  OneStream(q)'
  <2>1. /\ UNCHANGED <<got, data, inbox, sent, dropped, session, sock>>
        /\ outbox' = [outbox EXCEPT ![p] = <<>>]
        /\ peer' = [peer EXCEPT ![p] = IF peer[p] = "open" THEN "reset" ELSE "broken"]
    BY <1>11 DEF Reset, processVars
  <2>2. CASE q = p
    <3>1. Stream(q)' = ((got[q] \o <<>>) \o data[q]) \o inbox[q] /\ ~Whole(q)'
      BY <1>1, <2>1, <2>2 DEF Stream, Whole, IsReset, TypeOK
    <3>2. Increasing(Stream(q)') /\ Range(Stream(q)') \subseteq Range(Stream(q))
      BY <1>1, <1>2, <3>1, Cuts
    <3> QED BY <1>1, <2>1, <3>1, <3>2, StreamCut
  <2>3. CASE q # p
    <3>1. outbox'[q] = outbox[q] /\ peer'[q] = peer[q]
      BY <1>1, <2>1, <2>3 DEF TypeOK
    <3> QED BY <1>3, <2>1, <3>1 DEF Whole, IsReset
  <2> QED BY <2>2, <2>3
<1> QED
  BY <1>4, <1>5, <1>6, <1>7, <1>8, <1>9, <1>10, <1>11
  DEF Next, LoopStep, PollTimesOut

-----------------------------------------------------------------------------
(* The theorems                                                            *)

\* Every step keeps the invariant.
LEMMA Inductive == IInv /\ [Next]_vars => IInv'
<1> SUFFICES ASSUME IInv, [Next]_vars PROVE IInv'
  OBVIOUS
<1>1. TypeOK /\ SocketInv /\ BatchInv
  BY DEF IInv
<1>2. TypeOK' /\ SocketInv' /\ BatchInv'
  BY <1>1, TypeStep, SocketStep, BatchStep
<1>3. StreamInv'
  BY StreamStep
<1> QED BY <1>2, <1>3 DEF IInv

\* The invariant gives what server and its handler promise about streams and sockets.
LEMMA Consequences == IInv => TypeOK /\ EchoInOrder /\ SocketOutlivesWaiter
<1> SUFFICES ASSUME IInv PROVE TypeOK /\ EchoInOrder /\ SocketOutlivesWaiter
  OBVIOUS
<1>1. TypeOK /\ SocketInv /\ BatchInv /\ StreamInv
  BY DEF IInv
<1>2. EchoInOrder
  BY <1>1 DEF EchoInOrder, StreamInv, OneStream, Whole, Stream, Increasing, Ascending
<1>3. SocketOutlivesWaiter
  BY <1>1 DEF SocketOutlivesWaiter, SocketInv, BatchInv, Whos
<1> QED BY <1>1, <1>2, <1>3

\* The invariant holds in every state a server with the echo handler reaches, with its
\* peers and their connections.
THEOREM Invariant == Spec => []IInv
<1>1. Init => IInv
  BY Initial
<1>2. IInv /\ [Next]_vars => IInv'
  BY Inductive
<1> QED BY <1>1, <1>2, PTL DEF Spec

\* Every variable keeps its type: a session never holds more than its buffer does, and
\* write() stores no more than the connection holds.
THEOREM TypeCorrect == Spec => []TypeOK
<1> QED BY Invariant, Consequences, PTL

\* A peer gets back what it sent, in order, once, and complete as long as its connection
\* lasts but for what a short write dropped (the handler of main.cpp).
THEOREM EchoedInOrder == Spec => []EchoInOrder
<1> QED BY Invariant, Consequences, PTL

\* No client whose coroutine waits is removed from clients_, and no event of a batch
\* outlives the coroutine it is for, unless the list dies with run_ of the example.
THEOREM SocketsOutlive == Spec => []SocketOutlivesWaiter
<1> QED BY Invariant, Consequences, PTL

=============================================================================
