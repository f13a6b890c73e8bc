----------------------------- MODULE EchoServer -----------------------------
(***************************************************************************)
(* bc::network::server with the handler of main.cpp, and the same server   *)
(* written out in examples/async-server.cxx: it accepts connections, and a *)
(* session per connection reads and writes back what it has read.  In      *)
(* server the list of clients is a member; in the example it is a variable *)
(* of the coroutine that accepts, and dies with it.  The scheduler appears *)
(* as what it does for these coroutines: one epoll_wait takes a snapshot   *)
(* of the events, then the coroutines that wait for them are resumed one   *)
(* after the other, while peers and network go on.  Each socket has one    *)
(* waiter, and a resumed coroutine makes one system call before it waits   *)
(* again.                                                                  *)
(*                                                                         *)
(* The n-th byte a peer sends is the number n.                             *)
(***************************************************************************)
EXTENDS Integers, SequencesExt, FiniteSetsExt

CONSTANTS
  Peer,         \* those that connect, once each
  Listener,     \* the listening socket, as the origin of an event
  BufSize,      \* the size of the session's buffer (1024)
  SendRoom,     \* the bytes a connection holds on their way to the peer
  MaxOpen,      \* bound: the descriptors the process has left for connections
  MaxBytes      \* bound: the bytes all peers send

ASSUME EchoServerAssumption ==
  /\ IsFiniteSet(Peer) /\ Listener \notin Peer
  /\ BufSize \in Nat \ {0} /\ SendRoom \in Nat \ {0} /\ MaxOpen \in Nat
  /\ MaxBytes \in Nat

VARIABLES
  \* the process
  home,         \* where the list of clients is: "member" or "frame"
  room,         \* how many descriptors the process has left for connections
  process,      \* "running", "exited", "aborted", "killed" (by SIGPIPE), "undefined"
  server,       \* run_: "accepting" or "ended"
  session,      \* the coroutines of a client: "none", "reading", "writing", "done",
                \* or "destroyed" while its node is still in the scheduler
  data,         \* what a session has read and not written yet
  batch,        \* the events of this epoll_wait not yet handled
  \* the kernel
  sock,         \* a connection: "none", "queued", "open", "closed", "refused"
  backlog,      \* the connections waiting to be accepted
  inbox,        \* received from a peer and not read
  outbox,       \* written to a peer and not received by it
  \* the peers
  peer,         \* "new", "open", "fin" (sends no more), "reset", "broken" (reset after fin)
  sent,         \* how many bytes a peer has sent
  got,          \* what a peer has received
  dropped       \* history: what a short write left out

processVars == <<home, room, process, server, session, data, batch>>
connectionVars == <<sock, backlog, inbox, outbox>>
peerVars == <<peer, sent, got>>
vars == <<processVars, connectionVars, peerVars, dropped>>

READ == "READ"
WRITE == "WRITE"
ERROR == "ERROR"
HANGUP == "HANGUP"
RDHANGUP == "RDHANGUP"
Event == {READ, WRITE, ERROR, HANGUP, RDHANGUP}

Init ==
  /\ home \in {"member", "frame"} /\ room \in 1 .. MaxOpen /\ process = "running" /\ server = "accepting"
  /\ session = [p \in Peer |-> "none"] /\ data = [p \in Peer |-> <<>>]
  /\ batch = <<>>
  /\ sock = [p \in Peer |-> "none"] /\ backlog = <<>>
  /\ inbox = [p \in Peer |-> <<>>] /\ outbox = [p \in Peer |-> <<>>]
  /\ peer = [p \in Peer |-> "new"] /\ sent = [p \in Peer |-> 0]
  /\ got = [p \in Peer |-> <<>>] /\ dropped = [p \in Peer |-> {}]

-----------------------------------------------------------------------------
(* epoll                                                                   *)

Live == {p \in Peer : session[p] \in {"reading", "writing"}}
IsReset(p) == peer[p] \in {"reset", "broken"}

\* What holds on the socket of a connection.
Condition(p) ==
  UNION { IF inbox[p] # <<>> \/ peer[p] # "open" THEN {READ} ELSE {},
          IF Len(outbox[p]) < SendRoom \/ IsReset(p) THEN {WRITE} ELSE {},
          IF peer[p] # "open" THEN {RDHANGUP} ELSE {},
          IF IsReset(p) THEN {ERROR, HANGUP} ELSE {} }

\* Mutant: async_read does not ask for READ.
DeafMask == {ERROR, HANGUP, RDHANGUP}

ReadMask == {READ, ERROR, HANGUP, RDHANGUP}
WriteMask == {WRITE, ERROR, HANGUP}
Mask(p) == IF session[p] = "reading" THEN ReadMask ELSE WriteMask

Reported(who) ==
  IF who = Listener
  THEN IF server = "accepting" /\ backlog # <<>> THEN {READ} ELSE {}
  ELSE Condition(who) \cap (Mask(who) \cup {ERROR, HANGUP})

Triggered == {who \in Live \cup {Listener} : Reported(who) # {}}

Poll ==
  /\ process = "running" /\ batch = <<>> /\ Triggered # {}
  /\ \E order \in SetToSeqs(Triggered) :
       batch' = [i \in DOMAIN order |-> [who |-> order[i], e |-> Reported(order[i])]]
  /\ UNCHANGED <<home, room, process, server, session, data, connectionVars, peerVars, dropped>>

-----------------------------------------------------------------------------
(* Sessions                                                                *)

\* The event the loop comes to is one for who.
Handles(who) == process = "running" /\ batch # <<>> /\ Head(batch).who = who

\* Mutant: a peer's FIN is left to read() to notice.
BugEventError(e) ==
  IF ERROR \in e THEN "epoll_error"
  ELSE IF HANGUP \in e THEN "closed_by_peer" ELSE "none"

\* What the awaiters of read and write return without a system call.
EventError(e) ==
  IF ERROR \in e THEN "epoll_error"
  ELSE IF e \cap {HANGUP, RDHANGUP} # {} THEN "closed_by_peer" ELSE "none"

\* The errors that occur here and that bc_error_category has a message for.  Its
\* message() aborts on every other.
errc == {"epoll_error", "closed_by_peer", "EMFILE", "EPIPE"}
AfterMessage(error) == IF error \in errc THEN "running" ELSE "aborted"

\* The message of a failed write: the example asks the result of the read before, which
\* succeeded, for an error, and that throws.
AfterWriteError(error) == IF home = "frame" THEN "aborted" ELSE AfterMessage(error)

\* The handler logs the error and returns, and the task that wraps it with it.
SessionEnds(p) ==
  /\ Handles(p) /\ p \in Live
  /\ LET error == EventError(Head(batch).e) IN
       /\ error # "none"
       /\ process' = IF session[p] = "writing" THEN AfterWriteError(error) ELSE AfterMessage(error)
  /\ session' = [session EXCEPT ![p] = "done"]
  /\ data' = [data EXCEPT ![p] = <<>>]
  /\ batch' = Tail(batch)
  /\ UNCHANGED <<home, room, server, connectionVars, peerVars, dropped>>

\* Mutant: one byte more than the buffer holds.
OneMore == BufSize + 1

\* How many bytes a session asks read() for.
Asked == BufSize

\* read() takes what there is, up to the size asked for; what has arrived is
\* there even if the connection has been reset since.
SessionReads(p) ==
  /\ Handles(p) /\ session[p] = "reading"
  /\ EventError(Head(batch).e) = "none"
  /\ LET n == Min({Asked, Len(inbox[p])}) IN
       /\ data' = [data EXCEPT ![p] = SubSeq(inbox[p], 1, n)]
       /\ inbox' = [inbox EXCEPT ![p] = SubSeq(@, n + 1, Len(@))]
  /\ session' = [session EXCEPT ![p] = "writing"]
  /\ batch' = Tail(batch)
  /\ UNCHANGED <<home, room, process, server, sock, backlog, outbox, peerVars, dropped>>

\* Mutant: after a short write the whole buffer is written again.
AllAgain(p, n) == IF n < Len(data[p]) THEN data[p] ELSE <<>>

\* The handler takes any count for success: nothing is left to write.
LeftToWrite(p, n) == <<>>

\* write() stores what fits.
SessionWrites(p) ==
  /\ Handles(p) /\ session[p] = "writing" /\ ~IsReset(p)
  /\ EventError(Head(batch).e) = "none"
  /\ LET n == Min({Len(data[p]), SendRoom - Len(outbox[p])})
         left == LeftToWrite(p, n)
     IN  /\ outbox' = [outbox EXCEPT ![p] = @ \o SubSeq(data[p], 1, n)]
         /\ dropped' = [dropped EXCEPT ![p] = @ \cup Range(SubSeq(data[p], n + 1, Len(data[p])))]
         /\ data' = [data EXCEPT ![p] = left]
         /\ session' = [session EXCEPT ![p] = IF left = <<>> THEN "reading" ELSE "writing"]
  /\ batch' = Tail(batch)
  /\ UNCHANGED <<home, room, process, server, sock, backlog, inbox, peerVars>>

\* The connection was reset after epoll_wait looked: write() fails with
\* ECONNRESET, which has no message, or, when the peer had sent its FIN before,
\* raises SIGPIPE.
SessionWriteFails(p) ==
  /\ Handles(p) /\ session[p] = "writing" /\ IsReset(p)
  /\ EventError(Head(batch).e) = "none"
  /\ process' = IF peer[p] = "broken" THEN "killed" ELSE AfterWriteError("ECONNRESET")
  /\ UNCHANGED <<home, room, server, session, data, batch, connectionVars, peerVars, dropped>>

-----------------------------------------------------------------------------
(* server::run_                                                            *)

Open == {p \in Peer : sock[p] = "open"}
Orphans == {p \in Peer : session[p] = "destroyed"}

\* ~task of the clients S: a coroutine that waits is destroyed, its node stays.
Destroyed(S) == [p \in Peer |-> IF p \in S \cap Live THEN "destroyed" ELSE session[p]]

\* Mutants: every client is removed; none is.
EveryClient == Open
NoClient == {}

\* The clients the loop after an accept removes from clients_: their tasks are
\* done.  Removing one closes its socket.
Finished == {p \in Open : session[p] = "done"}

\* Mutant: the server accepts once.
OneTime == "ended"

\* run_ waits for the next connection.
AfterAccept == "accepting"

\* The proxy accepts the connection at the head of the queue, run_ starts its
\* session, which waits for data at once, and removes the finished ones.
Accept ==
  /\ Handles(Listener)
  /\ Cardinality(Open) < room
  /\ LET p == Head(backlog) IN
       /\ session' = [Destroyed(Finished) EXCEPT ![p] = "reading"]
       /\ sock' = [q \in Peer |-> IF q = p THEN "open"
                                  ELSE IF q \in Finished THEN "closed" ELSE sock[q]]
       /\ inbox' = [q \in Peer |-> IF q \in Finished THEN <<>> ELSE inbox[q]]
  /\ backlog' = Tail(backlog)
  /\ server' = AfterAccept
  /\ batch' = Tail(batch)
  /\ UNCHANGED <<home, room, process, data, outbox, peerVars, dropped>>

\* The clients that end with the coroutine that accepts.
ListDies == IF home = "frame" THEN Open ELSE {}

\* accept4 fails for want of a descriptor: run_ logs the error and returns, which
\* destroys the listening socket.  The sessions go on, unless they die with the list.
AcceptFails ==
  /\ Handles(Listener)
  /\ Cardinality(Open) >= room
  /\ process' = AfterMessage("EMFILE")
  /\ server' = "ended"
  /\ session' = Destroyed(ListDies)
  /\ sock' = [p \in Peer |-> IF sock[p] = "queued" THEN "refused"
                             ELSE IF p \in ListDies THEN "closed" ELSE sock[p]]
  /\ inbox' = [p \in Peer |-> IF sock[p] = "queued" \/ p \in ListDies THEN <<>> ELSE inbox[p]]
  /\ data' = [p \in Peer |-> IF p \in ListDies THEN <<>> ELSE data[p]]
  /\ backlog' = <<>>
  /\ batch' = Tail(batch)
  /\ UNCHANGED <<home, room, outbox, peerVars, dropped>>

\* The batch has an event for a coroutine that an earlier one destroyed: the handler
\* finds its node and resumes a frame that is gone.
OrphanResumed(p) ==
  /\ Handles(p) /\ p \in Orphans
  /\ process' = "undefined"
  /\ UNCHANGED <<home, room, server, session, data, batch, connectionVars, peerVars, dropped>>

\* No coroutine waits any more, nor has left a node: run() returns and main() destroys
\* the server.
Exit ==
  /\ process = "running" /\ batch = <<>>
  /\ server = "ended" /\ Live = {} /\ Orphans = {}
  /\ process' = "exited"
  /\ sock' = [p \in Peer |-> IF sock[p] = "open" THEN "closed" ELSE sock[p]]
  /\ UNCHANGED <<home, room, server, session, data, batch, backlog, inbox, outbox, peerVars, dropped>>

\* epoll_wait reaches its timeout, and run() waits again.
PollTimesOut ==
  /\ process = "running" /\ batch = <<>> /\ Triggered = {}
  /\ server = "accepting" \/ Live # {} \/ Orphans # {}
  /\ UNCHANGED vars

-----------------------------------------------------------------------------
(* The peers and the network                                               *)

Connect(p) ==
  /\ peer[p] = "new" /\ server = "accepting"
  /\ peer' = [peer EXCEPT ![p] = "open"]
  /\ sock' = [sock EXCEPT ![p] = "queued"]
  /\ backlog' = Append(backlog, p)
  /\ UNCHANGED <<processVars, inbox, outbox, sent, got, dropped>>

BytesSent == MapThenSumSet(LAMBDA q : sent[q], Peer)

Send(p) ==
  /\ peer[p] = "open" /\ sock[p] \in {"queued", "open"}
  /\ BytesSent < MaxBytes
  /\ sent' = [sent EXCEPT ![p] = @ + 1]
  /\ inbox' = [inbox EXCEPT ![p] = Append(@, sent'[p])]
  /\ UNCHANGED <<processVars, sock, backlog, outbox, peer, got, dropped>>

Receive(p) ==
  /\ peer[p] \in {"open", "fin"} /\ outbox[p] # <<>>
  /\ got' = [got EXCEPT ![p] = Append(@, Head(outbox[p]))]
  /\ outbox' = [outbox EXCEPT ![p] = Tail(@)]
  /\ UNCHANGED <<processVars, sock, backlog, inbox, peer, sent, dropped>>

Shutdown(p) ==
  /\ peer[p] = "open"
  /\ peer' = [peer EXCEPT ![p] = "fin"]
  /\ UNCHANGED <<processVars, connectionVars, sent, got, dropped>>

\* A reset destroys what was on its way to the peer.
Reset(p) ==
  /\ peer[p] \in {"open", "fin"} /\ sock[p] \in {"queued", "open"}
  /\ peer' = [peer EXCEPT ![p] = IF @ = "open" THEN "reset" ELSE "broken"]
  /\ outbox' = [outbox EXCEPT ![p] = <<>>]
  /\ UNCHANGED <<processVars, sock, backlog, inbox, sent, got, dropped>>

-----------------------------------------------------------------------------

LoopStep ==
  \/ Poll \/ Accept \/ AcceptFails \/ Exit
  \/ \E p \in Peer : SessionEnds(p) \/ SessionReads(p)
                        \/ SessionWrites(p) \/ SessionWriteFails(p) \/ OrphanResumed(p)

Next ==
  \/ LoopStep
  \/ \E p \in Peer : Connect(p) \/ Send(p) \/ Receive(p) \/ Shutdown(p) \/ Reset(p)
  \/ PollTimesOut
  \/ process # "running" /\ UNCHANGED vars

Spec == Init /\ [][Next]_vars

\* The thread of the server runs, and a peer receives what comes in.  No peer has
\* to connect, to send or to close.
Fairness == WF_vars(LoopStep) /\ \A p \in Peer : WF_vars(Receive(p))

FairSpec == Spec /\ Fairness

-----------------------------------------------------------------------------
(* Properties                                                              *)

\* Every variable has its type; a session's data fits its buffer, and what is on its way
\* to a peer fits the connection.
TypeOK ==
  /\ room \in 1 .. MaxOpen
  /\ home \in {"member", "frame"}
  /\ process \in {"running", "exited", "aborted", "killed", "undefined"}
  /\ server \in {"accepting", "ended"}
  /\ session \in [Peer -> {"none", "reading", "writing", "done", "destroyed"}]
  /\ data \in [Peer -> Seq(Nat)] /\ \A p \in Peer : Len(data[p]) <= BufSize
  /\ batch \in Seq([who : Peer \cup {Listener}, e : SUBSET Event])
  /\ sock \in [Peer -> {"none", "queued", "open", "closed", "refused"}]
  /\ backlog \in Seq(Peer)
  /\ inbox \in [Peer -> Seq(Nat)]
  /\ outbox \in [Peer -> Seq(Nat)] /\ \A p \in Peer : Len(outbox[p]) <= SendRoom
  /\ peer \in [Peer -> {"new", "open", "fin", "reset", "broken"}]
  /\ sent \in [Peer -> Nat]
  /\ got \in [Peer -> Seq(Nat)] /\ dropped \in [Peer -> SUBSET Nat]

Ascending(s) == \A i, j \in DOMAIN s : i < j => s[i] < s[j]

\* A peer gets back what it sent, in order and no byte twice; while the connection
\* lasts no byte is missing but those a short write left out.
EchoInOrder ==
  \A p \in Peer :
    LET s == got[p] \o outbox[p] \o data[p] \o inbox[p]
    IN  /\ Ascending(s)
        /\ session[p] \notin {"done", "destroyed"} /\ sock[p] # "refused" /\ ~IsReset(p) =>
             Range(s) = (1 .. sent[p]) \ dropped[p]

\* A coroutine never waits on a socket that is closed, and the loop never comes to an
\* event of a socket that an earlier event of the batch closed; only a list of clients
\* that dies when an accept fails takes waiting coroutines with it.
SocketOutlivesWaiter ==
  /\ Live \subseteq Open
  /\ process = "running" =>
       \A i \in DOMAIN batch :
         IF batch[i].who = Listener THEN server = "accepting" ELSE batch[i].who \in Live \cup Orphans
  /\ Orphans # {} \/ process = "undefined" => home = "frame" /\ server = "ended"

\* No error of one connection ends the process.
NeverKilled == process \notin {"aborted", "killed"}

\* Over(p): nothing can be asked of the connection any more.
Over(p) ==
  \/ session[p] \in {"done", "destroyed"} \/ sock[p] \in {"refused", "closed"} \/ IsReset(p)
  \/ process # "running"

\* Each byte comes back, if the connection lasts and no short write drops it.
Echoed ==
  \A p \in Peer : \A n \in 1 .. MaxBytes :
    sent[p] >= n ~> n \in Range(got[p]) \cup dropped[p] \/ Over(p)

\* A connection does not wait for ever to be accepted, unless the server ends.
Accepted == \A p \in Peer : sock[p] = "queued" ~> sock[p] # "queued" \/ process # "running"

\* A peer that shuts down or is reset does not keep its session for ever, nor when
\* the server has stopped accepting; and then the process does not outlive its peers,
\* unless destroyed coroutines have left their nodes.
HangupEndsSession ==
  /\ \A p \in Peer :
       p \in Live /\ peer[p] # "open" ~> p \notin Live \/ process # "running"
  /\ server = "ended" /\ (\A p \in Peer : peer[p] # "open")
       ~> process # "running" \/ Orphans # {}

\* The socket of a finished session is closed when somebody else connects.
FinishedRemoved ==
  \A p, q \in Peer :
    sock[p] = "open" /\ session[p] = "done" /\ sock[q] = "queued"
      ~> sock[p] = "closed" \/ server = "ended" \/ process # "running"

=============================================================================
