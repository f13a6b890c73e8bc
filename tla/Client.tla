------------------------------- MODULE Client -------------------------------
(***************************************************************************)
(* bc::network::client with the connect awaiter of a socket and the        *)
(* handler of examples/client.cxx, which sends each line of its input to   *)
(* an echo server and prints what one read brings back.                    *)
(*                                                                         *)
(* The scheduler appears as what it does for this one coroutine: epoll_wait*)
(* reports what holds on the socket, later the coroutine is resumed with   *)
(* that, and the connection may have changed in between.                   *)
(*                                                                         *)
(* The n-th byte of the input is the number n.                             *)
(***************************************************************************)
EXTENDS Integers, SequencesExt, FiniteSetsExt

CONSTANTS
  BufSize,      \* the size of the handler's buffer (1024)
  SendRoom,     \* the bytes a connection holds on their way to the server
  Inputs        \* the inputs in use: sequences of lengths of lines

ASSUME ClientAssumption ==
  /\ BufSize \in Nat \ {0} /\ SendRoom \in Nat \ {0}
  /\ Inputs \subseteq Seq(Nat)

VARIABLES
  pc,           \* where the coroutine of the client is, or how the process ended
  event,        \* what epoll_wait reported to the waiting coroutine, {} before
  connected,    \* history: whether the connect succeeded, which nobody looks at
  lines,        \* the lengths of the lines not read yet
  typed,        \* how many bytes the lines read so far had
  line,         \* what the handler read last
  link,         \* kernel: the connection
  outbox,       \* written and not received by the server
  inbox,        \* received from the server and not read
  printed,      \* what the client has printed
  answered,     \* history: how many bytes it had printed before the last read
  dropped       \* history: what a short write left out

ioVars == <<lines, typed, line, outbox, inbox, printed, answered, dropped>>
vars == <<pc, event, connected, link, ioVars>>

READ == "READ"
WRITE == "WRITE"
ERROR == "ERROR"
HANGUP == "HANGUP"
RDHANGUP == "RDHANGUP"
Event == {READ, WRITE, ERROR, HANGUP, RDHANGUP}

Init ==
  /\ pc = "start" /\ event = {} /\ connected = "unknown"
  /\ lines \in Inputs /\ typed = 0 /\ line = <<>>
  /\ link = "none" /\ outbox = <<>> /\ inbox = <<>>
  /\ printed = <<>> /\ answered = 0 /\ dropped = {}

-----------------------------------------------------------------------------
(* epoll                                                                   *)

\* What holds on the socket.  A connection that failed keeps its error until a
\* system call returns it; then it is "gone".
Condition ==
  UNION { IF inbox # <<>> \/ link \in {"fin", "failed", "broken", "gone"} THEN {READ} ELSE {},
          IF link \in {"failed", "broken", "gone"} \/ (link \in {"up", "fin"} /\ Len(outbox) < SendRoom)
          THEN {WRITE} ELSE {},
          IF link \in {"fin", "failed", "broken", "gone"} THEN {RDHANGUP} ELSE {},
          IF link \in {"failed", "broken", "gone"} THEN {HANGUP} ELSE {},
          IF link \in {"failed", "broken"} THEN {ERROR} ELSE {} }

\* Mutant: the connect awaiter asks for errors only.
DeafConnect == {ERROR, HANGUP}

ConnectMask == {WRITE, ERROR, HANGUP}
ReadMask == {READ, ERROR, HANGUP, RDHANGUP}
WriteMask == {WRITE, ERROR, HANGUP}
Mask == CASE pc = "connecting" -> ConnectMask
          [] pc = "reading" -> ReadMask
          [] pc = "writing" -> WriteMask
          [] OTHER -> {}

Reported == Condition \cap (Mask \cup {ERROR, HANGUP})

Waiting == pc \in {"connecting", "reading", "writing"}

Poll ==
  /\ Waiting /\ event = {} /\ Reported # {}
  /\ event' = Reported
  /\ UNCHANGED <<pc, connected, link, ioVars>>

\* The coroutine is resumed with the event and goes on to place.
ResumedTo(place) == event # {} /\ event' = {} /\ pc' = place

-----------------------------------------------------------------------------
(* client::async_connect                                                   *)

\* await_ready: connect() succeeds at once.
ConnectNow ==
  /\ pc = "start"
  /\ link' = "up" /\ connected' = "yes" /\ pc' = "getline"
  /\ UNCHANGED <<event, ioVars>>

\* await_ready: EINPROGRESS, so the coroutine waits.
ConnectLater ==
  /\ pc = "start"
  /\ link' = "progress" /\ pc' = "connecting"
  /\ UNCHANGED <<event, connected, ioVars>>

\* The hostname is no address, there is no socket, or connect() fails at once: operator*
\* of an expected without value, an exception that leaves a coroutine and `throw;` with
\* no exception in flight all end the process.
ConnectFails ==
  /\ pc = "start"
  /\ connected' = "no" /\ pc' = "terminated"
  /\ UNCHANGED <<event, link, ioVars>>

\* await_resume: an error or hangup, or a second connect() that finds the connection
\* reset meanwhile and takes its error, makes the result false.  Nobody looks at the
\* result: the handler starts.
ConnectResumes ==
  /\ pc = "connecting" /\ ResumedTo("getline")
  /\ IF event \cap {ERROR, HANGUP} # {} THEN connected' = "no" /\ UNCHANGED link
     ELSE IF link \in {"failed", "broken"} THEN connected' = "no" /\ link' = "gone"
     ELSE connected' = "yes" /\ UNCHANGED link
  /\ UNCHANGED ioVars

-----------------------------------------------------------------------------
(* The handler of examples/client.cxx                                      *)

\* Mutant: a hangup is left to the system call to notice.
BugEventError(e) == ERROR \in e

\* What makes the awaiters of read and write return an error without a system call.
\* The handler logs it and returns.
EventError(e) == e \cap {ERROR, HANGUP, RDHANGUP} # {}

GetLine ==
  /\ pc = "getline" /\ lines # <<>>
  /\ line' = [k \in 1 .. Head(lines) |-> typed + k]
  /\ typed' = typed + Head(lines)
  /\ lines' = Tail(lines)
  /\ pc' = "writing"
  /\ UNCHANGED <<event, connected, link, outbox, inbox, printed, answered, dropped>>

EndOfInput ==
  /\ pc = "getline" /\ lines = <<>>
  /\ pc' = "done"
  /\ UNCHANGED <<event, connected, link, ioVars>>

HandlerEnds ==
  /\ pc \in {"reading", "writing"} /\ EventError(event)
  /\ ResumedTo("done")
  /\ UNCHANGED <<connected, link, ioVars>>

\* Mutant: the line is stored whatever room there is.
WholeLine(n) == line

\* write() stores what fits, from the beginning of the line.
Stored(n) == SubSeq(line, 1, n)

\* Any count is success.
LineWritten ==
  /\ pc = "writing" /\ ~EventError(event) /\ link \in {"up", "fin"}
  /\ ResumedTo("reading")
  /\ LET n == Min({Len(line), SendRoom - Len(outbox)})
     IN  /\ outbox' = outbox \o Stored(n)
         /\ dropped' = dropped \cup Range(SubSeq(line, n + 1, Len(line)))
  /\ UNCHANGED <<connected, link, lines, typed, line, inbox, printed, answered>>

\* The connection failed after epoll_wait looked: message() of the error of write()
\* aborts, or SIGPIPE kills the process.
WriteFails ==
  /\ pc = "writing" /\ ~EventError(event) /\ link \in {"failed", "broken", "gone"}
  /\ ResumedTo(IF link = "failed" THEN "aborted" ELSE "killed")
  /\ UNCHANGED <<connected, link, ioVars>>

\* Mutant: what was read stays in the socket.
BugUnread(n) == inbox

\* What read() leaves in the socket.
Unread(n) == SubSeq(inbox, n + 1, Len(inbox))

\* read() takes what there is, up to the size of the buffer, and the handler writes a
\* zero behind it: past the end of the buffer when it is full.
ReplyRead ==
  /\ pc = "reading" /\ ~EventError(event)
  /\ LET n == Min({BufSize, Len(inbox)})
     IN  /\ ResumedTo(IF n = BufSize THEN "undefined" ELSE "getline")
         /\ printed' = printed \o SubSeq(inbox, 1, n) /\ answered' = Len(printed)
         /\ inbox' = Unread(n)
  /\ UNCHANGED <<connected, link, lines, typed, line, outbox, dropped>>

-----------------------------------------------------------------------------
(* The server and the network                                              *)

Accepted ==
  /\ link = "progress"
  /\ link' = "up"
  /\ UNCHANGED <<pc, event, connected, ioVars>>

\* The connection is refused, or its attempt runs into the time limit of the kernel.
Refused ==
  /\ link = "progress"
  /\ link' = "failed"
  /\ UNCHANGED <<pc, event, connected, ioVars>>

\* The server sends a byte back.
Echo ==
  /\ link = "up" /\ outbox # <<>>
  /\ inbox' = Append(inbox, Head(outbox))
  /\ outbox' = Tail(outbox)
  /\ UNCHANGED <<pc, event, connected, link, lines, typed, line, printed, answered, dropped>>

\* The server closes its end, and what it has not received is lost.
ServerCloses ==
  /\ link = "up"
  /\ link' = "fin" /\ outbox' = <<>>
  /\ UNCHANGED <<pc, event, connected, lines, typed, line, inbox, printed, answered, dropped>>

Reset ==
  /\ link \in {"up", "fin"}
  /\ link' = IF link = "up" THEN "failed" ELSE "broken"
  /\ outbox' = <<>>
  /\ UNCHANGED <<pc, event, connected, lines, typed, line, inbox, printed, answered, dropped>>

-----------------------------------------------------------------------------

ClientStep ==
  \/ ConnectNow \/ ConnectLater \/ ConnectFails
  \/ Poll \/ ConnectResumes
  \/ GetLine \/ EndOfInput \/ HandlerEnds
  \/ LineWritten \/ WriteFails \/ ReplyRead

\* epoll_wait reaches its timeout, and run() waits again.
PollTimesOut ==
  /\ Waiting /\ event = {} /\ Reported = {}
  /\ UNCHANGED vars

Ended == {"done", "terminated", "aborted", "killed", "undefined"}

Next ==
  \/ ClientStep
  \/ Accepted \/ Refused \/ Echo \/ ServerCloses \/ Reset
  \/ PollTimesOut
  \/ pc \in Ended /\ UNCHANGED vars

Spec == Init /\ [][Next]_vars

\* The client runs, the network settles an attempt to connect one way or the other,
\* and the server echoes what it gets.
Fairness == WF_vars(ClientStep) /\ WF_vars(Accepted \/ Refused) /\ WF_vars(Echo)

FairSpec == Spec /\ Fairness

-----------------------------------------------------------------------------
(* Properties                                                              *)

\* Every variable has its type, and what is on its way fits the connection.
TypeOK ==
  /\ pc \in Ended \cup {"start", "connecting", "getline", "writing", "reading"}
  /\ event \in SUBSET Event
  /\ connected \in {"unknown", "yes", "no"}
  /\ lines \in Seq(Nat) /\ typed \in Nat /\ line \in Seq(Nat)
  /\ link \in {"none", "progress", "up", "fin", "failed", "broken", "gone"}
  /\ outbox \in Seq(Nat) /\ Len(outbox) <= SendRoom
  /\ inbox \in Seq(Nat) /\ printed \in Seq(Nat) /\ answered \in Nat
  /\ dropped \in SUBSET Nat

\* A connect that failed ends the program by itself and without a byte sent or printed:
\* at once when connect() says so at once, and else at the first line, although the
\* handler was started on the dead socket.
FailedConnectNoticed ==
  connected = "no" =>
    /\ pc \in {"getline", "writing", "done", "terminated"}
    /\ outbox = <<>> /\ printed = <<>>

\* The client prints what it sent, in order and no byte twice; while the connection
\* lasts no byte is missing but those a short write left out.  Its buffer overflows
\* only at a read before which as many bytes were stored and not answered, and then
\* what it brings is the answer to a line as long as the buffer, or it begins with
\* what earlier reads have left of earlier answers.
Ascending(s) == \A i, j \in DOMAIN s : i < j => s[i] < s[j]
PrintsEcho ==
  LET s == printed \o inbox \o outbox
      stored == (1 .. typed) \ (dropped \cup IF pc = "writing" THEN Range(line) ELSE {})
      before == SubSeq(printed, 1, answered)
      answer == SubSeq(printed, answered + 1, Len(printed))
  IN  /\ Ascending(s)
      /\ link = "up" => Range(s) = stored
      /\ pc = "undefined" =>
           /\ Cardinality(stored \ Range(before)) >= BufSize
           /\ Range(answer) \subseteq Range(line) => Len(line) >= BufSize

\* The client never waits for ever, to connect, to send or for the answer to a line,
\* except to an empty one, which sends nothing.
NeverStuck ==
  \A place \in {"connecting", "writing", "reading"} :
    pc = place /\ (place = "reading" => line # <<>>) ~> pc # place

=============================================================================
