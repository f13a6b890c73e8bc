------------------------------- MODULE Growth -------------------------------
(***************************************************************************)
(* The tables that scheduler and poller index by descriptor: how           *)
(* descriptor_nodes_, focus_ and evs_ grow, and which accesses to them are *)
(* within their bounds.  evs_ is also the buffer that the loop of          *)
(* poller::poll walks through while the handlers it calls may grow it.     *)
(*                                                                         *)
(* An access past the end of a table, or through an iterator into a        *)
(* buffer that was given up, is undefined: the model stops there.          *)
(***************************************************************************)
EXTENDS Integers, FiniteSets

CONSTANTS
  MaxFd,        \* bound: the highest descriptor the program gets
  Reserved      \* descriptors that are not sockets: stdio, epfd_, files

ASSUME GrowthAssumption == MaxFd \in 1 .. 2^20 /\ Reserved \subseteq 1 .. MaxFd

Fd == 1 .. MaxFd        \* assert(fd > 0)

VARIABLES
  nodesSize,    \* descriptor_nodes_.size()
  focusSize,    \* focus_.size()
  evsSize,      \* evs_.size()
  evsBuffer,    \* which buffer evs_ has: the number of its reallocations
  open,         \* the sockets that are open
  waiting,      \* the sockets some coroutine waits on
  pc,           \* "user", "batch" (in poll's loop), "handler", "undefined"
  iterBuffer,   \* the buffer poll's iterators point into
  left,         \* the descriptors of the events poll has not come to
  cur,          \* the descriptor the handler works on, 0 outside it
  why,          \* what was undefined: "nothing", "index", "iterator"
  culprit       \* the descriptor whose access it was, 0 if none

tables == <<nodesSize, focusSize, evsSize, evsBuffer>>
loop == <<iterBuffer, left, cur>>
vars == <<tables, open, waiting, pc, loop, why, culprit>>

Init ==
  /\ nodesSize = 0 /\ focusSize = 0 /\ evsSize = 0 /\ evsBuffer = 0
  /\ open = {} /\ waiting = {}
  /\ pc = "user" /\ iterBuffer = 0 /\ left = {} /\ cur = 0
  /\ why = "nothing" /\ culprit = 0

-----------------------------------------------------------------------------
(* adjust_size_                                                            *)

PowersOfTwo == {2^k : k \in 0 .. 20}
BitCeil(n) == CHOOSE p \in PowersOfTwo : p >= n /\ \A q \in PowersOfTwo : q >= n => p <= q

\* Mutants: the table always takes the size the last index asks for; it takes
\* the index for the size.
AlwaysResized(size, fd) == BitCeil(fd)
SizedByIndex(size, fd) == IF size > fd THEN size ELSE fd

\* The size of a table after adjust_size_(fd).
Adjusted(size, fd) == IF size > fd THEN size ELSE BitCeil(fd)

\* Mutant: evs_ stays as it is.
EvsNotResized(fd) == evsSize

\* poller::adjust_size_ returns early or resizes both tables.
EvsAdjusted(fd) == IF focusSize > fd THEN evsSize ELSE Adjusted(focusSize, fd)

\* evs_ has exactly the capacity of its size, so growing it moves it.
BufferAdjusted(fd) == IF EvsAdjusted(fd) # evsSize THEN evsBuffer + 1 ELSE evsBuffer

\* poller::subscribe on the tables
Subscribed(fd) ==
  /\ focusSize' = Adjusted(focusSize, fd)
  /\ evsSize' = EvsAdjusted(fd)
  /\ evsBuffer' = BufferAdjusted(fd)

Undefined(what, fd) == pc' = "undefined" /\ why' = what /\ culprit' = fd
Goto(where) == pc' = where /\ UNCHANGED <<why, culprit>>

-----------------------------------------------------------------------------
(* Coroutine code, run by main(), by a timer or by the handler             *)

InUserCode == pc \in {"user", "handler"}

\* The kernel gives the lowest descriptor that is free.
OpenSocket ==
  /\ InUserCode
  /\ \E fd \in Fd \ (open \cup Reserved) :
       /\ \A f \in Fd \ (open \cup Reserved) : fd <= f
       /\ open' = open \cup {fd}
  /\ UNCHANGED <<tables, waiting, pc, loop, why, culprit>>

\* scheduler::post_coro: adjust_size_, emplace_back, update_descriptor_
Post(fd) ==
  /\ InUserCode /\ fd \in open
  /\ nodesSize' = Adjusted(nodesSize, fd)
  /\ Subscribed(fd)
  /\ waiting' = waiting \cup {fd}
  /\ IF fd < nodesSize' /\ fd < focusSize' THEN Goto(pc) ELSE Undefined("index", fd)
  /\ UNCHANGED <<open, loop>>

\* ~socket: unsubscribe and close
CloseSocket(fd) ==
  /\ InUserCode /\ fd \in open \ waiting
  /\ Subscribed(fd)
  /\ open' = open \ {fd}
  /\ IF fd < focusSize' THEN Goto(pc) ELSE Undefined("index", fd)
  /\ UNCHANGED <<nodesSize, waiting, loop>>

-----------------------------------------------------------------------------
(* poller::poll and the handler                                            *)

\* epoll_wait stores at most evs_.size() events.
Poll ==
  /\ pc = "user" /\ waiting # {}
  /\ left' \in SUBSET waiting \ {{}} /\ Cardinality(left') <= evsSize
  /\ iterBuffer' = evsBuffer
  /\ Goto("batch")
  /\ UNCHANGED <<tables, open, waiting, cur>>

\* Mutant: the loop does not go on to the next event.
SameEventAgain(fd) == left

EventsAfter(fd) == left \ {fd}

\* The next event is read from the buffer and the nodes of its descriptor are
\* taken; all of them are resumed, or some are left.
HandlerBegin(fd) ==
  /\ pc = "batch" /\ fd \in left
  /\ left' = EventsAfter(fd)
  /\ cur' = fd
  /\ waiting' \in {waiting, waiting \ {fd}}
  /\ IF iterBuffer # evsBuffer THEN Undefined("iterator", fd)
     ELSE IF fd >= nodesSize THEN Undefined("index", fd)
     ELSE Goto("handler")
  /\ UNCHANGED <<tables, open, iterBuffer>>

\* The nodes are spliced back and the descriptor is subscribed anew.
HandlerEnd ==
  /\ pc = "handler"
  /\ Subscribed(cur)
  /\ IF cur < nodesSize /\ cur < focusSize' THEN Goto("batch") ELSE Undefined("index", cur)
  /\ cur' = 0
  /\ UNCHANGED <<nodesSize, open, waiting, iterBuffer, left>>

PollDone ==
  /\ pc = "batch" /\ left = {}
  /\ Goto("user")
  /\ UNCHANGED <<tables, open, waiting, loop>>

Next ==
  \/ OpenSocket
  \/ \E fd \in Fd : Post(fd) \/ CloseSocket(fd) \/ HandlerBegin(fd)
  \/ Poll \/ HandlerEnd \/ PollDone
  \/ pc = "undefined" /\ UNCHANGED vars

Spec == Init /\ [][Next]_vars

-----------------------------------------------------------------------------
(* Properties                                                              *)

\* Every variable has its type; the events still to handle are of sockets somebody
\* waits on, so none is handled twice.
TypeOK ==
  /\ nodesSize \in Nat /\ focusSize \in Nat /\ evsSize \in Nat
  /\ evsBuffer \in Nat /\ iterBuffer \in Nat
  /\ open \in SUBSET Fd /\ waiting \in SUBSET open /\ left \in SUBSET waiting
  /\ cur \in Fd \cup {0} /\ culprit \in Fd \cup {0}
  /\ pc \in {"user", "batch", "handler", "undefined"}
  /\ why \in {"nothing", "index", "iterator"}

IsDefined == pc # "undefined"

\* The room for events is as large as the table of masks, which is never behind
\* the table of nodes: so one epoll_wait has room for every descriptor that is
\* waited on (and is never called with room for none), however the tables grew.
BatchFits ==
  IsDefined => /\ evsSize = focusSize /\ nodesSize <= focusSize
               /\ Cardinality(waiting) <= evsSize

\* The handler indexes descriptor_nodes_ without adjusting it: every descriptor
\* the kernel may report, and the one in the handler's hands, is within bounds.
HandlerInBounds == IsDefined => \A fd \in waiting \cup ({cur} \ {0}) : fd < nodesSize

\* The only index past the end of a table is a power of two that is just the
\* size adjust_size_ gave the table.
OnlyPowersEscape ==
  why = "index" => culprit \in PowersOfTwo /\ culprit \in {nodesSize, focusSize}

\* Every access after adjust_size_ is within bounds.
InBounds == why # "index"

=============================================================================
