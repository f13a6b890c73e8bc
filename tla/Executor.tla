------------------------------ MODULE Executor ------------------------------
(***************************************************************************)
(* What bc::async::scheduler promises to the coroutines that wait, without *)
(* its lists, masks, counter and loops.  A coroutine sleeps until a time,  *)
(* or waits on a descriptor for some events, and is resumed once for each  *)
(* wait.  Sleepers are resumed in the order of their times.  A report says *)
(* what holds on each descriptor, and owes a resume to everyone who waits  *)
(* for any of it: also to a coroutine that comes to wait on a descriptor   *)
(* after the report and before its turn, whose events may be gone.         *)
(***************************************************************************)
EXTENDS Integers

CONSTANTS
  Coro, Fd,     \* coroutines, descriptors
  Event,        \* what one can wait for
  Always        \* the events that are reported without being asked for

VARIABLES
  sleeping,     \* who waits for a time
  at,           \* which time
  waiting,      \* who waits on a descriptor
  asks,         \* for which events
  reported,     \* what the last report says of the descriptors still to be served
  owed,         \* who is to be resumed for what has been reported
  ready,        \* what holds on a descriptor
  now,          \* the time
  over          \* nobody is waited for any more

waits == <<sleeping, at, waiting, asks>>
vars == <<waits, reported, owed, ready, now, over>>

Nothing == [fd \in Fd |-> {}]

Init ==
  /\ sleeping = {} /\ at = [c \in Coro |-> 0]
  /\ waiting = Nothing /\ asks = [c \in Coro |-> {}]
  /\ reported = Nothing /\ owed = {}
  /\ ready = Nothing /\ now = 0 /\ over = FALSE

Free(c) == c \notin sleeping /\ \A fd \in Fd : c \notin waiting[fd]

Sleep(c) ==
  /\ Free(c) /\ ~over
  /\ sleeping' = sleeping \cup {c}
  /\ at'[c] > now /\ at' = [at EXCEPT ![c] = at'[c]]
  /\ UNCHANGED <<waiting, asks, reported, owed, ready, now, over>>

\* Whoever waits for what has been reported already is owed a resume at once.
Await(c, fd) ==
  /\ Free(c) /\ ~over
  /\ waiting' = [waiting EXCEPT ![fd] = @ \cup {c}]
  /\ \E e \in SUBSET Event :
       /\ asks' = [asks EXCEPT ![c] = e]
       /\ owed' = owed \cup (IF e \cap reported[fd] # {} THEN {c} ELSE {})
  /\ UNCHANGED <<sleeping, at, reported, ready, now, over>>

\* Nothing is left of a report.
Settled == owed = {} /\ reported = Nothing

\* The first of the sleepers whose time has come is resumed.
WakeSleeper(c) ==
  /\ c \in sleeping /\ at[c] <= now
  /\ \A d \in sleeping : at[c] <= at[d]
  /\ ~over /\ Settled
  /\ sleeping' = sleeping \ {c}
  /\ at' = [at EXCEPT ![c] = 0]
  /\ UNCHANGED <<waiting, asks, reported, owed, ready, now, over>>

\* Of everybody who waits on fd.
Asked(fd) == UNION {asks[c] : c \in waiting[fd]}

\* A report misses nobody, and comes only when the one before is settled.
Report ==
  /\ Settled /\ ~over
  /\ reported' = [fd \in Fd |-> IF Asked(fd) = {} THEN {}
                                ELSE ready[fd] \cap (Asked(fd) \cup Always)]
  /\ owed' = {c \in Coro : \E fd \in Fd : c \in waiting[fd] /\ asks[c] \cap ready[fd] # {}}
  /\ UNCHANGED <<waits, ready, now, over>>

\* It is fd's turn: who waits on it from now on is not owed anything.
Turn(fd) ==
  /\ reported' = [reported EXCEPT ![fd] = {}]
  /\ UNCHANGED <<waits, owed, ready, now, over>>

WakeWaiter(c, fd) ==
  /\ c \in waiting[fd] /\ c \in owed /\ reported[fd] = {} /\ ~over
  /\ waiting' = [waiting EXCEPT ![fd] = @ \ {c}]
  /\ asks' = [asks EXCEPT ![c] = {}]
  /\ owed' = owed \ {c}
  /\ UNCHANGED <<sleeping, at, reported, ready, now, over>>

\* Nobody waits.
End ==
  /\ Settled
  /\ sleeping = {} /\ waiting = Nothing
  /\ over' = TRUE
  /\ UNCHANGED <<waits, reported, owed, ready, now>>

\* Time passes, and the conditions on descriptors change.
World ==
  /\ \/ now' = now + 1 /\ UNCHANGED ready
     \/ ready' \in [Fd -> SUBSET Event] /\ UNCHANGED now
  /\ UNCHANGED <<waits, reported, owed, over>>

Next ==
  \/ World
  \/ Report \/ \E fd \in Fd : Turn(fd)
  \/ \E c \in Coro :
       \/ Sleep(c) \/ WakeSleeper(c)
       \/ \E fd \in Fd : WakeWaiter(c, fd) \/ Await(c, fd)
  \/ End

Spec == Init /\ [][Next]_vars

=============================================================================
