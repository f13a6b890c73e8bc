------------------------------- MODULE Poller -------------------------------
(***************************************************************************)
(* bc::async::poller and the epoll instance and descriptor table of the    *)
(* kernel behind it.  The poller caches in focus_ the event mask it last   *)
(* asked the kernel for, and turns every new mask into one epoll_ctl call  *)
(* by comparing it with that cache.  The kernel forgets a descriptor when  *)
(* it is closed, whether or not the poller knows.                          *)
(*                                                                         *)
(* A bit mask is the set of its flags.  focus_ and evs_ are modelled       *)
(* within their bounds; how they grow is the subject of module Growth.     *)
(***************************************************************************)
EXTENDS Integers, SequencesExt

CONSTANT Fd             \* the descriptor numbers a socket can get

VARIABLES
  focus,                \* focus_: the mask last requested, per descriptor
  interest,             \* kernel: the mask registered with epoll, NONE if none
  open,                 \* kernel: the descriptors that are open
  ready                 \* kernel: the conditions that hold on a descriptor now

pollerVars == <<focus, interest, open, ready>>

READ == "READ"
WRITE == "WRITE"
ERROR == "ERROR"
HANGUP == "HANGUP"
RDHANGUP == "RDHANGUP"
Event == {READ, WRITE, ERROR, HANGUP, RDHANGUP}
NONE == {}

PollerTypeOK ==
  /\ focus \in [Fd -> SUBSET Event]
  /\ interest \in [Fd -> SUBSET Event]
  /\ open \in SUBSET Fd
  /\ ready \in [Fd -> SUBSET Event]

PollerInit ==
  /\ focus = [fd \in Fd |-> NONE]
  /\ interest = [fd \in Fd |-> NONE]
  /\ open = {}
  /\ ready = [fd \in Fd |-> NONE]

-----------------------------------------------------------------------------
(* poller::subscribe *)

\* The epoll_ctl operation that takes the cached mask to e.
CtlOp(fd, e) ==
  IF focus[fd] = e THEN "none"
  ELSE IF focus[fd] = NONE THEN "add"
  ELSE IF e = NONE THEN "del" ELSE "mod"

\* epoll_ctl returns -1: EBADF for a closed descriptor, EEXIST for a second
\* ADD, ENOENT for MOD or DEL of a descriptor that is not registered.
CtlFails(fd, op) ==
  /\ op # "none"
  /\ \/ fd \notin open
     \/ op = "add" /\ interest[fd] # NONE
     \/ op # "add" /\ interest[fd] = NONE

\* subscribe throws, and every caller of it lets the exception end the program.
SubscribeThrows(fd, e) == CtlFails(fd, CtlOp(fd, e))

\* Mutants: unsubscribe leaves the cache alone, or never reaches the kernel.
BugFocused(fd, e) == IF e = NONE THEN focus ELSE [focus EXCEPT ![fd] = e]
BugRegistered(fd, e) == IF e = NONE THEN interest ELSE [interest EXCEPT ![fd] = e]

\* What subscribe leaves in focus_ and in the kernel when it does not throw.
Focused(fd, e) == [focus EXCEPT ![fd] = e]
Registered(fd, e) ==
  IF CtlOp(fd, e) = "none" THEN interest ELSE [interest EXCEPT ![fd] = e]

\* The descriptors epoll_wait has something to report on.  ERROR and HANGUP
\* are reported whether or not they were asked for.
Reportable(fd) == ready[fd] \cap (interest[fd] \cup {ERROR, HANGUP})
Triggered == {fd \in Fd : interest[fd] # NONE /\ Reportable(fd) # NONE}

=============================================================================
