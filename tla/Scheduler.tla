----------------------------- MODULE Scheduler ------------------------------
(***************************************************************************)
(* bc::async::scheduler: one thread that resumes coroutines when the time  *)
(* they wait for has come or a descriptor they wait on has an event.       *)
(*                                                                         *)
(* A coroutine waits in at most one place, so the list nodes of the source *)
(* are represented by their coroutine: time_nodes_ is a set of coroutines  *)
(* with their time in deadline, and descriptor_nodes_ holds sequences of   *)
(* coroutines with ev and the kind of next (handle or accept proxy) in     *)
(* want.  That no coroutine waits twice is checked, not assumed.           *)
(*                                                                         *)
(* Between a resume and the next suspension the coroutine's own code runs. *)
(* It is modelled by what it may do to the scheduler: create coroutines,   *)
(* open and destroy sockets, wait, finish.                                 *)
(***************************************************************************)
EXTENDS Poller, Task

CONSTANTS
  Awaits,       \* the waits in use: records [ev: event mask, proxy: BOOLEAN]
  Readiness,    \* the sets of conditions the kernel may report on a socket
  Delays,       \* the arguments of async_sleep in use, in clock ticks
  Period,       \* s_period, in clock ticks
  Ms,           \* clock ticks per millisecond of an epoll_wait timeout
  MaxTime,      \* bound: the clock stops here
  NoFd          \* no descriptor

ASSUME SchedulerAssumption ==
  /\ IsFiniteSet(Coro) /\ IsFiniteSet(Fd)
  /\ \A a \in Awaits : a.ev \in SUBSET Event /\ a.ev # NONE /\ a.proxy \in BOOLEAN
  /\ Readiness \subseteq SUBSET Event
  /\ Delays \subseteq Nat \ {0}
  /\ Period \in Nat \ {0}
  /\ Ms \in Nat \ {0}
  /\ MaxTime \in Nat
  /\ NoFd \notin Fd

VARIABLES
  pc,           \* where the scheduler's thread is
  caller,       \* what a suspending coroutine returns to
  coroCount,    \* coro_count_
  timers,       \* time_nodes_
  deadline,     \* time_node::time, per coroutine
  nodes,        \* descriptor_nodes_
  want,         \* descriptor_node::ev and the kind of its next, per coroutine
  expired,      \* handle_expired_time_nodes_ resumed something
  batch,        \* the events of this epoll_wait not yet handled
  cur,          \* the handler's fd and e, NoEvent outside the handler
  kept,         \* the nodes of the handler's list it went past
  rest,         \* the nodes of the handler's list from it on
  now,          \* the steady clock
  wake          \* when the current wait times out

loopVars == <<pc, caller, expired, wake>>
nodeVars == <<coroCount, timers, deadline, nodes, want>>
handlerVars == <<batch, cur, kept, rest>>
vars == <<pollerVars, taskVars, loopVars, nodeVars, handlerVars, now>>

NoAwait == [ev |-> NONE, proxy |-> FALSE]
NoEvent == [fd |-> NoFd, e |-> NONE]

TypeOK ==
  /\ PollerTypeOK
  /\ TaskTypeOK
  /\ pc \in {"user", "run", "expire", "period", "poll", "sleep", "batch",
             "handler", "returned", "terminated"}
  /\ caller \in {"main", "expire", "handler"}
  /\ coroCount \in Nat
  /\ timers \in SUBSET Coro
  /\ deadline \in [Coro -> Nat]
  /\ nodes \in [Fd -> Seq(Coro)]
  /\ want \in [Coro -> Awaits \cup {NoAwait}]
  /\ expired \in BOOLEAN
  /\ batch \in Seq([fd : Fd, e : SUBSET Event])
  /\ cur \in [fd : Fd \cup {NoFd}, e : SUBSET Event]
  /\ kept \in Seq(Coro)
  /\ rest \in Seq(Coro)
  /\ now \in Nat
  /\ wake \in Int

Init ==
  /\ PollerInit
  /\ TaskInit
  /\ pc = "user"
  /\ caller = "main"
  /\ coroCount = 0
  /\ timers = {}
  /\ deadline = [c \in Coro |-> 0]
  /\ nodes = [fd \in Fd |-> <<>>]
  /\ want = [c \in Coro |-> NoAwait]
  /\ expired = FALSE
  /\ batch = <<>>
  /\ cur = NoEvent
  /\ kept = <<>>
  /\ rest = <<>>
  /\ now = 0
  /\ wake = 0

\* The mask update_descriptor_ computes from the nodes of a descriptor.
Mask(s) == UNION {want[c].ev : c \in ToSet(s)}

\* The coroutines whose node is on fd, in the order of their nodes: while the
\* handler is at work on fd, those in its own list come first.
WaitList(fd) == IF fd = cur.fd THEN kept \o rest \o nodes[fd] ELSE nodes[fd]
Waiters(fd) == ToSet(WaitList(fd))

-----------------------------------------------------------------------------
(* What the running coroutine does                                         *)

InUser == pc = "user"
InCoroutine == InUser /\ stack # <<>>
InUserCode == InCoroutine \/ (InUser /\ caller = "main")

\* main() or a coroutine calls a coroutine function.
CallCoroutine(c) ==
  /\ InUserCode
  /\ Call(c)
  /\ UNCHANGED <<pollerVars, loopVars, nodeVars, handlerVars, now>>

AwaitTask(t) ==
  /\ InCoroutine
  /\ Join(t)
  /\ UNCHANGED <<pollerVars, loopVars, nodeVars, handlerVars, now>>

FinishCoroutine ==
  /\ InCoroutine
  /\ Finish
  /\ UNCHANGED <<pollerVars, loopVars, nodeVars, handlerVars, now>>

\* co_await async_sleep(d).  A sleep whose time has come before await_ready
\* looks at the clock does not suspend and changes nothing.
AsyncSleep(d) ==
  /\ InCoroutine
  /\ now + d <= MaxTime
  /\ timers' = timers \cup {Running}
  /\ deadline' = [deadline EXCEPT ![Running] = now + d]
  /\ coroCount' = coroCount + 1
  /\ Suspend("timer")
  /\ UNCHANGED <<pollerVars, prev, owner, loopVars, nodes, want, handlerVars, now>>

\* use_domain_ or accept4 brought a new descriptor into a socket object.
OpenSocket(fd) ==
  /\ InUserCode
  /\ fd \notin open
  /\ open' = open \cup {fd}
  /\ UNCHANGED <<focus, interest, ready, taskVars, loopVars, nodeVars,
                 handlerVars, now>>

\* ~socket unsubscribes the descriptor and closes it.  A socket outlives the
\* coroutines that wait on it: they hold references to it.
CloseSocket(fd) ==
  /\ InUserCode
  /\ fd \in open
  /\ Waiters(fd) = {}
  /\ pc' = IF SubscribeThrows(fd, NONE) THEN "terminated" ELSE pc
  /\ focus' = Focused(fd, NONE)
  /\ open' = open \ {fd}
  /\ interest' = [interest EXCEPT ![fd] = NONE]
  /\ ready' = [ready EXCEPT ![fd] = NONE]
  /\ UNCHANGED <<taskVars, caller, expired, wake, nodeVars, handlerVars, now>>

\* co_await on a socket operation: post_coro appends a node and recomputes the
\* mask of the descriptor from the nodes in its list.
AsyncAwait(fd, a) ==
  /\ InCoroutine
  /\ fd \in open
  /\ want' = [want EXCEPT ![Running] = a]
  /\ nodes' = [nodes EXCEPT ![fd] = Append(@, Running)]
  /\ LET mask == Mask(nodes[fd]) \cup a.ev
     IN  /\ pc' = IF SubscribeThrows(fd, mask) THEN "terminated" ELSE pc
         /\ focus' = Focused(fd, mask)
         /\ interest' = Registered(fd, mask)
  /\ coroCount' = coroCount + 1
  /\ Suspend("fd")
  /\ UNCHANGED <<open, ready, prev, owner, caller, expired, wake, timers,
                 deadline, handlerVars, now>>

\* Mutant: the loop forgets to count the coroutine out.
BugResumeReturns ==
  /\ InUser
  /\ stack = <<>>
  /\ caller # "main"
  /\ pc' = caller
  /\ UNCHANGED <<pollerVars, taskVars, caller, expired, wake, nodeVars,
                 handlerVars, now>>

\* The resumed coroutine suspended or finished: resume() returns, its node is
\* already gone, and the loop that resumed it counts it out.
ResumeReturns ==
  /\ InUser
  /\ stack = <<>>
  /\ caller # "main"
  /\ coroCount' = coroCount - 1
  /\ pc' = caller
  /\ UNCHANGED <<pollerVars, taskVars, caller, expired, wake, timers, deadline,
                 nodes, want, handlerVars, now>>

-----------------------------------------------------------------------------
(* scheduler::run                                                          *)

CallRun ==
  /\ InUser
  /\ caller = "main"
  /\ stack = <<>>
  /\ pc' = "run"
  /\ UNCHANGED <<pollerVars, taskVars, caller, expired, wake, nodeVars,
                 handlerVars, now>>

\* Mutant: run() goes on only for descriptor waits.
BugNothingToDo == coroCount = Cardinality(timers)

NothingToDo == coroCount = 0

RunIteration ==
  /\ pc = "run"
  /\ pc' = IF NothingToDo THEN "returned" ELSE "expire"
  /\ expired' = FALSE
  /\ UNCHANGED <<pollerVars, taskVars, caller, wake, nodeVars, handlerVars, now>>

\* A coroutine at the top of the heap, whose order among equal times is open.
NextTimers == {c \in timers : \A d \in timers : deadline[c] <= deadline[d]}

\* Mutant: the timer is resumed and stays in the heap.
BugTimersAfter(c) == timers

\* time_nodes_.pop().
TimersAfter(c) == timers \ {c}

\* One turn of the loop of handle_expired_time_nodes_.
ExpireTimer(c) ==
  /\ pc = "expire"
  /\ c \in NextTimers
  /\ deadline[c] <= now
  /\ timers' = TimersAfter(c)
  /\ deadline' = [deadline EXCEPT ![c] = 0]
  /\ Resume(c)
  /\ pc' = "user"
  /\ caller' = "expire"
  /\ expired' = TRUE
  /\ UNCHANGED <<pollerVars, wake, coroCount, nodes, want, handlerVars, now>>

NoTimerDue == \A c \in timers : deadline[c] > now

\* The loop ends; run() starts over if it resumed anything.
ExpireDone ==
  /\ pc = "expire"
  /\ NoTimerDue
  /\ pc' = IF expired THEN "run" ELSE "period"
  /\ UNCHANGED <<pollerVars, taskVars, caller, expired, wake, nodeVars,
                 handlerVars, now>>

\* The time run() is ready to wait: until the next timer, at most s_period.
\* It is negative when the timer became due after the loop above looked.
TimeLeft ==
  LET near == {deadline[c] : c \in {d \in timers : deadline[d] <= now + Period}}
  IN  IF near # {} THEN Min(near) - now ELSE Period

\* Mutant: the timeout is rounded up.
BugTruncated(d) == Ms * ((d + Ms - 1) \div Ms)

\* duration_cast to milliseconds truncates toward zero.
Truncated(d) == IF d >= 0 THEN Ms * (d \div Ms) ELSE -(Ms * ((-d) \div Ms))

\* run() goes to wait.  With descriptors to watch it polls, which returns at
\* once on a negative timeout; with none it sleeps.
BeginPoll ==
  /\ pc = "period"
  /\ coroCount > Cardinality(timers)
  /\ pc' = IF Truncated(TimeLeft) < 0 THEN "run" ELSE "poll"
  /\ wake' = now + Truncated(TimeLeft)
  /\ UNCHANGED <<pollerVars, taskVars, caller, expired, nodeVars, handlerVars, now>>

BeginSleep ==
  /\ pc = "period"
  /\ coroCount <= Cardinality(timers)
  /\ pc' = "sleep"
  /\ wake' = now + TimeLeft
  /\ UNCHANGED <<pollerVars, taskVars, caller, expired, nodeVars, handlerVars, now>>

NothingToReport == pc = "poll" => Triggered = {}

\* The wait is over without an event: timeout of epoll_wait, end of sleep_for.
WaitTimesOut ==
  /\ pc \in {"poll", "sleep"}
  /\ NothingToReport
  /\ now >= wake
  /\ pc' = "run"
  /\ wake' = 0
  /\ UNCHANGED <<pollerVars, taskVars, caller, expired, nodeVars, handlerVars, now>>

\* epoll_wait fails with EINTR: a signal came before an event or the timeout.
PollInterrupted ==
  /\ pc = "poll"
  /\ NothingToReport
  /\ now < wake
  /\ pc' = "run"
  /\ wake' = 0
  /\ UNCHANGED <<pollerVars, taskVars, caller, expired, nodeVars, handlerVars, now>>

\* epoll_wait reports everything there is to report, in any order: evs_ has
\* room for every descriptor in use.
PollEvents ==
  /\ pc = "poll"
  /\ Triggered # {}
  /\ \E order \in SetToSeqs(Triggered) :
       batch' = [i \in DOMAIN order |-> [fd |-> order[i], e |-> Reportable(order[i])]]
  /\ pc' = "batch"
  /\ wake' = 0
  /\ UNCHANGED <<pollerVars, taskVars, caller, expired, nodeVars, cur, kept,
                 rest, now>>

PollDone ==
  /\ pc = "batch"
  /\ batch = <<>>
  /\ pc' = "run"
  /\ UNCHANGED <<pollerVars, taskVars, caller, expired, wake, nodeVars,
                 handlerVars, now>>

-----------------------------------------------------------------------------
(* The handler of handle_triggered_descriptor_nodes_                       *)

\* Take the descriptor's nodes into a list of the handler's own.
HandlerBegin ==
  /\ pc = "batch"
  /\ batch # <<>>
  /\ cur' = Head(batch)
  /\ batch' = Tail(batch)
  /\ rest' = nodes[cur'.fd]
  /\ nodes' = [nodes EXCEPT ![cur'.fd] = <<>>]
  /\ pc' = "handler"
  /\ UNCHANGED <<pollerVars, taskVars, caller, expired, wake, coroCount, timers,
                 deadline, want, kept, now>>

AtNode == pc = "handler" /\ rest # <<>>

\* Mutant: every node of the descriptor is taken for one that matches.
AnyNode == want[Head(rest)].ev # NONE

NodeMatches == want[Head(rest)].ev \cap cur.e # NONE

HandlerSkip ==
  /\ AtNode
  /\ ~NodeMatches
  /\ kept' = Append(kept, Head(rest))
  /\ rest' = Tail(rest)
  /\ UNCHANGED <<pollerVars, taskVars, loopVars, nodeVars, batch, cur, now>>

\* Mutant: the node is resumed and stays in the list.
BugAfterResume == rest

\* list.erase(it++).
AfterResume == Tail(rest)

\* The node's coroutine is resumed, by the handler or by the accept proxy, and
\* the node is erased.
ResumeNode ==
  /\ rest' = AfterResume
  /\ want' = [want EXCEPT ![Head(rest)] = NoAwait]
  /\ Resume(Head(rest))
  /\ pc' = "user"
  /\ caller' = "handler"
  /\ UNCHANGED <<expired, wake, coroCount, timers, deadline, nodes, kept, batch,
                 cur, now>>

HandlerResume ==
  /\ AtNode
  /\ NodeMatches
  /\ ~want[Head(rest)].proxy
  /\ ResumeNode
  /\ UNCHANGED pollerVars

\* The accept proxy got a connection, or an error it passes on.
HandlerAccept ==
  /\ AtNode
  /\ NodeMatches
  /\ want[Head(rest)].proxy
  /\ READ \in ready[cur.fd]
  /\ \/ \E fd \in Fd \ open : open' = open \cup {fd}
     \/ UNCHANGED open
  /\ ResumeNode
  /\ UNCHANGED <<focus, interest, ready>>

\* The connection is gone: accept4 says EAGAIN, the proxy returns false, and
\* the handler's loop comes back to the same node.
HandlerAcceptAgain ==
  /\ AtNode
  /\ NodeMatches
  /\ want[Head(rest)].proxy
  /\ READ \notin ready[cur.fd]
  /\ UNCHANGED vars

\* Mutant: the nodes posted meanwhile come first.
BugSplicedBack == nodes[cur.fd] \o kept

\* What is left goes back to the front of the descriptor's list.
SplicedBack == kept \o nodes[cur.fd]

\* Mutant: the mask is not recomputed when the handler is done.
BugMaskLeft == focus[cur.fd]

MaskLeft == Mask(SplicedBack)

HandlerEnd ==
  /\ pc = "handler"
  /\ rest = <<>>
  /\ nodes' = [nodes EXCEPT ![cur.fd] = SplicedBack]
  /\ LET mask == MaskLeft
     IN  /\ pc' = IF SubscribeThrows(cur.fd, mask) THEN "terminated" ELSE "batch"
         /\ focus' = Focused(cur.fd, mask)
         /\ interest' = Registered(cur.fd, mask)
  /\ kept' = <<>>
  /\ cur' = NoEvent
  /\ UNCHANGED <<open, ready, taskVars, caller, expired, wake, coroCount, timers,
                 deadline, want, batch, rest, now>>

-----------------------------------------------------------------------------
(* The world                                                               *)

Tick ==
  /\ now < MaxTime
  /\ now' = now + 1
  /\ UNCHANGED <<pollerVars, taskVars, loopVars, nodeVars, handlerVars>>

\* Peers and the network change what holds on a socket.
SocketChanges(fd) ==
  /\ fd \in open
  /\ \E S \in Readiness : ready' = [ready EXCEPT ![fd] = S]
  /\ UNCHANGED <<focus, interest, open, taskVars, loopVars, nodeVars,
                 handlerVars, now>>

\* run() has returned and main() ends.
Returned ==
  /\ pc = "returned"
  /\ UNCHANGED vars

LoopStep ==
  \/ CallRun
  \/ RunIteration
  \/ \E c \in Coro : ExpireTimer(c)
  \/ ExpireDone
  \/ BeginPoll
  \/ BeginSleep
  \/ WaitTimesOut
  \/ PollEvents
  \/ PollDone
  \/ HandlerBegin
  \/ HandlerSkip
  \/ HandlerResume
  \/ HandlerAccept
  \/ HandlerEnd
  \/ ResumeReturns

\* The running coroutine gives the thread back.
Yield ==
  \/ \E d \in Delays : AsyncSleep(d)
  \/ \E fd \in Fd, a \in Awaits : AsyncAwait(fd, a)
  \/ \E t \in Coro : AwaitTask(t)
  \/ FinishCoroutine

Next ==
  \/ LoopStep
  \/ PollInterrupted
  \/ HandlerAcceptAgain
  \/ Yield
  \/ \E c \in Coro : CallCoroutine(c)
  \/ \E fd \in Fd : OpenSocket(fd) \/ CloseSocket(fd) \/ SocketChanges(fd)
  \/ Tick
  \/ Returned

Spec == Init /\ [][Next]_vars

\* The thread that runs the loop never stops while it can go on; the accept
\* proxy, called again and again, meets a connection if more keep arriving;
\* every coroutine in use gives the thread back sooner or later; time passes.
Fairness ==
  /\ WF_vars(LoopStep)
  /\ SF_vars(HandlerAccept)
  /\ WF_vars(Yield)
  /\ WF_vars(Tick)

FairSpec == Spec /\ Fairness

-----------------------------------------------------------------------------
(* Properties                                                              *)

\* Every suspended coroutine has exactly one node in the scheduler and a
\* coroutine that runs has none: nobody is resumed twice for one wait, and
\* nobody waits without being recorded.
OneNode ==
  /\ \A c \in Coro : cs[c] = "timer" <=> c \in timers
  /\ \A c \in Coro : cs[c] = "fd" <=> \E fd \in Fd : c \in Waiters(fd)
  /\ \A fd \in Fd : IsInjective(WaitList(fd))
  /\ \A f, g \in Fd : f # g => Waiters(f) \cap Waiters(g) = {}

\* coro_count_ is the number of coroutines the scheduler has to resume, plus
\* one while a resumed one runs.  run() stops at zero, and takes the difference
\* to time_nodes_.size() for the number of descriptor waits.
Parked == {c \in Coro : cs[c] \in {"timer", "fd"}}
InFlight == IF pc = "user" /\ caller # "main" THEN 1 ELSE 0
CountMatches == coroCount = Cardinality(Parked) + InFlight

\* focus_ always equals what the kernel has registered, across closed and
\* reused descriptor numbers, and no descriptor outside the handler's hands is
\* watched for less, or more, than its waiters asked for.
InterestMatches ==
  /\ interest = focus
  /\ \A fd \in Fd : fd # cur.fd => focus[fd] = Mask(nodes[fd])

\* epoll_ctl never fails, so subscribe never throws out of an await, out of
\* the handler or out of ~socket.
NeverTerminated == pc # "terminated"

\* An event still to be handled is for a socket that is still open and still
\* waited on: a handler earlier in the same batch cannot have closed it.
EventsFresh ==
  \A i \in DOMAIN batch : /\ batch[i].fd \in open
                          /\ nodes[batch[i].fd] # <<>>

\* The thread does not sleep, deaf to events, while somebody waits on a
\* descriptor, and does not poll when nobody does.
WaitsTheRightWay ==
  /\ pc = "sleep" => \A fd \in Fd : nodes[fd] = <<>>
  /\ pc = "poll" => \E fd \in Fd : nodes[fd] # <<>>

\* No wait of the thread goes past the deadline of a sleeping coroutine.
NoOversleep ==
  pc \in {"poll", "sleep"} => \A c \in timers : wake <= deadline[c] \/ wake <= now

\* run() returns only when every coroutine ever called has finished, those
\* that wait for another coroutine included.
NothingLeftBehind == pc = "returned" => \A c \in Coro : cs[c] \in {"new", "done"}

\* Two coroutines that keep waiting on one descriptor keep their order, through
\* all the splicing of the handler.
Before(c, d, fd) ==
  \E i, j \in DOMAIN WaitList(fd) : i < j /\ WaitList(fd)[i] = c /\ WaitList(fd)[j] = d
WaitOrderStable ==
  [][\A fd \in Fd, c, d \in Coro :
       /\ Before(c, d, fd)
       /\ {c, d} \subseteq Waiters(fd)'
       => Before(c, d, fd)']_vars

\* A sleeping coroutine is resumed.
TimerFires == \A c \in Coro : cs[c] = "timer" ~> cs[c] # "timer"

\* A coroutine waiting on a descriptor for a condition that holds and goes on
\* holding is resumed.
Due(c, fd) == c \in Waiters(fd) /\ want[c].ev \cap ready[fd] # NONE
IoServed == \A c \in Coro, fd \in Fd : Due(c, fd) ~> ~Due(c, fd)

-----------------------------------------------------------------------------
(* What the scheduler promises                                             *)

\* What the events not yet handled say of a descriptor.
Reported(fd) == UNION {batch[i].e : i \in {j \in DOMAIN batch : batch[j].fd = fd}}

\* The coroutines the handler is still to resume, for its own event or a later one.
Owed ==
  {c \in ToSet(rest) : want[c].ev \cap cur.e # NONE}
    \cup {c \in Coro : \E fd \in Fd : c \in ToSet(nodes[fd]) /\ want[c].ev \cap Reported(fd) # NONE}

Executor == INSTANCE Executor WITH
  Always <- {ERROR, HANGUP},
  sleeping <- timers,
  at <- deadline,
  waiting <- [fd \in Fd |-> Waiters(fd)],
  asks <- [c \in Coro |-> want[c].ev],
  reported <- [fd \in Fd |-> Reported(fd)],
  owed <- Owed,
  over <- pc = "returned"

\* The scheduler keeps the promise of Executor: it resumes a coroutine once per wait,
\* sleepers in the order of their times, and everyone who waits for what epoll_wait has
\* reported before it polls again or looks at the timers.
ImplementsExecutor == Executor!Spec

=============================================================================
