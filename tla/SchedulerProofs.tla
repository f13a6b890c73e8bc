-------------------------- MODULE SchedulerProofs ---------------------------
(***************************************************************************)
(* The safety properties of Scheduler hold for every set of coroutines and *)
(* descriptors.                                                            *)
(*                                                                         *)
(* None of them is inductive alone.  IInv adds to them what they rest on:  *)
(* who is on the stack, who can be waiting for whom, where the handler's   *)
(* lists may be in use, that only open descriptors are waited on, and that *)
(* the events of a batch are for different descriptors.                    *)
(***************************************************************************)
EXTENDS Scheduler, SequenceLemmas, FiniteSetTheorems

\* The coroutines that run are those on the stack, each once, and there are
\* none while the scheduler's own code runs.
StackInv ==
  /\ IsInjective(stack)
  /\ \A c \in Coro : cs[c] = "running" <=> c \in ToSet(stack)
  /\ pc # "user" => stack = <<>>

\* Only the coroutine that holds a task is recorded as awaiting it; as long as
\* the task has not finished that coroutine is suspended, and awaits no other.
JoinInv ==
  \A c \in Coro :
    prev[c] # NoCoro =>
      /\ cs[c] # "new"
      /\ prev[c] = owner[c]
      /\ cs[c] # "done" =>
           /\ cs[prev[c]] = "joined"
           /\ \A d \in Coro : prev[d] = prev[c] /\ cs[d] # "done" => d = c

\* The handler's lists are in use only while it, or a coroutine it resumed, runs.
InHandler == pc = "handler" \/ (pc = "user" /\ caller = "handler")
HandlerInv ==
  /\ InHandler => cur.fd \in Fd
  /\ ~InHandler => kept = <<>> /\ rest = <<>> /\ cur = NoEvent

\* A closed descriptor is neither watched nor waited on.
OpenInv == \A fd \in Fd : fd \notin open => focus[fd] = NONE /\ Waiters(fd) = {}

\* A batch has one event for a descriptor, and none for the handler's.
BatchInv ==
  /\ \A i, j \in DOMAIN batch : batch[i].fd = batch[j].fd => i = j
  /\ \A i \in DOMAIN batch : batch[i].fd # cur.fd

IInv ==
  /\ TypeOK
  /\ StackInv
  /\ JoinInv
  /\ HandlerInv
  /\ OneNode
  /\ CountMatches
  /\ OpenInv
  /\ InterestMatches
  /\ NeverTerminated
  /\ BatchInv
  /\ EventsFresh
  /\ WaitsTheRightWay
  /\ NoOversleep

-----------------------------------------------------------------------------
(* Facts about a state                                                     *)

\* The running coroutine and what it leaves when it suspends.
LEMMA RunningFacts ==
  ASSUME TypeOK, StackInv, stack # <<>>
  PROVE  /\ Running \in Coro
         /\ cs[Running] = "running"
         /\ Front(stack) \in Seq(Coro)
         /\ IsInjective(Front(stack))
         /\ ToSet(Front(stack)) = ToSet(stack) \ {Running}
<1>1. stack \in Seq(Coro) /\ Running = Last(stack)
  BY DEF TypeOK, TaskTypeOK, Running
<1>2. /\ Last(stack) \in Coro
      /\ Front(stack) \in Seq(Coro)
      /\ ToSet(stack) = ToSet(Front(stack)) \cup {Last(stack)}
      /\ IsInjective(stack) => IsInjective(Front(stack)) /\ Last(stack) \notin ToSet(Front(stack))
  BY <1>1, FrontLast
<1> QED BY <1>1, <1>2 DEF StackInv

\* With the cached masks and the kernel in agreement subscribe does not throw,
\* and leaves them in agreement.
LEMMA SubscribeWorks ==
  ASSUME TypeOK, interest = focus, NEW fd \in Fd, NEW e,
         fd \in open \/ focus[fd] = e
  PROVE  ~SubscribeThrows(fd, e) /\ Registered(fd, e) = Focused(fd, e)
<1>1. ~SubscribeThrows(fd, e)
  BY DEF SubscribeThrows, CtlFails, CtlOp
<1>2. CASE focus[fd] = e
  <2>1. focus = [focus EXCEPT ![fd] = e]
    BY <1>2 DEF TypeOK, PollerTypeOK
  <2>2. Registered(fd, e) = interest /\ Focused(fd, e) = focus
    BY <2>1, <1>2 DEF Registered, Focused, CtlOp
  <2> QED BY <1>1, <2>2
<1>3. CASE focus[fd] # e
  <2>1. CtlOp(fd, e) # "none"
    BY <1>3 DEF CtlOp
  <2> QED BY <1>1, <2>1 DEF Registered, Focused
<1> QED BY <1>1, <1>2, <1>3

\* The lists of waiters are sequences of coroutines.
LEMMA WaitListType ==
  ASSUME TypeOK, NEW fd \in Fd
  PROVE  WaitList(fd) \in Seq(Coro) /\ Waiters(fd) \in SUBSET Coro
<1>1. nodes[fd] \in Seq(Coro) /\ kept \in Seq(Coro) /\ rest \in Seq(Coro)
  BY DEF TypeOK
<1>2. WaitList(fd) \in Seq(Coro)
  BY <1>1 DEF WaitList
<1> QED BY <1>2, ToSetType DEF Waiters

\* A step that leaves the lists alone leaves every descriptor's waiters alone.
LEMMA WaitListSame ==
  ASSUME UNCHANGED <<nodes, kept, rest, cur>>, NEW fd
  PROVE  WaitList(fd)' = WaitList(fd) /\ Waiters(fd)' = Waiters(fd)
  BY DEF WaitList, Waiters

-----------------------------------------------------------------------------
(* The type invariant                                                      *)

\* The time run() waits is at most s_period, and does not reach past a deadline.
LEMMA TimeLeftBound ==
  ASSUME TypeOK
  PROVE  /\ TimeLeft \in Int
         /\ \A c \in timers : now + TimeLeft <= deadline[c]
<1> DEFINE near == {deadline[c] : c \in {d \in timers : deadline[d] <= now + Period}}
<1>1. /\ now \in Nat /\ Period \in Nat
      /\ \A c \in timers : deadline[c] \in Nat
      /\ near \in SUBSET Nat
  BY SchedulerAssumption DEF TypeOK
<1>2. TimeLeft = IF near # {} THEN Min(near) - now ELSE Period
  BY DEF TimeLeft
<1>3. CASE near # {}
  <2>1. Min(near) \in near /\ \A y \in near : Min(near) <= y
    BY <1>1, <1>3, LeastExists
  <2>2. Min(near) <= now + Period /\ Min(near) \in Nat
    BY <2>1, <1>1
  <2>3. ASSUME NEW c \in timers PROVE Min(near) <= deadline[c]
    <3>1. CASE deadline[c] <= now + Period
      BY <3>1, <2>1
    <3>2. CASE deadline[c] > now + Period
      BY <3>2, <2>2, <1>1
    <3> QED BY <3>1, <3>2, <1>1
  <2> HIDE DEF near
  <2> QED BY <2>2, <2>3, <1>1, <1>2, <1>3
<1>4. CASE near = {}
  <2>1. ASSUME NEW c \in timers PROVE deadline[c] > now + Period
    <3> SUFFICES ASSUME deadline[c] <= now + Period PROVE FALSE
      BY <1>1
    <3>1. deadline[c] \in near
      OBVIOUS
    <3> QED BY <3>1, <1>4
  <2> HIDE DEF near
  <2> QED BY <2>1, <1>1, <1>2, <1>4
<1> QED BY <1>3, <1>4

\* Truncation makes a time to wait no longer, and a negative one no earlier
\* than now.
LEMMA TruncatedBound ==
  ASSUME NEW d \in Int
  PROVE  /\ Truncated(d) \in Int
         /\ d >= 0 => Truncated(d) <= d
         /\ d < 0 => Truncated(d) <= 0
<1>1. Ms \in Nat \ {0}
  BY SchedulerAssumption
<1>2. ASSUME NEW n \in Nat
      PROVE  Ms * (n \div Ms) \in Nat /\ Ms * (n \div Ms) <= n
  BY <1>1
<1>3. CASE d >= 0
  BY <1>2, <1>3 DEF Truncated
<1>4. CASE d < 0
  <2>1. -d \in Nat
    BY <1>4
  <2>2. Ms * ((-d) \div Ms) \in Nat
    BY <2>1, <1>2
  <2> QED BY <2>2, <1>4 DEF Truncated
<1> QED BY <1>3, <1>4

\* Every step keeps every variable in its type; coro_count_ is lowered only when
\* it counts a resumed coroutine.
LEMMA TypeStep ==
  ASSUME IInv, [Next]_vars
  PROVE  TypeOK'
<1> USE DEF TypeOK, PollerTypeOK, TaskTypeOK, CoroState, NONE
<1>1. TypeOK /\ StackInv /\ CountMatches /\ HandlerInv
  BY DEF IInv
<1>2. ASSUME stack # <<>>
      PROVE  Running \in Coro /\ Front(stack) \in Seq(Coro)
  BY <1>1, <1>2, RunningFacts
<1>3. ASSUME NEW fd \in Fd, NEW e \in SUBSET Event
      PROVE  /\ Focused(fd, e) \in [Fd -> SUBSET Event]
             /\ Registered(fd, e) \in [Fd -> SUBSET Event]
  BY <1>1 DEF Focused, Registered
<1>4. ASSUME NEW s \in Seq(Coro)
      PROVE  Mask(s) \in SUBSET Event
  <2>1. ASSUME NEW c \in ToSet(s) PROVE want[c].ev \in SUBSET Event
    <3>1. c \in Coro
      BY <2>1, <1>4, ToSetType
    <3>2. want[c] \in Awaits \/ want[c] = NoAwait
      BY <3>1, <1>1
    <3>3. NoAwait.ev = {}
      BY DEF NoAwait
    <3> QED BY <3>2, <3>3, SchedulerAssumption
  <2> QED BY <2>1 DEF Mask
<1>5. IF stack = <<>> THEN Running = NoCoro ELSE Running \in Coro
  BY <1>2 DEF Running
<1>6. CASE UNCHANGED vars
  BY <1>1, <1>6 DEF vars, pollerVars, taskVars, loopVars, nodeVars, handlerVars
<1>7. ASSUME NEW c \in Coro, CallCoroutine(c) PROVE TypeOK'
  BY <1>1, <1>5, <1>7 DEF CallCoroutine, Call, pollerVars, loopVars, nodeVars, handlerVars
<1>8. ASSUME NEW t \in Coro, AwaitTask(t) PROVE TypeOK'
  BY <1>1, <1>2, <1>8 DEF AwaitTask, Join, Suspend, InCoroutine, pollerVars, loopVars, nodeVars, handlerVars
<1>9. CASE FinishCoroutine
  <2>1. stack # <<>> /\ Running \in Coro /\ Front(stack) \in Seq(Coro)
    BY <1>2, <1>9 DEF FinishCoroutine, Finish
  <2>2. UNCHANGED <<pollerVars, prev, owner, loopVars, nodeVars, handlerVars, now>>
    BY <1>9 DEF FinishCoroutine, Finish
  <2>3. CASE prev[Running] = NoCoro
    <3>1. cs' = [cs EXCEPT ![Running] = "done"] /\ stack' = Front(stack)
      BY <1>9, <2>3 DEF FinishCoroutine, Finish, Continuation
    <3> QED BY <1>1, <2>1, <2>2, <3>1 DEF pollerVars, loopVars, nodeVars, handlerVars
  <2>4. CASE prev[Running] # NoCoro
    <3>1. /\ cs' = [cs EXCEPT ![Running] = "done", ![prev[Running]] = "running"]
          /\ stack' = Append(Front(stack), prev[Running])
      BY <1>9, <2>4 DEF FinishCoroutine, Finish, Continuation
    <3>2. prev[Running] \in Coro
      BY <1>1, <2>1, <2>4
    <3>3. cs' \in [Coro -> CoroState]
      BY <1>1, <2>1, <3>1, <3>2
    <3>4. stack' \in Seq(Coro)
      BY <2>1, <3>1, <3>2, AppendProperties
    <3> QED BY <1>1, <2>2, <3>3, <3>4 DEF pollerVars, loopVars, nodeVars, handlerVars
  <2> QED BY <2>3, <2>4
<1>10. ASSUME NEW d \in Delays, AsyncSleep(d) PROVE TypeOK'
  <2>1. now + d \in Nat
    BY <1>1, <1>10, SchedulerAssumption
  <2> QED BY <1>1, <1>2, <1>10, <2>1
          DEF AsyncSleep, Suspend, InCoroutine, pollerVars, loopVars, handlerVars
<1>11. ASSUME NEW fd \in Fd, OpenSocket(fd) PROVE TypeOK'
  BY <1>1, <1>11 DEF OpenSocket, taskVars, loopVars, nodeVars, handlerVars
<1>12. ASSUME NEW fd \in Fd, CloseSocket(fd) PROVE TypeOK'
  BY <1>1, <1>3, <1>12 DEF CloseSocket, taskVars, nodeVars, handlerVars
<1>13. ASSUME NEW fd \in Fd, NEW a \in Awaits, AsyncAwait(fd, a) PROVE TypeOK'
  <2>1. Mask(nodes[fd]) \cup a.ev \in SUBSET Event
    BY <1>1, <1>4, SchedulerAssumption
  <2>2. focus' \in [Fd -> SUBSET Event] /\ interest' \in [Fd -> SUBSET Event]
    BY <1>3, <1>13, <2>1 DEF AsyncAwait
  <2>3. Running \in Coro /\ stack' \in Seq(Coro)
    BY <1>2, <1>13 DEF AsyncAwait, Suspend, InCoroutine
  <2>4. nodes' \in [Fd -> Seq(Coro)] /\ want' \in [Coro -> Awaits \cup {NoAwait}]
    BY <1>1, <1>13, <2>3 DEF AsyncAwait
  <2>5. cs' \in [Coro -> CoroState]
    BY <1>1, <1>13 DEF AsyncAwait, Suspend
  <2>6. pc' \in {pc, "terminated"} /\ coroCount' = coroCount + 1
    BY <1>13 DEF AsyncAwait
  <2>7. UNCHANGED <<open, ready, prev, owner, caller, expired, wake, timers,
                    deadline, handlerVars, now>>
    BY <1>13 DEF AsyncAwait
  <2> QED BY <1>1, <2>2, <2>3, <2>4, <2>5, <2>6, <2>7 DEF handlerVars
<1>14. CASE ResumeReturns
  <2>1. InFlight = 1 /\ IsFiniteSet(Parked)
    <3>1. Parked \in SUBSET Coro
      BY DEF Parked
    <3> QED BY <1>14, <3>1, FS_Subset, SchedulerAssumption DEF ResumeReturns, InUser, InFlight
  <2>2. Cardinality(Parked) \in Nat
    BY <2>1, FS_CardinalityType
  <2>3. coroCount - 1 \in Nat
    BY <1>1, <2>1, <2>2 DEF CountMatches
  <2> QED BY <1>1, <1>14, <2>3 DEF ResumeReturns, pollerVars, taskVars, handlerVars
<1>15. CASE CallRun
  BY <1>1, <1>15 DEF CallRun, pollerVars, taskVars, nodeVars, handlerVars
<1>16. CASE RunIteration
  BY <1>1, <1>16 DEF RunIteration, pollerVars, taskVars, nodeVars, handlerVars
<1>17. ASSUME NEW c \in Coro, ExpireTimer(c) PROVE TypeOK'
  BY <1>1, <1>17 DEF ExpireTimer, TimersAfter, Resume, pollerVars, handlerVars
<1>18. CASE ExpireDone
  BY <1>1, <1>18 DEF ExpireDone, pollerVars, taskVars, nodeVars, handlerVars
<1>19. CASE BeginPoll
  <2>1. wake' \in Int
    <3>1. TimeLeft \in Int
      BY <1>1, TimeLeftBound
    <3>2. Truncated(TimeLeft) \in Int
      BY <3>1, TruncatedBound
    <3> QED BY <1>1, <1>19, <3>2 DEF BeginPoll
  <2> QED BY <1>1, <1>19, <2>1 DEF BeginPoll, pollerVars, taskVars, nodeVars, handlerVars
<1>20. CASE BeginSleep
  <2>1. wake' \in Int
    <3>1. TimeLeft \in Int
      BY <1>1, TimeLeftBound
    <3> QED BY <1>1, <1>20, <3>1 DEF BeginSleep
  <2> QED BY <1>1, <1>20, <2>1 DEF BeginSleep, pollerVars, taskVars, nodeVars, handlerVars
<1>21. CASE WaitTimesOut
  BY <1>1, <1>21 DEF WaitTimesOut, pollerVars, taskVars, nodeVars, handlerVars
<1>22. CASE PollInterrupted
  BY <1>1, <1>22 DEF PollInterrupted, pollerVars, taskVars, nodeVars, handlerVars
<1>23. CASE PollEvents
  <2>1. PICK order \in SetToSeqs(Triggered) :
          batch' = [i \in DOMAIN order |-> [fd |-> order[i], e |-> Reportable(order[i])]]
    BY <1>23 DEF PollEvents
  <2>2. Triggered \in SUBSET Fd /\ Cardinality(Triggered) \in Nat
    <3>1. Triggered \in SUBSET Fd
      BY DEF Triggered
    <3>2. IsFiniteSet(Triggered)
      BY <3>1, FS_Subset, SchedulerAssumption
    <3> QED BY <3>1, <3>2, FS_CardinalityType
  <2>3. order \in [1..Cardinality(Triggered) -> Fd]
    BY <2>1, <2>2 DEF SetToSeqs
  <2>4. \A fd \in Fd : Reportable(fd) \in SUBSET Event
    BY <1>1 DEF Reportable
  <2>5. batch' \in [1..Cardinality(Triggered) -> [fd : Fd, e : SUBSET Event]]
    BY <2>1, <2>3, <2>4
  <2>6. batch' \in Seq([fd : Fd, e : SUBSET Event])
    BY <2>2, <2>5, FunctionIsSeq
  <2> QED BY <1>1, <1>23, <2>6 DEF PollEvents, pollerVars, taskVars, nodeVars
<1>24. CASE PollDone
  BY <1>1, <1>24 DEF PollDone, pollerVars, taskVars, nodeVars, handlerVars
<1>25. CASE HandlerBegin
  <2>1. /\ Head(batch) \in [fd : Fd, e : SUBSET Event]
        /\ Tail(batch) \in Seq([fd : Fd, e : SUBSET Event])
    <3> DEFINE E == [fd : Fd, e : SUBSET Event]
    <3>1. batch \in Seq(E) /\ batch # <<>>
      BY <1>1, <1>25 DEF HandlerBegin
    <3> HIDE DEF E
    <3>2. Head(batch) \in E /\ Tail(batch) \in Seq(E)
      BY <3>1, HeadTailProperties
    <3> QED BY <3>2 DEF E
  <2>2. cur' \in [fd : Fd \cup {NoFd}, e : SUBSET Event] /\ cur'.fd \in Fd
    BY <1>25, <2>1 DEF HandlerBegin
  <2>3. <<>> \in Seq(Coro)
    OBVIOUS
  <2>4. rest' \in Seq(Coro) /\ nodes' \in [Fd -> Seq(Coro)]
    BY <1>1, <1>25, <2>2, <2>3 DEF HandlerBegin
  <2> QED BY <1>1, <1>25, <2>1, <2>2, <2>4 DEF HandlerBegin, pollerVars, taskVars
<1>26. CASE HandlerSkip
  <2>1. Head(rest) \in Coro /\ Tail(rest) \in Seq(Coro) /\ Append(kept, Head(rest)) \in Seq(Coro)
    BY <1>1, <1>26 DEF HandlerSkip, AtNode
  <2> QED BY <1>1, <1>26, <2>1 DEF HandlerSkip, pollerVars, taskVars, loopVars, nodeVars
<1>27. ASSUME AtNode, ResumeNode, UNCHANGED <<focus, interest, ready>>, open' \in SUBSET Fd
       PROVE  TypeOK'
  <2>1. Head(rest) \in Coro /\ Tail(rest) \in Seq(Coro)
    BY <1>1, <1>27 DEF AtNode
  <2> QED BY <1>1, <1>27, <2>1 DEF ResumeNode, AfterResume, Resume
<1>28. CASE HandlerResume
  BY <1>1, <1>27, <1>28 DEF HandlerResume, pollerVars
<1>29. CASE HandlerAccept
  BY <1>1, <1>27, <1>29 DEF HandlerAccept
<1>30. CASE HandlerAcceptAgain
  BY <1>6, <1>30 DEF HandlerAcceptAgain
<1>31. CASE HandlerEnd
  <2>1. cur.fd \in Fd
    BY <1>1, <1>31 DEF HandlerEnd, HandlerInv, InHandler
  <2>2. SplicedBack \in Seq(Coro)
    BY <1>1, <2>1 DEF SplicedBack
  <2>3. MaskLeft \in SUBSET Event
    BY <1>4, <2>2 DEF MaskLeft
  <2>4. focus' \in [Fd -> SUBSET Event] /\ interest' \in [Fd -> SUBSET Event]
    BY <1>3, <1>31, <2>1, <2>3 DEF HandlerEnd
  <2>5. <<>> \in Seq(Coro)
    OBVIOUS
  <2> QED BY <1>1, <1>31, <2>1, <2>2, <2>4, <2>5 DEF HandlerEnd, taskVars, NoEvent
<1>32. CASE Tick
  BY <1>1, <1>32 DEF Tick, pollerVars, taskVars, loopVars, nodeVars, handlerVars
<1>33. ASSUME NEW fd \in Fd, SocketChanges(fd) PROVE TypeOK'
  BY <1>1, <1>33, SchedulerAssumption
     DEF SocketChanges, taskVars, loopVars, nodeVars, handlerVars
<1>34. CASE Returned
  BY <1>6, <1>34 DEF Returned
<1> QED
  BY <1>6, <1>7, <1>8, <1>9, <1>10, <1>11, <1>12, <1>13, <1>14, <1>15, <1>16, <1>17,
     <1>18, <1>19, <1>20, <1>21, <1>22, <1>23, <1>24, <1>25, <1>26, <1>28, <1>29,
     <1>30, <1>31, <1>32, <1>33, <1>34 DEF Next, LoopStep, Yield

-----------------------------------------------------------------------------
(* Coroutines                                                              *)

\* The node the handler is at is that of a coroutine that waits on the handler's
\* descriptor; without it the others keep their places.
LEMMA HandlerNode ==
  ASSUME IInv, AtNode
  PROVE  /\ cur.fd \in Fd
         /\ Head(rest) \in Coro
         /\ cs[Head(rest)] = "fd"
         /\ Head(rest) \in Waiters(cur.fd)
         /\ IsInjective(kept \o Tail(rest) \o nodes[cur.fd])
         /\ ToSet(kept \o Tail(rest) \o nodes[cur.fd]) = Waiters(cur.fd) \ {Head(rest)}
<1>1. cur.fd \in Fd /\ pc = "handler" /\ rest # <<>>
  BY DEF IInv, AtNode, HandlerInv, InHandler
<1>2. kept \in Seq(Coro) /\ rest \in Seq(Coro) /\ nodes[cur.fd] \in Seq(Coro)
  BY <1>1 DEF IInv, TypeOK
<1>3. WaitList(cur.fd) = kept \o rest \o nodes[cur.fd]
  BY DEF WaitList
<1>4. IsInjective(kept \o rest \o nodes[cur.fd])
  BY <1>1, <1>3 DEF IInv, OneNode
<1>5. /\ Head(rest) \in Coro
      /\ Head(rest) \in Waiters(cur.fd)
      /\ IsInjective(kept \o Tail(rest) \o nodes[cur.fd])
      /\ ToSet(kept \o Tail(rest) \o nodes[cur.fd]) = Waiters(cur.fd) \ {Head(rest)}
  BY <1>1, <1>2, <1>3, <1>4, RemoveHead DEF Waiters
<1>6. cs[Head(rest)] = "fd"
  BY <1>1, <1>5 DEF IInv, OneNode
<1> QED BY <1>1, <1>5, <1>6

\* One coroutine at a time runs, and those that await a task are resumed by its
\* end and by nothing else.
LEMMA CoroutineStep ==
  ASSUME IInv, [Next]_vars
  PROVE  StackInv' /\ JoinInv'
<1>1. /\ TypeOK /\ StackInv /\ JoinInv /\ OneNode /\ interest = focus
      /\ stack \in Seq(Coro) /\ cs \in [Coro -> CoroState]
      /\ prev \in [Coro -> Coro \cup {NoCoro}] /\ owner \in [Coro -> Coro \cup {NoCoro}]
  BY DEF IInv, InterestMatches, TypeOK, TaskTypeOK
<1>2. ASSUME UNCHANGED taskVars, pc' # "user" => stack = <<>>
      PROVE  StackInv' /\ JoinInv'
  BY <1>1, <1>2 DEF StackInv, JoinInv, taskVars
<1>3. ASSUME stack # <<>>, NEW s \in {"timer", "fd", "joined"}, Suspend(s), pc' = pc
      PROVE  StackInv'
  <2>1. pc = "user"
    BY <1>1, <1>3 DEF StackInv
  <2>2. /\ Running \in Coro /\ cs[Running] = "running"
        /\ IsInjective(Front(stack)) /\ ToSet(Front(stack)) = ToSet(stack) \ {Running}
    BY <1>1, <1>3, RunningFacts
  <2>3. stack' = Front(stack) /\ cs' = [cs EXCEPT ![Running] = s]
    BY <1>3 DEF Suspend
  <2> QED BY <1>1, <1>3, <2>1, <2>2, <2>3 DEF StackInv
<1>4. ASSUME stack # <<>>, NEW s \in {"timer", "fd"}, Suspend(s), UNCHANGED <<prev, owner>>
      PROVE  JoinInv'
  <2>1. Running \in Coro /\ cs[Running] = "running"
    BY <1>1, <1>4, RunningFacts
  <2>2. cs' = [cs EXCEPT ![Running] = s]
    BY <1>4 DEF Suspend
  <2> QED BY <1>1, <1>4, <2>1, <2>2 DEF JoinInv
<1>5. ASSUME NEW c \in Coro, Resume(c), stack = <<>>, cs[c] \in {"timer", "fd"}, pc' = "user"
      PROVE  StackInv' /\ JoinInv'
  <2>1. /\ cs' = [cs EXCEPT ![c] = "running"] /\ UNCHANGED <<prev, owner>>
        /\ stack' = <<c>>
    BY <1>5 DEF Resume
  <2>2. IsInjective(<<c>>) /\ ToSet(<<c>>) = {c} /\ ToSet(<<>>) = {}
    BY DEF IsInjective, ToSet
  <2>3. StackInv'
    BY <1>1, <1>5, <2>1, <2>2 DEF StackInv
  <2>4. JoinInv'
    BY <1>1, <1>5, <2>1 DEF JoinInv
  <2> QED BY <2>3, <2>4
<1>6. ASSUME NEW c \in Coro, CallCoroutine(c) PROVE StackInv' /\ JoinInv'
  <2>1. /\ cs[c] = "new" /\ cs' = [cs EXCEPT ![c] = "running"] /\ stack' = Append(stack, c)
        /\ owner' = [owner EXCEPT ![c] = Running] /\ prev' = prev /\ pc' = pc /\ pc = "user"
    BY <1>6 DEF CallCoroutine, Call, loopVars, InUserCode, InCoroutine, InUser
  <2>2. c \notin ToSet(stack)
    BY <1>1, <2>1 DEF StackInv
  <2>3. IsInjective(Append(stack, c)) /\ ToSet(Append(stack, c)) = ToSet(stack) \cup {c}
    BY <1>1, <2>2, ToSetAppend DEF StackInv
  <2>4. StackInv'
    BY <1>1, <2>1, <2>3 DEF StackInv
  <2>5. prev[c] = NoCoro
    BY <1>1, <2>1 DEF JoinInv
  <2>6. JoinInv'
    BY <1>1, <2>1, <2>5 DEF JoinInv
  <2> QED BY <2>4, <2>6
<1>7. ASSUME NEW t \in Coro, AwaitTask(t) PROVE StackInv' /\ JoinInv'
  <2>1. /\ stack # <<>> /\ owner[t] = Running /\ cs[t] \notin {"new", "done"}
        /\ prev' = [prev EXCEPT ![t] = Running] /\ Suspend("joined") /\ owner' = owner /\ pc' = pc
    BY <1>7 DEF AwaitTask, Join, loopVars
  <2>2. Running \in Coro /\ cs[Running] = "running" /\ cs' = [cs EXCEPT ![Running] = "joined"]
    BY <1>1, <2>1, RunningFacts DEF Suspend
  <2>3. \A c \in Coro : cs[c] # "done" => prev[c] # Running
    BY <1>1, <2>2, NoCoroAssumption DEF JoinInv
  <2>4. JoinInv'
    BY <1>1, <2>1, <2>2, <2>3 DEF JoinInv
  <2> QED BY <1>3, <2>1, <2>4
<1>8. CASE FinishCoroutine
  <2>1. stack # <<>> /\ UNCHANGED <<prev, owner, pc>>
    BY <1>8 DEF FinishCoroutine, Finish, loopVars
  <2>2. /\ Running \in Coro /\ cs[Running] = "running" /\ pc = "user"
        /\ Front(stack) \in Seq(Coro) /\ IsInjective(Front(stack))
        /\ ToSet(Front(stack)) = ToSet(stack) \ {Running}
    BY <1>1, <2>1, RunningFacts DEF StackInv
  <2>3. CASE prev[Running] = NoCoro
    <3>1. cs' = [cs EXCEPT ![Running] = "done"] /\ stack' = Front(stack)
      BY <1>8, <2>3 DEF FinishCoroutine, Finish, Continuation
    <3>2. StackInv'
      BY <1>1, <2>1, <2>2, <3>1 DEF StackInv
    <3>3. JoinInv'
      BY <1>1, <2>1, <2>2, <3>1 DEF JoinInv
    <3> QED BY <3>2, <3>3
  <2>4. CASE prev[Running] # NoCoro
    <3> DEFINE next == prev[Running]
    <3>1. next \in Coro /\ cs[next] = "joined"
      BY <1>1, <2>2, <2>4 DEF JoinInv
    <3>2. \A c \in Coro : prev[c] = next /\ cs[c] # "done" => c = Running
      BY <1>1, <2>2, <2>4 DEF JoinInv
    <3>3. /\ cs' = [cs EXCEPT ![Running] = "done", ![next] = "running"]
          /\ stack' = Append(Front(stack), next)
      BY <1>8, <2>4 DEF FinishCoroutine, Finish, Continuation
    <3> HIDE DEF next
    <3>4. next # Running /\ next \notin ToSet(stack)
      BY <1>1, <2>2, <3>1 DEF StackInv
    <3>5. \A c \in Coro : cs'[c] = IF c = Running THEN "done" ELSE IF c = next THEN "running" ELSE cs[c]
      BY <1>1, <2>2, <3>1, <3>3, <3>4
    <3>6. /\ IsInjective(Append(Front(stack), next))
          /\ ToSet(Append(Front(stack), next)) = ToSet(Front(stack)) \cup {next}
      BY <2>2, <3>1, <3>4, ToSetAppend
    <3>7. StackInv'
      BY <1>1, <2>1, <2>2, <3>3, <3>4, <3>5, <3>6 DEF StackInv
    <3>8. JoinInv'
      BY <1>1, <2>1, <2>2, <3>1, <3>2, <3>4, <3>5, NoCoroAssumption DEF JoinInv
    <3> QED BY <3>7, <3>8
  <2> QED BY <2>3, <2>4
<1>9. ASSUME NEW d \in Delays, AsyncSleep(d) PROVE StackInv' /\ JoinInv'
  <2>1. stack # <<>> /\ Suspend("timer") /\ UNCHANGED <<prev, owner, pc>>
    BY <1>9 DEF AsyncSleep, InCoroutine, loopVars
  <2> QED BY <1>3, <1>4, <2>1
<1>10. ASSUME NEW fd \in Fd, NEW a \in Awaits, AsyncAwait(fd, a) PROVE StackInv' /\ JoinInv'
  <2>1. stack # <<>> /\ Suspend("fd") /\ UNCHANGED <<prev, owner>> /\ fd \in open
    BY <1>10 DEF AsyncAwait, InCoroutine
  <2>2. pc' = pc
    BY <1>1, <1>10, <2>1, SubscribeWorks DEF AsyncAwait
  <2> QED BY <1>3, <1>4, <2>1, <2>2
<1>11. ASSUME NEW fd \in Fd, CloseSocket(fd) PROVE StackInv' /\ JoinInv'
  <2>1. pc' = pc /\ UNCHANGED taskVars
    BY <1>1, <1>11, SubscribeWorks DEF CloseSocket
  <2> QED BY <1>1, <1>2, <2>1 DEF StackInv
<1>12. ASSUME NEW c \in Coro, ExpireTimer(c) PROVE StackInv' /\ JoinInv'
  <2>1. pc = "expire" /\ c \in timers /\ Resume(c) /\ pc' = "user"
    BY <1>12 DEF ExpireTimer, NextTimers
  <2>2. stack = <<>> /\ cs[c] = "timer"
    BY <1>1, <2>1 DEF StackInv, OneNode
  <2> QED BY <1>5, <2>1, <2>2
<1>13. ASSUME AtNode, ResumeNode PROVE StackInv' /\ JoinInv'
  <2>1. Resume(Head(rest)) /\ pc' = "user" /\ pc = "handler"
    BY <1>13 DEF ResumeNode, AtNode
  <2>2. stack = <<>> /\ Head(rest) \in Coro /\ cs[Head(rest)] = "fd"
    BY <1>1, <1>13, <2>1, HandlerNode DEF StackInv
  <2> QED BY <1>5, <2>1, <2>2
<1>14. CASE HandlerEnd
  <2>1. pc = "handler" /\ UNCHANGED taskVars
    BY <1>14 DEF HandlerEnd
  <2> QED BY <1>1, <1>2, <2>1 DEF StackInv
<1>15. CASE \/ CallRun \/ RunIteration \/ ExpireDone \/ BeginPoll \/ BeginSleep
            \/ WaitTimesOut \/ PollInterrupted \/ PollEvents \/ PollDone \/ HandlerBegin
            \/ HandlerSkip \/ ResumeReturns \/ Tick \/ HandlerAcceptAgain \/ Returned
            \/ UNCHANGED vars
  <2>1. UNCHANGED taskVars /\ (pc' # "user" => stack = <<>>)
    BY <1>1, <1>15
       DEF StackInv, CallRun, RunIteration, ExpireDone, BeginPoll, BeginSleep, WaitTimesOut,
           PollInterrupted, PollEvents, PollDone, HandlerBegin, HandlerSkip, AtNode,
           ResumeReturns, Tick, HandlerAcceptAgain, Returned, vars, loopVars
  <2> QED BY <1>2, <2>1
<1>16. ASSUME NEW fd \in Fd, OpenSocket(fd) \/ SocketChanges(fd) PROVE StackInv' /\ JoinInv'
  BY <1>1, <1>2, <1>16 DEF OpenSocket, SocketChanges, loopVars, StackInv
<1> QED
  BY <1>6, <1>7, <1>8, <1>9, <1>10, <1>11, <1>12, <1>13, <1>14, <1>15, <1>16
     DEF Next, LoopStep, Yield, HandlerResume, HandlerAccept

-----------------------------------------------------------------------------
(* What a step does to the list of a descriptor                            *)

\* The handler's lists are in use only while it, or what it resumed, runs.
LEMMA HandlerStep ==
  ASSUME IInv, [Next]_vars
  PROVE  HandlerInv'
<1>1. /\ TypeOK /\ HandlerInv /\ StackInv /\ interest = focus
      /\ batch \in Seq([fd : Fd, e : SUBSET Event])
  BY DEF IInv, InterestMatches, TypeOK
<1>2. ASSUME UNCHANGED <<cur, kept, rest>>, InHandler' = InHandler
      PROVE  HandlerInv'
  BY <1>1, <1>2 DEF HandlerInv
<1>3. CASE HandlerBegin
  <2>1. Head(batch) \in [fd : Fd, e : SUBSET Event]
    <3> DEFINE E == [fd : Fd, e : SUBSET Event]
    <3>1. batch \in Seq(E) /\ batch # <<>>
      BY <1>1, <1>3 DEF HandlerBegin
    <3> HIDE DEF E
    <3>2. Head(batch) \in E
      BY <3>1, HeadTailProperties
    <3> QED BY <3>2 DEF E
  <2> QED BY <1>3, <2>1 DEF HandlerBegin, HandlerInv, InHandler
<1>4. CASE HandlerSkip
  BY <1>1, <1>4 DEF HandlerSkip, AtNode, HandlerInv, InHandler, loopVars
<1>5. CASE HandlerEnd
  BY <1>5 DEF HandlerEnd, HandlerInv, InHandler
<1>6. ASSUME AtNode, ResumeNode PROVE HandlerInv'
  BY <1>1, <1>6 DEF AtNode, ResumeNode, HandlerInv, InHandler
<1>7. ASSUME NEW fd \in Fd, NEW a \in Awaits, AsyncAwait(fd, a) PROVE HandlerInv'
  <2>1. pc' = pc
    BY <1>1, <1>7, SubscribeWorks DEF AsyncAwait
  <2> QED BY <1>2, <1>7, <2>1 DEF AsyncAwait, InHandler, handlerVars
<1>8. ASSUME NEW fd \in Fd, CloseSocket(fd) PROVE HandlerInv'
  <2>1. pc' = pc
    BY <1>1, <1>8, SubscribeWorks DEF CloseSocket
  <2> QED BY <1>2, <1>8, <2>1 DEF CloseSocket, InHandler, handlerVars
<1>9. CASE Tick \/ HandlerAcceptAgain \/ Returned \/ UNCHANGED vars
  BY <1>2, <1>9 DEF Tick, HandlerAcceptAgain, Returned, vars, loopVars, handlerVars, InHandler
<1>10. CASE \/ RunIteration \/ ExpireDone \/ BeginPoll \/ BeginSleep \/ WaitTimesOut
            \/ PollInterrupted \/ PollEvents \/ PollDone \/ ResumeReturns \/ CallRun
  BY <1>2, <1>10
     DEF RunIteration, ExpireDone, BeginPoll, BeginSleep, WaitTimesOut, PollInterrupted,
         PollEvents, PollDone, ResumeReturns, CallRun, InUser, handlerVars, InHandler
<1>11. ASSUME NEW c \in Coro, CallCoroutine(c) \/ AwaitTask(c) \/ ExpireTimer(c)
       PROVE  HandlerInv'
  BY <1>2, <1>11
     DEF CallCoroutine, AwaitTask, ExpireTimer, loopVars, handlerVars, InHandler
<1>12. CASE FinishCoroutine
  BY <1>2, <1>12 DEF FinishCoroutine, loopVars, handlerVars, InHandler
<1>13. ASSUME NEW d \in Delays, AsyncSleep(d) PROVE HandlerInv'
  BY <1>2, <1>13 DEF AsyncSleep, loopVars, handlerVars, InHandler
<1>14. ASSUME NEW fd \in Fd, OpenSocket(fd) \/ SocketChanges(fd) PROVE HandlerInv'
  BY <1>2, <1>14 DEF OpenSocket, SocketChanges, loopVars, handlerVars, InHandler
<1> QED
  BY <1>3, <1>4, <1>5, <1>6, <1>7, <1>8, <1>9, <1>10, <1>11, <1>12, <1>13, <1>14
     DEF Next, LoopStep, Yield, HandlerResume, HandlerAccept

\* Outside the handler the list of a descriptor is its list of nodes.
LEMMA NoHandler ==
  ASSUME TypeOK, HandlerInv, ~InHandler
  PROVE  cur.fd = NoFd /\ \A fd \in Fd : WaitList(fd) = nodes[fd] /\ fd # cur.fd
<1>1. cur = NoEvent /\ NoFd \notin Fd
  BY SchedulerAssumption DEF HandlerInv
<1> QED BY <1>1 DEF WaitList, NoEvent

\* What the handler does to a descriptor's nodes between two resumptions keeps
\* the list, in its order.
LEMMA HandlerKeepsLists ==
  ASSUME IInv, HandlerBegin \/ HandlerSkip \/ HandlerEnd, NEW fd \in Fd
  PROVE  WaitList(fd)' = WaitList(fd)
<1>1. /\ TypeOK /\ HandlerInv
      /\ nodes \in [Fd -> Seq(Coro)] /\ kept \in Seq(Coro) /\ rest \in Seq(Coro)
      /\ nodes[fd] \in Seq(Coro)
  BY DEF IInv, TypeOK
<1>2. \A s \in Seq(Coro) : <<>> \o s = s /\ s \o <<>> = s
  OBVIOUS
<1>3. CASE HandlerBegin
  <2>1. ~InHandler
    BY <1>3 DEF HandlerBegin, InHandler
  <2>2. WaitList(fd) = nodes[fd] /\ kept = <<>>
    BY <1>1, <2>1, NoHandler DEF HandlerInv
  <2>3. /\ kept' = kept /\ rest' = nodes[cur'.fd]
        /\ nodes' = [nodes EXCEPT ![cur'.fd] = <<>>]
    BY <1>3 DEF HandlerBegin
  <2>4. CASE fd = cur'.fd
    <3>1. nodes'[fd] = <<>> /\ rest' = nodes[fd] /\ kept' = <<>>
      BY <1>1, <2>2, <2>3, <2>4
    <3>2. WaitList(fd)' = <<>> \o nodes[fd] \o <<>>
      BY <2>4, <3>1 DEF WaitList
    <3> QED BY <1>1, <1>2, <2>2, <3>2
  <2>5. CASE fd # cur'.fd
    BY <1>1, <2>2, <2>3, <2>5 DEF WaitList
  <2> QED BY <2>4, <2>5
<1>4. CASE HandlerSkip
  <2>1. /\ rest # <<>> /\ kept' = Append(kept, Head(rest)) /\ rest' = Tail(rest)
        /\ nodes' = nodes /\ cur' = cur
    BY <1>4 DEF HandlerSkip, AtNode, nodeVars
  <2>2. Append(kept, Head(rest)) \o Tail(rest) \o nodes[fd] = kept \o rest \o nodes[fd]
    BY <1>1, <2>1, MoveHead
  <2> QED BY <2>1, <2>2 DEF WaitList
<1>5. CASE HandlerEnd
  <2>1. /\ rest = <<>> /\ rest' = rest /\ kept' = <<>> /\ cur' = NoEvent
        /\ nodes' = [nodes EXCEPT ![cur.fd] = SplicedBack]
    BY <1>5 DEF HandlerEnd
  <2>2. cur'.fd # fd
    BY <2>1, SchedulerAssumption DEF NoEvent
  <2>3. WaitList(fd)' = nodes'[fd]
    BY <2>2 DEF WaitList
  <2>4. CASE fd = cur.fd
    <3>1. nodes'[fd] = kept \o nodes[fd]
      BY <1>1, <2>1, <2>4 DEF SplicedBack
    <3>2. WaitList(fd) = kept \o <<>> \o nodes[fd]
      BY <2>1, <2>4 DEF WaitList
    <3>3. kept \o <<>> = kept
      BY <1>1, <1>2
    <3> QED BY <2>3, <3>1, <3>2, <3>3
  <2>5. CASE fd # cur.fd
    BY <1>1, <2>1, <2>3, <2>5 DEF WaitList
  <2> QED BY <2>4, <2>5
<1> QED BY <1>3, <1>4, <1>5

\* A wait is recorded behind all others on the same descriptor.
LEMMA AwaitAppends ==
  ASSUME IInv, NEW f \in Fd, NEW a \in Awaits, AsyncAwait(f, a), NEW fd \in Fd
  PROVE  WaitList(fd)' = IF fd = f THEN Append(WaitList(fd), Running) ELSE WaitList(fd)
<1>1. /\ TypeOK /\ StackInv /\ nodes \in [Fd -> Seq(Coro)]
      /\ kept \in Seq(Coro) /\ rest \in Seq(Coro) /\ nodes[fd] \in Seq(Coro)
  BY DEF IInv, TypeOK
<1>2. Running \in Coro
  BY <1>1, RunningFacts DEF AsyncAwait, InCoroutine
<1>3. UNCHANGED <<kept, rest, cur>> /\ nodes' = [nodes EXCEPT ![f] = Append(@, Running)]
  BY DEF AsyncAwait, handlerVars
<1>4. nodes'[fd] = IF fd = f THEN Append(nodes[fd], Running) ELSE nodes[fd]
  BY <1>1, <1>3
<1>5. kept \o rest \o Append(nodes[fd], Running) = Append(kept \o rest \o nodes[fd], Running)
  BY <1>1, <1>2, AppendLast
<1>6. CASE fd = cur.fd
  <2>1. WaitList(fd) = kept \o rest \o nodes[fd] /\ WaitList(fd)' = kept \o rest \o nodes'[fd]
    BY <1>3, <1>6 DEF WaitList
  <2> QED BY <1>4, <1>5, <2>1
<1>7. CASE fd # cur.fd
  BY <1>3, <1>4, <1>7 DEF WaitList
<1> QED BY <1>6, <1>7

\* A resumption takes the node the handler is at out of its descriptor's list.
LEMMA ResumeRemoves ==
  ASSUME IInv, AtNode, ResumeNode, NEW fd \in Fd
  PROVE  WaitList(fd)' = IF fd = cur.fd THEN kept \o Tail(rest) \o nodes[fd]
                         ELSE WaitList(fd)
  BY DEF ResumeNode, AfterResume, WaitList

-----------------------------------------------------------------------------
(* Nodes                                                                   *)

\* Who waits on a descriptor after a wait was recorded, or a waiter resumed.
LEMMA AwaitAdds ==
  ASSUME IInv, NEW f \in Fd, NEW a \in Awaits, AsyncAwait(f, a)
  PROVE  /\ Running \in Coro /\ cs[Running] = "running"
         /\ \A fd \in Fd : Running \notin Waiters(fd)
         /\ \A fd \in Fd : Waiters(fd)' = IF fd = f THEN Waiters(fd) \cup {Running}
                                          ELSE Waiters(fd)
         /\ \A fd \in Fd : IsInjective(WaitList(fd)')
<1>1. TypeOK /\ StackInv /\ OneNode
  BY DEF IInv
<1>2. Running \in Coro /\ cs[Running] = "running"
  BY <1>1, RunningFacts DEF AsyncAwait, InCoroutine
<1>3. \A fd \in Fd : Running \notin Waiters(fd)
  BY <1>1, <1>2 DEF OneNode
<1>4. ASSUME NEW fd \in Fd
      PROVE  /\ Waiters(fd)' = IF fd = f THEN Waiters(fd) \cup {Running} ELSE Waiters(fd)
             /\ IsInjective(WaitList(fd)')
  <2>1. WaitList(fd) \in Seq(Coro) /\ IsInjective(WaitList(fd)) /\ Running \notin ToSet(WaitList(fd))
    BY <1>1, <1>3, WaitListType DEF OneNode, Waiters
  <2>2. WaitList(fd)' = IF fd = f THEN Append(WaitList(fd), Running) ELSE WaitList(fd)
    BY AwaitAppends
  <2>3. /\ ToSet(Append(WaitList(fd), Running)) = ToSet(WaitList(fd)) \cup {Running}
        /\ IsInjective(Append(WaitList(fd), Running))
    BY <1>2, <2>1, ToSetAppend
  <2> QED BY <2>1, <2>2, <2>3 DEF Waiters
<1> QED BY <1>2, <1>3, <1>4

LEMMA ResumeTakes ==
  ASSUME IInv, AtNode, ResumeNode
  PROVE  /\ \A fd \in Fd : Waiters(fd)' = IF fd = cur.fd THEN Waiters(fd) \ {Head(rest)}
                                          ELSE Waiters(fd)
         /\ \A fd \in Fd : fd # cur.fd => Head(rest) \notin Waiters(fd)
         /\ \A fd \in Fd : IsInjective(WaitList(fd)')
<1>1. /\ cur.fd \in Fd /\ Head(rest) \in Waiters(cur.fd)
      /\ IsInjective(kept \o Tail(rest) \o nodes[cur.fd])
      /\ ToSet(kept \o Tail(rest) \o nodes[cur.fd]) = Waiters(cur.fd) \ {Head(rest)}
  BY HandlerNode
<1>2. OneNode
  BY DEF IInv
<1>3. \A fd \in Fd : fd # cur.fd => Head(rest) \notin Waiters(fd)
  BY <1>1, <1>2 DEF OneNode
<1>4. ASSUME NEW fd \in Fd
      PROVE  /\ Waiters(fd)' = IF fd = cur.fd THEN Waiters(fd) \ {Head(rest)} ELSE Waiters(fd)
             /\ IsInjective(WaitList(fd)')
  <2>1. WaitList(fd)' = IF fd = cur.fd THEN kept \o Tail(rest) \o nodes[fd] ELSE WaitList(fd)
    BY ResumeRemoves
  <2>2. Waiters(fd)' = ToSet(WaitList(fd)') /\ Waiters(fd) = ToSet(WaitList(fd))
    BY DEF Waiters
  <2>3. CASE fd = cur.fd
    BY <1>1, <2>1, <2>2, <2>3
  <2>4. CASE fd # cur.fd
    BY <1>2, <2>1, <2>2, <2>4 DEF OneNode
  <2> QED BY <2>3, <2>4
<1> QED BY <1>3, <1>4

\* Adding a coroutine to those the scheduler has to resume, or taking one out,
\* changes their number by one.
LEMMA ParkedCount ==
  ASSUME NEW c \in Coro
  PROVE  /\ IsFiniteSet(Parked) /\ Cardinality(Parked) \in Nat
         /\ c \notin Parked => Cardinality(Parked \cup {c}) = Cardinality(Parked) + 1
         /\ c \in Parked => Cardinality(Parked \ {c}) = Cardinality(Parked) - 1
<1>1. Parked \in SUBSET Coro /\ IsFiniteSet(Coro)
  BY SchedulerAssumption DEF Parked
<1>2. IsFiniteSet(Parked)
  BY <1>1, FS_Subset
<1> QED BY <1>2, FS_CardinalityType, FS_AddElement, FS_RemoveElement

\* A step that neither moves a node nor changes what a coroutine waits for keeps
\* OneNode; it keeps the count if it keeps its two summands.
LEMMA NodesSame ==
  ASSUME IInv, timers' = timers,
         \A fd \in Fd : WaitList(fd)' = WaitList(fd),
         \A c \in Coro : \A s \in {"timer", "fd"} : cs'[c] = s <=> cs[c] = s
  PROVE  /\ OneNode' /\ Parked' = Parked
         /\ coroCount' = coroCount /\ InFlight' = InFlight => CountMatches'
<1>1. OneNode /\ CountMatches
  BY DEF IInv
<1>2. \A fd \in Fd : Waiters(fd)' = Waiters(fd)
  BY DEF Waiters
<1>3. OneNode'
  BY <1>1, <1>2 DEF OneNode
<1>4. Parked' = Parked
  BY DEF Parked
<1> QED BY <1>1, <1>3, <1>4 DEF CountMatches

\* Every suspended coroutine keeps its one node, and coro_count_ counts them.
LEMMA NodeStep ==
  ASSUME IInv, [Next]_vars
  PROVE  OneNode' /\ CountMatches'
<1>1. /\ TypeOK /\ StackInv /\ JoinInv /\ OneNode /\ CountMatches /\ interest = focus
      /\ cs \in [Coro -> CoroState] /\ coroCount \in Nat
      /\ timers \in SUBSET Coro
  BY DEF IInv, InterestMatches, TypeOK, TaskTypeOK
<1>2. ASSUME UNCHANGED <<cs, timers, nodes, cur, kept, rest>>
      PROVE  /\ OneNode' /\ Parked' = Parked
             /\ coroCount' = coroCount /\ InFlight' = InFlight => CountMatches'
  BY <1>2, NodesSame, WaitListSame
<1>3. CASE HandlerBegin \/ HandlerSkip \/ HandlerEnd
  <2>1. /\ UNCHANGED <<cs, timers, coroCount>> /\ pc # "user" /\ pc' # "user"
    BY <1>3 DEF HandlerBegin, HandlerSkip, HandlerEnd, AtNode, taskVars, loopVars, nodeVars
  <2>2. \A fd \in Fd : WaitList(fd)' = WaitList(fd)
    BY <1>3, HandlerKeepsLists
  <2> QED BY <2>1, <2>2, NodesSame DEF InFlight
<1>4. CASE Tick \/ HandlerAcceptAgain \/ Returned \/ UNCHANGED vars
  BY <1>2, <1>4
     DEF Tick, HandlerAcceptAgain, Returned, vars, taskVars, loopVars, nodeVars, handlerVars,
         InFlight
<1>5. CASE \/ RunIteration \/ ExpireDone \/ BeginPoll \/ BeginSleep \/ WaitTimesOut
           \/ PollInterrupted \/ PollEvents \/ PollDone \/ CallRun
  BY <1>2, <1>5
     DEF RunIteration, ExpireDone, BeginPoll, BeginSleep, WaitTimesOut, PollInterrupted,
         PollEvents, PollDone, CallRun, InUser, taskVars, nodeVars, handlerVars, InFlight
<1>6. CASE ResumeReturns
  <2>1. /\ UNCHANGED <<cs, timers, nodes, cur, kept, rest>> /\ coroCount' = coroCount - 1
        /\ InFlight = 1 /\ InFlight' = 0
    BY <1>1, <1>6 DEF ResumeReturns, InUser, InFlight, taskVars, handlerVars, TypeOK
  <2>2. OneNode' /\ Parked' = Parked
    BY <1>2, <2>1
  <2>3. Cardinality(Parked) \in Nat
    <3>1. Parked \in SUBSET Coro
      BY DEF Parked
    <3> QED BY <3>1, FS_Subset, FS_CardinalityType, SchedulerAssumption
  <2> QED BY <1>1, <2>1, <2>2, <2>3 DEF CountMatches
<1>7. ASSUME NEW fd \in Fd, OpenSocket(fd) \/ SocketChanges(fd) PROVE OneNode' /\ CountMatches'
  BY <1>2, <1>7 DEF OpenSocket, SocketChanges, taskVars, loopVars, nodeVars, handlerVars, InFlight
<1>8. ASSUME NEW fd \in Fd, CloseSocket(fd) PROVE OneNode' /\ CountMatches'
  <2>1. pc' = pc
    BY <1>1, <1>8, SubscribeWorks DEF CloseSocket
  <2> QED BY <1>2, <1>8, <2>1 DEF CloseSocket, taskVars, nodeVars, handlerVars, InFlight
<1>9. ASSUME UNCHANGED <<pc, caller, nodeVars, handlerVars>>,
             \A c \in Coro : \A s \in {"timer", "fd"} : cs'[c] = s <=> cs[c] = s
      PROVE  OneNode' /\ CountMatches'
  <2>1. \A fd \in Fd : WaitList(fd)' = WaitList(fd)
    BY <1>9, WaitListSame DEF nodeVars, handlerVars
  <2> QED BY <1>9, <2>1, NodesSame DEF nodeVars, InFlight
<1>10. ASSUME NEW c \in Coro, CallCoroutine(c) PROVE OneNode' /\ CountMatches'
  BY <1>1, <1>9, <1>10 DEF CallCoroutine, Call, loopVars
<1>11. ASSUME NEW t \in Coro, AwaitTask(t) PROVE OneNode' /\ CountMatches'
  <2>1. Running \in Coro /\ cs[Running] = "running" /\ cs' = [cs EXCEPT ![Running] = "joined"]
    BY <1>1, <1>11, RunningFacts DEF AwaitTask, Join, Suspend
  <2> QED BY <1>1, <1>9, <1>11, <2>1 DEF AwaitTask, loopVars
<1>12. CASE FinishCoroutine
  <2>1. stack # <<>> /\ Running \in Coro /\ cs[Running] = "running"
    BY <1>1, <1>12, RunningFacts DEF FinishCoroutine, Finish
  <2>2. prev[Running] # NoCoro => prev[Running] \in Coro /\ cs[prev[Running]] = "joined"
    BY <1>1, <2>1 DEF JoinInv, TypeOK, TaskTypeOK
  <2>3. cs' = IF prev[Running] = NoCoro THEN [cs EXCEPT ![Running] = "done"]
              ELSE [cs EXCEPT ![Running] = "done", ![prev[Running]] = "running"]
    BY <1>12 DEF FinishCoroutine, Finish, Continuation
  <2>4. \A c \in Coro : \A s \in {"timer", "fd"} : cs'[c] = s <=> cs[c] = s
    <3>1. CASE prev[Running] = NoCoro
      BY <1>1, <2>1, <2>3, <3>1
    <3>2. CASE prev[Running] # NoCoro
      <4>1. \A c \in Coro : cs'[c] = IF c = prev[Running] THEN "running"
                                     ELSE IF c = Running THEN "done" ELSE cs[c]
        BY <1>1, <2>1, <2>2, <2>3, <3>2
      <4> QED BY <2>1, <2>2, <3>2, <4>1
    <3> QED BY <3>1, <3>2
  <2> QED BY <1>9, <1>12, <2>4 DEF FinishCoroutine, loopVars
<1>13. ASSUME NEW d \in Delays, AsyncSleep(d) PROVE OneNode' /\ CountMatches'
  <2>1. Running \in Coro /\ cs[Running] = "running"
    BY <1>1, <1>13, RunningFacts DEF AsyncSleep, InCoroutine
  <2>2. /\ cs' = [cs EXCEPT ![Running] = "timer"] /\ timers' = timers \cup {Running}
        /\ coroCount' = coroCount + 1 /\ UNCHANGED <<pc, caller, nodes, cur, kept, rest>>
    BY <1>13 DEF AsyncSleep, Suspend, loopVars, handlerVars
  <2>3. \A fd \in Fd : WaitList(fd)' = WaitList(fd) /\ Waiters(fd)' = Waiters(fd)
    BY <2>2, WaitListSame
  <2>4. OneNode'
    BY <1>1, <2>1, <2>2, <2>3 DEF OneNode
  <2>5. Parked' = Parked \cup {Running} /\ Running \notin Parked
    BY <1>1, <2>1, <2>2 DEF Parked
  <2>6. Cardinality(Parked') = Cardinality(Parked) + 1 /\ Cardinality(Parked) \in Nat
    BY <2>1, <2>5, ParkedCount
  <2> QED BY <1>1, <2>2, <2>4, <2>6 DEF CountMatches, InFlight
<1>14. ASSUME NEW f \in Fd, NEW a \in Awaits, AsyncAwait(f, a) PROVE OneNode' /\ CountMatches'
  <2>1. /\ Running \in Coro /\ cs[Running] = "running"
        /\ \A fd \in Fd : Running \notin Waiters(fd)
        /\ \A fd \in Fd : Waiters(fd)' = IF fd = f THEN Waiters(fd) \cup {Running} ELSE Waiters(fd)
        /\ \A fd \in Fd : IsInjective(WaitList(fd)')
    BY <1>14, AwaitAdds
  <2>2. /\ cs' = [cs EXCEPT ![Running] = "fd"] /\ timers' = timers
        /\ coroCount' = coroCount + 1 /\ caller' = caller
    BY <1>14 DEF AsyncAwait, Suspend
  <2>3. pc' = pc
    BY <1>1, <1>14, SubscribeWorks DEF AsyncAwait
  <2>4. OneNode'
    <3>1. \A c \in Coro : cs'[c] = "timer" <=> c \in timers'
      BY <1>1, <2>1, <2>2 DEF OneNode
    <3>2. \A c \in Coro : cs'[c] = "fd" <=> \E fd \in Fd : c \in Waiters(fd)'
      BY <1>1, <2>1, <2>2 DEF OneNode
    <3>3. \A g, h \in Fd : g # h => Waiters(g)' \cap Waiters(h)' = {}
      BY <1>1, <2>1 DEF OneNode
    <3> QED BY <2>1, <3>1, <3>2, <3>3 DEF OneNode
  <2>5. Parked' = Parked \cup {Running} /\ Running \notin Parked
    BY <1>1, <2>1, <2>2 DEF Parked
  <2>6. Cardinality(Parked') = Cardinality(Parked) + 1 /\ Cardinality(Parked) \in Nat
    BY <2>1, <2>5, ParkedCount
  <2> QED BY <1>1, <2>2, <2>3, <2>4, <2>6 DEF CountMatches, InFlight
<1>15. ASSUME NEW c \in Coro, ExpireTimer(c) PROVE OneNode' /\ CountMatches'
  <2>1. /\ pc = "expire" /\ pc' = "user" /\ caller' = "expire" /\ timers' = timers \ {c}
        /\ cs' = [cs EXCEPT ![c] = "running"] /\ c \in timers
        /\ UNCHANGED <<coroCount, nodes, cur, kept, rest>>
    BY <1>15 DEF ExpireTimer, TimersAfter, NextTimers, Resume, handlerVars
  <2>2. \A fd \in Fd : WaitList(fd)' = WaitList(fd) /\ Waiters(fd)' = Waiters(fd)
    BY <2>1, WaitListSame
  <2>3. cs[c] = "timer"
    BY <1>1, <2>1 DEF OneNode
  <2>4. OneNode'
    BY <1>1, <2>1, <2>2, <2>3 DEF OneNode
  <2>5. Parked' = Parked \ {c} /\ c \in Parked
    BY <1>1, <2>1, <2>3 DEF Parked
  <2>6. Cardinality(Parked') = Cardinality(Parked) - 1 /\ Cardinality(Parked) \in Nat
    BY <2>5, ParkedCount
  <2> QED BY <1>1, <2>1, <2>4, <2>6 DEF CountMatches, InFlight
<1>16. ASSUME AtNode, ResumeNode PROVE OneNode' /\ CountMatches'
  <2> DEFINE c == Head(rest)
  <2>1. /\ pc = "handler" /\ pc' = "user" /\ caller' = "handler" /\ UNCHANGED <<timers, coroCount>>
        /\ cs' = [cs EXCEPT ![c] = "running"]
    BY <1>16 DEF AtNode, ResumeNode, Resume
  <2>2. c \in Coro /\ cs[c] = "fd" /\ c \in Waiters(cur.fd) /\ cur.fd \in Fd
    BY <1>16, HandlerNode
  <2>3. /\ \A fd \in Fd : Waiters(fd)' = IF fd = cur.fd THEN Waiters(fd) \ {c} ELSE Waiters(fd)
        /\ \A fd \in Fd : fd # cur.fd => c \notin Waiters(fd)
        /\ \A fd \in Fd : IsInjective(WaitList(fd)')
    BY <1>16, ResumeTakes
  <2> HIDE DEF c
  <2>4. OneNode'
    <3>1. \A d \in Coro : cs'[d] = "timer" <=> d \in timers'
      BY <1>1, <2>1, <2>2 DEF OneNode
    <3>2. \A d \in Coro : cs'[d] = "fd" <=> \E fd \in Fd : d \in Waiters(fd)'
      BY <1>1, <2>1, <2>2, <2>3 DEF OneNode
    <3>3. \A g, h \in Fd : g # h => Waiters(g)' \cap Waiters(h)' = {}
      BY <1>1, <2>3 DEF OneNode
    <3> QED BY <2>3, <3>1, <3>2, <3>3 DEF OneNode
  <2>5. Parked' = Parked \ {c} /\ c \in Parked
    BY <1>1, <2>1, <2>2 DEF Parked
  <2>6. Cardinality(Parked') = Cardinality(Parked) - 1 /\ Cardinality(Parked) \in Nat
    BY <2>2, <2>5, ParkedCount
  <2> QED BY <1>1, <2>1, <2>4, <2>6 DEF CountMatches, InFlight
<1> QED
  BY <1>3, <1>4, <1>5, <1>6, <1>7, <1>8, <1>10, <1>11, <1>12, <1>13, <1>14, <1>15, <1>16
     DEF Next, LoopStep, Yield, HandlerResume, HandlerAccept

-----------------------------------------------------------------------------
(* The poller, the kernel and the batch                                    *)

\* The nodes of a descriptor are among its waiters.
LEMMA NodesWait ==
  ASSUME TypeOK, NEW fd \in Fd
  PROVE  /\ ToSet(nodes[fd]) \subseteq Waiters(fd)
         /\ nodes[fd] = <<>> <=> ToSet(nodes[fd]) = {}
         /\ fd = cur.fd => ToSet(SplicedBack) \subseteq Waiters(fd)
<1>1. nodes[fd] \in Seq(Coro) /\ kept \in Seq(Coro) /\ rest \in Seq(Coro)
  BY DEF TypeOK
<1>2. /\ kept \o rest \in Seq(Coro)
      /\ ToSet(kept \o rest \o nodes[fd]) = ToSet(kept) \cup ToSet(rest) \cup ToSet(nodes[fd])
      /\ ToSet(kept \o nodes[fd]) = ToSet(kept) \cup ToSet(nodes[fd])
  <2>1. /\ kept \o rest \in Seq(Coro) /\ ToSet(kept \o rest) = ToSet(kept) \cup ToSet(rest)
        /\ ToSet(kept \o nodes[fd]) = ToSet(kept) \cup ToSet(nodes[fd])
    BY <1>1, ToSetConcat
  <2>2. ToSet((kept \o rest) \o nodes[fd]) = ToSet(kept \o rest) \cup ToSet(nodes[fd])
    <3> DEFINE u == kept \o rest
    <3>1. u \in Seq(Coro)
      BY <2>1
    <3> HIDE DEF u
    <3>2. ToSet(u \o nodes[fd]) = ToSet(u) \cup ToSet(nodes[fd])
      BY <1>1, <3>1, ToSetConcat
    <3> QED BY <3>2 DEF u
  <2> QED BY <2>1, <2>2
<1>3. CASE fd = cur.fd
  <2>1. WaitList(fd) = kept \o rest \o nodes[fd] /\ SplicedBack = kept \o nodes[fd]
    BY <1>3 DEF WaitList, SplicedBack
  <2>2. Waiters(fd) = ToSet(kept) \cup ToSet(rest) \cup ToSet(nodes[fd])
    BY <1>2, <2>1 DEF Waiters
  <2>3. ToSet(SplicedBack) = ToSet(kept) \cup ToSet(nodes[fd])
    BY <1>2, <2>1
  <2> QED BY <1>1, <2>2, <2>3, ToSetType
<1>4. CASE fd # cur.fd
  <2>1. WaitList(fd) = nodes[fd]
    BY <1>4 DEF WaitList
  <2> QED BY <1>1, <1>4, <2>1, ToSetType DEF Waiters
<1> QED BY <1>3, <1>4

\* The mask of a list depends on what its coroutines want and on nothing else.
LEMMA MaskSame ==
  ASSUME NEW fd, nodes'[fd] = nodes[fd], \A c \in ToSet(nodes[fd]) : want'[c] = want[c]
  PROVE  Mask(nodes[fd])' = Mask(nodes[fd])
<1>1. {want'[c].ev : c \in ToSet(nodes[fd])} = {want[c].ev : c \in ToSet(nodes[fd])}
  OBVIOUS
<1> QED BY <1>1 DEF Mask

\* A new node adds its mask.
LEMMA MaskAppend ==
  ASSUME TypeOK, NEW s \in Seq(Coro), NEW c \in Coro, NEW a \in Awaits, c \notin ToSet(s),
         want' = [want EXCEPT ![c] = a]
  PROVE  UNION {want'[d].ev : d \in ToSet(Append(s, c))} = Mask(s) \cup a.ev
<1>1. want \in [Coro -> Awaits \cup {NoAwait}] /\ ToSet(s) \subseteq Coro
  BY ToSetType DEF TypeOK
<1>2. ToSet(Append(s, c)) = ToSet(s) \cup {c}
  BY ToSetAppend
<1>3. want'[c] = a /\ \A d \in ToSet(s) : want'[d] = want[d]
  BY <1>1
<1>4. {want'[d].ev : d \in ToSet(s) \cup {c}} = {want[d].ev : d \in ToSet(s)} \cup {a.ev}
  BY <1>3
<1>5. UNION ({want[d].ev : d \in ToSet(s)} \cup {a.ev}) = (UNION {want[d].ev : d \in ToSet(s)}) \cup a.ev
  OBVIOUS
<1> QED BY <1>2, <1>4, <1>5 DEF Mask

\* Subscribing never fails: the descriptor is open, or there is nothing to change.
LEMMA KernelCalls ==
  ASSUME IInv
  PROVE  /\ \A fd \in Fd, e \in SUBSET Event :
              fd \in open => ~SubscribeThrows(fd, e) /\ Registered(fd, e) = Focused(fd, e)
         /\ pc = "handler" /\ rest = <<>> =>
              /\ cur.fd \in Fd
              /\ cur.fd \notin open => focus[cur.fd] = MaskLeft
              /\ ~SubscribeThrows(cur.fd, MaskLeft)
              /\ Registered(cur.fd, MaskLeft) = Focused(cur.fd, MaskLeft)
<1>1. TypeOK /\ interest = focus /\ HandlerInv /\ OpenInv
  BY DEF IInv, InterestMatches
<1>2. ASSUME pc = "handler", rest = <<>>
      PROVE  cur.fd \in Fd /\ (cur.fd \notin open => focus[cur.fd] = MaskLeft)
  <2>1. cur.fd \in Fd
    BY <1>1, <1>2 DEF HandlerInv, InHandler
  <2>2. ASSUME cur.fd \notin open PROVE focus[cur.fd] = MaskLeft
    <3>1. ToSet(SplicedBack) = {}
      BY <1>1, <2>1, <2>2, NodesWait DEF OpenInv
    <3>2. MaskLeft = {}
      BY <3>1 DEF MaskLeft, Mask
    <3> QED BY <1>1, <2>1, <2>2, <3>2 DEF OpenInv, NONE
  <2> QED BY <2>1, <2>2
<1> QED BY <1>1, <1>2, SubscribeWorks

\* The masks in focus_ and in the kernel stay those of the waiters; a closed
\* descriptor stays out of both.
LEMMA KernelStep ==
  ASSUME IInv, [Next]_vars
  PROVE  OpenInv' /\ InterestMatches' /\ NeverTerminated'
<1>1. /\ TypeOK /\ HandlerInv /\ OpenInv /\ InterestMatches /\ NeverTerminated
      /\ focus \in [Fd -> SUBSET Event] /\ interest = focus
      /\ nodes \in [Fd -> Seq(Coro)] /\ kept \in Seq(Coro)
  BY DEF IInv, InterestMatches, TypeOK, PollerTypeOK
<1>2. ASSUME UNCHANGED <<focus, interest, nodes, cur, want>>, pc' # "terminated"
      PROVE  InterestMatches' /\ NeverTerminated'
  <2>1. \A fd \in Fd : Mask(nodes[fd])' = Mask(nodes[fd])
    BY <1>2, MaskSame
  <2> QED BY <1>1, <1>2, <2>1 DEF InterestMatches, NeverTerminated
<1>3. ASSUME focus' = focus, open \subseteq open', \A fd \in Fd : Waiters(fd)' \subseteq Waiters(fd)
      PROVE  OpenInv'
  BY <1>1, <1>3 DEF OpenInv
<1>4. ASSUME UNCHANGED <<pollerVars, nodes, cur, kept, rest, want>>, pc' # "terminated"
      PROVE  OpenInv' /\ InterestMatches' /\ NeverTerminated'
  BY <1>2, <1>3, <1>4, WaitListSame DEF pollerVars
<1>5. ASSUME NEW c \in Coro, CallCoroutine(c) \/ AwaitTask(c) \/ ExpireTimer(c)
      PROVE  OpenInv' /\ InterestMatches' /\ NeverTerminated'
  BY <1>1, <1>4, <1>5
     DEF CallCoroutine, AwaitTask, ExpireTimer, loopVars, nodeVars, handlerVars, NeverTerminated
<1>6. CASE FinishCoroutine \/ ResumeReturns \/ CallRun
  BY <1>1, <1>4, <1>6
     DEF FinishCoroutine, ResumeReturns, CallRun, loopVars, nodeVars, handlerVars,
         NeverTerminated, TypeOK
<1>7. CASE \/ RunIteration \/ ExpireDone \/ BeginPoll \/ BeginSleep \/ WaitTimesOut
           \/ PollInterrupted \/ PollEvents \/ PollDone
  BY <1>4, <1>7
     DEF RunIteration, ExpireDone, BeginPoll, BeginSleep, WaitTimesOut, PollInterrupted,
         PollEvents, PollDone, nodeVars, handlerVars
<1>8. CASE Tick \/ HandlerAcceptAgain \/ Returned \/ UNCHANGED vars
  BY <1>1, <1>4, <1>8
     DEF Tick, HandlerAcceptAgain, Returned, vars, loopVars, nodeVars, handlerVars, NeverTerminated
<1>9. ASSUME NEW d \in Delays, AsyncSleep(d)
      PROVE  OpenInv' /\ InterestMatches' /\ NeverTerminated'
  BY <1>1, <1>4, <1>9 DEF AsyncSleep, loopVars, handlerVars, NeverTerminated
<1>10. ASSUME NEW fd \in Fd, OpenSocket(fd) \/ SocketChanges(fd)
       PROVE  OpenInv' /\ InterestMatches' /\ NeverTerminated'
  <2>1. /\ UNCHANGED <<focus, interest, nodes, cur, kept, rest, want, pc>> /\ open \subseteq open'
    BY <1>10 DEF OpenSocket, SocketChanges, loopVars, nodeVars, handlerVars
  <2> QED BY <1>1, <1>2, <1>3, <2>1, WaitListSame DEF NeverTerminated
<1>11. ASSUME NEW f \in Fd, CloseSocket(f)
       PROVE  OpenInv' /\ InterestMatches' /\ NeverTerminated'
  <2>1. /\ f \in open /\ Waiters(f) = {} /\ focus' = [focus EXCEPT ![f] = NONE]
        /\ interest' = [interest EXCEPT ![f] = NONE] /\ open' = open \ {f}
        /\ UNCHANGED <<nodes, cur, kept, rest, want>>
    BY <1>11 DEF CloseSocket, Focused, nodeVars, handlerVars
  <2>2. pc' = pc
    BY <1>1, <1>11, SubscribeWorks DEF CloseSocket
  <2>3. \A fd \in Fd : Waiters(fd)' = Waiters(fd) /\ Mask(nodes[fd])' = Mask(nodes[fd])
    BY <2>1, WaitListSame, MaskSame
  <2>4. Mask(nodes[f]) = NONE
    <3>1. ToSet(nodes[f]) = {}
      BY <1>1, <2>1, NodesWait
    <3> QED BY <3>1 DEF Mask, NONE
  <2>5. OpenInv'
    BY <1>1, <2>1, <2>3 DEF OpenInv
  <2>6. InterestMatches'
    BY <1>1, <2>1, <2>3, <2>4 DEF InterestMatches
  <2> QED BY <1>1, <2>2, <2>5, <2>6 DEF NeverTerminated
<1>12. ASSUME NEW f \in Fd, NEW a \in Awaits, AsyncAwait(f, a)
       PROVE  OpenInv' /\ InterestMatches' /\ NeverTerminated'
  <2> DEFINE mask == Mask(nodes[f]) \cup a.ev
  <2>1. /\ Running \in Coro
        /\ \A fd \in Fd : Running \notin Waiters(fd)
        /\ \A fd \in Fd : Waiters(fd)' = IF fd = f THEN Waiters(fd) \cup {Running} ELSE Waiters(fd)
    BY <1>12, AwaitAdds
  <2>2. f \in open /\ ~SubscribeThrows(f, mask) /\ Registered(f, mask) = Focused(f, mask)
    BY <1>1, <1>12, SubscribeWorks DEF AsyncAwait
  <2>3. /\ focus' = [focus EXCEPT ![f] = mask] /\ interest' = focus' /\ open' = open
        /\ cur' = cur /\ pc' = pc /\ want' = [want EXCEPT ![Running] = a]
        /\ nodes' = [nodes EXCEPT ![f] = Append(@, Running)]
    BY <1>12, <2>2 DEF AsyncAwait, Focused, handlerVars
  <2> HIDE DEF mask
  <2>4. OpenInv'
    BY <1>1, <2>1, <2>2, <2>3 DEF OpenInv
  <2>5. ASSUME NEW fd \in Fd, fd # cur.fd PROVE focus'[fd] = Mask(nodes[fd])'
    <3>1. Running \notin ToSet(nodes[fd]) /\ nodes[fd] \in Seq(Coro) /\ focus[fd] = Mask(nodes[fd])
      BY <1>1, <2>1, <2>5, NodesWait DEF InterestMatches
    <3>2. CASE fd = f
      <4>1. Mask(nodes[fd])' = UNION {want'[d].ev : d \in ToSet(Append(nodes[fd], Running))}
        BY <1>1, <2>3, <3>2 DEF Mask
      <4>2. Mask(nodes[fd])' = Mask(nodes[fd]) \cup a.ev
        BY <1>1, <2>1, <2>3, <3>1, <4>1, MaskAppend
      <4> QED BY <1>1, <2>3, <3>2, <4>2 DEF mask
    <3>3. CASE fd # f
      <4>1. nodes'[fd] = nodes[fd] /\ \A c \in ToSet(nodes[fd]) : want'[c] = want[c]
        <5>1. ToSet(nodes[fd]) \subseteq Coro /\ want \in [Coro -> Awaits \cup {NoAwait}]
          BY <1>1, <3>1, ToSetType DEF TypeOK
        <5> QED BY <1>1, <2>3, <3>1, <3>3, <5>1
      <4>2. Mask(nodes[fd])' = Mask(nodes[fd])
        BY <4>1, MaskSame
      <4> QED BY <1>1, <2>3, <3>1, <3>3, <4>2
    <3> QED BY <3>2, <3>3
  <2> QED BY <1>1, <2>3, <2>4, <2>5 DEF InterestMatches, NeverTerminated
<1>13. ASSUME AtNode, ResumeNode, open \subseteq open', UNCHANGED <<focus, interest>>
       PROVE  OpenInv' /\ InterestMatches' /\ NeverTerminated'
  <2>1. /\ pc' = "user" /\ UNCHANGED <<nodes, cur>>
        /\ want' = [want EXCEPT ![Head(rest)] = NoAwait]
    BY <1>13 DEF ResumeNode
  <2>2. /\ \A fd \in Fd : Waiters(fd)' \subseteq Waiters(fd)
        /\ \A fd \in Fd : fd # cur.fd => Head(rest) \notin Waiters(fd)
    BY <1>13, ResumeTakes
  <2>3. ASSUME NEW fd \in Fd, fd # cur.fd PROVE Mask(nodes[fd])' = Mask(nodes[fd])
    <3>1. Head(rest) \notin ToSet(nodes[fd])
      BY <1>1, <2>2, <2>3, NodesWait
    <3>2. ToSet(nodes[fd]) \subseteq Coro /\ want \in [Coro -> Awaits \cup {NoAwait}]
      BY <1>1, ToSetType DEF TypeOK
    <3>3. \A c \in ToSet(nodes[fd]) : want'[c] = want[c]
      BY <2>1, <3>1, <3>2
    <3> QED BY <2>1, <3>3, MaskSame
  <2> QED BY <1>1, <1>3, <1>13, <2>1, <2>2, <2>3 DEF InterestMatches, NeverTerminated
<1>14. CASE HandlerBegin
  <2>1. /\ UNCHANGED <<focus, interest, open, want>> /\ pc' = "handler"
        /\ nodes' = [nodes EXCEPT ![cur'.fd] = <<>>] /\ pc = "batch"
    BY <1>14 DEF HandlerBegin, pollerVars
  <2>2. \A fd \in Fd : Waiters(fd)' = Waiters(fd)
    BY <1>14, HandlerKeepsLists DEF Waiters
  <2>3. \A fd \in Fd : fd # cur.fd
    BY <1>1, <2>1, NoHandler DEF InHandler
  <2>4. ASSUME NEW fd \in Fd, fd # cur'.fd PROVE Mask(nodes[fd])' = Mask(nodes[fd])
    <3>1. nodes'[fd] = nodes[fd]
      BY <1>1, <2>1, <2>4
    <3> QED BY <2>1, <3>1, MaskSame
  <2> QED BY <1>1, <1>3, <2>1, <2>2, <2>3, <2>4 DEF InterestMatches, NeverTerminated
<1>15. CASE HandlerSkip
  <2>1. /\ UNCHANGED <<pollerVars, nodes, cur, want, pc>>
    BY <1>15 DEF HandlerSkip, loopVars, nodeVars
  <2>2. \A fd \in Fd : Waiters(fd)' = Waiters(fd)
    BY <1>15, HandlerKeepsLists DEF Waiters
  <2> QED BY <1>1, <1>2, <1>3, <2>1, <2>2 DEF pollerVars, NeverTerminated
<1>16. CASE HandlerEnd
  <2>1. /\ cur.fd \in Fd /\ (cur.fd \notin open => focus[cur.fd] = MaskLeft)
        /\ ~SubscribeThrows(cur.fd, MaskLeft)
        /\ Registered(cur.fd, MaskLeft) = Focused(cur.fd, MaskLeft)
    BY <1>16, KernelCalls DEF HandlerEnd
  <2>2. /\ focus' = [focus EXCEPT ![cur.fd] = MaskLeft] /\ interest' = focus'
        /\ nodes' = [nodes EXCEPT ![cur.fd] = SplicedBack]
        /\ pc' = "batch" /\ UNCHANGED <<open, want>>
    BY <1>16, <2>1 DEF HandlerEnd, Focused
  <2>3. \A fd \in Fd : Waiters(fd)' = Waiters(fd)
    BY <1>16, HandlerKeepsLists DEF Waiters
  <2>4. OpenInv'
    BY <1>1, <2>1, <2>2, <2>3 DEF OpenInv
  <2>5. ASSUME NEW fd \in Fd PROVE focus'[fd] = Mask(nodes[fd])'
    <3>1. CASE fd = cur.fd
      <4>1. nodes'[fd] = SplicedBack /\ focus'[fd] = MaskLeft
        BY <1>1, <2>2, <3>1
      <4> QED BY <2>2, <4>1 DEF Mask, MaskLeft
    <3>2. CASE fd # cur.fd
      <4>1. nodes'[fd] = nodes[fd] /\ focus'[fd] = focus[fd]
        BY <1>1, <2>2, <3>2
      <4> QED BY <1>1, <2>2, <3>2, <4>1, MaskSame DEF InterestMatches
    <3> QED BY <3>1, <3>2
  <2> QED BY <2>2, <2>4, <2>5 DEF InterestMatches, NeverTerminated
<1> QED
  BY <1>5, <1>6, <1>7, <1>8, <1>9, <1>10, <1>11, <1>12, <1>13, <1>14, <1>15, <1>16
     DEF Next, LoopStep, Yield, HandlerResume, HandlerAccept, pollerVars

\* The events still to be handled stay those of open descriptors with nodes.
LEMMA BatchStep ==
  ASSUME IInv, [Next]_vars
  PROVE  BatchInv' /\ EventsFresh'
<1> DEFINE E == [fd : Fd, e : SUBSET Event]
<1>1. /\ TypeOK /\ HandlerInv /\ OpenInv /\ BatchInv /\ EventsFresh /\ InterestMatches
      /\ nodes \in [Fd -> Seq(Coro)] /\ batch \in Seq(E) /\ interest = focus
  BY DEF IInv, InterestMatches, TypeOK
<1>2. \A i \in DOMAIN batch : batch[i].fd \in Fd
  <2>1. \A e \in E : e.fd \in Fd
    OBVIOUS
  <2> HIDE DEF E
  <2>2. \A i \in DOMAIN batch : batch[i] \in E
    BY <1>1
  <2> QED BY <2>1, <2>2
<1>3. ASSUME UNCHANGED <<batch, cur, nodes>>, open \subseteq open'
      PROVE  BatchInv' /\ EventsFresh'
  BY <1>1, <1>3 DEF BatchInv, EventsFresh
<1>4. ASSUME NEW c \in Coro, CallCoroutine(c) \/ AwaitTask(c) \/ ExpireTimer(c)
      PROVE  BatchInv' /\ EventsFresh'
  BY <1>3, <1>4
     DEF CallCoroutine, AwaitTask, ExpireTimer, pollerVars, nodeVars, handlerVars
<1>5. ASSUME NEW d \in Delays, AsyncSleep(d) PROVE BatchInv' /\ EventsFresh'
  BY <1>3, <1>5 DEF AsyncSleep, pollerVars, handlerVars
<1>6. CASE \/ FinishCoroutine \/ ResumeReturns \/ CallRun \/ RunIteration \/ ExpireDone
           \/ BeginPoll \/ BeginSleep \/ WaitTimesOut \/ PollInterrupted \/ PollDone
  BY <1>3, <1>6
     DEF FinishCoroutine, ResumeReturns, CallRun, RunIteration, ExpireDone, BeginPoll, BeginSleep,
         WaitTimesOut, PollInterrupted, PollDone, pollerVars, nodeVars, handlerVars
<1>7. CASE Tick \/ HandlerSkip \/ HandlerAcceptAgain \/ Returned \/ UNCHANGED vars
  BY <1>3, <1>7
     DEF Tick, HandlerSkip, HandlerAcceptAgain, Returned, vars, pollerVars, nodeVars, handlerVars
<1>8. ASSUME NEW fd \in Fd, OpenSocket(fd) \/ SocketChanges(fd) PROVE BatchInv' /\ EventsFresh'
  BY <1>3, <1>8 DEF OpenSocket, SocketChanges, nodeVars, handlerVars
<1>9. ASSUME AtNode, ResumeNode, open \subseteq open' PROVE BatchInv' /\ EventsFresh'
  BY <1>3, <1>9 DEF ResumeNode
<1>10. ASSUME NEW f \in Fd, CloseSocket(f) PROVE BatchInv' /\ EventsFresh'
  <2>1. /\ Waiters(f) = {} /\ open' = open \ {f} /\ UNCHANGED <<batch, cur, nodes>>
    BY <1>10 DEF CloseSocket, nodeVars, handlerVars
  <2>2. nodes[f] = <<>>
    BY <1>1, <2>1, NodesWait
  <2>3. \A i \in DOMAIN batch : batch[i].fd # f
    BY <1>1, <2>2 DEF EventsFresh
  <2> QED BY <1>1, <2>1, <2>3 DEF BatchInv, EventsFresh
<1>11. ASSUME NEW f \in Fd, NEW a \in Awaits, AsyncAwait(f, a) PROVE BatchInv' /\ EventsFresh'
  <2>1. /\ UNCHANGED <<open, batch, cur>> /\ nodes' = [nodes EXCEPT ![f] = Append(@, Running)]
        /\ Running \in Coro
    BY <1>11, AwaitAdds DEF AsyncAwait, handlerVars
  <2>2. \A s \in Seq(Coro), c \in Coro : Append(s, c) # <<>>
    BY AppendProperties
  <2>3. \A fd \in Fd : nodes[fd] # <<>> => nodes'[fd] # <<>>
    BY <1>1, <2>1, <2>2
  <2> QED BY <1>1, <1>2, <2>1, <2>3 DEF BatchInv, EventsFresh
<1>12. CASE PollEvents
  <2>1. PICK order \in SetToSeqs(Triggered) :
          batch' = [i \in DOMAIN order |-> [fd |-> order[i], e |-> Reportable(order[i])]]
    BY <1>12 DEF PollEvents
  <2>2. order \in [1..Cardinality(Triggered) -> Triggered]
        /\ \A i, j \in 1..Cardinality(Triggered) : i # j => order[i] # order[j]
    BY <2>1 DEF SetToSeqs
  <2>3. /\ DOMAIN batch' = 1..Cardinality(Triggered)
        /\ \A i \in DOMAIN batch' : batch'[i].fd = order[i]
    BY <2>1, <2>2
  <2>4. pc = "poll" /\ UNCHANGED <<open, nodes, cur>>
    BY <1>12 DEF PollEvents, pollerVars, nodeVars
  <2>5. cur.fd = NoFd /\ \A fd \in Fd : WaitList(fd) = nodes[fd] /\ fd # cur.fd
    BY <1>1, <2>4, NoHandler DEF InHandler
  <2>6. ASSUME NEW fd \in Triggered PROVE fd \in Fd /\ fd \in open /\ nodes[fd] # <<>>
    <3>1. fd \in Fd /\ focus[fd] # NONE
      BY <1>1 DEF Triggered
    <3>2. Mask(nodes[fd]) # {}
      BY <1>1, <2>5, <3>1 DEF InterestMatches, NONE
    <3>3. ToSet(nodes[fd]) # {}
      BY <3>2 DEF Mask
    <3>4. nodes[fd] # <<>>
      BY <1>1, <3>1, <3>3, NodesWait
    <3> QED BY <1>1, <3>1, <3>4 DEF OpenInv
  <2>7. BatchInv'
    BY <2>2, <2>3, <2>4, <2>5, <2>6 DEF BatchInv
  <2>8. EventsFresh'
    BY <2>2, <2>3, <2>4, <2>6 DEF EventsFresh
  <2> QED BY <2>7, <2>8
<1>13. CASE HandlerBegin
  <2>1. /\ batch # <<>> /\ cur' = Head(batch) /\ batch' = Tail(batch) /\ open' = open
        /\ nodes' = [nodes EXCEPT ![cur'.fd] = <<>>]
    BY <1>13 DEF HandlerBegin, pollerVars
  <2> HIDE DEF E
  <2>2. /\ 1 \in DOMAIN batch /\ cur' = batch[1]
        /\ \A i \in DOMAIN batch' : i + 1 \in DOMAIN batch /\ batch'[i] = batch[i + 1] /\ i + 1 # 1
        /\ \A i, j \in DOMAIN batch' : i + 1 = j + 1 => i = j
    BY <1>1, <2>1
  <2>3. BatchInv'
    <3>1. ASSUME NEW i \in DOMAIN batch', NEW j \in DOMAIN batch', batch'[i].fd = batch'[j].fd
          PROVE  i = j
      BY <1>1, <2>2, <3>1 DEF BatchInv
    <3>2. ASSUME NEW i \in DOMAIN batch' PROVE batch'[i].fd # cur'.fd
      BY <1>1, <2>2 DEF BatchInv
    <3> QED BY <3>1, <3>2 DEF BatchInv
  <2>4. ASSUME NEW i \in DOMAIN batch' PROVE batch'[i].fd \in open' /\ nodes'[batch'[i].fd] # <<>>
    <3>1. batch'[i].fd # cur'.fd /\ batch'[i].fd \in Fd
      BY <1>2, <2>2, <2>3 DEF BatchInv
    <3>2. batch'[i].fd \in open /\ nodes[batch'[i].fd] # <<>>
      BY <1>1, <2>2 DEF EventsFresh
    <3> QED BY <1>1, <2>1, <3>1, <3>2
  <2> QED BY <2>3, <2>4 DEF EventsFresh
<1>14. CASE HandlerEnd
  <2>1. /\ cur' = NoEvent /\ UNCHANGED <<open, batch>>
        /\ nodes' = [nodes EXCEPT ![cur.fd] = SplicedBack]
    BY <1>14 DEF HandlerEnd
  <2>2. NoFd \notin Fd
    BY SchedulerAssumption
  <2> QED BY <1>1, <1>2, <2>1, <2>2 DEF BatchInv, EventsFresh, NoEvent
<1> QED
  BY <1>4, <1>5, <1>6, <1>7, <1>8, <1>9, <1>10, <1>11, <1>12, <1>13, <1>14
     DEF Next, LoopStep, Yield, HandlerResume, HandlerAccept, pollerVars

-----------------------------------------------------------------------------
(* The wait of the thread                                                  *)

\* Whether the thread sleeps or polls, and how long, suits who waits.
LEMMA WaitStep ==
  ASSUME IInv, [Next]_vars
  PROVE  WaitsTheRightWay' /\ NoOversleep'
<1>1. /\ TypeOK /\ StackInv /\ HandlerInv /\ OneNode /\ CountMatches /\ NeverTerminated
      /\ WaitsTheRightWay /\ NoOversleep /\ timers \in SUBSET Coro
      /\ \A c \in timers : deadline[c] \in Nat
      /\ now \in Nat /\ wake \in Int /\ coroCount \in Nat
  BY DEF IInv, TypeOK
<1>2. ASSUME pc' \notin {"poll", "sleep"} PROVE WaitsTheRightWay' /\ NoOversleep'
  BY <1>2 DEF WaitsTheRightWay, NoOversleep
<1>3. CASE BeginPoll \/ BeginSleep
  <2>1. /\ pc = "period" /\ UNCHANGED <<nodes, timers, deadline, now>>
    BY <1>3 DEF BeginPoll, BeginSleep, nodeVars
  <2>2. \A fd \in Fd : WaitList(fd) = nodes[fd]
    BY <1>1, <2>1, NoHandler DEF InHandler
  <2>3. \A fd \in Fd : Waiters(fd) = ToSet(nodes[fd]) /\ (nodes[fd] = <<>> <=> ToSet(nodes[fd]) = {})
    BY <1>1, <2>2, NodesWait DEF Waiters
  <2>4. /\ IsFiniteSet(Parked) /\ timers \in SUBSET Parked /\ coroCount = Cardinality(Parked)
        /\ Cardinality(Parked) \in Nat /\ Cardinality(timers) \in Nat
    <3>1. Parked \in SUBSET Coro /\ timers \in SUBSET Parked
      BY <1>1 DEF Parked, OneNode
    <3>2. IsFiniteSet(Parked) /\ IsFiniteSet(timers)
      BY <1>1, <3>1, FS_Subset, SchedulerAssumption
    <3>3. Cardinality(Parked) \in Nat /\ Cardinality(timers) \in Nat
      BY <3>2, FS_CardinalityType
    <3> QED BY <1>1, <2>1, <3>1, <3>2, <3>3 DEF CountMatches, InFlight
  <2>5. TimeLeft \in Int /\ \A c \in timers : now + TimeLeft <= deadline[c]
    BY <1>1, TimeLeftBound
  <2>6. CASE BeginSleep
    <3>1. Cardinality(Parked) <= Cardinality(timers) /\ Cardinality(timers) <= Cardinality(Parked)
      BY <2>4, <2>6, FS_Subset DEF BeginSleep
    <3>2. Parked = timers
      BY <2>4, <3>1, FS_Subset
    <3>3. ASSUME NEW fd \in Fd PROVE nodes[fd] = <<>>
      <4>1. SUFFICES ASSUME NEW c \in Waiters(fd) PROVE FALSE
        BY <2>3
      <4>2. c \in Coro /\ cs[c] = "fd"
        BY <1>1, WaitListType DEF OneNode
      <4>3. c \in Parked /\ c \notin timers
        BY <1>1, <4>2 DEF Parked, OneNode
      <4> QED BY <3>2, <4>3
    <3>4. pc' = "sleep" /\ wake' = now + TimeLeft
      BY <2>6 DEF BeginSleep
    <3>5. WaitsTheRightWay'
      BY <2>1, <3>3, <3>4 DEF WaitsTheRightWay
    <3>6. NoOversleep'
      BY <2>1, <2>5, <3>4 DEF NoOversleep
    <3> QED BY <3>5, <3>6
  <2>7. CASE BeginPoll
    <3>1. /\ pc' = IF Truncated(TimeLeft) < 0 THEN "run" ELSE "poll"
          /\ wake' = now + Truncated(TimeLeft) /\ coroCount > Cardinality(timers)
      BY <2>7 DEF BeginPoll
    <3>2. Parked # timers
      BY <2>4, <3>1
    <3>3. PICK c \in Parked : c \notin timers
      BY <2>4, <3>2
    <3>4. c \in Coro /\ cs[c] = "fd"
      BY <1>1, <3>3 DEF Parked, OneNode
    <3>5. \E fd \in Fd : nodes[fd] # <<>>
      BY <1>1, <2>3, <3>4 DEF OneNode
    <3>6. WaitsTheRightWay'
      BY <2>1, <3>1, <3>5 DEF WaitsTheRightWay
    <3>7. ASSUME pc' = "poll", NEW d \in timers PROVE wake' <= deadline[d] \/ wake' <= now
      <4>1. /\ Truncated(TimeLeft) \in Int
            /\ TimeLeft >= 0 => Truncated(TimeLeft) <= TimeLeft
            /\ TimeLeft < 0 => Truncated(TimeLeft) <= 0
        BY <2>5, TruncatedBound
      <4>2. now + TimeLeft <= deadline[d] /\ deadline[d] \in Nat
        BY <1>1, <2>5
      <4> QED BY <1>1, <2>5, <3>1, <4>1, <4>2
    <3>8. NoOversleep'
      BY <2>1, <3>1, <3>7 DEF NoOversleep
    <3> QED BY <3>6, <3>8
  <2> QED BY <1>3, <2>6, <2>7
<1>4. CASE Tick
  <2>1. now' = now + 1 /\ UNCHANGED <<pc, wake, nodes, timers, deadline>>
    BY <1>4 DEF Tick, loopVars, nodeVars
  <2>2. WaitsTheRightWay'
    BY <1>1, <2>1 DEF WaitsTheRightWay
  <2>3. NoOversleep'
    BY <1>1, <2>1 DEF NoOversleep
  <2> QED BY <2>2, <2>3
<1>5. ASSUME UNCHANGED <<loopVars, nodes, timers, deadline, now>>
      PROVE  WaitsTheRightWay' /\ NoOversleep'
  BY <1>1, <1>5 DEF WaitsTheRightWay, NoOversleep, loopVars
<1>6. ASSUME NEW fd \in Fd, SocketChanges(fd) PROVE WaitsTheRightWay' /\ NoOversleep'
  BY <1>5, <1>6 DEF SocketChanges, nodeVars
<1>7. CASE HandlerAcceptAgain \/ Returned \/ UNCHANGED vars
  BY <1>5, <1>7 DEF HandlerAcceptAgain, Returned, vars, nodeVars, loopVars
<1>8. CASE \/ RunIteration \/ ExpireDone \/ WaitTimesOut \/ PollInterrupted \/ PollEvents \/ PollDone
           \/ ResumeReturns \/ CallRun \/ HandlerBegin \/ HandlerEnd \/ FinishCoroutine
  BY <1>1, <1>2, <1>8
     DEF RunIteration, ExpireDone, WaitTimesOut, PollInterrupted, PollEvents, PollDone,
         ResumeReturns, CallRun, HandlerBegin, HandlerEnd, FinishCoroutine, InCoroutine, InUser,
         loopVars, TypeOK
<1>9. CASE HandlerSkip
  BY <1>2, <1>9 DEF HandlerSkip, AtNode, loopVars
<1>10. ASSUME ResumeNode PROVE WaitsTheRightWay' /\ NoOversleep'
  BY <1>2, <1>10 DEF ResumeNode
<1>11. ASSUME NEW c \in Coro, CallCoroutine(c) \/ AwaitTask(c) \/ ExpireTimer(c)
       PROVE  WaitsTheRightWay' /\ NoOversleep'
  BY <1>2, <1>11
     DEF CallCoroutine, AwaitTask, ExpireTimer, InUserCode, InCoroutine, InUser, loopVars
<1>12. ASSUME NEW d \in Delays, AsyncSleep(d) PROVE WaitsTheRightWay' /\ NoOversleep'
  BY <1>2, <1>12 DEF AsyncSleep, InCoroutine, InUser, loopVars
<1>13. ASSUME NEW fd \in Fd, OpenSocket(fd) \/ CloseSocket(fd)
       PROVE  WaitsTheRightWay' /\ NoOversleep'
  BY <1>2, <1>13 DEF OpenSocket, CloseSocket, InUserCode, InCoroutine, InUser, loopVars
<1>14. ASSUME NEW fd \in Fd, NEW a \in Awaits, AsyncAwait(fd, a)
       PROVE  WaitsTheRightWay' /\ NoOversleep'
  BY <1>2, <1>14 DEF AsyncAwait, InCoroutine, InUser
<1> QED
  BY <1>3, <1>4, <1>6, <1>7, <1>8, <1>9, <1>10, <1>11, <1>12, <1>13, <1>14
     DEF Next, LoopStep, Yield, HandlerResume, HandlerAccept

-----------------------------------------------------------------------------
(* Waiting for another coroutine                                           *)

\* run() returns at zero.  A coroutine that awaits a task has one that has not
\* finished, and tasks are held in a tree: some coroutine of every set holds
\* the task of no other one of the set.
AwaitInv ==
  /\ pc = "returned" => coroCount = 0
  /\ \A c \in Coro : cs[c] = "joined" => \E d \in Coro : prev[d] = c /\ cs[d] # "done"
  /\ \A c \in Coro : owner[c] \in Coro => cs[owner[c]] # "new"
  /\ \A S \in SUBSET Coro : S # {} => \E c \in S : \A d \in S : owner[d] # c

LEMMA AwaitStep ==
  ASSUME IInv, AwaitInv, [Next]_vars
  PROVE  AwaitInv'
<1>1. /\ TypeOK /\ StackInv /\ JoinInv /\ OneNode /\ interest = focus
      /\ cs \in [Coro -> CoroState]
      /\ prev \in [Coro -> Coro \cup {NoCoro}] /\ owner \in [Coro -> Coro \cup {NoCoro}]
  BY DEF IInv, InterestMatches, TypeOK, TaskTypeOK
<1>2. ASSUME \/ pc' # "returned"
             \/ pc' = pc /\ coroCount' = coroCount
             \/ coroCount' = 0
      PROVE  pc' = "returned" => coroCount' = 0
  BY <1>2 DEF AwaitInv
<1>3. ASSUME UNCHANGED taskVars, pc' = "returned" => coroCount' = 0
      PROVE  AwaitInv'
  BY <1>3 DEF AwaitInv, taskVars
\* A step of the tasks that creates none and ends none.
<1>4. ASSUME NEW c \in Coro, NEW s \in CoroState, cs[c] \notin {"new", "done"},
             s \notin {"new", "done", "joined"}, cs' = [cs EXCEPT ![c] = s],
             UNCHANGED <<prev, owner>>, pc' = "returned" => coroCount' = 0
      PROVE  AwaitInv'
  <2>1. \A d \in Coro : cs'[d] = IF d = c THEN s ELSE cs[d]
    BY <1>1, <1>4
  <2> QED BY <1>1, <1>4, <2>1 DEF AwaitInv
<1>5. ASSUME NEW c \in Coro, CallCoroutine(c) PROVE AwaitInv'
  <2>1. /\ cs[c] = "new" /\ cs' = [cs EXCEPT ![c] = "running"] /\ prev' = prev
        /\ owner' = [owner EXCEPT ![c] = Running] /\ UNCHANGED <<pc, coroCount>>
    BY <1>5 DEF CallCoroutine, Call, loopVars, nodeVars
  <2>2. Running = NoCoro \/ (Running \in Coro /\ cs[Running] = "running")
    <3>1. CASE stack = <<>>
      BY <3>1 DEF Running
    <3>2. CASE stack # <<>>
      BY <1>1, <3>2, RunningFacts
    <3> QED BY <3>1, <3>2
  <2>3. \A d \in Coro : /\ cs'[d] = IF d = c THEN "running" ELSE cs[d]
                        /\ owner'[d] = IF d = c THEN Running ELSE owner[d]
    BY <1>1, <2>1
  <2>4. \A d \in Coro : owner[d] # c /\ owner'[d] # c
    BY <2>1, <2>2, <2>3, NoCoroAssumption DEF AwaitInv
  <2>5. ASSUME NEW S \in SUBSET Coro, S # {} PROVE \E e \in S : \A d \in S : owner'[d] # e
    <3>1. CASE c \in S
      BY <2>4, <3>1
    <3>2. CASE c \notin S
      BY <2>3, <2>5, <3>2 DEF AwaitInv
    <3> QED BY <3>1, <3>2
  <2>6. \A d \in Coro : cs'[d] = "joined" => \E e \in Coro : prev'[e] = d /\ cs'[e] # "done"
    BY <2>1, <2>3 DEF AwaitInv
  <2>7. ASSUME NEW d \in Coro, owner'[d] \in Coro PROVE cs'[owner'[d]] # "new"
    <3>1. CASE d = c
      BY <2>2, <2>3, <2>7, <3>1, NoCoroAssumption
    <3>2. CASE d # c
      <4>1. owner'[d] = owner[d] /\ cs[owner[d]] # "new"
        BY <2>3, <2>7, <3>2 DEF AwaitInv
      <4> QED BY <2>3, <2>7, <4>1
    <3> QED BY <3>1, <3>2
  <2> QED BY <2>1, <2>5, <2>6, <2>7 DEF AwaitInv
<1>6. ASSUME NEW t \in Coro, AwaitTask(t) PROVE AwaitInv'
  <2>1. /\ owner[t] = Running /\ cs[t] \notin {"new", "done"}
        /\ prev' = [prev EXCEPT ![t] = Running] /\ cs' = [cs EXCEPT ![Running] = "joined"]
        /\ stack # <<>> /\ UNCHANGED <<owner, pc, coroCount>>
    BY <1>6 DEF AwaitTask, Join, Suspend, loopVars, nodeVars
  <2>2. Running \in Coro /\ cs[Running] = "running"
    BY <1>1, <2>1, RunningFacts
  <2>3. \A d \in Coro : /\ cs'[d] = IF d = Running THEN "joined" ELSE cs[d]
                        /\ prev'[d] = IF d = t THEN Running ELSE prev[d]
    BY <1>1, <2>1
  <2>4. \A d \in Coro : prev[t] = d => d = Running
    BY <1>1, <2>1, NoCoroAssumption DEF JoinInv
  <2>5. ASSUME NEW c \in Coro, cs'[c] = "joined"
        PROVE  \E d \in Coro : prev'[d] = c /\ cs'[d] # "done"
    <3>1. CASE c = Running
      BY <2>1, <2>3, <3>1
    <3>2. CASE c # Running
      <4>1. PICK d \in Coro : prev[d] = c /\ cs[d] # "done"
        BY <2>3, <2>5, <3>2 DEF AwaitInv
      <4> QED BY <2>3, <2>4, <3>2, <4>1
    <3> QED BY <3>1, <3>2
  <2>6. \A d \in Coro : owner'[d] \in Coro => cs'[owner'[d]] # "new"
    BY <2>1, <2>3 DEF AwaitInv
  <2> QED BY <2>1, <2>5, <2>6 DEF AwaitInv
<1>7. CASE FinishCoroutine
  <2> DEFINE r == Running
             next == prev[r]
  <2>1. stack # <<>> /\ UNCHANGED <<prev, owner, pc, coroCount>>
    BY <1>7 DEF FinishCoroutine, Finish, loopVars, nodeVars
  <2>2. r \in Coro /\ cs[r] = "running"
    BY <1>1, <2>1, RunningFacts
  <2>3. cs' = IF next = NoCoro THEN [cs EXCEPT ![r] = "done"]
              ELSE [cs EXCEPT ![r] = "done", ![next] = "running"]
    BY <1>7 DEF FinishCoroutine, Finish, Continuation
  <2>4. next = NoCoro \/ (next \in Coro /\ next # r)
    BY <1>1, <2>2 DEF JoinInv
  <2>5. \A d \in Coro : cs'[d] = IF d = r THEN "done" ELSE IF d = next THEN "running" ELSE cs[d]
    <3> HIDE DEF r, next
    <3>1. CASE next = NoCoro
      BY <1>1, <2>2, <2>3, <3>1, NoCoroAssumption
    <3>2. CASE next # NoCoro
      BY <1>1, <2>2, <2>3, <2>4, <3>2
    <3> QED BY <3>1, <3>2
  <2>6. ASSUME NEW c \in Coro, cs'[c] = "joined"
        PROVE  \E d \in Coro : prev'[d] = c /\ cs'[d] # "done"
    <3>1. c # r /\ c # next /\ cs[c] = "joined"
      BY <2>5, <2>6
    <3>2. PICK d \in Coro : prev[d] = c /\ cs[d] # "done"
      BY <3>1 DEF AwaitInv
    <3>3. d # r
      BY <3>1, <3>2
    <3> QED BY <2>1, <2>5, <3>2, <3>3
  <2>7. \A d \in Coro : owner'[d] \in Coro => cs'[owner'[d]] # "new"
    BY <2>1, <2>5 DEF AwaitInv
  <2> QED BY <2>1, <2>6, <2>7 DEF AwaitInv
<1>8. ASSUME NEW d \in Delays, AsyncSleep(d) PROVE AwaitInv'
  <2>1. pc = "user" /\ pc' = pc /\ stack # <<>> /\ Suspend("timer") /\ UNCHANGED <<prev, owner>>
    BY <1>8 DEF AsyncSleep, InCoroutine, InUser, loopVars
  <2>2. Running \in Coro /\ cs[Running] = "running"
    BY <1>1, <2>1, RunningFacts
  <2> QED BY <1>4, <2>1, <2>2 DEF Suspend, CoroState
<1>9. ASSUME NEW fd \in Fd, NEW a \in Awaits, AsyncAwait(fd, a) PROVE AwaitInv'
  <2>1. pc' # "returned" /\ stack # <<>> /\ Suspend("fd") /\ UNCHANGED <<prev, owner>>
    BY <1>9 DEF AsyncAwait, InCoroutine, InUser
  <2>2. Running \in Coro /\ cs[Running] = "running"
    BY <1>1, <2>1, RunningFacts
  <2> QED BY <1>4, <2>1, <2>2 DEF Suspend, CoroState
<1>10. ASSUME NEW c \in Coro, cs[c] \in {"timer", "fd"}, Resume(c), pc' = "user" PROVE AwaitInv'
  BY <1>4, <1>10 DEF Resume, CoroState
<1>11. ASSUME NEW c \in Coro, ExpireTimer(c) PROVE AwaitInv'
  BY <1>1, <1>10, <1>11 DEF ExpireTimer, NextTimers, OneNode
<1>12. ASSUME AtNode, ResumeNode PROVE AwaitInv'
  BY <1>10, <1>12, HandlerNode DEF ResumeNode
<1>13. CASE RunIteration
  BY <1>3, <1>13 DEF RunIteration, NothingToDo, nodeVars
<1>14. CASE ResumeReturns
  BY <1>1, <1>3, <1>14 DEF ResumeReturns, TypeOK
<1>15. CASE \/ CallRun \/ ExpireDone \/ BeginPoll \/ BeginSleep \/ WaitTimesOut
            \/ PollInterrupted \/ PollEvents \/ PollDone \/ HandlerBegin \/ HandlerEnd
  BY <1>3, <1>15
     DEF CallRun, ExpireDone, BeginPoll, BeginSleep, WaitTimesOut, PollInterrupted, PollEvents,
         PollDone, HandlerBegin, HandlerEnd
<1>16. CASE HandlerSkip \/ Tick \/ HandlerAcceptAgain \/ Returned \/ UNCHANGED vars
  BY <1>2, <1>3, <1>16
     DEF HandlerSkip, Tick, HandlerAcceptAgain, Returned, vars, loopVars, nodeVars
<1>17. ASSUME NEW fd \in Fd, OpenSocket(fd) \/ CloseSocket(fd) \/ SocketChanges(fd) PROVE AwaitInv'
  BY <1>2, <1>3, <1>17
     DEF OpenSocket, CloseSocket, SocketChanges, InUserCode, InCoroutine, InUser, loopVars, nodeVars
<1> QED
  BY <1>5, <1>6, <1>7, <1>8, <1>9, <1>11, <1>12, <1>13, <1>14, <1>15, <1>16, <1>17
     DEF Next, LoopStep, Yield, HandlerResume, HandlerAccept

\* When the scheduler has nothing to do, nobody is left behind.
LEMMA NobodyLeft ==
  ASSUME IInv, AwaitInv
  PROVE  NothingLeftBehind
<1> SUFFICES ASSUME pc = "returned"
             PROVE  \A c \in Coro : cs[c] \in {"new", "done"}
  BY DEF NothingLeftBehind
<1>1. TypeOK /\ StackInv /\ JoinInv /\ CountMatches /\ cs \in [Coro -> CoroState]
  BY DEF IInv, TypeOK, TaskTypeOK
<1>2. Parked = {}
  <2>1. Cardinality(Parked) = 0
    <3>1. Parked \in SUBSET Coro
      BY DEF Parked
    <3>2. Cardinality(Parked) \in Nat
      BY <3>1, FS_Subset, FS_CardinalityType, SchedulerAssumption
    <3> QED BY <1>1, <3>2 DEF CountMatches, InFlight, AwaitInv
  <2>2. IsFiniteSet(Parked)
    <3>1. Parked \in SUBSET Coro
      BY DEF Parked
    <3> QED BY <3>1, FS_Subset, SchedulerAssumption
  <2> QED BY <2>1, <2>2, FS_EmptySet
<1>3. \A c \in Coro : cs[c] \in {"new", "joined", "done"}
  <2>1. ToSet(<<>>) = {}
    BY DEF ToSet
  <2>2. \A c \in Coro : cs[c] # "running"
    BY <1>1, <2>1 DEF StackInv
  <2> QED BY <1>1, <1>2, <2>2 DEF Parked, CoroState
<1> DEFINE J == {c \in Coro : cs[c] = "joined"}
<1>4. ASSUME NEW c \in J PROVE \E d \in J : owner[d] = c
  <2>1. PICK d \in Coro : prev[d] = c /\ cs[d] # "done"
    BY DEF AwaitInv
  <2>2. cs[d] # "new" /\ owner[d] = c
    BY <1>1, <2>1, NoCoroAssumption DEF JoinInv
  <2> QED BY <1>3, <2>1, <2>2
<1>5. J \in SUBSET Coro
  OBVIOUS
<1> HIDE DEF J
<1>6. J = {}
  BY <1>4, <1>5 DEF AwaitInv
<1> QED BY <1>3, <1>6 DEF J

-----------------------------------------------------------------------------
(* The order of the waiters                                                *)

\* No step changes the order of two coroutines that go on waiting.
LEMMA OrderStep ==
  ASSUME IInv, [Next]_vars, NEW fd \in Fd, NEW c \in Coro, NEW d \in Coro,
         Before(c, d, fd), {c, d} \subseteq Waiters(fd)'
  PROVE  Before(c, d, fd)'
<1>1. ASSUME WaitList(fd)' = WaitList(fd) PROVE Before(c, d, fd)'
  BY <1>1 DEF Before
<1>2. ASSUME UNCHANGED <<nodes, cur, kept, rest>> PROVE Before(c, d, fd)'
  BY <1>1, <1>2, WaitListSame
<1>3. CASE HandlerBegin \/ HandlerSkip \/ HandlerEnd
  BY <1>1, <1>3, HandlerKeepsLists
<1>4. ASSUME NEW f \in Fd, NEW a \in Awaits, AsyncAwait(f, a) PROVE Before(c, d, fd)'
  <2>1. WaitList(fd) \in Seq(Coro) /\ Running \in Coro
    BY <1>4, WaitListType, AwaitAdds DEF IInv
  <2>2. WaitList(fd)' = IF fd = f THEN Append(WaitList(fd), Running) ELSE WaitList(fd)
    BY <1>4, AwaitAppends
  <2>3. PICK i, j \in DOMAIN WaitList(fd) :
          i < j /\ WaitList(fd)[i] = c /\ WaitList(fd)[j] = d
    BY DEF Before
  <2>4. \A i0 \in DOMAIN WaitList(fd) :
          /\ i0 \in DOMAIN Append(WaitList(fd), Running)
          /\ Append(WaitList(fd), Running)[i0] = WaitList(fd)[i0]
    BY <2>1
  <2> QED BY <2>2, <2>3, <2>4 DEF Before
<1>5. ASSUME AtNode, ResumeNode PROVE Before(c, d, fd)'
  <2>1. CASE fd # cur.fd
    BY <1>1, <1>5, <2>1, ResumeRemoves
  <2>2. CASE fd = cur.fd
    <3>1. /\ kept \in Seq(Coro) /\ rest \in Seq(Coro) /\ nodes[fd] \in Seq(Coro) /\ rest # <<>>
      BY <1>5 DEF IInv, TypeOK, AtNode
    <3>2. WaitList(fd) = kept \o rest \o nodes[fd] /\ WaitList(fd)' = kept \o Tail(rest) \o nodes[fd]
      BY <1>5, <2>2, ResumeRemoves DEF WaitList
    <3> DEFINE a == kept
               b == rest
               e == nodes[fd]
               u == WaitList(fd)
               v == WaitList(fd)'
               k == Len(a) + 1
               n == Len(u)
    <3>3. /\ a \in Seq(Coro) /\ b \in Seq(Coro) /\ e \in Seq(Coro) /\ b # <<>>
          /\ u = a \o b \o e /\ v = a \o Tail(b) \o e
      BY <3>1, <3>2
    <3>4. /\ c # Head(b) /\ d # Head(b)
          /\ \E i, j \in DOMAIN u : i < j /\ u[i] = c /\ u[j] = d
      BY <1>5, <2>2, ResumeTakes DEF Before
    <3> HIDE DEF a, b, e, u, v
    <3>5. /\ n \in Nat /\ k \in 1..n /\ u[k] = Head(b) /\ DOMAIN u = 1..n /\ DOMAIN v = 1..(n - 1)
          /\ \A i \in 1..(n - 1) : v[i] = IF i < k THEN u[i] ELSE u[i + 1]
      BY <3>3, RemoveHeadIndex
    <3> HIDE DEF k, n
    <3>6. PICK i, j \in DOMAIN u : i < j /\ u[i] = c /\ u[j] = d
      BY <3>4
    <3>7. i \in 1..n /\ j \in 1..n /\ i < j /\ i # k /\ j # k
      BY <3>4, <3>5, <3>6
    <3> DEFINE at(m) == IF m < k THEN m ELSE m - 1
    <3>8. ASSUME NEW m \in 1..n, m # k PROVE at(m) \in 1..(n - 1) /\ v[at(m)] = u[m]
      <4>1. CASE m < k
        BY <3>5, <4>1
      <4>2. CASE m > k
        <5>1. m - 1 \in 1..(n - 1) /\ ~(m - 1 < k) /\ (m - 1) + 1 = m /\ at(m) = m - 1
          BY <3>5, <4>2
        <5>2. v[m - 1] = u[m]
          BY <3>5, <5>1
        <5> QED BY <5>1, <5>2
      <4> QED BY <3>5, <3>8, <4>1, <4>2
    <3>9. at(i) < at(j)
      BY <3>5, <3>7
    <3>10. at(i) \in DOMAIN v /\ v[at(i)] = c /\ at(j) \in DOMAIN v /\ v[at(j)] = d
      BY <3>5, <3>6, <3>7, <3>8
    <3> HIDE DEF at
    <3>11. \E p, q \in DOMAIN v : p < q /\ v[p] = c /\ v[q] = d
      BY <3>9, <3>10
    <3> QED BY <3>11 DEF Before, v
  <2> QED BY <2>1, <2>2
<1>6. CASE \/ CallRun \/ RunIteration \/ ExpireDone \/ BeginPoll \/ BeginSleep \/ WaitTimesOut
           \/ PollInterrupted \/ PollEvents \/ PollDone \/ ResumeReturns \/ FinishCoroutine
           \/ Tick \/ HandlerAcceptAgain \/ Returned \/ UNCHANGED vars
  BY <1>2, <1>6
     DEF CallRun, RunIteration, ExpireDone, BeginPoll, BeginSleep, WaitTimesOut, PollInterrupted,
         PollEvents, PollDone, ResumeReturns, FinishCoroutine, Tick, HandlerAcceptAgain, Returned,
         vars, nodeVars, handlerVars
<1>7. ASSUME NEW e \in Coro, CallCoroutine(e) \/ AwaitTask(e) \/ ExpireTimer(e)
      PROVE  Before(c, d, fd)'
  BY <1>2, <1>7 DEF CallCoroutine, AwaitTask, ExpireTimer, nodeVars, handlerVars
<1>8. ASSUME NEW t \in Delays, AsyncSleep(t) PROVE Before(c, d, fd)'
  BY <1>2, <1>8 DEF AsyncSleep, handlerVars
<1>9. ASSUME NEW f \in Fd, OpenSocket(f) \/ CloseSocket(f) \/ SocketChanges(f)
      PROVE  Before(c, d, fd)'
  BY <1>2, <1>9 DEF OpenSocket, CloseSocket, SocketChanges, nodeVars, handlerVars
<1> QED
  BY <1>3, <1>4, <1>5, <1>6, <1>7, <1>8, <1>9
     DEF Next, LoopStep, Yield, HandlerResume, HandlerAccept

-----------------------------------------------------------------------------
(* The theorems                                                            *)

\* The program starts with nothing posted and nothing open.
LEMMA InitStep ==
  ASSUME Init
  PROVE  IInv /\ AwaitInv
<1> USE DEF Init, PollerInit, TaskInit
<1>1. /\ ToSet(<<>>) = {} /\ IsInjective(<<>>) /\ DOMAIN <<>> = {}
      /\ \A S : <<>> \in Seq(S)
      /\ <<>> \o <<>> \o <<>> = <<>>
  BY DEF ToSet, IsInjective
<1>2. TypeOK
  <2>1. PollerTypeOK
    BY DEF PollerTypeOK, NONE
  <2>2. TaskTypeOK
    BY <1>1 DEF TaskTypeOK, CoroState
  <2>3. batch \in Seq([fd : Fd, e : SUBSET Event]) /\ cur \in [fd : Fd \cup {NoFd}, e : SUBSET Event]
    BY <1>1 DEF NoEvent, NONE
  <2>4. /\ nodes \in [Fd -> Seq(Coro)] /\ kept \in Seq(Coro) /\ rest \in Seq(Coro)
        /\ want \in [Coro -> Awaits \cup {NoAwait}] /\ deadline \in [Coro -> Nat]
    BY <1>1
  <2>5. expired \in BOOLEAN
    OBVIOUS
  <2>6. /\ pc = "user" /\ caller = "main" /\ coroCount \in Nat /\ timers \in SUBSET Coro
        /\ now \in Nat /\ wake \in Int
    OBVIOUS
  <2> HIDE DEF Init
  <2> QED BY <2>1, <2>2, <2>3, <2>4, <2>5, <2>6 DEF TypeOK
<1>3. \A fd \in Fd : WaitList(fd) = <<>> /\ Waiters(fd) = {} /\ Mask(nodes[fd]) = NONE
  BY <1>1 DEF WaitList, Waiters, Mask, NONE
<1>4. StackInv /\ JoinInv /\ HandlerInv /\ OpenInv /\ BatchInv
  BY <1>1, <1>3 DEF StackInv, JoinInv, HandlerInv, InHandler, OpenInv, BatchInv
<1>5. OneNode
  BY <1>1, <1>3 DEF OneNode
<1>6. CountMatches
  <2>1. Parked = {} /\ InFlight = 0
    BY DEF Parked, InFlight
  <2> QED BY <2>1, FS_EmptySet DEF CountMatches
<1>7. InterestMatches /\ NeverTerminated /\ EventsFresh /\ WaitsTheRightWay /\ NoOversleep
  BY <1>1, <1>3 DEF InterestMatches, NeverTerminated, EventsFresh, WaitsTheRightWay, NoOversleep
<1>8. AwaitInv
  BY NoCoroAssumption DEF AwaitInv
<1> QED BY <1>2, <1>4, <1>5, <1>6, <1>7, <1>8 DEF IInv

\* The inductive invariant of the scheduler: what each of the theorems below
\* rests on, for every finite set of coroutines and of descriptors.
THEOREM Inductive == Spec => [](IInv /\ AwaitInv)
<1>1. Init => IInv /\ AwaitInv
  BY InitStep
<1>2. IInv /\ AwaitInv /\ [Next]_vars => IInv' /\ AwaitInv'
  <2> SUFFICES ASSUME IInv, AwaitInv, [Next]_vars PROVE IInv' /\ AwaitInv'
    OBVIOUS
  <2>1. TypeOK' /\ StackInv' /\ JoinInv' /\ HandlerInv'
    BY TypeStep, CoroutineStep, HandlerStep
  <2>2. OneNode' /\ CountMatches' /\ OpenInv' /\ InterestMatches' /\ NeverTerminated'
    BY NodeStep, KernelStep
  <2>3. BatchInv' /\ EventsFresh' /\ WaitsTheRightWay' /\ NoOversleep'
    BY BatchStep, WaitStep
  <2>4. AwaitInv'
    BY AwaitStep
  <2> QED BY <2>1, <2>2, <2>3, <2>4 DEF IInv
<1> QED BY <1>1, <1>2, PTL DEF Spec

\* Every variable of the scheduler, the poller and the tasks keeps its type;
\* coro_count_, an unsigned number in the code, never goes below zero.
THEOREM TypeCorrect == Spec => []TypeOK
<1>1. IInv => TypeOK
  BY DEF IInv
<1> QED BY <1>1, Inductive, PTL

\* A suspended coroutine is in exactly one of the scheduler's lists, once: none
\* is resumed twice for one wait and none waits unrecorded.
THEOREM ResumedOnce == Spec => []OneNode
<1>1. IInv => OneNode
  BY DEF IInv
<1> QED BY <1>1, Inductive, PTL

\* coro_count_ counts the coroutines still to be resumed, so that run() neither
\* returns early nor goes on for nothing.
THEOREM CountExact == Spec => []CountMatches
<1>1. IInv => CountMatches
  BY DEF IInv
<1> QED BY <1>1, Inductive, PTL

\* focus_, the kernel and the waiters of every descriptor agree, through closed
\* and reused descriptor numbers.
THEOREM InterestExact == Spec => []InterestMatches
<1>1. IInv => InterestMatches
  BY DEF IInv
<1> QED BY <1>1, Inductive, PTL

\* No call of poller::subscribe throws, so none ends the program.
THEOREM SubscribeNeverThrows == Spec => []NeverTerminated
<1>1. IInv => NeverTerminated
  BY DEF IInv
<1> QED BY <1>1, Inductive, PTL

\* An event of a batch still concerns an open socket with a waiter when the
\* events before it have been handled.
THEOREM BatchFresh == Spec => []EventsFresh
<1>1. IInv => EventsFresh
  BY DEF IInv
<1> QED BY <1>1, Inductive, PTL

\* The thread sleeps only when nobody waits on a descriptor, and polls only when
\* somebody does.
THEOREM RightWait == Spec => []WaitsTheRightWay
<1>1. IInv => WaitsTheRightWay
  BY DEF IInv
<1> QED BY <1>1, Inductive, PTL

\* The timeout run() computes never reaches past the next deadline.
THEOREM NeverOversleeps == Spec => []NoOversleep
<1>1. IInv => NoOversleep
  BY DEF IInv
<1> QED BY <1>1, Inductive, PTL

\* run() returns only when every coroutine has finished, those that only await
\* other coroutines and that coro_count_ does not count included.
THEOREM AllFinished == Spec => []NothingLeftBehind
<1>1. IInv /\ AwaitInv => NothingLeftBehind
  BY NobodyLeft
<1> QED BY <1>1, Inductive, PTL

\* The waiters of a descriptor keep their order through the handler's work.
THEOREM OrderKept == Spec => WaitOrderStable
<1>1. IInv /\ [Next]_vars =>
        [\A fd \in Fd, c, d \in Coro :
           /\ Before(c, d, fd)
           /\ {c, d} \subseteq Waiters(fd)'
           => Before(c, d, fd)']_vars
  BY OrderStep
<1> QED BY <1>1, Inductive, PTL DEF Spec, WaitOrderStable

=============================================================================
