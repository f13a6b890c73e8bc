--------------------------- MODULE ExecutorProofs ---------------------------
(***************************************************************************)
(* The scheduler keeps the promise of Executor, for every set of           *)
(* coroutines and descriptors: each of its steps is a step of Executor or  *)
(* changes nothing Executor knows of.                                      *)
(***************************************************************************)
EXTENDS SchedulerProofs

-----------------------------------------------------------------------------
(* The mapping                                                             *)

\* What Executor sees depends on these variables only.
LEMMA NothingSeen ==
  ASSUME UNCHANGED <<timers, deadline, nodes, want, batch, cur, kept, rest, ready, now>>,
         pc' = "returned" <=> pc = "returned"
  PROVE  UNCHANGED Executor!vars
<1>1. \A fd \in Fd : Waiters(fd)' = Waiters(fd) /\ Reported(fd)' = Reported(fd)
  BY DEF Waiters, WaitList, Reported
<1>2. Owed' = Owed
  BY <1>1 DEF Owed
<1> QED BY <1>1, <1>2 DEF Executor!vars, Executor!waits

\* Outside the handling of a batch there is no batch.
BatchIdle == batch # <<>> => pc = "batch" \/ InHandler

LEMMA IdleStep ==
  ASSUME IInv, BatchIdle, [Next]_vars
  PROVE  BatchIdle'
<1>1. /\ TypeOK /\ interest = focus /\ OpenInv
  BY DEF IInv, InterestMatches
<1>2. ASSUME batch' = batch, InHandler' = InHandler, pc = "batch" => pc' = "batch"
      PROVE  BatchIdle'
  BY <1>2 DEF BatchIdle
<1>3. ASSUME NEW fd \in Fd, NEW a \in Awaits, AsyncAwait(fd, a) PROVE BatchIdle'
  <2>1. pc' = pc
    BY <1>1, <1>3, SubscribeWorks DEF AsyncAwait
  <2> QED BY <1>2, <1>3, <2>1 DEF AsyncAwait, InHandler, handlerVars
<1>4. ASSUME NEW fd \in Fd, CloseSocket(fd) PROVE BatchIdle'
  <2>1. pc' = pc
    BY <1>1, <1>4, SubscribeWorks DEF CloseSocket
  <2> QED BY <1>2, <1>4, <2>1 DEF CloseSocket, InHandler, handlerVars
<1>5. CASE HandlerEnd
  <2>1. pc' = "batch"
    BY <1>5, KernelCalls DEF HandlerEnd
  <2> QED BY <2>1 DEF BatchIdle
<1>6. CASE PollEvents \/ HandlerBegin \/ HandlerResume \/ HandlerAccept \/ PollDone
  BY <1>6 DEF PollEvents, HandlerBegin, HandlerResume, HandlerAccept, ResumeNode, PollDone,
              BatchIdle, InHandler, handlerVars
<1>7. CASE HandlerSkip \/ Tick \/ HandlerAcceptAgain \/ Returned \/ UNCHANGED vars
  BY <1>2, <1>7
     DEF HandlerSkip, Tick, HandlerAcceptAgain, Returned, vars, loopVars, handlerVars, InHandler
<1>8. CASE \/ CallRun \/ RunIteration \/ ExpireDone \/ BeginPoll \/ BeginSleep \/ WaitTimesOut
           \/ PollInterrupted \/ ResumeReturns \/ FinishCoroutine
  BY <1>2, <1>8
     DEF CallRun, RunIteration, ExpireDone, BeginPoll, BeginSleep, WaitTimesOut, PollInterrupted,
         ResumeReturns, FinishCoroutine, InUser, InHandler, loopVars, handlerVars
<1>9. ASSUME NEW c \in Coro, CallCoroutine(c) \/ AwaitTask(c) \/ ExpireTimer(c)
      PROVE  BatchIdle'
  BY <1>2, <1>9 DEF CallCoroutine, AwaitTask, ExpireTimer, loopVars, handlerVars, InHandler
<1>10. ASSUME NEW d \in Delays, AsyncSleep(d) PROVE BatchIdle'
  BY <1>2, <1>10 DEF AsyncSleep, loopVars, handlerVars, InHandler
<1>11. ASSUME NEW fd \in Fd, OpenSocket(fd) \/ SocketChanges(fd) PROVE BatchIdle'
  BY <1>2, <1>11 DEF OpenSocket, SocketChanges, loopVars, handlerVars, InHandler
<1> QED
  BY <1>3, <1>4, <1>5, <1>6, <1>7, <1>8, <1>9, <1>10, <1>11
     DEF Next, LoopStep, Yield

\* The rest of the handler's list is part of what waits on its descriptor.
LEMMA RestWaits ==
  ASSUME IInv
  PROVE  /\ ToSet(rest) \subseteq Coro
         /\ \A c \in ToSet(rest) : cur.fd \in Fd /\ c \in Waiters(cur.fd)
<1>1. /\ TypeOK /\ HandlerInv /\ kept \in Seq(Coro) /\ rest \in Seq(Coro)
      /\ nodes \in [Fd -> Seq(Coro)]
  BY DEF IInv, TypeOK
<1>2. ToSet(rest) \subseteq Coro /\ (rest = <<>> => ToSet(rest) = {})
  BY <1>1, ToSetType
<1>3. ASSUME rest # <<>>
      PROVE  cur.fd \in Fd /\ ToSet(rest) \subseteq Waiters(cur.fd)
  <2>1. cur.fd \in Fd /\ nodes[cur.fd] \in Seq(Coro)
    BY <1>1, <1>3 DEF HandlerInv
  <2> DEFINE u == kept \o rest
             d == nodes[cur.fd]
  <2>2. u \in Seq(Coro) /\ d \in Seq(Coro) /\ ToSet(u) = ToSet(kept) \cup ToSet(rest)
    BY <1>1, <2>1, ToSetConcat
  <2>3. Waiters(cur.fd) = ToSet(u \o d)
    BY DEF Waiters, WaitList
  <2> HIDE DEF u, d
  <2>4. ToSet(u \o d) = ToSet(u) \cup ToSet(d)
    BY <2>2, ToSetConcat
  <2> QED BY <2>1, <2>2, <2>3, <2>4
<1> QED BY <1>2, <1>3

\* Nothing is owed and nothing left of a report outside the handling of a batch.
LEMMA SettledIdle ==
  ASSUME IInv, BatchIdle, pc # "batch", ~InHandler
  PROVE  Executor!Settled
<1>1. batch = <<>> /\ rest = <<>>
  BY DEF BatchIdle, IInv, HandlerInv
<1>2. \A fd \in Fd : Reported(fd) = {}
  BY <1>1 DEF Reported
<1>3. ToSet(rest) = {}
  BY <1>1 DEF ToSet
<1>4. Owed = {}
  BY <1>2, <1>3 DEF Owed, NONE
<1> QED BY <1>2, <1>4 DEF Executor!Settled, Executor!Nothing

-----------------------------------------------------------------------------
(* The steps                                                               *)

\* A timer that expires is the first of the sleepers to be resumed.
LEMMA TimerStep ==
  ASSUME IInv, BatchIdle, NEW c \in Coro, ExpireTimer(c)
  PROVE  Executor!WakeSleeper(c)
<1>1. /\ pc = "expire" /\ pc' = "user" /\ ~InHandler
      /\ c \in timers /\ \A d \in timers : deadline[c] <= deadline[d]
      /\ deadline[c] <= now /\ timers' = timers \ {c}
      /\ deadline' = [deadline EXCEPT ![c] = 0]
      /\ UNCHANGED <<nodes, want, batch, cur, kept, rest, ready, now>>
  BY DEF ExpireTimer, NextTimers, TimersAfter, InHandler, pollerVars, handlerVars
<1>2. Executor!Settled
  BY <1>1, SettledIdle
<1>3. \A fd \in Fd : Waiters(fd)' = Waiters(fd) /\ Reported(fd)' = Reported(fd)
  BY <1>1 DEF Waiters, WaitList, Reported
<1>4. Owed' = Owed
  BY <1>1, <1>3 DEF Owed
<1> QED BY <1>1, <1>2, <1>3, <1>4 DEF Executor!WakeSleeper

\* co_await async_sleep.
LEMMA SleepStep ==
  ASSUME IInv, NEW d \in Delays, AsyncSleep(d)
  PROVE  \E c \in Coro : Executor!Sleep(c)
<1>1. /\ pc = "user" /\ pc' = pc /\ timers' = timers \cup {Running}
      /\ deadline' = [deadline EXCEPT ![Running] = now + d]
      /\ UNCHANGED <<nodes, want, batch, cur, kept, rest, ready, now>>
  BY DEF AsyncSleep, InCoroutine, InUser, pollerVars, loopVars, handlerVars
<1>2. TypeOK /\ StackInv /\ OneNode
  BY DEF IInv
<1>3. Running \in Coro /\ cs[Running] = "running"
  BY <1>2, RunningFacts DEF AsyncSleep, InCoroutine
<1>4. Executor!Free(Running)
  BY <1>2, <1>3 DEF OneNode, Executor!Free
<1>5. deadline'[Running] = now + d /\ now + d > now
  BY <1>1, <1>2, <1>3, SchedulerAssumption DEF TypeOK
<1>6. \A fd \in Fd : Waiters(fd)' = Waiters(fd) /\ Reported(fd)' = Reported(fd)
  BY <1>1 DEF Waiters, WaitList, Reported
<1>7. Owed' = Owed
  BY <1>1, <1>6 DEF Owed
<1>8. Executor!Sleep(Running)
  BY <1>1, <1>4, <1>5, <1>6, <1>7 DEF Executor!Sleep
<1> QED BY <1>3, <1>8

\* co_await on a socket operation: whoever comes to wait on a descriptor whose
\* event has not been handled yet may be owed a resume at once.
LEMMA PostStep ==
  ASSUME IInv, NEW f \in Fd, NEW a \in Awaits, AsyncAwait(f, a)
  PROVE  \E c \in Coro : Executor!Await(c, f)
<1>1. TypeOK /\ OneNode /\ interest = focus /\ nodes \in [Fd -> Seq(Coro)]
      /\ want \in [Coro -> Awaits \cup {NoAwait}]
  BY DEF IInv, InterestMatches, TypeOK
<1>2. /\ pc = "user" /\ pc' = pc /\ want' = [want EXCEPT ![Running] = a]
      /\ nodes' = [nodes EXCEPT ![f] = Append(@, Running)]
      /\ UNCHANGED <<ready, timers, deadline, batch, cur, kept, rest, now>>
  BY <1>1, SubscribeWorks DEF AsyncAwait, InCoroutine, InUser, handlerVars
<1>3. /\ Running \in Coro /\ cs[Running] = "running"
      /\ \A fd \in Fd : Running \notin Waiters(fd)
      /\ \A fd \in Fd : Waiters(fd)' = IF fd = f THEN Waiters(fd) \cup {Running} ELSE Waiters(fd)
  BY AwaitAdds
<1>4. Executor!Free(Running)
  BY <1>1, <1>3 DEF OneNode, Executor!Free
<1>5. a.ev \in SUBSET Event
  BY SchedulerAssumption
<1>6. \A fd \in Fd : Reported(fd)' = Reported(fd)
  BY <1>2 DEF Reported
<1>7. Owed' = Owed \cup (IF a.ev \cap Reported(f) # {} THEN {Running} ELSE {})
  <2>1. Running \notin ToSet(rest) /\ ToSet(rest) \subseteq Coro
    BY <1>3, RestWaits
  <2>2. \A c \in Coro : want'[c] = IF c = Running THEN a ELSE want[c]
    BY <1>1, <1>2, <1>3
  <2>3. ASSUME NEW fd \in Fd
        PROVE  /\ ToSet(nodes'[fd]) = IF fd = f THEN ToSet(nodes[fd]) \cup {Running}
                                                 ELSE ToSet(nodes[fd])
               /\ Running \notin ToSet(nodes[fd])
    <3>1. nodes'[fd] = IF fd = f THEN Append(nodes[fd], Running) ELSE nodes[fd]
      BY <1>1, <1>2
    <3>2. ToSet(Append(nodes[fd], Running)) = ToSet(nodes[fd]) \cup {Running}
      BY <1>1, <1>3, ToSetAppend
    <3>3. ToSet(nodes[fd]) \subseteq Waiters(fd)
      BY <1>1, NodesWait
    <3> QED BY <1>3, <3>1, <3>2, <3>3
  <2> DEFINE owedNow == {c \in ToSet(rest) : want'[c].ev \cap cur.e # {}}
             owedLater == {c \in Coro : \E fd \in Fd :
                             c \in ToSet(nodes'[fd]) /\ want'[c].ev \cap Reported(fd) # {}}
             oldLater == {c \in Coro : \E fd \in Fd :
                             c \in ToSet(nodes[fd]) /\ want[c].ev \cap Reported(fd) # {}}
             new == IF a.ev \cap Reported(f) # {} THEN {Running} ELSE {}
  <2>4. Owed' = owedNow \cup owedLater
    BY <1>2, <1>6 DEF Owed, NONE
  <2>5. owedNow = {c \in ToSet(rest) : want[c].ev \cap cur.e # {}}
    BY <2>1, <2>2
  <2>6. \A c \in Coro : c # Running => (c \in owedLater <=> c \in oldLater)
    BY <2>2, <2>3
  <2>7. Running \in owedLater <=> a.ev \cap Reported(f) # {}
    BY <1>3, <2>2, <2>3
  <2>8. Running \notin oldLater
    BY <2>3
  <2>9. owedLater = oldLater \cup new
    <3>1. owedLater \subseteq Coro /\ oldLater \subseteq Coro /\ new \subseteq {Running}
      OBVIOUS
    <3>2. Running \in new <=> a.ev \cap Reported(f) # {}
      OBVIOUS
    <3> HIDE DEF owedLater, oldLater, new
    <3> QED BY <1>3, <2>6, <2>7, <2>8, <3>1, <3>2
  <2>10. Owed = {c \in ToSet(rest) : want[c].ev \cap cur.e # {}} \cup oldLater
    BY DEF Owed, NONE
  <2> QED BY <2>4, <2>5, <2>9, <2>10
<1>8. Executor!Await(Running, f)
  <2>1. [c \in Coro |-> want[c].ev]' = [[c \in Coro |-> want[c].ev] EXCEPT ![Running] = a.ev]
    BY <1>1, <1>2, <1>3
  <2>2. [fd \in Fd |-> Waiters(fd)]' =
          [[fd \in Fd |-> Waiters(fd)] EXCEPT ![f] = @ \cup {Running}]
    BY <1>3
  <2>3. [fd \in Fd |-> Reported(fd)]' = [fd \in Fd |-> Reported(fd)]
        /\ [fd \in Fd |-> Reported(fd)][f] = Reported(f)
    BY <1>6
  <2> QED BY <1>2, <1>4, <1>5, <1>7, <2>1, <2>2, <2>3 DEF Executor!Await
<1> QED BY <1>3, <1>8

\* The handler resumes only who is owed it.
LEMMA ResumeStep ==
  ASSUME IInv, AtNode, NodeMatches, ResumeNode, UNCHANGED ready,
         NEW h \in Coro, h = Head(rest), NEW f \in Fd, f = cur.fd
  PROVE  Executor!WakeWaiter(h, f)
<1>1. /\ BatchInv /\ want \in [Coro -> Awaits \cup {NoAwait}] /\ rest \in Seq(Coro) /\ rest # <<>>
      /\ pc = "handler"
  BY DEF IInv, TypeOK, AtNode
<1>2. h \in Waiters(f)
  BY HandlerNode
<1>3. /\ rest' = Tail(rest) /\ want' = [want EXCEPT ![h] = NoAwait] /\ pc' = "user"
      /\ UNCHANGED <<ready, timers, deadline, nodes, batch, cur, kept, now>>
  BY DEF ResumeNode, AfterResume
<1>4. \A fd \in Fd : Waiters(fd)' = IF fd = f THEN Waiters(fd) \ {h} ELSE Waiters(fd)
  BY ResumeTakes
<1>5. Reported(f) = {} /\ \A fd \in Fd : Reported(fd)' = Reported(fd)
  BY <1>1, <1>3 DEF Reported, BatchInv
<1>6. ToSet(rest) = ToSet(Tail(rest)) \cup {h}
  <2>1. \A i \in DOMAIN Tail(rest) : i + 1 \in DOMAIN rest /\ Tail(rest)[i] = rest[i + 1]
    BY <1>1
  <2>2. \A i \in DOMAIN rest : i # 1 => i - 1 \in DOMAIN Tail(rest) /\ rest[i] = Tail(rest)[i - 1]
    BY <1>1
  <2>3. 1 \in DOMAIN rest /\ h = rest[1]
    BY <1>1
  <2>4. ToSet(Tail(rest)) \cup {h} \subseteq ToSet(rest)
    BY <2>1, <2>3 DEF ToSet
  <2>5. ASSUME NEW i \in DOMAIN rest PROVE rest[i] \in ToSet(Tail(rest)) \cup {h}
    BY <2>2, <2>3 DEF ToSet
  <2> QED BY <2>4, <2>5 DEF ToSet
<1>7. NoAwait.ev = {} /\ \A c \in Coro : want'[c] = IF c = h THEN NoAwait ELSE want[c]
  BY <1>1, <1>2, <1>3 DEF NoAwait, NONE
<1>8. h \in Owed
  <2>1. h \in ToSet(rest) /\ want[h].ev \cap cur.e # {}
    BY <1>6 DEF NodeMatches, NONE
  <2> QED BY <2>1 DEF Owed, NONE
<1>9. Owed' = Owed \ {h}
  <2> DEFINE now1 == {c \in ToSet(rest) : want[c].ev \cap cur.e # {}}
             later1 == {c \in Coro : \E fd \in Fd :
                          c \in ToSet(nodes[fd]) /\ want[c].ev \cap Reported(fd) # {}}
             now2 == {c \in ToSet(Tail(rest)) : want'[c].ev \cap cur.e # {}}
             later2 == {c \in Coro : \E fd \in Fd :
                          c \in ToSet(nodes[fd]) /\ want'[c].ev \cap Reported(fd) # {}}
  <2>1. Owed = now1 \cup later1
    BY DEF Owed, NONE
  <2>2. Owed' = now2 \cup later2
    BY <1>3, <1>5 DEF Owed, NONE
  <2>3. ToSet(rest) \subseteq Coro
    BY RestWaits
  <2>4. now2 = now1 \ {h}
    BY <1>6, <1>7, <2>3
  <2>5. later2 = later1 \ {h}
    BY <1>7
  <2> QED BY <2>1, <2>2, <2>4, <2>5
<1>10. [c \in Coro |-> want[c].ev]' = [[c \in Coro |-> want[c].ev] EXCEPT ![h] = {}]
  BY <1>2, <1>7
<1>11. [fd \in Fd |-> Waiters(fd)]' = [[fd \in Fd |-> Waiters(fd)] EXCEPT ![f] = @ \ {h}]
  BY <1>2, <1>4
<1> QED
  BY <1>1, <1>2, <1>3, <1>5, <1>8, <1>9, <1>10, <1>11 DEF Executor!WakeWaiter

\* One epoll_wait is one report: the registered masks ask for what all waiters ask.
LEMMA ReportStep ==
  ASSUME IInv, BatchIdle, PollEvents
  PROVE  Executor!Report
<1>1. /\ TypeOK /\ HandlerInv /\ InterestMatches /\ interest = focus
      /\ pc = "poll" /\ pc' = "batch" /\ ~InHandler
      /\ UNCHANGED <<ready, timers, deadline, nodes, want, cur, kept, rest, now>>
  BY DEF PollEvents, IInv, InterestMatches, InHandler, pollerVars, nodeVars
<1>2. Executor!Settled
  BY <1>1, SettledIdle
<1>3. \A fd \in Fd : Waiters(fd) = ToSet(nodes[fd]) /\ fd # cur.fd
  BY <1>1, NoHandler DEF Waiters
<1>4. rest = <<>> /\ ToSet(rest) = {}
  BY <1>1 DEF HandlerInv, ToSet
<1>5. PICK order \in SetToSeqs(Triggered) :
        batch' = [i \in DOMAIN order |-> [fd |-> order[i], e |-> Reportable(order[i])]]
  BY DEF PollEvents
<1> DEFINE n == Cardinality(Triggered)
<1>6. IsFiniteSet(Triggered) /\ n \in Nat /\ Triggered \subseteq Fd
  BY FS_Subset, FS_CardinalityType, SchedulerAssumption DEF Triggered
<1>7. /\ order \in [1..n -> Triggered]
      /\ \A t \in Triggered : \E i \in 1..n : order[i] = t
  <2>1. order \in [1..n -> Triggered] /\ \A i, j \in 1..n : i # j => order[i] # order[j]
    BY <1>5 DEF SetToSeqs
  <2>2. order \in Injection(1..n, Triggered)
    BY <2>1 DEF Injection, IsInjective
  <2>3. IsFiniteSet(1..n) /\ Cardinality(1..n) = n
    BY <1>6, FS_Interval
  <2>4. order \in Surjection(1..n, Triggered)
    BY <1>6, <2>2, <2>3, FS_Injection
  <2> QED BY <2>1, <2>4 DEF Surjection
<1>8. ASSUME NEW fd \in Fd
      PROVE  Reported(fd)' = IF fd \in Triggered THEN Reportable(fd) ELSE {}
  <2>1. /\ DOMAIN batch' = 1..n
        /\ \A i \in 1..n : batch'[i].fd = order[i] /\ batch'[i].e = Reportable(order[i])
    BY <1>5, <1>7
  <2> DEFINE own == {j \in DOMAIN batch' : batch'[j].fd = fd}
  <2>2. Reported(fd)' = UNION {batch'[i].e : i \in own}
    BY DEF Reported
  <2>3. \A i \in own : batch'[i].e = Reportable(fd)
    BY <2>1
  <2>4. own # {} <=> fd \in Triggered
    BY <1>7, <2>1
  <2> HIDE DEF own
  <2>5. {batch'[i].e : i \in own} = IF fd \in Triggered THEN {Reportable(fd)} ELSE {}
    BY <2>3, <2>4
  <2> QED BY <2>2, <2>5
<1>9. \A fd \in Fd : Executor!Asked(fd) = interest[fd]
  <2>1. \A fd \in Fd : interest[fd] = Mask(nodes[fd])
    BY <1>1, <1>3 DEF InterestMatches
  <2>2. ASSUME NEW fd \in Fd
        PROVE  Executor!Asked(fd) = UNION {want[c].ev : c \in ToSet(nodes[fd])}
    <3>1. ToSet(nodes[fd]) \subseteq Coro
      BY <1>1, ToSetType DEF TypeOK
    <3>2. Executor!Asked(fd) =
            UNION {[d \in Coro |-> want[d].ev][c] : c \in [f \in Fd |-> Waiters(f)][fd]}
      BY DEF Executor!Asked
    <3>3. [f \in Fd |-> Waiters(f)][fd] = ToSet(nodes[fd])
      BY <1>3
    <3>4. {[d \in Coro |-> want[d].ev][c] : c \in ToSet(nodes[fd])} = {want[c].ev : c \in ToSet(nodes[fd])}
      BY <3>1
    <3> QED BY <3>2, <3>3, <3>4
  <2> QED BY <2>1, <2>2 DEF Mask
<1>10. \A fd \in Fd : Reported(fd)' = IF interest[fd] = {} THEN {}
                                      ELSE ready[fd] \cap (interest[fd] \cup {ERROR, HANGUP})
  BY <1>6, <1>8 DEF Triggered, Reportable, NONE
<1>11. Owed' = {c \in Coro : \E fd \in Fd : c \in Waiters(fd) /\ want[c].ev \cap ready[fd] # {}}
  <2>1. Owed' = {c \in Coro : \E fd \in Fd :
                   c \in ToSet(nodes[fd]) /\ want[c].ev \cap Reported(fd)' # {}}
    BY <1>1, <1>4 DEF Owed, NONE
  <2>2. ASSUME NEW fd \in Fd, NEW c \in ToSet(nodes[fd])
        PROVE  want[c].ev \cap Reported(fd)' = want[c].ev \cap ready[fd]
    <3>1. want[c].ev \subseteq interest[fd]
      BY <1>1, <1>3 DEF InterestMatches, Mask
    <3> QED BY <1>10, <3>1
  <2> QED BY <1>3, <2>1, <2>2
<1>12. Executor!Report
  <2>1. [fd \in Fd |-> Reported(fd)]' =
          [fd \in Fd |-> IF Executor!Asked(fd) = {} THEN {}
                         ELSE ready[fd] \cap (Executor!Asked(fd) \cup {ERROR, HANGUP})]
    BY <1>9, <1>10
  <2>2. Owed' = {c \in Coro : \E fd \in Fd : /\ c \in [f \in Fd |-> Waiters(f)][fd]
                                             /\ [d \in Coro |-> want[d].ev][c] \cap ready[fd] # {}}
    BY <1>11
  <2>3. \A fd \in Fd : Waiters(fd)' = Waiters(fd)
    BY <1>1 DEF Waiters, WaitList
  <2>4. UNCHANGED Executor!waits
    BY <1>1, <2>3 DEF Executor!waits
  <2> QED BY <1>1, <1>2, <2>1, <2>2, <2>4 DEF Executor!Report
<1> QED BY <1>12

\* The handler takes up the next event.
LEMMA TurnStep ==
  ASSUME IInv, BatchIdle, HandlerBegin
  PROVE  \E fd \in Fd : Executor!Turn(fd)
<1> DEFINE E == [fd : Fd, e : SUBSET Event]
<1>1. /\ TypeOK /\ HandlerInv /\ BatchInv /\ ~InHandler /\ batch \in Seq(E) /\ batch # <<>>
      /\ nodes \in [Fd -> Seq(Coro)] /\ pc = "batch" /\ pc' = "handler"
      /\ cur' = Head(batch) /\ batch' = Tail(batch) /\ rest' = nodes[cur'.fd]
      /\ nodes' = [nodes EXCEPT ![cur'.fd] = <<>>]
      /\ UNCHANGED <<ready, timers, deadline, want, now>>
  BY DEF IInv, TypeOK, HandlerBegin, InHandler, pollerVars
<1>2. PICK f \in Fd : f = cur'.fd
  <2> HIDE DEF E
  <2>1. Head(batch) \in E
    BY <1>1, HeadTailProperties
  <2> QED BY <1>1, <2>1 DEF E
<1>3. \A fd \in Fd : Waiters(fd)' = Waiters(fd)
  BY HandlerKeepsLists DEF Waiters
<1>4. /\ 1 \in DOMAIN batch /\ batch[1] = cur'
      /\ \A i \in DOMAIN batch' : i + 1 \in DOMAIN batch /\ batch'[i] = batch[i + 1] /\ i + 1 # 1
      /\ \A i \in DOMAIN batch : i # 1 => i - 1 \in DOMAIN batch' /\ batch'[i - 1] = batch[i]
  <2> HIDE DEF E
  <2> QED BY <1>1
<1>5. \A i \in DOMAIN batch : batch[i].fd = f <=> i = 1
  BY <1>1, <1>2, <1>4 DEF BatchInv
<1>6. Reported(f) = cur'.e /\ Reported(f)' = {}
  <2>1. {i \in DOMAIN batch : batch[i].fd = f} = {1}
    BY <1>4, <1>5
  <2>2. {i \in DOMAIN batch' : batch'[i].fd = f} = {}
    BY <1>4, <1>5
  <2>3. UNION {batch[i].e : i \in {1}} = batch[1].e
    OBVIOUS
  <2> QED BY <1>4, <2>1, <2>2, <2>3 DEF Reported
<1>7. ASSUME NEW fd \in Fd, fd # f PROVE Reported(fd)' = Reported(fd)
  <2>1. {batch'[i].e : i \in {j \in DOMAIN batch' : batch'[j].fd = fd}}
          \subseteq {batch[i].e : i \in {j \in DOMAIN batch : batch[j].fd = fd}}
    BY <1>4
  <2>2. {batch[i].e : i \in {j \in DOMAIN batch : batch[j].fd = fd}}
          \subseteq {batch'[i].e : i \in {j \in DOMAIN batch' : batch'[j].fd = fd}}
    <3> SUFFICES ASSUME NEW i \in DOMAIN batch, batch[i].fd = fd
                 PROVE  \E j \in DOMAIN batch' : batch'[j].fd = fd /\ batch'[j].e = batch[i].e
      OBVIOUS
    <3>1. i # 1
      BY <1>5, <1>7
    <3> QED BY <1>4, <3>1
  <2> QED BY <2>1, <2>2 DEF Reported
<1> HIDE DEF E
<1>8. Owed' = Owed
  <2>1. rest = <<>> /\ ToSet(rest) = {}
    BY <1>1 DEF HandlerInv, ToSet
  <2>2. ToSet(rest') = ToSet(nodes[f]) /\ ToSet(nodes[f]) \subseteq Coro
    BY <1>1, <1>2, ToSetType
  <2>3. \A fd \in Fd : ToSet(nodes'[fd]) = IF fd = f THEN {} ELSE ToSet(nodes[fd])
    BY <1>1, <1>2 DEF ToSet
  <2> DEFINE now2 == {c \in ToSet(nodes[f]) : want[c].ev \cap Reported(f) # {}}
             later2 == {c \in Coro : \E fd \in Fd :
                          c \in ToSet(nodes'[fd]) /\ want[c].ev \cap Reported(fd)' # {}}
             later1 == {c \in Coro : \E fd \in Fd :
                          c \in ToSet(nodes[fd]) /\ want[c].ev \cap Reported(fd) # {}}
  <2>4. Owed = later1
    BY <2>1 DEF Owed, NONE
  <2>5. Owed' = now2 \cup later2
    <3>1. Owed' = {c \in ToSet(rest') : want'[c].ev \cap cur'.e # {}}
                    \cup {c \in Coro : \E fd \in Fd :
                            c \in ToSet(nodes'[fd]) /\ want'[c].ev \cap Reported(fd)' # {}}
      BY DEF Owed, NONE
    <3> QED BY <1>1, <1>6, <2>2, <3>1
  <2>6. later2 = {c \in Coro : \E fd \in Fd \ {f} :
                   c \in ToSet(nodes[fd]) /\ want[c].ev \cap Reported(fd) # {}}
    BY <1>2, <1>7, <2>3
  <2> QED BY <1>2, <2>2, <2>4, <2>5, <2>6
<1>9. [fd \in Fd |-> Reported(fd)]' = [[fd \in Fd |-> Reported(fd)] EXCEPT ![f] = {}]
  BY <1>2, <1>6, <1>7
<1>10. Executor!Turn(f)
  BY <1>1, <1>3, <1>8, <1>9 DEF Executor!Turn, Executor!waits
<1> QED BY <1>2, <1>10

\* Going past a node that does not match, and putting the kept nodes back, are not seen.
LEMMA ListStep ==
  ASSUME IInv, HandlerSkip \/ HandlerEnd
  PROVE  UNCHANGED Executor!vars
<1>1. /\ TypeOK /\ HandlerInv /\ BatchInv /\ nodes \in [Fd -> Seq(Coro)] /\ rest \in Seq(Coro)
      /\ pc = "handler" /\ pc' # "returned"
      /\ UNCHANGED <<ready, timers, deadline, want, batch, now>>
  BY DEF IInv, TypeOK, HandlerSkip, AtNode, HandlerEnd, pollerVars, loopVars, nodeVars
<1>2. \A fd \in Fd : Waiters(fd)' = Waiters(fd) /\ Reported(fd)' = Reported(fd)
  BY <1>1, HandlerKeepsLists DEF Waiters, Reported
<1>3. CASE HandlerSkip
  <2>1. /\ rest # <<>> /\ rest' = Tail(rest) /\ UNCHANGED <<nodes, cur>>
        /\ want[Head(rest)].ev \cap cur.e = {}
    BY <1>3 DEF HandlerSkip, AtNode, NodeMatches, nodeVars, NONE
  <2>2. \A c : c \in ToSet(rest) <=> c = Head(rest) \/ c \in ToSet(Tail(rest))
    <3>1. \A i \in DOMAIN Tail(rest) : i + 1 \in DOMAIN rest /\ Tail(rest)[i] = rest[i + 1]
      BY <1>1, <2>1
    <3>2. \A i \in DOMAIN rest : i # 1 => i - 1 \in DOMAIN Tail(rest) /\ rest[i] = Tail(rest)[i - 1]
      BY <1>1, <2>1
    <3>3. 1 \in DOMAIN rest /\ Head(rest) = rest[1]
      BY <1>1, <2>1
    <3>4. ToSet(Tail(rest)) \cup {Head(rest)} \subseteq ToSet(rest)
      BY <3>1, <3>3 DEF ToSet
    <3>5. ASSUME NEW i \in DOMAIN rest PROVE rest[i] \in ToSet(Tail(rest)) \cup {Head(rest)}
      BY <3>2, <3>3 DEF ToSet
    <3>6. ToSet(rest) \subseteq ToSet(Tail(rest)) \cup {Head(rest)}
      BY <3>5 DEF ToSet
    <3> QED BY <3>4, <3>6
  <2>3. {c \in ToSet(rest) : want[c].ev \cap cur.e # {}} =
          {c \in ToSet(Tail(rest)) : want[c].ev \cap cur.e # {}}
    BY <2>1, <2>2
  <2>4. {c \in Coro : \E fd \in Fd : c \in ToSet(nodes'[fd]) /\ want'[c].ev \cap Reported(fd)' # {}} =
          {c \in Coro : \E fd \in Fd : c \in ToSet(nodes[fd]) /\ want[c].ev \cap Reported(fd) # {}}
    BY <1>1, <1>2, <2>1
  <2>5. Owed' = Owed
    BY <1>1, <2>1, <2>3, <2>4 DEF Owed, NONE
  <2> QED BY <1>1, <1>2, <2>1, <2>5 DEF Executor!vars, Executor!waits
<1>4. CASE HandlerEnd
  <2>1. /\ rest = <<>> /\ rest' = <<>> /\ ToSet(rest) = {} /\ ToSet(rest') = {}
        /\ nodes' = [nodes EXCEPT ![cur.fd] = SplicedBack]
    BY <1>4 DEF HandlerEnd, ToSet
  <2>2. Reported(cur.fd) = {}
    BY <1>1 DEF Reported, BatchInv
  <2>3. \A fd \in Fd : fd # cur.fd => nodes'[fd] = nodes[fd]
    BY <1>1, <2>1
  <2>4. \A c \in Coro, fd \in Fd :
          c \in ToSet(nodes'[fd]) /\ want[c].ev \cap Reported(fd) # {}
            <=> c \in ToSet(nodes[fd]) /\ want[c].ev \cap Reported(fd) # {}
    BY <2>2, <2>3
  <2>5. Owed' = Owed
    BY <1>1, <1>2, <2>1, <2>4 DEF Owed, NONE
  <2> QED BY <1>1, <1>2, <2>5 DEF Executor!vars, Executor!waits
<1> QED BY <1>3, <1>4

\* run() returns when nobody waits.
LEMMA EndStep ==
  ASSUME IInv, BatchIdle, RunIteration, pc' = "returned"
  PROVE  Executor!End
<1>1. /\ TypeOK /\ OneNode /\ CountMatches /\ pc = "run" /\ ~InHandler /\ coroCount = 0
      /\ UNCHANGED <<timers, deadline, nodes, want, batch, cur, kept, rest, ready, now>>
  BY DEF IInv, RunIteration, NothingToDo, InHandler, pollerVars, nodeVars, handlerVars
<1>2. Executor!Settled
  BY <1>1, SettledIdle
<1>3. Parked = {}
  <2>1. Parked \in SUBSET Coro /\ IsFiniteSet(Parked) /\ Cardinality(Parked) \in Nat
    BY FS_Subset, FS_CardinalityType, SchedulerAssumption DEF Parked
  <2>2. Cardinality(Parked) = 0
    BY <1>1, <2>1 DEF CountMatches, InFlight
  <2> QED BY <2>1, <2>2, FS_EmptySet
<1>4. timers = {}
  BY <1>1, <1>3 DEF OneNode, Parked, TypeOK
<1>5. \A fd \in Fd : Waiters(fd) = {}
  BY <1>1, <1>3, WaitListType DEF OneNode, Parked
<1>6. \A fd \in Fd : Waiters(fd)' = Waiters(fd) /\ Reported(fd)' = Reported(fd)
  BY <1>1 DEF Waiters, WaitList, Reported
<1>7. Owed' = Owed
  BY <1>1, <1>6 DEF Owed
<1> QED
  BY <1>1, <1>2, <1>4, <1>5, <1>6, <1>7 DEF Executor!End, Executor!Nothing, Executor!waits

\* Time passes, and the conditions on descriptors change.
LEMMA WorldStep ==
  ASSUME IInv, UNCHANGED <<timers, deadline, nodes, want, batch, cur, kept, rest>>, pc' = pc,
         \/ now' = now + 1 /\ UNCHANGED ready
         \/ ready' \in [Fd -> SUBSET Event] /\ UNCHANGED now
  PROVE  Executor!World
<1>1. \A fd \in Fd : Waiters(fd)' = Waiters(fd) /\ Reported(fd)' = Reported(fd)
  BY DEF Waiters, WaitList, Reported
<1>2. Owed' = Owed
  BY <1>1 DEF Owed
<1> QED BY <1>1, <1>2 DEF Executor!World, Executor!waits

-----------------------------------------------------------------------------
(* The theorem                                                             *)

\* The scheduler implements Executor: one resume for each wait, sleepers in the
\* order of their times, and no new report, no timer and no end of run() before
\* everyone owed a resume has had it.
THEOREM Implements == Spec => ImplementsExecutor
<1>1. Init => Executor!Init /\ BatchIdle
  <2> SUFFICES ASSUME Init PROVE Executor!Init /\ BatchIdle
    OBVIOUS
  <2>1. /\ batch = <<>> /\ rest = <<>> /\ kept = <<>> /\ nodes = [fd \in Fd |-> <<>>]
        /\ timers = {} /\ deadline = [c \in Coro |-> 0] /\ want = [c \in Coro |-> NoAwait]
        /\ ready = [fd \in Fd |-> {}] /\ now = 0 /\ pc = "user"
    BY DEF Init, PollerInit, NONE
  <2>2. ToSet(<<>>) = {} /\ <<>> \o <<>> \o <<>> = <<>> /\ DOMAIN <<>> = {}
    BY DEF ToSet
  <2>3. \A fd \in Fd : Waiters(fd) = {} /\ Reported(fd) = {}
    BY <2>1, <2>2 DEF Waiters, WaitList, Reported
  <2>4. Owed = {}
    BY <2>1, <2>2, <2>3 DEF Owed, NONE
  <2> QED BY <2>1, <2>3, <2>4 DEF Executor!Init, Executor!Nothing, BatchIdle, NoAwait, NONE
<1>2. IInv /\ BatchIdle /\ [Next]_vars => BatchIdle' /\ [Executor!Next]_(Executor!vars)
  <2> SUFFICES ASSUME IInv, BatchIdle, [Next]_vars PROVE [Executor!Next]_(Executor!vars)
    BY IdleStep
  <2>1. TypeOK /\ interest = focus
    BY DEF IInv, InterestMatches
  <2>2. ASSUME NEW c \in Coro, CallCoroutine(c) \/ AwaitTask(c) PROVE UNCHANGED Executor!vars
    BY <2>2, NothingSeen
       DEF CallCoroutine, AwaitTask, pollerVars, loopVars, nodeVars, handlerVars
  <2>3. ASSUME NEW c \in Coro, ExpireTimer(c) PROVE Executor!Next
    BY <2>3, TimerStep DEF Executor!Next
  <2>4. ASSUME NEW d \in Delays, AsyncSleep(d) PROVE Executor!Next
    BY <2>4, SleepStep DEF Executor!Next
  <2>5. ASSUME NEW fd \in Fd, NEW a \in Awaits, AsyncAwait(fd, a) PROVE Executor!Next
    BY <2>5, PostStep DEF Executor!Next
  <2>6. CASE HandlerResume \/ HandlerAccept
    <3>1. PICK h \in Coro, f \in Fd : h = Head(rest) /\ f = cur.fd
      BY <2>6, HandlerNode DEF HandlerResume, HandlerAccept
    <3>2. Executor!WakeWaiter(h, f)
      BY <2>6, <3>1, ResumeStep DEF HandlerResume, HandlerAccept, pollerVars
    <3> QED BY <3>2 DEF Executor!Next
  <2>7. CASE PollEvents
    BY <2>7, ReportStep DEF Executor!Next
  <2>8. CASE HandlerBegin
    BY <2>8, TurnStep DEF Executor!Next
  <2>9. CASE HandlerSkip \/ HandlerEnd
    BY <2>9, ListStep
  <2>10. CASE RunIteration
    <3>1. CASE pc' = "returned"
      BY <2>10, <3>1, EndStep DEF Executor!Next
    <3>2. CASE pc' # "returned"
      BY <2>10, <3>2, NothingSeen DEF RunIteration, pollerVars, nodeVars, handlerVars
    <3> QED BY <3>1, <3>2
  <2>11. CASE Tick
    <3>1. Executor!World
      BY <2>11, WorldStep DEF Tick, pollerVars, loopVars, nodeVars, handlerVars
    <3> QED BY <3>1 DEF Executor!Next
  <2>12. ASSUME NEW fd \in Fd, CloseSocket(fd) \/ SocketChanges(fd) PROVE Executor!Next
    <3>1. ready' \in [Fd -> SUBSET Event]
      <4>1. ready \in [Fd -> SUBSET Event] /\ {} \in SUBSET Event
        BY <2>1 DEF TypeOK, PollerTypeOK
      <4>2. CASE CloseSocket(fd)
        <5>1. ready' = [ready EXCEPT ![fd] = {}]
          BY <4>2 DEF CloseSocket, NONE
        <5> QED BY <4>1, <5>1
      <4>3. CASE SocketChanges(fd)
        <5>1. PICK S \in SUBSET Event : ready' = [ready EXCEPT ![fd] = S]
          BY <4>3, SchedulerAssumption DEF SocketChanges
        <5> QED BY <4>1, <5>1
      <4> QED BY <2>12, <4>2, <4>3
    <3>2. pc' = pc /\ UNCHANGED <<timers, deadline, nodes, want, batch, cur, kept, rest, now>>
      <4>1. CASE CloseSocket(fd)
        BY <2>1, <4>1, SubscribeWorks DEF CloseSocket, nodeVars, handlerVars
      <4>2. CASE SocketChanges(fd)
        BY <4>2 DEF SocketChanges, loopVars, nodeVars, handlerVars
      <4> QED BY <2>12, <4>1, <4>2
    <3>3. Executor!World
      BY <3>1, <3>2, WorldStep
    <3> QED BY <3>3 DEF Executor!Next
  <2>13. ASSUME NEW fd \in Fd, OpenSocket(fd) PROVE UNCHANGED Executor!vars
    BY <2>13, NothingSeen DEF OpenSocket, loopVars, nodeVars, handlerVars
  <2>14. CASE FinishCoroutine \/ ResumeReturns \/ CallRun
    BY <2>1, <2>14, NothingSeen
       DEF FinishCoroutine, ResumeReturns, CallRun, InUser, TypeOK, pollerVars, loopVars, nodeVars,
           handlerVars
  <2>15. CASE \/ ExpireDone \/ BeginPoll \/ BeginSleep \/ WaitTimesOut
              \/ PollInterrupted \/ PollDone
    BY <2>15, NothingSeen
       DEF ExpireDone, BeginPoll, BeginSleep, WaitTimesOut, PollInterrupted, PollDone, pollerVars,
           nodeVars, handlerVars
  <2>16. CASE HandlerAcceptAgain \/ Returned \/ UNCHANGED vars
    BY <2>16, NothingSeen
       DEF HandlerAcceptAgain, Returned, vars, pollerVars, loopVars, nodeVars, handlerVars
  <2> QED
    BY <2>2, <2>3, <2>4, <2>5, <2>6, <2>7, <2>8, <2>9, <2>10, <2>11, <2>12, <2>13, <2>14, <2>15,
       <2>16
       DEF Next, LoopStep, Yield
<1> QED BY <1>1, <1>2, Inductive, PTL DEF Spec, ImplementsExecutor, Executor!Spec

=============================================================================
