------------------------------ MODULE AsyncLog ------------------------------
(***************************************************************************)
(* bc::log: threads that log, flush and destroy loggers, and the thread of *)
(* the background worker that writes their records.                        *)
(*                                                                         *)
(* A wait on a condition variable is three steps: the predicate is tested  *)
(* ("check"), the thread that found it false still holds the mutex but is  *)
(* not waiting yet ("park"), it waits ("blocked").  A notification reaches *)
(* only a thread that is blocked.  The worker's mutex_ is held from a      *)
(* failed test until the worker is blocked; every other critical section   *)
(* is one step.                                                            *)
(***************************************************************************)
EXTENDS Integers, Sequences, FiniteSets, Functions

CONSTANTS
  Thread,       \* the threads that use loggers
  Logger,
  NoLogger,     \* no logger
  Threshold,    \* append wakes the worker beyond this many records (20)
  MaxLogs       \* bound: the calls of log() each thread makes

ASSUME AsyncLogAssumption ==
  /\ IsFiniteSet(Thread) /\ IsFiniteSet(Logger)
  /\ NoLogger \notin Logger
  /\ Threshold \in Nat
  /\ MaxLogs \in Nat

VARIABLES
  logs,         \* logs_
  waiters,      \* waiters_: the threads whose flush is pending
  exit,         \* ~worker: "no", "stopping" (stop_ is set), "joining"
  wpc,          \* where the worker's thread is
  ready,        \* the records this drain_ has still to format
  told,         \* the waiters this drain_ has still to release
  buf,          \* drain_'s buffers, the records in place of their text
  held,         \* the loggers on which buffers hold a reference
  wcur,         \* the logger the worker is about to unreference or notify
  last,         \* this is the drain_ after the loop
  tpc,          \* where each thread is
  tlog,         \* the logger of the call the thread is in
  nr,           \* how many records each thread has logged
  flushed,      \* the flag of each thread's flush
  due,          \* history: the records written or accepted when flush was called
  ref,          \* ref_ of each logger
  life,         \* "alive", "dying" (in ~logger), "dead"
  out           \* what each logger's backend has written

workerVars == <<wpc, ready, told, buf, held, wcur, last>>
threadVars == <<tpc, tlog, nr, flushed, due>>
loggerVars == <<ref, life, out>>
vars == <<logs, waiters, exit, workerVars, threadVars, loggerVars>>

stop == exit # "no"
Record == [to : Logger, by : Thread, nr : 1 .. MaxLogs]
Count(s, l) == Cardinality({i \in DOMAIN s : s[i].to = l})

Init ==
  /\ logs = <<>> /\ waiters = <<>> /\ exit = "no"
  /\ wpc = "test" /\ ready = <<>> /\ told = <<>>
  /\ buf = [l \in Logger |-> <<>>] /\ held = {} /\ wcur = NoLogger /\ last = FALSE
  /\ tpc = [t \in Thread |-> "idle"] /\ tlog = [t \in Thread |-> NoLogger]
  /\ nr = [t \in Thread |-> 0]
  /\ flushed = [t \in Thread |-> FALSE]
  /\ due = [t \in Thread |-> [l \in Logger |-> 0]]
  /\ ref = [l \in Logger |-> 0]
  /\ life = [l \in Logger |-> "alive"]
  /\ out = [l \in Logger |-> <<>>]

-----------------------------------------------------------------------------
(* Mutexes and condition variables                                         *)

\* mutex_ of the worker can be taken.
MutexFree == wpc # "park"

Goto(t, where) == tpc' = [tpc EXCEPT ![t] = where]

\* cv_.notify_one() on the worker's cv_, by a thread that goes on as tpcs says:
\* the worker and the threads in flush all wait on it.
NotifyWorker(tpcs) ==
  LET asleep == {t \in Thread : tpcs[t] = "flushBlocked"}
  IN  \/ /\ wpc = "blocked"
         /\ wpc' = "check" /\ tpc' = tpcs
      \/ \E t \in asleep :
           /\ tpc' = [tpcs EXCEPT ![t] = "flushCheck"]
           /\ UNCHANGED wpc
      \/ /\ wpc # "blocked" /\ asleep = {}
         /\ tpc' = tpcs
         /\ UNCHANGED wpc

\* A condition variable may let a waiter go without a notification.
SpuriousWakeup ==
  /\ \/ /\ wpc = "blocked"
        /\ wpc' = "check"
        /\ UNCHANGED tpc
     \/ \E t \in Thread :
          /\ \/ tpc[t] = "flushBlocked" /\ Goto(t, "flushCheck")
             \/ tpc[t] = "dtorBlocked" /\ Goto(t, "dtorCheck")
          /\ UNCHANGED wpc
  /\ UNCHANGED <<logs, waiters, exit, ready, told, buf, held, wcur, last,
                 tlog, nr, flushed, due, loggerVars>>

-----------------------------------------------------------------------------
(* logger::log and worker::append                                          *)

\* A program logs to a logger it has not begun to destroy, and not once the
\* worker's destructor runs (assert(!stop_)).
LogBegin(t, l) ==
  /\ tpc[t] = "idle" /\ ~stop /\ life[l] = "alive" /\ nr[t] < MaxLogs
  /\ ref' = [ref EXCEPT ![l] = @ + 1]
  /\ nr' = [nr EXCEPT ![t] = @ + 1]
  /\ tlog' = [tlog EXCEPT ![t] = l]
  /\ Goto(t, "append")
  /\ UNCHANGED <<logs, waiters, exit, workerVars, flushed, due, life, out>>

AppendRecord(t) ==
  /\ tpc[t] = "append" /\ MutexFree
  /\ logs' = Append(logs, [to |-> tlog[t], by |-> t, nr |-> nr[t]])
  /\ Goto(t, IF Len(logs') > Threshold THEN "appendNotify" ELSE "idle")
  /\ tlog' = [tlog EXCEPT ![t] = NoLogger]
  /\ UNCHANGED <<waiters, exit, workerVars, nr, flushed, due, loggerVars>>

AppendNotify(t) ==
  /\ tpc[t] = "appendNotify"
  /\ NotifyWorker([tpc EXCEPT ![t] = "idle"])
  /\ UNCHANGED <<logs, waiters, exit, ready, told, buf, held, wcur, last,
                 tlog, nr, flushed, due, loggerVars>>

-----------------------------------------------------------------------------
(* worker::flush                                                           *)

Accepted(l) == Len(out[l]) + Len(buf[l]) + Count(ready, l) + Count(logs, l)

FlushBegin(t) ==
  /\ tpc[t] = "idle" /\ ~stop /\ MutexFree
  /\ waiters' = Append(waiters, t)
  /\ flushed' = [flushed EXCEPT ![t] = FALSE]
  /\ due' = [due EXCEPT ![t] = [l \in Logger |-> Accepted(l)]]
  /\ Goto(t, "flushNotify")
  /\ UNCHANGED <<logs, exit, workerVars, tlog, nr, loggerVars>>

FlushNotify(t) ==
  /\ tpc[t] = "flushNotify"
  /\ NotifyWorker([tpc EXCEPT ![t] = "flushCheck"])
  /\ UNCHANGED <<logs, waiters, exit, ready, told, buf, held, wcur, last,
                 tlog, nr, flushed, due, loggerVars>>

FlushReturn(t) ==
  /\ tpc[t] = "flushCheck" /\ flushed[t]
  /\ due' = [due EXCEPT ![t] = [l \in Logger |-> 0]]
  /\ Goto(t, "idle")
  /\ UNCHANGED <<logs, waiters, exit, workerVars, tlog, nr, flushed, loggerVars>>

\* The wait is on the worker's cv_, with a mutex nobody else takes.
FlushWait(t) ==
  /\ \/ tpc[t] = "flushCheck" /\ ~flushed[t] /\ Goto(t, "flushPark")
     \/ tpc[t] = "flushPark" /\ Goto(t, "flushBlocked")
  /\ UNCHANGED <<logs, waiters, exit, workerVars, tlog, nr, flushed, due, loggerVars>>

-----------------------------------------------------------------------------
(* ~logger                                                                 *)

\* A program destroys a logger when no other thread is in a call on it; the
\* thread in ~worker waits for the worker first.
Destroy(t, l) ==
  /\ tpc[t] = "idle" /\ life[l] = "alive" /\ (stop => wpc = "ended")
  /\ \A u \in Thread : tlog[u] # l
  /\ IF ref[l] = 0
     THEN /\ life' = [life EXCEPT ![l] = "dead"]
          /\ UNCHANGED <<tpc, tlog>>
     ELSE /\ life' = [life EXCEPT ![l] = "dying"]
          /\ tlog' = [tlog EXCEPT ![t] = l]
          /\ Goto(t, "dtorCheck")
  /\ UNCHANGED <<logs, waiters, exit, workerVars, nr, flushed, due, ref, out>>

DestroyReturn(t) ==
  /\ tpc[t] = "dtorCheck" /\ ref[tlog[t]] = 0
  /\ life' = [life EXCEPT ![tlog[t]] = "dead"]
  /\ tlog' = [tlog EXCEPT ![t] = NoLogger]
  /\ Goto(t, "idle")
  /\ UNCHANGED <<logs, waiters, exit, workerVars, nr, flushed, due, ref, out>>

DestroyWait(t) ==
  /\ \/ tpc[t] = "dtorCheck" /\ ref[tlog[t]] # 0 /\ Goto(t, "dtorPark")
     \/ tpc[t] = "dtorPark" /\ Goto(t, "dtorBlocked")
  /\ UNCHANGED <<logs, waiters, exit, workerVars, tlog, nr, flushed, due, loggerVars>>

-----------------------------------------------------------------------------
(* ~worker: the static worker is destroyed when main has returned and the  *)
(* threads that log are done.                                              *)

Stop ==
  /\ exit = "no"
  /\ \A t \in Thread : tpc[t] = "idle"
  /\ exit' = "stopping"
  /\ UNCHANGED <<logs, waiters, workerVars, threadVars, loggerVars>>

\* cv_.notify_one(), then the join of thread_
StopNotify ==
  /\ exit = "stopping"
  /\ exit' = "joining"
  /\ NotifyWorker(tpc)
  /\ UNCHANGED <<logs, waiters, ready, told, buf, held, wcur, last,
                 tlog, nr, flushed, due, loggerVars>>

-----------------------------------------------------------------------------
(* The worker's thread: loop_                                              *)

LoopTest ==
  /\ wpc = "test" /\ ~stop
  /\ wpc' = "check"
  /\ UNCHANGED <<logs, waiters, exit, ready, told, buf, held, wcur, last, threadVars, loggerVars>>

NothingToWrite == logs = <<>> /\ ~stop

WorkerWait ==
  /\ \/ wpc = "check" /\ NothingToWrite /\ wpc' = "park"
     \/ wpc = "park" /\ wpc' = "blocked"
  /\ UNCHANGED <<logs, waiters, exit, ready, told, buf, held, wcur, last, threadVars, loggerVars>>

\* A wait without a timeout.
BugWorkerTimeout == FALSE

\* wait_for gives up after 10 seconds.
WorkerTimeout ==
  /\ wpc = "blocked"
  /\ wpc' = "timedOut"
  /\ UNCHANGED <<logs, waiters, exit, ready, told, buf, held, wcur, last, threadVars, loggerVars>>

\* The swaps, in the critical section in which wait_for returned.
Take ==
  /\ \/ wpc = "check" /\ ~NothingToWrite
     \/ wpc = "timedOut"
  /\ wpc' = "drain"
  /\ ready' = logs /\ logs' = <<>>
  /\ told' = waiters /\ waiters' = <<>>
  /\ UNCHANGED <<exit, buf, held, wcur, last, threadVars, loggerVars>>

\* No drain_ after the loop.
BugFinalDrain ==
  /\ wpc = "test" /\ stop
  /\ wpc' = "ended"
  /\ UNCHANGED <<logs, waiters, exit, ready, told, buf, held, wcur, last, threadVars, loggerVars>>

\* The drain_ after the loop works on logs_ and waiters_ in place; nobody
\* looks at them any more.
FinalDrain ==
  /\ wpc = "test" /\ stop
  /\ wpc' = "drain" /\ last' = TRUE
  /\ ready' = logs /\ logs' = <<>>
  /\ told' = waiters /\ waiters' = <<>>
  /\ UNCHANGED <<exit, buf, held, wcur, threadVars, loggerVars>>

-----------------------------------------------------------------------------
(* drain_                                                                  *)

\* No reference for the buffer; one for each record.
NoReference(l) == ref
ManyReferences(l) == [ref EXCEPT ![l] = @ + 1]

\* The reference taken for the buffer of a logger seen for the first time.
Referenced(l) == IF l \in held THEN ref ELSE [ref EXCEPT ![l] = @ + 1]

FormatRecord ==
  /\ wpc = "drain" /\ ready # <<>>
  /\ LET r == Head(ready) IN
       /\ ref' = Referenced(r.to)
       /\ held' = held \cup {r.to}
       /\ buf' = [buf EXCEPT ![r.to] = Append(@, r)]
       /\ wcur' = r.to
  /\ ready' = Tail(ready)
  /\ wpc' = "unref"
  /\ UNCHANGED <<logs, waiters, exit, told, last, threadVars, life, out>>

WriteBuffer(l) ==
  /\ wpc = "drain" /\ ready = <<>> /\ l \in held
  /\ out' = [out EXCEPT ![l] = @ \o buf[l]]
  /\ buf' = [buf EXCEPT ![l] = <<>>]
  /\ held' = held \ {l}
  /\ wcur' = l
  /\ wpc' = "unref"
  /\ UNCHANGED <<logs, waiters, exit, ready, told, last, threadVars, ref, life>>

\* unreference_: the count goes down, and only then the destructor is notified.
Unreference ==
  /\ wpc = "unref"
  /\ ref' = [ref EXCEPT ![wcur] = @ - 1]
  /\ wpc' = IF ref'[wcur] = 0 THEN "notify" ELSE "drain"
  /\ wcur' = IF ref'[wcur] = 0 THEN wcur ELSE NoLogger
  /\ UNCHANGED <<logs, waiters, exit, ready, told, buf, held, last, threadVars, life, out>>

NotifyLogger ==
  /\ wpc = "notify"
  /\ tpc' = [t \in Thread |-> IF tpc[t] = "dtorBlocked" /\ tlog[t] = wcur
                              THEN "dtorCheck" ELSE tpc[t]]
  /\ wpc' = "drain" /\ wcur' = NoLogger
  /\ UNCHANGED <<logs, waiters, exit, ready, told, buf, held, last,
                 tlog, nr, flushed, due, loggerVars>>

AllWritten == ready = <<>> /\ held = {}

\* The waiters released once the records are formatted, before they are written.
BugReleasing == ready = <<>> /\ told # <<>>

Releasing == AllWritten /\ told # <<>>

SetFlushed ==
  /\ wpc = "drain" /\ Releasing
  /\ flushed' = [flushed EXCEPT ![Head(told)] = TRUE]
  /\ wpc' = "tell"
  /\ UNCHANGED <<logs, waiters, exit, ready, told, buf, held, wcur, last,
                 tpc, tlog, nr, due, loggerVars>>

\* cv.notify_one() on the condition variable flush has on its stack, on which
\* nobody waits.
NotifyFlusher ==
  /\ wpc = "tell"
  /\ told' = Tail(told)
  /\ wpc' = "drain"
  /\ UNCHANGED <<logs, waiters, exit, ready, buf, held, wcur, last, threadVars, loggerVars>>

DrainEnd ==
  /\ wpc = "drain" /\ AllWritten /\ told = <<>>
  /\ wpc' = IF last THEN "ended" ELSE "test"
  /\ UNCHANGED <<logs, waiters, exit, ready, told, buf, held, wcur, last, threadVars, loggerVars>>

-----------------------------------------------------------------------------

WorkerStep ==
  \/ LoopTest \/ WorkerWait \/ WorkerTimeout \/ Take \/ FinalDrain
  \/ FormatRecord \/ \E l \in Logger : WriteBuffer(l)
  \/ Unreference \/ NotifyLogger \/ SetFlushed \/ NotifyFlusher \/ DrainEnd

\* What a thread does until the call it is in returns.
ThreadStep(t) ==
  \/ AppendRecord(t) \/ AppendNotify(t)
  \/ FlushNotify(t) \/ FlushReturn(t) \/ FlushWait(t)
  \/ DestroyReturn(t) \/ DestroyWait(t)

\* The program has ended.
Terminated == wpc = "ended" /\ UNCHANGED vars

Next ==
  \/ WorkerStep
  \/ \E t \in Thread :
       \/ ThreadStep(t) \/ FlushBegin(t)
       \/ \E l \in Logger : LogBegin(t, l) \/ Destroy(t, l)
  \/ Stop \/ StopNotify
  \/ SpuriousWakeup
  \/ Terminated

Spec == Init /\ [][Next]_vars

\* Every thread runs and gets the mutex, which the worker gives back again and
\* again; the 10 seconds of wait_for, which count from its call however often it
\* is woken, pass.  No program has to begin a call, and no condition variable has
\* to wake a waiter spuriously.
Fairness ==
  /\ WF_vars(WorkerStep)
  /\ SF_vars(WorkerTimeout)
  /\ \A t \in Thread : SF_vars(ThreadStep(t))
  /\ WF_vars(StopNotify)

FairSpec == Spec /\ Fairness

-----------------------------------------------------------------------------
(* Properties                                                              *)

WorkerPc == {"test", "check", "park", "blocked", "timedOut", "drain", "unref",
             "notify", "tell", "ended"}
FlushPc == {"flushNotify", "flushCheck", "flushPark", "flushBlocked"}
DtorPc == {"dtorCheck", "dtorPark", "dtorBlocked"}
One(b) == IF b THEN 1 ELSE 0

TypeOK ==
  /\ logs \in Seq(Record) /\ ready \in Seq(Record)
  /\ waiters \in Seq(Thread) /\ told \in Seq(Thread)
  /\ exit \in {"no", "stopping", "joining"}
  /\ wpc \in WorkerPc
  /\ held \in SUBSET Logger /\ wcur \in Logger \cup {NoLogger} /\ last \in BOOLEAN
  /\ tpc \in [Thread -> {"idle", "append", "appendNotify"} \cup FlushPc \cup DtorPc]
  /\ tlog \in [Thread -> Logger \cup {NoLogger}]
  /\ nr \in [Thread -> 0 .. MaxLogs]
  /\ flushed \in [Thread -> BOOLEAN]
  /\ due \in [Thread -> [Logger -> Nat]]
  /\ ref \in [Logger -> Nat]
  /\ life \in [Logger -> {"alive", "dying", "dead"}]
  /\ buf \in [Logger -> Seq(Record)] /\ out \in [Logger -> Seq(Record)]

Posting(l) == {t \in Thread : tpc[t] = "append" /\ tlog[t] = l}

\* ref_ is the number of records of the logger that are on their way to the
\* worker, queued or being drained, plus one while a buffer holds text of it:
\* the count the destructor of the logger waits on is exact at every step.
RefMatches ==
  \A l \in Logger :
    ref[l] = Cardinality(Posting(l))
             + Count(logs, l) + Count(ready, l)
             + One(l \in held) + One(wpc = "unref" /\ wcur = l)

\* The worker never formats or writes on behalf of a logger that is gone.
UsedAlive ==
  \A l \in Logger :
    life[l] = "dead" => /\ buf[l] = <<>> /\ l \notin held
                        /\ Count(logs, l) = 0 /\ Count(ready, l) = 0

\* When the worker's thread has ended, every record ever logged has been written
\* by its logger and no logger has references left: the loggers that outlive the
\* worker (default_logger, constructed before it) can be destroyed.
NothingLost ==
  wpc = "ended" =>
    /\ \A l \in Logger : ref[l] = 0
    /\ \A t \in Thread : \A n \in 1 .. nr[t] :
         \E l \in Logger : [to |-> l, by |-> t, nr |-> n] \in Range(out[l])

\* The abstract log: accepted records are those in the worker's hands.
To(s, l) ==
  LET From[n \in 0 .. Len(s)] ==
        IF n = 0 THEN <<>>
        ELSE IF s[n].to = l THEN Append(From[n - 1], s[n]) ELSE From[n - 1]
  IN  From[Len(s)]
Pending == [l \in Logger |-> buf[l] \o To(ready, l) \o To(logs, l)]
AbstractLog == INSTANCE Log WITH
  pend <- Pending, closed <- {l \in Logger : life[l] = "dead"}, down <- wpc = "ended"

\* Every record comes out once, in order, in time for flush and the destructors,
\* and none waits for ever.
ImplementsLog == AbstractLog!Spec

\* ~worker returns: a stop that the worker's wait misses costs at most the
\* 10 seconds of the wait.
StopReturns == stop ~> wpc = "ended"

\* A flush returns.
InFlush(t) == tpc[t] \in FlushPc
FlushReturns == \A t \in Thread : InFlush(t) ~> ~InFlush(t)

\* A logger's destructor returns.
DestroyReturns == \A l \in Logger : life[l] = "dying" ~> life[l] = "dead"

=============================================================================
