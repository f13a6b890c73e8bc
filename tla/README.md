# A verification development for bc

`bc` is a small C++23 library: a single-threaded scheduler for coroutines on top
of epoll, non-blocking sockets with awaitable operations, a server and a client
built from them, and a logger with a background thread. The repository has no
tests and no documentation of behaviour; the code, its assertions, its log
messages and the programs in `examples/` are the reference. Paths below are
relative to the repository root.

## 1. Inventory

| Component | State it keeps | Operations | Talks to |
|---|---|---|---|
| `poller` (`async/scheduler.hpp:51`) | `epfd_`, `focus_` (mask last requested per descriptor), `evs_` (buffer of events) | `subscribe`, `unsubscribe`, `poll` | epoll; calls the handler it is given once per event |
| `scheduler` (`async/scheduler.hpp:115`, `scheduler.cpp`) | `coro_count_`, `time_nodes_` (heap), `descriptor_nodes_` (one list per descriptor) | `run`, three `post_coro`, `handle_expired_time_nodes_`, `handle_triggered_descriptor_nodes_`, `update_descriptor_` | resumes coroutines, which call back into `post_coro` and `unsubscribe` while it works on its lists |
| `task`, `promise` (`async/task.hpp`) | the frame, `prev`, the owning handle | eager start, `co_await`, symmetric transfer at the end, destroy | other tasks |
| `async_sleep` (`async/sleep.hpp`) | a deadline | one await | `scheduler::post_coro` |
| `socket` and its awaiters (`network/socket.hpp`) | `fd_`, `role_` | create, `bind`, `listen`, move, destroy; awaits for connect, accept, read, write | scheduler, kernel |
| `server` (`network/server.hpp`) | list of clients, each a socket and a task | `start`, accept loop, sessions, reaping | socket, task |
| `client` (`network/client.hpp`) | a socket and a task | `async_connect` | socket, task |
| logger and worker (`log/logger.hpp`, `log/worker.hpp`, `src/log/worker.cpp`) | `ref_` per logger; `logs_`, `waiters_`, `stop_` of the worker; two mutexes, two condition variables | `log`, `flush`, `~logger`; `append`, `loop_`, `drain_`, `~worker` | any thread against the worker's thread |
| formatter (`log/formatter.hpp`, `src/log/formatter.cpp`) | the parsed segments | parse, `format`, `repr` | pure |
| address (`network/address.hpp`) | a sockaddr | `parse_ipv4`, `parse_ipv6`, printing | pure |
| expected, error, overload, noncopyable | - | value wrappers | pure |

What makes it hard:

* **Re-entrancy.** Everything the scheduler iterates over can be changed by the
  coroutine it just resumed: the list of a descriptor, the mask in the kernel, the
  set of open descriptors, the heap of timers, the counter that ends the loop. The
  handler splices the list of a descriptor out, resumes from it, and splices the
  rest back.
* **Caches.** `focus_` mirrors the kernel's interest list and decides between ADD,
  MOD, DEL and nothing; closing a descriptor changes the kernel behind its back.
* **Stale events.** One `epoll_wait` returns several events; by the time a later one
  is handled, earlier handlers have run arbitrary code.
* **Time.** The clock is read in several places that can disagree; the timeout is
  truncated to milliseconds; at most one of poll and sleep is chosen.
* **Threads.** The logger counts references without the mutex of the destructor
  that waits for zero; flush and the worker meet on two different condition
  variables.

For each component, what makes it correct:

* *poller*: `focus_` equals the kernel's registration; `epoll_ctl` never fails.
* *scheduler*: each suspended coroutine has exactly one node; the counter counts
  them; the masks cover the waiters; nobody sleeps past a deadline; whoever waits
  for something that happens is resumed; `run` returns only when all is done.
* *task*: whoever awaits a task is resumed by its end, exactly once.
* *sockets, server*: no node outlives its socket; each byte echoed once and in
  order until the peer closes; finished sessions are reaped.
* *logger*: each record is written once, in order per thread; a logger outlives its
  records; flush and the destructors return.
* *formatter, address*: parse what they print, print what they parse.

## 2. Plan

1. `Poller`, `Task`, `Scheduler` with `MCScheduler` - the core. **Done.**
2. `SequenceLemmas`, `SchedulerProofs` - every safety property of
   the core for every number of coroutines and descriptors. **Done.**
3. `Growth` - the sizes of `descriptor_nodes_`, `focus_`, `evs_` and the iterators
   into them, with descriptors as numbers and `bit_ceil` - with `GrowthProofs`.
   **Done.**
4. `AsyncLog` - worker, loggers and their threads at the grain of lock, wait and
   notify - and the abstract `Log` (each logger's records come out once, in order)
   it implements - with `AsyncLogProofs`, the safety properties and the refinement for
   every number of threads, loggers and records. **Done.**
5. `EchoServer` - sockets with data, the server's accept loop and sessions, both as
   `server` and as the example writes them out, peers that connect, send, shut down and
   reset; it must keep the discipline of `CloseSocket` (a socket outlives its
   waiters) - with `EchoServerProofs`. **Done.**
6. `Executor` - the abstract promise of the scheduler, implemented by `Scheduler` under
   a refinement mapping - with `ExecutorProofs`. **Done.**
7. `Formatter`, `Address` - the parsers against reference definitions, over all texts
   up to a length - with `TextsProofs`, the same for texts of every length. **Done.**
8. `Client` - `async_connect`, the connect awaiter, and a handler started whatever the
   connect returned - with `ClientProofs`. **Done.**

Composition: `Scheduler` EXTENDS `Poller` and `Task` and implements `Executor`;
`AsyncLog` implements `Log`; `MCTexts` takes `Formatter` and `Address` together. The
others stand alone: `Growth` asks only at which index the tables are used, `EchoServer` and
`Client` reduce the scheduler to what it does for coroutines with one waiter per
socket (that this is what it does is the subject of `Scheduler` and `Executor`),
logging touches no scheduler state, and the parsers are pure.

## 3. The modules

### Poller

`focus` is `focus_`; `interest`, `open` and `ready` are the kernel's side: the epoll
registration, the descriptor table, and the conditions that hold on each
descriptor. A bit mask is the set of its flags. `CtlOp` is the lambda of
`poller::subscribe`, `CtlFails` the errors of `epoll_ctl` (EBADF, EEXIST, ENOENT),
`Focused` and `Registered` what a successful subscribe leaves behind.

### Task

`stack` is the chain of running coroutines, `cs` the state of each, `prev` is
`promise::prev`, `owner` the coroutine whose frame holds the task. `Call` starts a
coroutine on top of its caller (`suspend_never`), `Join` is `co_await task`,
`Finish` is `final_suspend`: it hands the thread to `prev` in place of the finished
coroutine, or returns to whoever resumed it.

### Scheduler

One thread, so its position is one `pc`. While `pc = "user"` coroutine code runs, on
behalf of main(), the timer loop or the handler (`caller`).

| Code | Model |
|---|---|
| `coro_count_` | `coroCount` |
| `time_nodes_` (heap of time and handle) | `timers`, `deadline` |
| `descriptor_nodes_[fd]` (list of mask and continuation) | `nodes[fd]`, `want` |
| the handler's `list`, `it`, `fd`, `e` | `kept` (before `it`), `rest` (from `it` on), `cur` |
| events of one `epoll_wait` still to handle | `batch` |
| `run` | `CallRun`, `RunIteration`, `ExpireDone`, `BeginPoll`, `BeginSleep`, `Returned` |
| `handle_expired_time_nodes_` | `ExpireTimer`, `ExpireDone` |
| `poller::poll` | `BeginPoll`, `WaitTimesOut`, `PollInterrupted`, `PollEvents`, `PollDone` |
| the handler lambda | `HandlerBegin`, `HandlerSkip`, `HandlerResume`, `HandlerAccept`, `HandlerAcceptAgain`, `HandlerEnd` |
| `post_coro`, `update_descriptor_` | `AsyncSleep`, `AsyncAwait`, `MaskLeft` |
| `--coro_count_` after a resume | `ResumeReturns` |
| the accept proxy of `async_accept_awaiter` | `HandlerAccept`, `HandlerAcceptAgain` |
| `use_domain_`, `~socket` | `OpenSocket`, `CloseSocket` |

A node is represented by its coroutine, because a suspended coroutine waits in
one place; that it does is the invariant `OneNode`, not an assumption: the lists
are sequences, in which a second node would show.

Abstractions: coroutine bodies are arbitrary sequences of what they can do to the
scheduler; payloads are left to `EchoServer`; the time between reading the clock and
the start of the wait in `run` is not modelled, since `epoll_wait` and `sleep_for`
take relative times and any delay there adds to the wait. A socket is
closed only when no coroutine waits on it (its waiters hold references to it); the
code does not check this.

### Executor

What `Scheduler` promises to the coroutines, without its lists, masks, counter, loops and
stack: who sleeps until when, who waits on which descriptor for what, what has been
reported and who is owed a resume. A coroutine that sleeps is resumed in its turn
(`WakeSleeper`: nobody with an earlier time is left, and no report is half handled); one
that waits is resumed only for what was reported (`WakeWaiter`). A `Report` misses
nobody whose events hold, and the next comes only when everybody who was owed
something has been resumed. It comes to the descriptors in `Turn`. A coroutine that starts
to wait on a descriptor before its turn is served by a report older than its wait
(`Await`), which is what the handler does: its event may be stale.

`Scheduler` maps its state to that of `Executor` in the definitions before
`ImplementsExecutor`: who waits are the nodes of a descriptor together with those the
handler has in its own list, what is reported is `batch`, and who is owed are those from
`it` on that match the event, and those that match an event still in the batch.

### Log and AsyncLog

`Log` is what a user of the logger may rely on: a record accepted for a logger comes
out of its backend once and in the order of acceptance, before the destructor of the
logger returns and before the worker is gone; a flush that returns has seen out
everything accepted before it. `AsyncLog` is the code.

| Code | Model |
|---|---|
| `logs_`, `waiters_` | `logs`, `waiters` (a waiter is the thread that flushes) |
| `stop_`, the join in `~worker` | `exit`, `Stop`, `StopNotify` |
| `loop_` | `LoopTest`, `WorkerWait`, `WorkerTimeout`, `Take`, `FinalDrain` |
| `drain_`: the loop over `logs_`, the loop over its buffers, the loop over `waiters_` | `FormatRecord`, `WriteBuffer`, `SetFlushed`, `NotifyFlusher`, `DrainEnd`; state `ready`, `buf`, `held`, `told` |
| `logger::unreference_` | `Unreference`, `NotifyLogger` |
| `logger::log`, `worker::append` | `LogBegin`, `AppendRecord`, `AppendNotify` |
| `worker::flush` | `FlushBegin`, `FlushNotify`, `FlushWait`, `FlushReturn` |
| `~logger` | `Destroy`, `DestroyWait`, `DestroyReturn` |

The grain is that of the code's synchronisation. Counting a reference and queueing the
record are two steps; so are decrementing and notifying, setting a flag and
notifying. A wait with a predicate is three: the test, the moment before the thread
sleeps, and sleep. Only the worker's wait excludes the other holders of its mutex
meanwhile; `flush` and `~logger` wait with a mutex nobody else takes. A
notification on the worker's `cv_` reaches the worker or a thread in `flush`, which
waits on the same condition variable; waiters may also wake spuriously.

What the model assumes of programs: nobody logs to a logger that is being destroyed, and
the static worker is destroyed after every other thread is done (`append` and
`flush` assert it). `stop_` is declared after `thread_`, which already reads it; the
worker is a static object and starts out zero, so this shows no effect. The level of
a logger only decides whether `log` returns at once and is left out. `due` is a
history variable.

### Growth

Descriptors are numbers, since `adjust_size_` computes with them.

| Code | Model |
|---|---|
| `descriptor_nodes_.size()`, `focus_.size()`, `evs_.size()` | `nodesSize`, `focusSize`, `evsSize` |
| the buffer `evs_` has, the iterators of the loop in `poll` | `evsBuffer`, `iterBuffer` (counted by reallocations) |
| `scheduler::adjust_size_`, `poller::adjust_size_` | `Adjusted`, `EvsAdjusted`, `BufferAdjusted` |
| `post_coro`, `~socket` | `Post`, `CloseSocket` |
| `poll` and the handler | `Poll`, `HandlerBegin`, `HandlerEnd`, `PollDone` |

An access past the end of a table or through an iterator into a buffer given up is
undefined; the model stops there and remembers why (`why`, `culprit`), so that the
properties can say which undefined steps there are and that there are no others.
`OpenSocket` hands out the lowest free descriptor, as the kernel does; `Reserved` are
those the process uses otherwise.

### EchoServer

The server of `main.cpp`, which uses `server`, and that of `examples/async-server.cxx`,
which writes the same loop out, with their peers. One `epoll_wait` takes a snapshot of the
conditions of all sockets (`Poll`); its events are then handled in any order the
kernel may have put them in, one system call each, while peers and network go on
between them.

| Code | Model |
|---|---|
| `clients_`, the tasks in it | `sock` (open), `session` |
| where that list is: a member of `server`, or a variable of the coroutine that accepts | `home` |
| `server::run_`, `add_client_`, the removal loop | `Accept`, `AcceptFails`, `Finished` |
| the session of `main.cpp`, `async_session_` | `SessionReads`, `SessionWrites`, `SessionWriteFails`, `SessionEnds` |
| `await_resume` of the read and write awaiters | `EventError`, `Asked`, `LeftToWrite` |
| `~task` of a client | `Destroyed`; a destroyed coroutine leaves its node in the scheduler, and `OrphanResumed` is the handler that comes to it |
| `bc_error_category::message`, what the example asks after a failed write | `errc`, `AfterMessage`, `AfterWriteError` |
| the kernel's connections | `backlog`, `inbox`, `outbox`, `Condition` |
| the limit of descriptors | `room`, chosen at the start |
| peers | `Connect`, `Send`, `Receive`, `Shutdown`, `Reset` |

When an accept fails the coroutine that accepts ends. The list of the example ends with
it (`ListDies`), and the sessions in it are destroyed where they wait; an event of
the same batch then resumes a frame that is gone, which is undefined, and if there is
none `run` waits for ever for the nodes they left. With `server` neither happens.

Assumed of the kernel: data received before a reset can still be read; a reset destroys
what was on its way to the peer; a reset after the peer's FIN makes the next write
raise SIGPIPE, a reset alone makes it fail with ECONNRESET; closing a socket still
delivers what was written. The n-th byte of a peer is the number n, so order and loss
show. Three things the model shows and that no property forbids: a peer that sends
and shuts down at once loses what was not read (the read awaiter looks at RDHANGUP
first), a short write drops the rest (`dropped`), and an accept that finds no descriptor
left ends the server, also when finished sessions still hold some (`AcceptFails`): a
refusal ends the waiting that `Accepted` speaks of, and `FinishedRemoved` only concerns a
server that still accepts.

### Client

`client` with the handler of `examples/client.cxx`, which writes each line of its input and
prints what one read brings back, against an echo server that may close or reset.

| Code | Model |
|---|---|
| `client::async_connect`, the connect awaiter | `ConnectNow`, `ConnectLater`, `ConnectFails`, `ConnectResumes`; `connected` records whether the connect succeeded, which nobody looks at |
| the handler's loop | `GetLine`, `LineWritten`, `WriteFails`, `ReplyRead`, `HandlerEnds`, `EndOfInput` |
| where the coroutine is, the event it is resumed with | `pc`, `event` (`Poll`) |
| standard input, the line in hand, standard output | `lines`, `typed`, `line`, `printed`; `answered` records how much was printed before the last read |
| the kernel's connection | `link`, `outbox`, `inbox`, `Condition` |
| server and network | `Accepted`, `Refused`, `Echo`, `ServerCloses`, `Reset` |

The end of the process is part of `pc`: "terminated" by an exception nobody catches,
"aborted" by `message()`, "killed" by SIGPIPE, and "undefined" after the handler's zero went
past the end of a full buffer. A connection that failed keeps its error until a system
call takes it, and stays dead after that ("gone"). The n-th byte of the input is the
number n. When the buffer overflows, `PrintsEcho` says what had to come together: at the
read as many bytes as the buffer holds were stored and not yet printed, and what is
read is either the answer to a line at least as long as the buffer or reaches back to what
earlier reads have left of earlier answers.

### Formatter

A format is a sequence of tokens: the characters the parser looks at, the names it knows,
and one other character; indices count from 1. `ParserBegins` and `ParserStep` are the
parser's variables before the loop of the constructor and one turn of it; `Segments` is the
loop and what stands behind it. It makes as many turns as the format has tokens; once the
index is past the end a turn changes nothing. `OpensAt`, `TextBefore`,
`NameBegins` and `Named` are what its branches test and add; `Joined` and `Repr` put the segments together, `LengthLeft` is the loop that
takes newlines off, and `Format` the line, or nothing known when `back()` is called on
an empty string. The reference is `MeantSegments`, which knows no parser state: from a
position on, a format means the text up to the next "%{", the name up to the next "}"
behind it if it is one, and what it means from there on. The names and the characters are
different tokens, and no name is the mark of a piece of text (`FormatterAssumption`).

### Address

A hostname is the sequence of its segments and the character between them ("mixed": colons,
and dots between the last four); a segment
is empty, a number that fits, or one that does not. `Ipv4` and `Ipv6` are the parsers: `Shortened`
is the cut of "::" at an end, `Taken` how far each of the two loops over the segments
comes. The result is the memory of the address,
byte by byte, on a little-endian machine; `Printed` is `expr`. The reference is RFC
4291, 2.2, with its three forms: eight numbers (`Full`), at most seven around one "::"
(`Gapped`), and either of them with the last 32 bits written as four numbers between dots,
like `::ffff:192.0.2.1` (`Mixed`); to these come the four numbers of IPv4 (`Dotted`).
`MeantNumbers` in `NetworkOrder` is what an address means. Two of these are refused by the code, and
`Refused` names them: "::" alone, and every mixed address, since the character tests at the
beginning of `parse_ipv4` and `parse_ipv6` (`address.hpp:40` and `72`) each reject what the
other needs.

`MCTexts` gives both parsers every text up to a length, one state each, and logs a set of
messages (`Messages`, five in the run, any in the proofs). The numbers it writes
into hostnames fit their places as long as the bounds on their lengths say so
(`TextsAssumption`).

## 4. Runs

| Run | Question | Instance |
|---|---|---|
| `scheduler_safety` | Do lists, counter, cached masks and kernel agree at every step, with connections accepted inside the handler too; is the order of waiters kept, does `run` return only when everything is done; and does all of it implement `Executor`? | 3 coroutines, 2 descriptors, read, write and accept waits, peers that hang up, one-tick sleeps, clock up to 1; symmetric |
| `scheduler_liveness` | Does truncation or the default period ever make the thread wait past a deadline; is every sleeper resumed and every lasting condition served? | 2 coroutines, 1 descriptor, 2 ticks per millisecond, period 3, delays 1 and 3, clock up to 5 |
| `scheduler_accept_spin` (violation) | Is every sleeper resumed when accept proxies are in use? | 2 coroutines, 1 descriptor, accept waits, clock up to 2 |
| `async_log_implements` | Are the reference counts exact, is no dead logger used for its records, is everything written when the worker ends; does the logger implement `Log`, and does `~worker` return? | 2 threads, 2 loggers, 1 record per thread, the worker woken beyond 1 record |
| `async_log_flush` (violation) | Does every flush return? | 2 threads, 1 logger, 1 record per thread |
| `async_log_destroy` (violation) | Does every destructor of a logger return? | 2 threads, 1 logger, 1 record per thread |
| `growth` | Do the tables stay in step, are the handler's accesses in bounds, which index can escape? | descriptors up to 10, those of stdio and epoll reserved |
| `growth_index` (violation) | Is every access after `adjust_size_` within bounds? | descriptors up to 8, those of stdio and epoll reserved |
| `echo_server` | Do bytes come back, once and in order; is everybody accepted, do sessions end with their peers, are they removed, and never while somebody waits, unless the list dies with its coroutine? | 2 peers, 3 bytes in all, buffer 2, 1 byte on its way, 1 or 2 descriptors, both homes of the list |
| `echo_killed` (violation) | Does the process only end by itself? | 2 peers, 1 byte in all, both homes of the list; symmetric |
| `client` | Is a failed connect noticed before anything is sent; is what is printed what was sent; does the client ever wait for ever? | all inputs of up to 4 lines of 0, 1, 2 or 4 bytes, buffer 3, 3 bytes on their way |
| `texts` | Does the parser cut a format into what it means, does a line lose its last newlines only; which addresses are read and printed as they are meant, which are refused, and what is accepted besides? | all formats of up to 5 tokens, 2 names, 5 messages; all hostnames of up to 10 segments, colons or mixed, of up to 5 with dots only |

Why the bounds are enough. Two descriptors give a batch of two events, so a
handler can disturb the event behind it; two coroutines on one descriptor give a
kept node beside a resumed one, the third one posts meanwhile or is awaited. A
descriptor is closed and reused by any later open. In the liveness run a period
of one and a half milliseconds has a remainder, and deadlines fall below, at and
beyond it; one coroutine sleeps while the other waits, sleeps or is awaited.
For the logger, two threads let one destroy what the other logged to while
the worker drains, two loggers let the worker write one buffer while it holds another;
a wake-up beyond one record lets a drain find one or two, and leaves a single
record to the timeout. Threads that log more than once are covered by the proofs.
Ten descriptors let the tables grow to 4, 8 and 16, with every order of growing
inside and outside the handler. Three bytes against a buffer of two and room for one
give partial reads and short writes; one descriptor for two peers runs out, two let
one finished session be removed when the other peer comes, and let an accept fail
while a session waits. The client's lines are empty, fit everywhere, fill
the buffer only together with an answer left over, or are longer than the connection
takes at once; four of them let a late answer meet a later line. Five
tokens hold one whole name with text on one side or two names that share an end; ten
segments are eight numbers with "::" at an end, or six before four with dots.

Properties, and what breaks them (the mutants of PROJECT.json): `TypeOK` (the
unsigned `coro_count_` never goes below zero; a timer not popped), `OneNode` (a node
not erased), `CountMatches` and `WaitsTheRightWay` (a missing decrement),
`InterestMatches` and `IoServed` (no new mask at the end of the handler),
`NeverTerminated` (unsubscribe that leaves the cache alone), `EventsFresh`
(unsubscribe that never reaches the kernel), `NothingLeftBehind` (a finished task
that forgets its awaiter), `ImplementsExecutor` (every node resumed whatever the event),
`WaitOrderStable` (nodes spliced back at the wrong end),
`NoOversleep` (timeout rounded up), `TimerFires` (run that looks at descriptor
waits only). Of the logger: `TypeOK` and `UsedAlive` (no reference for the buffer),
`RefMatches` (a reference for each record in it), `NothingLost` (no drain after the
loop), `ImplementsLog` (flushes released before the buffers are written), `StopReturns`
(a wait without the timeout). Of the tables: `TypeOK` (an event handled twice), `BatchFits`
(`evs_` not resized), `HandlerInBounds` (a table shrunk to the last index), `OnlyPowersEscape` (a
table sized by the index itself). Of the server: `TypeOK` (a read beyond the buffer),
`EchoInOrder` (a short write repeated from the start), `SocketOutlivesWaiter` (all clients
removed), `Echoed` (a read that does not wait for data), `Accepted` (one accept only),
`FinishedRemoved` (nobody removed), `HangupEndsSession` (RDHANGUP overlooked). Of the
client: `TypeOK` (a line stored whole whatever room there is), `FailedConnectNoticed` (a
hangup left to the system call), `PrintsEcho` (what was read stays in the socket),
`NeverStuck` (a connect awaiter that asks for errors only). Of the formatter:
`ParsesWhatIsMeant` (a brace in the name), `ReprFaithful` (a name that becomes text),
`StripsNewlines` (one newline only). Of addresses: `ReadAsMeant` ("::" at the end not cut),
`PrintedAsMeant` (no `ntohs`), `OnlyLenient` (nobody counts the numbers between dots).

Fairness. `WF(LoopStep)`: the thread in `run` is never blocked except in a wait that
ends at its timeout or at an event, both of which enable a loop step. `WF(Yield)`:
coroutine code reaches its next suspension or its end; a coroutine that computes
for ever stops any cooperative scheduler. `WF(Tick)`: time passes, up to the bound.
`SF(HandlerAccept)`: used for the violation run only in effect; the accept proxy is
called again and again, so if connections keep arriving it meets one. Without it
the counterexample would need a network that withdraws each connection in time.
In `AsyncLog`, `WF(WorkerStep)` and `WF(StopNotify)`: threads run.
`SF(ThreadStep(t))`: a thread that wants the mutex, which the worker gives back in
every turn, gets it in the end. `SF(WorkerTimeout)`: `wait_for` with a predicate
computes its end once, so waking the worker up does not postpone the timeout. No
call is ever forced to begin, and no spurious wake-up to happen. In `EchoServer`,
`WF(LoopStep)`: the thread in `run` goes on, and `WF(Receive(p))`: a peer that has not reset its
connection receives what comes in. No peer has to connect, send, shut down or reset,
and a peer that stops receiving is not covered by `Echoed`. In `Client`, `WF(ClientStep)`: the
process runs; `WF(Accepted \/ Refused)`: the kernel settles an attempt to connect one
way or the other, by its time limit if by nothing else; `WF(Echo)`: the server, which is
another process, sends back what it gets as long as the connection lasts. Nobody has to
close or reset.

### What the violations show

When the connection that made a listening socket readable is gone (taken by
another waiter on the same socket), `accept4` says EAGAIN, the proxy logs
"accept returns negligible error" (`socket.hpp:253`) and returns false. The handler
(`scheduler.hpp:179-193`) then neither erases the node nor advances `it`, and calls
the proxy again at once. Until another connection arrives the thread spins there:
timers and other descriptors starve.

Two are in the logger. `flush` registers a condition variable of its own
(`worker.cpp:31`) but waits on the worker's (`worker.cpp:36`): the drain that serves it
notifies a variable nobody waits on, and `flush` returns only if another notification
or a spurious wake-up happens to reach it. `unreference_` (`logger.hpp:67`) takes no
mutex: its notification can fall between the test and the wait of `~logger`, which
then waits for ever. The model has two more weak places no run asks about, since no
line of the repository promises otherwise: `unreference_` and `drain_` publish the change
first and notify second, through an object the other thread is free to destroy in
between, the logger or the local condition variable of `flush`.

`adjust_size_` gives a table `bit_ceil(index)` elements, and a power of two is its own
ceiling: with descriptors 0 to 4 in use for stdio, the listening socket and epoll, the
fourth connection gets 8 and element 8 of 8 is accessed. The model also stops where `poll`
walks through `evs_` with iterators into a buffer that a handler has made `evs_` leave.

A peer that resets its connection between `epoll_wait` and the write ends the server:
ECONNRESET has no entry in `errc`, so the handler's call of `message()` aborts; after a FIN
the write raises SIGPIPE. In `examples/async-server.cxx` any failed write has this effect,
since it asks the result of the read before, which succeeded, for its error.

Not violations, since the repository has no other statement of what an address is, but
shown by what the properties about addresses say: `from()` rejects "::" and every
address whose last numbers stand between dots behind colons (`ReadAsMeant`), and accepts
hostnames that are no addresses. `OnlyLenient` lists all of them, none of which has dots: fewer
than eight numbers (none included), a single colon at an end, and any text of digits and
colons behind eight numbers.

## 5. Proofs

`SchedulerProofs` proves all safety properties of `Scheduler` - `TypeOK`, `OneNode`,
`CountMatches`, `InterestMatches`, `NeverTerminated`, `EventsFresh`, `WaitsTheRightWay`,
`NoOversleep`, `NothingLeftBehind` - and the action property `WaitOrderStable`, for every
finite set of coroutines and of descriptors, every set of waits, delays and
readiness, every period and clock resolution. The assumptions are
`NoCoroAssumption` (the null handle is no coroutine) and `SchedulerAssumption` (the
sets are finite, a wait asks for something, delays and the period are positive);
the runs evaluate both.

None of the properties is inductive alone. The inductive invariant `IInv` adds to them:

* `StackInv`: the running coroutines are those on the stack, each once, and none runs
  while the scheduler's code does;
* `JoinInv`: only the holder of an unfinished task is recorded in `prev`, and it is
  suspended and awaits nothing else - so the coroutine `Finish` switches to
  is one that was waiting for exactly this;
* `HandlerInv`: the handler's lists are empty outside it - so a list of waiters is
  the list of nodes there;
* `OpenInv`: only open descriptors are waited on - so subscribing never meets EBADF;
* `BatchInv`: a batch has one event per descriptor, and none for the handler's own -
  so taking the nodes of one descriptor leaves those of the other events.

The argument. `OneNode` and `CountMatches` go together: a step that parks or resumes a
coroutine moves one element between disjoint sets, and the counter follows their
cardinality. `InterestMatches` makes every `epoll_ctl` call the right one, and with
`OpenInv` it cannot fail. `WaitsTheRightWay` follows from the count when the wait
begins: as `timers` is a part of the parked coroutines, the two are equal when
their sizes are. `NoOversleep` needs that the minimum of a set of numbers exists and
that truncation rounds toward zero. For `NothingLeftBehind`, `AwaitInv` says that tasks
are held in a tree (every set of coroutines has a member that holds the task of no
other member) and that whoever awaits has an unfinished task: when nobody is
parked or running, the set of the joined coroutines would have no such member
unless it is empty. `WaitOrderStable` comes from what each step does to a list:
nothing, an append, or taking out one element.

`ExecutorProofs` proves `ImplementsExecutor`, from the same assumptions and the same `IInv`:
the initial states map to initial states, and each action to an action of `Executor` or to
a stutter (`NothingSeen` says which variables `Executor` sees at all). It needs one
invariant more, `BatchIdle`: events are only at hand while a batch is handled, so that
whenever timers are looked at or a new report is fetched nobody is owed anything. The
hard steps are `PollEvents`, where the masks being right (`InterestMatches`) makes the report miss
nobody, and `HandlerBegin`, where the nodes of the descriptor change from owed by the
batch to owed by the handler.

`SequenceLemmas` states what append, concatenation, front and tail do to the elements of a
list and to its having no duplicates, and, for streams of growing numbers, that they are
cut, joined and passed on without loss. It also has what the proofs about loops need:
induction over numbers and sequences, with the set of those the claim holds for as its
parameter (`NumberInduction`, `SequenceInduction`); that a definition by recursion has the
function it describes, counting up (`RecursionExists`) or down along any rank
(`RankedRecursion`); and that `FlattenSeq` of a sequence with one element more appends
that element (`FlattenAppend`).

`AsyncLogProofs` proves `TypeOK`, `RefMatches`, `UsedAlive` and `NothingLost` of `AsyncLog` for every
finite set of threads and loggers, every threshold and every number of records, under
`AsyncLogAssumption` (finite sets, `NoLogger` is no logger). Its `IInv` adds to them:
`CallInv` (a thread that posts names a logger that is alive, a thread in `~logger`
one that is not), `WorkerInv` (the worker holds records and buffers only inside
`drain_`, and knows whom it is about to notify), `BufferInv` (text in a buffer
holds a reference), `EndInv` (once `stop_` is set no thread posts or flushes, and the last
drain leaves nothing) and `RecordInv` (each record ever logged is about to be posted,
queued, being formatted, in a buffer or written). The argument: `RefMatches` is a
sum of five terms and each step moves one unit between two of them, or adds one at
`LogBegin` and when a buffer is opened. A destructor that returns has seen the sum at
zero, hence all five terms, which is `UsedAlive`. `NothingLost` is `RecordInv` at the
end, where `EndInv` leaves only the last place.

It also proves that `AsyncLog` implements `Log` as far as safety goes (`LogImplemented`): the
initial states map to initial states, and each step to one of `Log` or to a stutter. The
mapping makes one queue per logger of its buffer, the records of it that the worker has
taken, and those in `logs_`. `FormatRecord` and `Take` only move records within it, and
`WriteBuffer` writes a front piece of it. What each other step needs is `LogInv`, proved in
`FlushesServed`: `FreshInv` (a record about to be posted is nowhere yet, so nothing is
accepted twice), `FlushInv` (a thread in `flush` is on one of the two lists of waiters, once,
until it is released; the one the worker is just notifying is already off, since it may
have returned and called `flush` again) and `DueInv` (what a flush waits for is accepted while
it is in `waiters_`, taken or written while it is in the list of this drain, and written
once it is released). `DueInv` is why `drain_` has to release waiters last and take them
together with the records.

`GrowthProofs` proves `TypeOK`, `BatchFits`, `HandlerInBounds` and `OnlyPowersEscape` of `Growth` for every number of
descriptors up to 2^20, the range of the powers of two the module has
(`GrowthAssumption`). `SizeInv` adds that every table has no elements or a power of two of
them. `bit_ceil` of an index is the least power of two not below it (`BitCeilLeast`, from
the well-founded order of the numbers), so a table that is above an index is at
least at its `bit_ceil` (`Fits`), and one that is not becomes equal to it: the tables that
grow at different moments never fall behind each other, and the first index past an
end equals a size.

`EchoServerProofs` proves `TypeOK`, `EchoInOrder` and `SocketOutlivesWaiter` of `EchoServer` for every finite set of
peers, every buffer, connection and number of descriptors (`EchoServerAssumption`); the
bound `MaxBytes` is a guard of `Send` that no step of the proofs relies on. The invariant is
`SocketInv` (which socket is in which state for which session, and that a socket is queued
once), `BatchInv` (the events at hand are for different coroutines, each of which still
waits or has left its node - so that handling one event cannot take away what a later
one needs) and `StreamInv` (what a peer received, what is on its way back, what
the session holds and what it has not read are one stream of growing numbers; as long as the
connection is whole they are all it sent but what short writes left out).

`ClientProofs` proves `TypeOK`, `FailedConnectNoticed` and `PrintsEcho` of `Client` for every set of inputs, every
buffer and every connection (`ClientAssumption`). `ConnectInv` says that a connect that failed
leaves a socket on which every event has a hangup, so that the handler ends at its first
wait; `StreamInv` is that of the server, with the line in hand behind it. That the buffer overflows
only with as many bytes stored and not yet printed as it holds is a count: what the read
brings are growing numbers, all larger than what was printed before and all of them
stored (`StreamLength`); and if all of them are of the line in hand, that line is at least
as long (`WithinLength`).

`TextsProofs` proves the six properties of `texts` for texts of every length: of `MCTexts`, for any
bounds and any set of messages that keep `TextsAssumption`, and below that for every format over any set of names
(`ParsedAsMeant`, `FormatPrinted`, `LineFormatted`) and for every hostname with any numbers of 16
bits (`ValidRead`, `PrintedBack`, `LenientForms`). The state never changes, so each theorem is
one about the operators, applied to the initial states.

* `ParsedAsMeant`: the invariant of the parser's loop is that what it has cut off, followed by
  what the reference says from where it stands, is what the whole format means. Outside a
  name that is the meaning from the beginning of the text in hand; inside a name
  it depends on whether a "}" follows. A turn that neither opens nor closes anything
  leaves the next opening or closing where it is.
* `FormatPrinted`: from the end of a format to its beginning, what each position means prints
  as the format from there on, where a name is known whenever "%{" opens one.
* `LineFormatted`: the loop over the newlines leaves the least length behind which there is
  nothing else.
* `ValidRead`: "::" loses one colon and is refused for the second (`AnyRefused`). Any other
  hostname with a gap, cut by `Shortened`, is left numbers, one empty segment,
  right numbers (`GapShortened`); this determines how far both loops come
  (`GapTaken`), and that a hostname has only one gap. `StoredFacts` and `HtonsFacts` say
  that a word whose bytes are exchanged and laid down least byte first lies in network order.
* `LenientForms`: from how far the loops came when `parse_ipv6` accepts (`Accepted6`) back to
  the segments before the cut, in the cases of "::" at the beginning, at the end, and
  neither.

Only model-checked: the liveness properties (`TimerFires`, `IoServed`, `StopReturns`, `Echoed`,
`Accepted`, `HangupEndsSession`, `FinishedRemoved`, `NeverStuck`) and the fairness that `ImplementsLog`
asks for besides `AbstractLog!Safety` (no record waits for ever), since fairness and ENABLED are
beyond the prover. Every invariant and every other action property that a passing run
checks is also proved.

## 6. Not modelled

* An exception of the formatting in `logger::log` (`logger.hpp:50-57`): it would leave between the
  increment of `ref_` and `append`, and the reference stays for good, so that `~logger`
  waits for ever. Format strings are checked when the program is compiled, which
  leaves formatters that throw and memory that runs out.
* `~task` of the tasks a finishing coroutine holds, in `Scheduler`: there they run on, and what
  their destruction does to a waiting coroutine is in `EchoServer` (`Destroyed`).
* Closing a socket while coroutines wait on it, in `Scheduler`: `~socket` does not check
  (`socket.hpp:135-143`), and the guard of `CloseSocket` assumes it away. That the server keeps this
  discipline, also among the events of one batch, is `SocketOutlivesWaiter` of `EchoServer`.
* Errors of `epoll_ctl` from the environment (ENOMEM, ENOSPC): `NeverTerminated` is about those
  the code itself could bring about, EBADF, EEXIST and ENOENT.
* A second coroutine that awaits the same task (`task.hpp:107`): tasks are not copied, and
  `Join` lets only the holder await.
* Timers that expire so often that `run` never polls (`scheduler.cpp:42`): the clock of the
  model is bounded.
* Several waiters with data on one socket: `Scheduler` has the waiters without data,
  `EchoServer` the data with one waiter; no program of the repository shares a connection.
* The blocking members `read` and `write` of `socket`, and `task::operator()`: nothing in the
  repository calls them. Moves of a task or a socket only hand a handle on.
* The errors of `bind` and `listen`: they end the process before the loop runs.
* `examples/one-time-server.cxx` and `examples/sleep.cxx`: they make no call that `Scheduler` does
  not model with arbitrary coroutines.
* The handler `client::async_connect` takes by reference and uses after the wait
  (`client.hpp:22`), when its caller may have destroyed it: the lambda of the example
  captures nothing, so nothing is read through the reference and a model would have no
  state that differs.
* `logger::set_level`, a plain field that other threads read: whatever they read, `log`
  returns at once or goes on as modelled.
* The log's front end, record and backend, `expected`, `error`'s texts, `overload`, `noncopyable`: values,
  forwarding and output, without state that changes. What `message()` aborts on is
  in `EchoServer` and `Client`.
