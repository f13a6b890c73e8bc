-------------------------------- MODULE Task --------------------------------
(***************************************************************************)
(* bc::async::task and its promise: coroutines that start eagerly, run on  *)
(* one thread until they suspend, and hand control to whoever awaits them  *)
(* when they finish.                                                       *)
(*                                                                         *)
(* stack is the part of the machine stack that holds coroutine frames: the *)
(* last element is the coroutine that runs, the one below it called it.    *)
(* When stack is empty, main() or the scheduler runs.                      *)
(***************************************************************************)
EXTENDS Integers, SequencesExt

CONSTANTS Coro,         \* the coroutines the program can create
          NoCoro        \* the null handle

ASSUME NoCoroAssumption == NoCoro \notin Coro

VARIABLES
  stack,                \* the coroutines running now, innermost last
  cs,                   \* what each coroutine is doing
  prev,                 \* promise::prev, the coroutine awaiting this one
  owner                 \* the coroutine whose frame holds the task object

taskVars == <<stack, cs, prev, owner>>

\* "timer" and "fd" are suspensions the scheduler must end; "joined" is one
\* that the end of another coroutine must end.
CoroState == {"new", "running", "timer", "fd", "joined", "done"}

Running == IF stack = <<>> THEN NoCoro ELSE Last(stack)

TaskTypeOK ==
  /\ stack \in Seq(Coro)
  /\ cs \in [Coro -> CoroState]
  /\ prev \in [Coro -> Coro \cup {NoCoro}]
  /\ owner \in [Coro -> Coro \cup {NoCoro}]

TaskInit ==
  /\ stack = <<>>
  /\ cs = [c \in Coro |-> "new"]
  /\ prev = [c \in Coro |-> NoCoro]
  /\ owner = [c \in Coro |-> NoCoro]

\* Calling a coroutine function: initial_suspend never suspends, so the body
\* runs at once, on top of its caller.
Call(c) ==
  /\ cs[c] = "new"
  /\ cs' = [cs EXCEPT ![c] = "running"]
  /\ stack' = Append(stack, c)
  /\ owner' = [owner EXCEPT ![c] = Running]
  /\ UNCHANGED prev

\* The running coroutine suspends in state s; its caller or resumer goes on.
Suspend(s) ==
  /\ stack # <<>>
  /\ cs' = [cs EXCEPT ![Running] = s]
  /\ stack' = Front(stack)

\* co_await t: task_awaiter::await_ready is false while t is not done, and
\* await_suspend leaves the awaiting coroutine in t's promise.  A task can be
\* moved but not copied, so only the coroutine that holds it awaits it.
Join(t) ==
  /\ stack # <<>>
  /\ owner[t] = Running
  /\ cs[t] \notin {"new", "done"}
  /\ prev' = [prev EXCEPT ![t] = Running]
  /\ Suspend("joined")
  /\ UNCHANGED owner

\* Mutant: final_suspend returns to the resumer and forgets prev.
BugContinuation(c) == NoCoro

\* The coroutine that final_suspend switches to.
Continuation(c) == prev[c]

\* The running coroutine returns: final_awaiter transfers control to the
\* awaiting coroutine, if there is one, in place of this one.
Finish ==
  /\ stack # <<>>
  /\ LET next == Continuation(Running)
     IN  IF next = NoCoro
         THEN /\ cs' = [cs EXCEPT ![Running] = "done"]
              /\ stack' = Front(stack)
         ELSE /\ cs' = [cs EXCEPT ![Running] = "done", ![next] = "running"]
              /\ stack' = Append(Front(stack), next)
  /\ UNCHANGED <<prev, owner>>

\* coroutine_handle::resume, called by the scheduler with no coroutine running.
Resume(c) ==
  /\ stack' = <<c>>
  /\ cs' = [cs EXCEPT ![c] = "running"]
  /\ UNCHANGED <<prev, owner>>

=============================================================================
