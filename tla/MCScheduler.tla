---------------------------- MODULE MCScheduler -----------------------------
(***************************************************************************)
(* Instances of Scheduler for TLC.                                         *)
(***************************************************************************)
EXTENDS Scheduler

\* The masks of async_read and async_write.
ReadAwait == [ev |-> {READ, ERROR, HANGUP, RDHANGUP}, proxy |-> FALSE]
WriteAwait == [ev |-> {WRITE, ERROR, HANGUP}, proxy |-> FALSE]

\* The mask of async_accept.
AcceptAwait == [ev |-> {READ}, proxy |-> TRUE]

ReadWrite == {ReadAwait, WriteAwait}
AcceptOnly == {AcceptAwait}
AcceptWrite == {AcceptAwait, WriteAwait}

QuietOrClosed == {{}, {READ, HANGUP}}
QuietOrReadable == {{}, {READ}}
QuietReadableOrWritable == {{}, {READ}, {WRITE}}

AllSymmetry == Permutations(Coro) \cup Permutations(Fd)

=============================================================================
