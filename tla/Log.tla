-------------------------------- MODULE Log --------------------------------
(***************************************************************************)
(* What a user of bc::log may rely on, whatever the worker does: each      *)
(* record accepted for a logger comes out of its backend once, in the      *)
(* order the records were accepted, before the logger's destructor returns *)
(* and before the worker is gone; a flush that returns has seen everything *)
(* accepted before it out.                                                 *)
(***************************************************************************)
EXTENDS Integers, Sequences

CONSTANTS Thread, Logger, Record

VARIABLES
  pend,     \* per logger: records accepted and not yet written
  out,      \* per logger: records written by its backend
  due,      \* per thread: how much its flush waits for, per logger
  closed,   \* loggers whose destructor has returned
  down      \* the worker has ended

vars == <<pend, out, due, closed, down>>

NothingDue == [l \in Logger |-> 0]

Init ==
  /\ pend = [l \in Logger |-> <<>>]
  /\ out = [l \in Logger |-> <<>>]
  /\ due = [t \in Thread |-> NothingDue]
  /\ closed = {}
  /\ down = FALSE

Fresh(r) == \A l \in Logger : \A i \in 1 .. Len(out[l] \o pend[l]) : (out[l] \o pend[l])[i] # r

\* worker::append
Post(l, r) ==
  /\ ~down /\ l \notin closed /\ Fresh(r)
  /\ pend' = [pend EXCEPT ![l] = Append(@, r)]
  /\ UNCHANGED <<out, due, closed, down>>

\* backend::write of some of the oldest records
Write(l) ==
  /\ l \notin closed
  /\ \E n \in 1 .. Len(pend[l]) :
       /\ out' = [out EXCEPT ![l] = @ \o SubSeq(pend[l], 1, n)]
       /\ pend' = [pend EXCEPT ![l] = SubSeq(@, n + 1, Len(@))]
  /\ UNCHANGED <<due, closed, down>>

\* The end of ~logger
Close(l) ==
  /\ pend[l] = <<>>
  /\ closed' = closed \cup {l}
  /\ UNCHANGED <<pend, out, due, down>>

\* worker::flush
FlushCall(t) ==
  /\ ~down
  /\ due' = [due EXCEPT ![t] = [l \in Logger |-> Len(out[l]) + Len(pend[l])]]
  /\ UNCHANGED <<pend, out, closed, down>>

FlushReturn(t) ==
  /\ \A l \in Logger : due[t][l] <= Len(out[l])
  /\ due' = [due EXCEPT ![t] = NothingDue]
  /\ UNCHANGED <<pend, out, closed, down>>

\* The end of ~worker
Shut ==
  /\ \A l \in Logger : pend[l] = <<>>
  /\ \A t \in Thread : due[t] = NothingDue
  /\ down' = TRUE
  /\ UNCHANGED <<pend, out, due, closed>>

Next ==
  \/ \E l \in Logger : Write(l) \/ Close(l) \/ \E r \in Record : Post(l, r)
  \/ \E t \in Thread : FlushCall(t) \/ FlushReturn(t)
  \/ Shut

Safety == Init /\ [][Next]_vars

\* No record waits for ever.
Spec == Safety /\ \A l \in Logger : WF_vars(Write(l))

=============================================================================
