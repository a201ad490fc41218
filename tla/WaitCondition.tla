--------------------------- MODULE WaitCondition ---------------------------
(***************************************************************************)
(* The blocking primitive of the kernel: sync/wait_condition.rs on top of  *)
(* Context::block and Context::unblock (context/context.rs).               *)
(*                                                                         *)
(* A WaitCondition is the set of contexts in its vector.  The vector's     *)
(* order is never observable (notify pops every entry, wait removes its    *)
(* own entry), and a context sleeps in one place at a time, so a set is    *)
(* exact.  The actions take the two variables involved as parameters: st,  *)
(* the status of every context, and ws, the waiters of one condition; the  *)
(* modules that own such variables put the actions together.  A module     *)
(* with a family of conditions uses the values Unblocked gives.            *)
(***************************************************************************)

\* context/context.rs: enum Status.  The signal or exit code carried by
\* Stopped and Exited plays no part in scheduling.
Status == {"Runnable", "Blocked", "Stopped", "Exited"}

\* Context::block: only a runnable context becomes blocked.
Block(st, c) ==
  st' = IF st[c] = "Runnable" THEN [st EXCEPT ![c] = "Blocked"] ELSE st

\* Context::unblock of every context of S; a stopped or exited context stays so.
Unblocked(st, S) ==
  [c \in DOMAIN st |-> IF c \in S /\ st[c] = "Blocked" THEN "Runnable" ELSE st[c]]

Unblock(st, S) == st' = Unblocked(st, S)

\* WaitCondition::notify, under the vector's lock: unblock and pop every entry.
Notify(st, ws) ==
  /\ Unblock(st, ws)
  /\ ws' = {}

\* WaitCondition::notify_signal: unblock every entry and pop none.
NotifySignal(st, ws) ==
  /\ Unblock(st, ws)
  /\ UNCHANGED ws

\* WaitCondition::wait up to drop(guard): the caller has blocked itself and now
\* enters the vector.
WaitPush(ws, c) ==
  ws' = ws \cup {c}

\* WaitCondition::wait after switch() returns: a caller still in the vector was
\* woken by a signal (or by notify_signal); it takes itself out and the call
\* returns false.
WaitReturn(ws, c, waited) ==
  /\ waited = (c \notin ws)
  /\ ws' = ws \ {c}
=============================================================================
