----------------------------- MODULE WaitQueue -----------------------------
(***************************************************************************)
(* sync/wait_queue.rs: an unbounded FIFO (Mutex<VecDeque>) with a          *)
(* WaitCondition, shared by senders and by receivers that may block, and   *)
(* the signals that interrupt a blocked receiver (syscall/process.rs kill, *)
(* context/switch.rs).  One element is the number of the send that queued  *)
(* it, so the elements are distinct and their order is the order of the    *)
(* sends.                                                                  *)
(*                                                                         *)
(* A critical section of the inner mutex is one step, except in wait(),    *)
(* where the caller keeps the mutex from the check of the queue to its     *)
(* entry in the vector of waiters, while notify and kill, which do not     *)
(* take that mutex, may come in between.                                   *)
(***************************************************************************)
EXTENDS WaitCondition, Naturals, Sequences

CONSTANTS Receivers,   \* contexts that call receive_into_user
          Senders,     \* contexts or interrupt handlers that call send
          MaxSends,    \* bound: elements ever sent
          MaxBuf,      \* bound: elements that fit in a receiver's buffer
          MaxSignals   \* bound: signals ever sent

ASSUME QueueAssumption ==
  /\ Receivers \cap Senders = {}
  /\ MaxSends \in Nat /\ MaxBuf \in Nat /\ MaxSignals \in Nat

VARIABLES
  inner,     \* WaitQueue.inner: the queued elements
  waiters,   \* WaitQueue.condition
  guard,     \* the receiver that holds the inner mutex inside wait(), or {}
  status,    \* Context.status of the receivers
  pending,   \* receivers with a pending signal
  pc,        \* where each receiver and sender is
  nsent,     \* elements sent so far
  got,       \* history: the elements received, in the order they were drained
  nsignals   \* signals sent so far

vars == <<inner, waiters, guard, status, pending, pc, nsent, got, nsignals>>

Init ==
  /\ inner = <<>>
  /\ waiters = {}
  /\ guard = {}
  /\ status = [r \in Receivers |-> "Runnable"]
  /\ pending = {}
  /\ pc = [p \in Receivers \cup Senders |-> "idle"]
  /\ nsent = 0
  /\ got = <<>>
  /\ nsignals = 0

Goto(p, l) == pc' = [pc EXCEPT ![p] = l]

\* Mutant: the drain rounds the bytes copied up to an element too many.
ReceiveDrainsOneMore(r, n) ==
  /\ pc[r] \in {"idle", "loop"}
  /\ guard = {}
  /\ inner # <<>>
  /\ inner' = SubSeq(inner, n + 2, Len(inner))
  /\ got' = got \o SubSeq(inner, 1, IF n < Len(inner) THEN n ELSE Len(inner))
  /\ Goto(r, "idle")
  /\ UNCHANGED <<waiters, guard, status, pending, nsent, nsignals>>

\* receive_into_user on a queue that is not empty: as many whole elements as fit
\* in a buffer for n of them are copied out and drained under one lock.
Receive(r, n) ==
  LET k == IF n < Len(inner) THEN n ELSE Len(inner)
  IN  /\ pc[r] \in {"idle", "loop"}
      /\ guard = {}
      /\ inner # <<>>
      /\ inner' = SubSeq(inner, k + 1, Len(inner))
      /\ got' = got \o SubSeq(inner, 1, k)
      /\ Goto(r, "idle")
      /\ UNCHANGED <<waiters, guard, status, pending, nsent, nsignals>>

\* Mutant: wait() drops its guard before the caller is in the vector.
ReceiveWaitUnlocked(r) ==
  /\ pc[r] \in {"idle", "loop"}
  /\ guard = {}
  /\ inner = <<>>
  /\ Block(status, r)
  /\ Goto(r, "push")
  /\ UNCHANGED <<inner, waiters, guard, pending, nsent, got, nsignals>>

\* Mutant: the queue is checked without taking the mutex.
ReceiveWaitNoLock(r) ==
  /\ pc[r] \in {"idle", "loop"}
  /\ inner = <<>>
  /\ Block(status, r)
  /\ guard' = guard \cup {r}
  /\ Goto(r, "push")
  /\ UNCHANGED <<inner, waiters, pending, nsent, got, nsignals>>

\* receive_into_user on an empty queue with block set: wait() blocks the caller
\* and keeps the mutex.  (Without block it returns EAGAIN and changes nothing.)
ReceiveWait(r) ==
  /\ pc[r] \in {"idle", "loop"}
  /\ guard = {}
  /\ inner = <<>>
  /\ Block(status, r)
  /\ guard' = {r}
  /\ Goto(r, "push")
  /\ UNCHANGED <<inner, waiters, pending, nsent, got, nsignals>>

\* wait(): enter the vector of waiters, drop the guard and call switch().
EnterWaiters(r) ==
  /\ pc[r] = "push"
  /\ WaitPush(waiters, r)
  /\ guard' = {}
  /\ Goto(r, "parked")
  /\ UNCHANGED <<inner, status, pending, nsent, got, nsignals>>

\* wait() is scheduled again: true takes the receiver round the loop, false
\* makes receive_into_user return EINTR.
Resume(r) ==
  /\ pc[r] = "parked"
  /\ status[r] = "Runnable"
  /\ r \notin pending
  /\ \E waited \in BOOLEAN :
       /\ WaitReturn(waiters, r, waited)
       /\ Goto(r, IF waited THEN "loop" ELSE "idle")
  /\ UNCHANGED <<inner, guard, status, pending, nsent, got, nsignals>>

\* send and send_from: k elements appended under the mutex ...
Send(s, k) ==
  /\ pc[s] = "idle"
  /\ guard = {}
  /\ nsent + k <= MaxSends
  /\ inner' = inner \o [i \in 1..k |-> nsent + i]
  /\ nsent' = nsent + k
  /\ Goto(s, "notify")
  /\ UNCHANGED <<waiters, guard, status, pending, got, nsignals>>

\* Mutant: send() forgets to notify.
SendNotifyMissing(s) ==
  /\ pc[s] = "notify"
  /\ Goto(s, "idle")
  /\ UNCHANGED <<inner, waiters, guard, status, pending, nsent, got, nsignals>>

\* ... and notify() once it is released.
SendNotify(s) ==
  /\ pc[s] = "notify"
  /\ Notify(status, waiters)
  /\ Goto(s, "idle")
  /\ UNCHANGED <<inner, guard, pending, nsent, got, nsignals>>

\* syscall/process.rs kill: queue a signal; nothing else changes yet.
Kill(r) ==
  /\ nsignals < MaxSignals
  /\ status[r] # "Exited"
  /\ pending' = pending \cup {r}
  /\ nsignals' = nsignals + 1
  /\ UNCHANGED <<inner, waiters, guard, status, pc, nsent, got>>

\* context/switch.rs update_runnable: a blocked context with a pending signal is
\* unblocked by whichever context looks for the next one to run.
UpdateRunnable(r) ==
  /\ status[r] = "Blocked"
  /\ r \in pending
  /\ pc[r] = "parked"
  /\ Unblock(status, {r})
  /\ UNCHANGED <<inner, waiters, guard, pending, pc, nsent, got, nsignals>>

\* context/switch.rs switch: the context switched to takes its pending signal
\* and runs the handler first; sigreturn brings it back to where it was.
RunSignalHandler(r) ==
  /\ pc[r] \in {"idle", "parked"}
  /\ status[r] = "Runnable"
  /\ r \in pending
  /\ pending' = pending \ {r}
  /\ UNCHANGED <<inner, waiters, guard, status, pc, nsent, got, nsignals>>

\* context/signal.rs signal_handler: the default action of most signals is
\* exit(sig).  A context that dies inside wait() leaves its entry behind.
DieOfSignal(r) ==
  /\ pc[r] \in {"idle", "parked"}
  /\ status[r] = "Runnable"
  /\ r \in pending
  /\ pending' = pending \ {r}
  /\ status' = [status EXCEPT ![r] = "Exited"]
  /\ Goto(r, "dead")
  /\ UNCHANGED <<inner, waiters, guard, nsent, got, nsignals>>

ReceiverStep(r) ==
  \/ EnterWaiters(r)
  \/ Resume(r)
  \/ UpdateRunnable(r)
  \/ RunSignalHandler(r)
  \/ DieOfSignal(r)

Next ==
  \/ \E r \in Receivers :
       \/ \E n \in 0..MaxBuf : Receive(r, n)
       \/ ReceiveWait(r)
       \/ ReceiverStep(r)
       \/ Kill(r)
  \/ \E s \in Senders :
       \/ \E k \in 1..MaxBuf : Send(s, k)
       \/ SendNotify(s)

\* The scheduler is round robin over the contexts of a CPU and a kernel path
\* holds no CPU for ever, so a receiver inside wait() keeps being served and a
\* sender gets from its push to its notify.  Nobody has to call or to signal.
Fairness ==
  /\ \A r \in Receivers : WF_vars(ReceiverStep(r))
  /\ \A s \in Senders : WF_vars(SendNotify(s))

Spec == Init /\ [][Next]_vars /\ Fairness

-----------------------------------------------------------------------------

\* The queue, its waiters and the program points of its users have their types.
TypeOK ==
  /\ inner \in Seq(1..MaxSends)
  /\ waiters \subseteq Receivers
  /\ guard \in {{}} \cup {{r} : r \in Receivers}
  /\ status \in [Receivers -> {"Runnable", "Blocked", "Exited"}]
  /\ pending \subseteq Receivers
  /\ pc \in [Receivers \cup Senders -> {"idle", "loop", "push", "parked", "dead", "notify"}]
  /\ nsent \in 0..MaxSends
  /\ got \in Seq(1..MaxSends)
  /\ nsignals \in 0..MaxSignals

\* Every element sent is received exactly once and in the order of the sends,
\* whichever receivers drain the queue and in whatever batches: what has been
\* drained followed by what is queued is what was sent (receive_into_user, send).
FifoExactlyOnce ==
  got \o inner = [i \in 1..nsent |-> i]

\* No wakeup is lost: a receiver that sleeps in wait() is in the vector of
\* waiters, and while elements are queued some sender is still on its way to
\* notify() it (the guard passed to wait() covers the check and the entry).
NoLostWakeup ==
  \A r \in Receivers :
    pc[r] = "parked" /\ status[r] = "Blocked" =>
      /\ r \in waiters
      /\ inner # <<>> => \E s \in Senders : pc[s] = "notify"

\* A receiver asleep while an element is queued is woken and leaves wait().
SleeperWakes ==
  \A r \in Receivers :
    pc[r] = "parked" /\ inner # <<>> ~> pc[r] # "parked"
=============================================================================
