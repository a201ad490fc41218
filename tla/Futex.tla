------------------------------- MODULE Futex -------------------------------
(***************************************************************************)
(* syscall/futex.rs: the list FUTEXES of waiters, the threads that wait    *)
(* for a word of memory to change, wake the waiters of an address and move *)
(* them to another, and the timeouts and signals that end a wait early.    *)
(*                                                                         *)
(* FUTEX_WAIT compares, blocks and enters the list, and FUTEX_WAKE walks   *)
(* the list, under one write lock of FUTEXES: each is one step.  A thread  *)
(* whose wait ends by a timeout or a signal does not leave the list; its   *)
(* entry stays until a wake takes it.  An address is a physical address    *)
(* (validate_and_translate_virt); EFAULT, EINVAL and EAGAIN change nothing.*)
(***************************************************************************)
EXTENDS WaitCondition, Naturals, Sequences, FiniteSets

CONSTANTS Threads,
          Addrs,         \* words of memory
          Values,        \* what they hold
          MaxEntries,    \* bound: entries of the list a new wait may find
          MaxTimeouts,   \* bound: waits with a timeout
          MaxSignals,    \* bound: signals that hit a waiting thread
          MaxRequeues    \* bound: FUTEX_REQUEUE calls

ASSUME FutexAssumption ==
  /\ MaxEntries \in Nat /\ MaxTimeouts \in Nat /\ MaxSignals \in Nat /\ MaxRequeues \in Nat
  /\ Threads # {} /\ Addrs # {}

VARIABLES
  mem,        \* the words of memory
  futexes,    \* FUTEXES: sequence of [addr, ctx]
  status, pc,
  wake,       \* threads with Context.wake set
  waiting,    \* the address and value each thread waits on
  changed,    \* the address a thread has changed and not yet woken
  panicked,   \* the kernel has panicked
  ntimeouts, nsignals, nrequeues

counters == <<ntimeouts, nsignals, nrequeues>>
vars == <<mem, futexes, status, pc, wake, waiting, changed, panicked, counters>>

Init ==
  /\ mem \in [Addrs -> Values]
  /\ futexes = <<>>
  /\ status = [t \in Threads |-> "Runnable"]
  /\ pc = [t \in Threads |-> "user"]
  /\ wake = {}
  /\ waiting = [t \in Threads |-> <<>>]
  /\ changed = [t \in Threads |-> {}]
  /\ panicked = FALSE
  /\ ntimeouts = 0 /\ nsignals = 0 /\ nrequeues = 0

InUser(t) == pc[t] = "user" /\ ~panicked

\* User code changes a word; it owes the waiters of that word a FUTEX_WAKE.
Store(t, a, v) ==
  /\ InUser(t)
  /\ changed[t] = {}
  /\ mem[a] # v
  /\ mem' = [mem EXCEPT ![a] = v]
  /\ changed' = [changed EXCEPT ![t] = {a}]
  /\ UNCHANGED <<futexes, status, pc, wake, waiting, panicked, counters>>

\* Mutant: the word is compared before the list is locked.
WaitUnchecked(t, a, v, timed) ==
  /\ InUser(t)
  /\ changed[t] = {}
  /\ Len(futexes) < MaxEntries
  /\ timed => ntimeouts < MaxTimeouts
  /\ Block(status, t)
  /\ futexes' = Append(futexes, [addr |-> a, ctx |-> t])
  /\ wake' = IF timed THEN wake \cup {t} ELSE wake
  /\ waiting' = [waiting EXCEPT ![t] = <<a, v>>]
  /\ pc' = [pc EXCEPT ![t] = "parked"]
  /\ ntimeouts' = IF timed THEN ntimeouts + 1 ELSE ntimeouts
  /\ UNCHANGED <<mem, changed, panicked, nsignals, nrequeues>>

\* FUTEX_WAIT and FUTEX_WAIT64: sleep if the word still has the value expected.
Wait(t, a, v, timed) ==
  /\ InUser(t)
  /\ changed[t] = {}
  /\ mem[a] = v
  /\ Len(futexes) < MaxEntries
  /\ timed => ntimeouts < MaxTimeouts
  /\ Block(status, t)
  /\ futexes' = Append(futexes, [addr |-> a, ctx |-> t])
  /\ wake' = IF timed THEN wake \cup {t} ELSE wake
  /\ waiting' = [waiting EXCEPT ![t] = <<a, v>>]
  /\ pc' = [pc EXCEPT ![t] = "parked"]
  /\ ntimeouts' = IF timed THEN ntimeouts + 1 ELSE ntimeouts
  /\ UNCHANGED <<mem, changed, panicked, nsignals, nrequeues>>

\* Mutant: the timer of a wait that was woken in time stays armed.
WaitEndKeepsTimer(t) ==
  /\ pc[t] = "parked"
  /\ status[t] = "Runnable"
  /\ ~panicked
  /\ waiting' = [waiting EXCEPT ![t] = <<>>]
  /\ pc' = [pc EXCEPT ![t] = "user"]
  /\ UNCHANGED <<mem, futexes, status, wake, changed, panicked, counters>>

\* The end of FUTEX_WAIT once the thread is scheduled again.
WaitEnd(t) ==
  /\ pc[t] = "parked"
  /\ status[t] = "Runnable"
  /\ ~panicked
  /\ wake' = wake \ {t}
  /\ waiting' = [waiting EXCEPT ![t] = <<>>]
  /\ pc' = [pc EXCEPT ![t] = "user"]
  /\ UNCHANGED <<mem, futexes, status, changed, panicked, counters>>

\* VecDeque::swap_remove_back: the last entry takes the place of the one removed.
SwapRemoveBack(fs, i) ==
  SubSeq([fs EXCEPT ![i] = fs[Len(fs)]], 1, Len(fs) - 1)

\* Mutant: the index moves on after a removal, past the entry swapped in.
RECURSIVE WakeLoopSkips(_, _, _, _, _)
WakeLoopSkips(fs, i, n, a, woken) ==
  IF i > Len(fs) \/ n = 0 THEN [list |-> fs, woken |-> woken]
  ELSE IF fs[i].addr # a THEN WakeLoopSkips(fs, i + 1, n, a, woken)
  ELSE WakeLoopSkips(SwapRemoveBack(fs, i), i + 1, n - 1, a, woken \cup {fs[i].ctx})

\* The loop of FUTEX_WAKE from index i with n wakes left: the entries that stay
\* and the contexts unblocked.
RECURSIVE WakeLoop(_, _, _, _, _)
WakeLoop(fs, i, n, a, woken) ==
  IF i > Len(fs) \/ n = 0 THEN [list |-> fs, woken |-> woken]
  ELSE IF fs[i].addr # a THEN WakeLoop(fs, i + 1, n, a, woken)
  ELSE WakeLoop(SwapRemoveBack(fs, i), i, n - 1, a, woken \cup {fs[i].ctx})

\* FUTEX_WAKE of up to n waiters of a; one with room for all of them pays what
\* the thread owes.
Wake(t, a, n) ==
  LET r == WakeLoop(futexes, 1, n, a, {})
  IN  /\ InUser(t)
      /\ futexes' = r.list
      /\ Unblock(status, r.woken)
      /\ changed' = [changed EXCEPT ![t] = IF n >= Len(futexes) THEN @ \ {a} ELSE @]
      /\ UNCHANGED <<mem, pc, wake, waiting, panicked, counters>>

\* The first loop of FUTEX_REQUEUE.  After an entry of another address the index
\* moves on and the entry found there is taken without a look at its address.
RECURSIVE RequeueWake(_, _, _, _, _)
RequeueWake(fs, i, n, a, woken) ==
  LET j == IF i <= Len(fs) /\ fs[i].addr # a THEN i + 1 ELSE i
  IN  IF i > Len(fs) \/ n = 0 THEN [list |-> fs, i |-> i, woken |-> woken]
      ELSE IF j > Len(fs) THEN [list |-> fs, i |-> j, woken |-> woken]
      ELSE RequeueWake(SwapRemoveBack(fs, j), j, n - 1, a, woken \cup {fs[j].ctx})

\* The second loop, from where the first one stopped: m entries get the address
\* b; an index past the end of the list is a panic.
RECURSIVE RequeueMove(_, _, _, _, _)
RequeueMove(fs, i, m, a, b) ==
  LET j == IF i <= Len(fs) /\ fs[i].addr # a THEN i + 1 ELSE i
  IN  IF i > Len(fs) \/ m = 0 THEN [list |-> fs, panic |-> FALSE]
      ELSE IF j > Len(fs) THEN [list |-> fs, panic |-> TRUE]
      ELSE RequeueMove([fs EXCEPT ![j].addr = b], j, m - 1, a, b)

\* Mutant: the entries taken off the list are not unblocked.
RequeueNoUnblock(t, a, b, n, m) ==
  LET w == RequeueWake(futexes, 1, n, a, {})
      r == RequeueMove(w.list, w.i, m, a, b)
  IN  /\ InUser(t)
      /\ nrequeues < MaxRequeues
      /\ futexes' = r.list
      /\ panicked' = r.panic
      /\ nrequeues' = nrequeues + 1
      /\ UNCHANGED <<mem, status, pc, wake, waiting, changed, ntimeouts, nsignals>>

\* FUTEX_REQUEUE: wake up to n waiters of a and move up to m others to b.
Requeue(t, a, b, n, m) ==
  LET w == RequeueWake(futexes, 1, n, a, {})
      r == RequeueMove(w.list, w.i, m, a, b)
  IN  /\ InUser(t)
      /\ nrequeues < MaxRequeues
      /\ Unblock(status, w.woken)
      /\ futexes' = r.list
      /\ panicked' = r.panic
      /\ nrequeues' = nrequeues + 1
      /\ UNCHANGED <<mem, pc, wake, waiting, changed, ntimeouts, nsignals>>

\* context/switch.rs update_runnable: the timeout of a blocked context has passed.
Timeout(t) ==
  /\ t \in wake
  /\ status[t] = "Blocked"
  /\ ~panicked
  /\ Unblock(status, {t})
  /\ wake' = wake \ {t}
  /\ UNCHANGED <<mem, futexes, pc, waiting, changed, panicked, counters>>

\* context/switch.rs update_runnable: a signal unblocks the context; the wait ends
\* once the handler has returned.
Signal(t) ==
  /\ nsignals < MaxSignals
  /\ pc[t] = "parked"
  /\ status[t] = "Blocked"
  /\ ~panicked
  /\ Unblock(status, {t})
  /\ nsignals' = nsignals + 1
  /\ UNCHANGED <<mem, futexes, pc, wake, waiting, changed, panicked, ntimeouts, nrequeues>>

\* The signal ends the thread: its entry stays in the list.
Die(t) ==
  /\ nsignals < MaxSignals
  /\ pc[t] = "parked"
  /\ ~panicked
  /\ status' = [status EXCEPT ![t] = "Exited"]
  /\ pc' = [pc EXCEPT ![t] = "dead"]
  /\ waiting' = [waiting EXCEPT ![t] = <<>>]
  /\ nsignals' = nsignals + 1
  /\ UNCHANGED <<mem, futexes, wake, changed, panicked, ntimeouts, nrequeues>>

Next ==
  \E t \in Threads :
    \/ \E a \in Addrs, v \in Values : Store(t, a, v)
    \/ \E a \in Addrs, v \in Values, timed \in BOOLEAN : Wait(t, a, v, timed)
    \/ WaitEnd(t)
    \/ \E a \in Addrs, n \in 1..MaxEntries : Wake(t, a, n)
    \/ \E a, b \in Addrs, n, m \in 0..MaxEntries : Requeue(t, a, b, n, m)
    \/ Timeout(t)
    \/ Signal(t)
    \/ Die(t)

Spec == Init /\ [][Next]_vars

-----------------------------------------------------------------------------

\* A timer (Context.wake) is armed only inside the wait it was set for.
TypeOK ==
  /\ mem \in [Addrs -> Values]
  /\ Len(futexes) <= MaxEntries
  /\ \A i \in 1..Len(futexes) : futexes[i] \in [addr : Addrs, ctx : Threads]
  /\ status \in [Threads -> {"Runnable", "Blocked", "Exited"}]
  /\ pc \in [Threads -> {"user", "parked", "dead"}]
  /\ wake \subseteq {t \in Threads : pc[t] # "user"}
  /\ \A t \in Threads : waiting[t] = <<>> \/ waiting[t] \in Addrs \X Values
  /\ changed \in [Threads -> SUBSET Addrs]
  /\ panicked \in BOOLEAN
  /\ ntimeouts \in 0..MaxTimeouts /\ nsignals \in 0..MaxSignals
  /\ nrequeues \in 0..MaxRequeues

Asleep(t) == pc[t] = "parked" /\ status[t] = "Blocked"

\* A thread asleep in FUTEX_WAIT has an entry in the list, so that a wake of some
\* address finds it; until there is a FUTEX_REQUEUE, of the address it waits on.
\* Entries that timeouts, signals and deaths left behind never stand in for it.
SleeperIsListed ==
  \A t \in Threads : Asleep(t) =>
    \E i \in 1..Len(futexes) :
      /\ futexes[i].ctx = t
      /\ nrequeues = 0 => futexes[i].addr = waiting[t][1]

\* No wakeup is lost: a thread asleep on a word that no longer has the value it
\* waits on has been seen by nobody yet only because the thread that changed the
\* word is still on its way to FUTEX_WAKE.
NoLostWakeup ==
  nrequeues = 0 =>
    \A t \in Threads : Asleep(t) /\ mem[waiting[t][1]] # waiting[t][2] =>
      \E u \in Threads : waiting[t][1] \in changed[u]

Sleepers(a) == {t \in Threads : Asleep(t) /\ waiting[t][1] = a}

\* Every entry of the list is the entry of a sleeper.
NoStaleEntry ==
  /\ nrequeues = 0
  /\ Len(futexes) = Cardinality({t \in Threads : Asleep(t)})

\* FUTEX_WAKE of n wakes n sleepers of its address, or all of them if they are
\* fewer, and no sleeper of another address, as long as the list has no entries
\* left behind by waits that ended otherwise (each of those uses up a wake).
WakeIsExact ==
  [][NoStaleEntry =>
       \A t \in Threads, a \in Addrs, n \in 1..MaxEntries : Wake(t, a, n) =>
         /\ Cardinality(Sleepers(a)') =
              IF n < Cardinality(Sleepers(a)) THEN Cardinality(Sleepers(a)) - n ELSE 0
         /\ \A b \in Addrs \ {a} : Sleepers(b)' = Sleepers(b)]_vars

=============================================================================
