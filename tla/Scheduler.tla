----------------------------- MODULE Scheduler -----------------------------
(***************************************************************************)
(* context/switch.rs and context/signal.rs: the CPUs, the contexts they    *)
(* switch between, and the signals a context takes on its way back from    *)
(* switch().                                                               *)
(*                                                                         *)
(* CONTEXT_SWITCH_LOCK is held for the whole of switch(), so a switch is   *)
(* one step: it walks the other contexts in round robin order, applies     *)
(* update_runnable to each of them and stops at the first that can run.    *)
(* The field "at" of a context says what it does: it may "run" its program *)
(* or (while ksig is set) a signal handler, be before the switch() of      *)
(* WaitCondition::wait ("block"), nanosleep ("sleep"), signal_handler      *)
(* ("stop"), sigreturn ("sigret") or exit ("exit"), or take a "signal".  A *)
(* context that comes back from switch() goes on at Back(at).              *)
(* Contexts 1..NCpus are the kmain contexts of the CPUs: always runnable,  *)
(* and never signalled.                                                    *)
(***************************************************************************)
EXTENDS Naturals, Sequences, FiniteSets

CONSTANTS NCpus, NContexts,
          Signals,       \* subset of {"USR", "STOP", "CONT", "KILL"}
          Affinities,    \* what a user context may be created with
          Tracing,       \* whether tracers and the proc scheme interfere
          MaxEvents      \* bound: signals, changes of ptrace_stop and of sched_affinity

ASSUME SchedulerAssumption ==
  /\ NCpus \in Nat \ {0} /\ NContexts \in Nat /\ NContexts >= NCpus
  /\ Signals \subseteq {"USR", "STOP", "CONT", "KILL"}
  /\ Affinities \subseteq 0..NCpus
  /\ Tracing \in BOOLEAN /\ MaxEvents \in Nat

Cpus == 1..NCpus
Contexts == 1..NContexts
Kmain == 1..NCpus
User == Contexts \ Kmain
None == 0

VARIABLES
  ctx,        \* Context: record of the fields the scheduler uses
  current,    \* CONTEXT_ID of each CPU
  waiting,    \* vectors of waiters: <<context, waits inside a handler>>
  nevents     \* what has come from outside

vars == <<ctx, current, waiting, nevents>>

\* context::init for the kmain contexts; a user context has been created by
\* new_context and set runnable.
Init ==
  /\ ctx \in [Contexts -> [status : {"Runnable"}, running : BOOLEAN, cpu_id : 0..NCpus,
                           sched_affinity : 0..NCpus, ptrace_stop : {FALSE},
                           ksig : {<<>>}, ksig_restore : {FALSE}, pending : {<<>>},
                           wake : {"none"}, at : {"run"}]]
  /\ \A c \in Kmain : ctx[c].running /\ ctx[c].cpu_id = c /\ ctx[c].sched_affinity = c
  /\ \A c \in User : /\ ~ctx[c].running /\ ctx[c].cpu_id = None
                     /\ ctx[c].sched_affinity \in Affinities
  /\ current = [p \in Cpus |-> p]
  /\ waiting = {} /\ nevents = 0

\* Mutant: unblock() also wakes a stopped context.
UnblockedStopped(x) ==
  IF x.status \in {"Blocked", "Stopped"} THEN [x EXCEPT !.status = "Runnable"] ELSE x

\* Context::unblock
Unblocked(x) == IF x.status = "Blocked" THEN [x EXCEPT !.status = "Runnable"] ELSE x

\* Mutant: the CPU id is one too high.
OwnedOffByOne(x, cpu) ==
  IF x.cpu_id = None /\ x.sched_affinity \in {None, cpu} THEN [x EXCEPT !.cpu_id = cpu + 1] ELSE x

\* update_runnable takes ownership of a context nobody owns.
Owned(x, cpu) ==
  IF x.cpu_id = None /\ x.sched_affinity \in {None, cpu} THEN [x EXCEPT !.cpu_id = cpu] ELSE x

\* Mutant: the context is not unblocked.
RestoredBlocked(x) ==
  IF x.ksig_restore
  THEN [x EXCEPT !.at = x.ksig[2], !.ksig = <<>>, !.ksig_restore = FALSE] ELSE x

\* update_runnable restores a context from its signal,
Restored(x) ==
  IF x.ksig_restore
  THEN Unblocked([x EXCEPT !.at = x.ksig[2], !.ksig = <<>>, !.ksig_restore = FALSE])
  ELSE x

\* Mutant: only the clock wakes a blocked context.
WokenByClock(x) ==
  IF x.status = "Blocked" /\ x.wake = "due" THEN [Unblocked(x) EXCEPT !.wake = "none"] ELSE x

\* unblocks it for a pending signal, and wakes it when its time has come.
Woken(x) ==
  LET y == IF x.pending # <<>> THEN Unblocked(x) ELSE x
  IN  IF y.status = "Blocked" /\ y.wake = "due" THEN [Unblocked(y) EXCEPT !.wake = "none"]
      ELSE y

\* update_runnable: what it makes of a context, and whether the CPU can run it.
Updated(x, cpu) ==
  IF x.running \/ x.ptrace_stop THEN x
  ELSE IF Owned(x, cpu).cpu_id # cpu THEN Owned(x, cpu)
  ELSE Woken(Restored(Owned(x, cpu)))

CanRun(x, cpu) ==
  /\ ~x.running /\ ~x.ptrace_stop
  /\ Updated(x, cpu).cpu_id = cpu
  /\ Updated(x, cpu).status = "Runnable"

\* Where a context goes on when its switch() returns.  sigreturn and exit say
\* unreachable!() there.
Back(at) ==
  CASE at = "block" -> "woken"
    [] at = "sleep" -> "slept"
    [] at = "stop"  -> "sigdone"
    [] at \in {"sigret", "exit"} -> "unreachable"
    [] OTHER -> at

\* The context switched from, and its mutant that stays marked as running.
SwitchedFromRunning(x) == x
SwitchedFrom(x) == [x EXCEPT !.running = FALSE]

\* Mutant: a signal is taken inside the handler of another one.
SwitchedToNested(x) ==
  IF x.pending # <<>>
  THEN [x EXCEPT !.running = TRUE, !.ksig = <<Head(x.pending), x.at>>,
                 !.pending = Tail(x.pending), !.at = "signal"]
  ELSE [x EXCEPT !.running = TRUE, !.at = Back(@)]

\* The context switched to: it runs its next pending signal unless it is still
\* inside a handler, and else returns from its own switch().
SwitchedTo(x) ==
  IF x.ksig = <<>> /\ x.pending # <<>>
  THEN [x EXCEPT !.running = TRUE, !.ksig = <<Head(x.pending), x.at>>,
                 !.pending = Tail(x.pending), !.at = "signal"]
  ELSE [x EXCEPT !.running = TRUE, !.at = Back(@)]

\* Mutant: the search starts at the first context instead of behind the current.
FromTheFirst(c) == [i \in 1..(NContexts - 1) |-> IF i < c THEN i ELSE i + 1]

\* The other contexts in the order in which switch() looks at them.
RoundRobin(c) ==
  [i \in 1..(NContexts - 1) |-> ((c - 1 + i) % NContexts) + 1]

\* Interrupts are off inside the kernel: a switch comes from the timer while the
\* program or kmain runs, or from the code that is before its switch().
MaySwitch(cpu) == ctx[current[cpu]].at \in {"run", "block", "sleep", "stop", "sigret", "exit"}

Switch(cpu) ==
  LET prev == current[cpu]
      order == RoundRobin(prev)
      able == {i \in DOMAIN order : CanRun(ctx[order[i]], cpu)}
      first == CHOOSE i \in able : \A j \in able : i <= j
      seen(n) == {order[i] : i \in 1..n}
  IN  /\ MaySwitch(cpu)
      /\ IF able = {}
         THEN /\ ctx' = [c \in Contexts |->
                           IF c = prev THEN [ctx[c] EXCEPT !.at = Back(@)]
                           ELSE Updated(ctx[c], cpu)]
              /\ UNCHANGED current
         ELSE /\ ctx' = [c \in Contexts |->
                           IF c = prev THEN SwitchedFrom(ctx[c])
                           ELSE IF c = order[first] THEN SwitchedTo(Updated(ctx[c], cpu))
                           ELSE IF c \in seen(first) THEN Updated(ctx[c], cpu)
                           ELSE ctx[c]]
              /\ current' = [current EXCEPT ![cpu] = order[first]]
      /\ UNCHANGED <<waiting, nevents>>

\* The current context of the CPU is a user context at one of these places.
At(cpu, places) == current[cpu] \in User /\ ctx[current[cpu]].at \in places

InHandler(c) == ctx[c].ksig # <<>>

\* Context::block
Blocked(x) == IF x.status = "Runnable" THEN [x EXCEPT !.status = "Blocked"] ELSE x

\* WaitCondition::wait up to its switch().
Wait(cpu) ==
  LET c == current[cpu]
  IN  /\ At(cpu, {"run"})
      /\ ctx' = [ctx EXCEPT ![c] = [Blocked(@) EXCEPT !.at = "block"]]
      /\ waiting' = waiting \cup {<<c, InHandler(c)>>}
      /\ UNCHANGED <<current, nevents>>

\* The rest of wait(): it returns false if its entry is still in the vector.
WaitReturn(cpu) ==
  LET c == current[cpu]
  IN  /\ At(cpu, {"woken"})
      /\ ctx' = [ctx EXCEPT ![c].at = "run"]
      /\ waiting' = waiting \ {<<c, InHandler(c)>>}
      /\ UNCHANGED <<current, nevents>>

\* WaitCondition::notify by anybody: it may come from a CPU or an interrupt.
Notify(c, level) ==
  /\ <<c, level>> \in waiting
  /\ waiting' = waiting \ {<<c, level>>}
  /\ ctx' = [ctx EXCEPT ![c] = Unblocked(@)]
  /\ UNCHANGED <<current, nevents>>

\* nanosleep up to its switch(), and the loop around it.
Sleep(cpu) ==
  LET c == current[cpu]
  IN  /\ At(cpu, {"run"})
      /\ ctx' = [ctx EXCEPT ![c] = [Blocked(@) EXCEPT !.at = "sleep", !.wake = "armed"]]
      /\ UNCHANGED <<current, waiting, nevents>>

SleepReturn(cpu) ==
  LET c == current[cpu]
  IN  /\ At(cpu, {"slept"})
      /\ ctx' = [ctx EXCEPT ![c] = IF @.wake # "none" THEN [Blocked(@) EXCEPT !.at = "sleep"]
                                   ELSE [@ EXCEPT !.at = "run"]]
      /\ UNCHANGED <<current, waiting, nevents>>

\* The clock passes the time a context asked to be woken at.
ClockPasses(c) ==
  /\ ctx[c].wake = "armed"
  /\ ctx' = [ctx EXCEPT ![c].wake = "due"]
  /\ UNCHANGED <<current, waiting, nevents>>

Event == nevents < MaxEvents /\ nevents' = nevents + 1

\* send() of kill: the signal is queued, and SIGCONT turns Stopped into Blocked.
Sent(x, sig) ==
  [x EXCEPT !.pending = Append(@, sig),
            !.status = IF sig = "CONT" /\ @ = "Stopped" THEN "Blocked" ELSE @]

Kill(c, sig) ==
  /\ Event
  /\ ctx' = [ctx EXCEPT ![c] = Sent(@, sig)]
  /\ UNCHANGED <<current, waiting>>

\* signal_handler: the default actions of SIGSTOP, SIGCONT and of what kills, a
\* handler of the program, and the signals that go straight on to sigreturn
\* because the program or its tracer ignores them.
SignalHandler(cpu) ==
  LET c == current[cpu]
      sig == ctx[c].ksig[1]
  IN  /\ At(cpu, {"signal"})
      /\ \/ /\ sig = "STOP"
            /\ ctx' = [ctx EXCEPT ![c].status = "Stopped", ![c].at = "stop"]
         \/ /\ sig = "CONT"
            /\ ctx' = [ctx EXCEPT ![c].status = "Runnable", ![c].at = "sigdone"]
         \/ /\ sig = "KILL"
            /\ ctx' = [ctx EXCEPT ![c].status = "Exited", ![c].at = "exit"]
         \/ /\ sig = "USR"
            /\ ctx' = [ctx EXCEPT ![c].at = "run"]
         \/ /\ sig # "KILL"
            /\ ctx' = [ctx EXCEPT ![c].at = "sigdone"]
      /\ UNCHANGED <<current, waiting, nevents>>

\* exit, of the program or of its handler; what it closes and whom it tells is
\* in Process.
Exit(cpu) ==
  LET c == current[cpu]
  IN  /\ At(cpu, {"run"})
      /\ ctx' = [ctx EXCEPT ![c].status = "Exited", ![c].at = "exit"]
      /\ UNCHANGED <<current, waiting, nevents>>

\* sigreturn, called by a user handler or at the end of signal_handler.
Sigreturn(cpu) ==
  LET c == current[cpu]
  IN  /\ At(cpu, {"run", "sigdone"})
      /\ ctx[c].ksig # <<>>
      /\ ctx' = [ctx EXCEPT ![c] = [Blocked(@) EXCEPT !.ksig_restore = TRUE, !.at = "sigret"]]
      /\ UNCHANGED <<current, waiting, nevents>>

\* A tracer sets or clears ptrace_stop (try_stop_context, close of the proc
\* scheme, ptrace::close_session).
SetPtraceStop(c, b) ==
  /\ Tracing
  /\ Event
  /\ ctx[c].ptrace_stop # b
  /\ ctx' = [ctx EXCEPT ![c].ptrace_stop = b]
  /\ UNCHANGED <<current, waiting>>

\* The proc scheme writes sched_affinity.
SetAffinity(c, a) ==
  /\ Tracing
  /\ Event
  /\ ctx[c].sched_affinity # a
  /\ ctx' = [ctx EXCEPT ![c].sched_affinity = a]
  /\ UNCHANGED <<current, waiting>>

Step(cpu) ==
  \/ Wait(cpu) \/ WaitReturn(cpu) \/ Sleep(cpu) \/ SleepReturn(cpu)
  \/ SignalHandler(cpu) \/ Exit(cpu) \/ Sigreturn(cpu)

Next ==
  \/ \E cpu \in Cpus : Switch(cpu) \/ Step(cpu)
  \/ \E c \in User :
       \/ \E level \in BOOLEAN : Notify(c, level)
       \/ \E sig \in Signals : Kill(c, sig)
       \/ ClockPasses(c)
       \/ \E b \in BOOLEAN : SetPtraceStop(c, b)
       \/ \E a \in 0..NCpus : SetAffinity(c, a)

Spec == Init /\ [][Next]_vars

\* The timer interrupt comes again and again and the code of the kernel goes on;
\* the clock too.  What a program does, and when, is not assumed.
Kernel(cpu) ==
  WaitReturn(cpu) \/ SleepReturn(cpu) \/ SignalHandler(cpu)
    \/ (At(cpu, {"sigdone"}) /\ Sigreturn(cpu))

FairSpec ==
  /\ Spec
  /\ \A cpu \in Cpus : WF_vars(Switch(cpu)) /\ WF_vars(Kernel(cpu))
  /\ \A c \in User : WF_vars(ClockPasses(c))

-----------------------------------------------------------------------------

Places == {"run", "block", "woken", "sleep", "slept", "signal", "stop", "sigdone",
           "sigret", "exit", "unreachable"}

\* The state of the scheduler has its type.
TypeOK ==
  /\ \A c \in Contexts :
       /\ ctx[c].status \in {"Runnable", "Blocked", "Stopped", "Exited"}
       /\ ctx[c].running \in BOOLEAN /\ ctx[c].ptrace_stop \in BOOLEAN
       /\ ctx[c].ksig_restore \in BOOLEAN
       /\ ctx[c].cpu_id \in 0..NCpus /\ ctx[c].sched_affinity \in 0..NCpus
       /\ ctx[c].ksig = <<>> \/ ctx[c].ksig \in Signals \X Places
       /\ ctx[c].pending \in Seq(Signals)
       /\ ctx[c].wake \in {"none", "armed", "due"} /\ ctx[c].at \in Places
  /\ current \in [Cpus -> Contexts]
  /\ waiting \subseteq User \X BOOLEAN
  /\ nevents \in 0..MaxEvents

\* A context runs on at most one CPU, the one that owns it, and "running" says
\* so: two CPUs would use one kernel stack (update_runnable and switch).  One that
\* executes anything but the way to its own switch() is runnable: a blocked,
\* stopped or exited context gets no CPU, whatever notifies, signals or traces it.
OneCpu ==
  /\ \A c \in Contexts : ctx[c].running <=> \E p \in Cpus : current[p] = c
  /\ \A p \in Cpus : ctx[current[p]].cpu_id = p
  /\ \A p, q \in Cpus : current[p] = current[q] => p = q
  /\ \A p \in Cpus :
       \/ ctx[current[p]].at \in {"block", "sleep", "stop", "sigret", "exit"}
       \/ ctx[current[p]].status = "Runnable"

\* The expect() of update_runnable, and what the saved registers are: ksig holds
\* a point of the program itself, never one inside signal_handler, so one restore
\* ends the handling of a signal however many are pending, and the unreachable!()
\* behind the switch() of sigreturn and of exit is not reached, even if something
\* unblocks the context before it has been restored.
SavedPointIsTheProgram ==
  \A c \in Contexts :
    /\ ctx[c].ksig_restore => ctx[c].ksig # <<>>
    /\ ctx[c].ksig # <<>> => ctx[c].ksig[2] \in {"run", "block", "sleep"}
    /\ ctx[c].at \in {"signal", "stop", "sigdone", "sigret"} => ctx[c].ksig # <<>>
    /\ ctx[c].at # "unreachable"

\* A stopped context stays stopped until it is sent SIGCONT: no notify, timer,
\* other signal or tracer sets it going (Context::unblock, kill).
StoppedUntilContinued ==
  [][\A c \in User :
       ctx[c].status = "Stopped" /\ ctx'[c].status # "Stopped" =>
         \E i \in DOMAIN ctx'[c].pending : ctx'[c].pending[i] = "CONT"]_vars

\* A context that notify took out of the vector does not stay blocked in that
\* wait(), even if it was stopped, continued or inside a handler meanwhile.
NotifiedIsNotBlocked ==
  \A c \in User :
    ctx[c].at = "block" /\ <<c, InHandler(c)>> \notin waiting => ctx[c].status # "Blocked"

Held(c) == ctx[c].ptrace_stop \/ ctx[c].status \in {"Stopped", "Exited"}

\* A context that can run is run: the round robin starves nobody.
RunnableRuns ==
  \A c \in User : ctx[c].status = "Runnable" ~> ctx[c].running \/ Held(c)

\* SIGKILL ends a context it is the next signal of, wherever it is blocked.
KillEnds ==
  \A c \in User :
    ctx[c].ksig = <<>> /\ ctx[c].pending # <<>> /\ Head(ctx[c].pending) = "KILL"
      ~> Held(c)
=============================================================================
