------------------------------- MODULE Pipe --------------------------------
(***************************************************************************)
(* One pipe of scheme/pipe.rs: contexts reading and writing it, the close  *)
(* of its file descriptions, the events it triggers, and the signals that  *)
(* interrupt a blocked call.                                               *)
(*                                                                         *)
(* The two sides of a pipe mirror each other, so the fields read_* and     *)
(* write_* are functions of the side, "R" or "W".  A description ("R" the  *)
(* read end, "W" and "W2" write ends) is closed by FileDescriptor::close   *)
(* (context/file.rs), which calls the scheme only if no call in flight     *)
(* holds a clone of the descriptor (Arc::try_unwrap).                      *)
(*                                                                         *)
(* The critical sections of the queue's mutex are single steps, except     *)
(* around wait(), which keeps the mutex until the caller is in the vector  *)
(* of waiters.  close() takes no mutex, so its accesses are single steps.  *)
(* Bytes are numbered in the order in which they are accepted.  An empty   *)
(* buffer and a fault in the first chunk change nothing and are left out.  *)
(***************************************************************************)
EXTENDS WaitCondition, Naturals, Sequences

CONSTANTS Readers, Writers,  \* contexts that call read and write
          MAX_QUEUE_SIZE,
          Pollers,           \* sides registered with an event queue
          Fcntls,            \* bound: sides whose flags fcntl changes
          MaxBytes,          \* bound: bytes ever written
          MaxSignals         \* bound: signals ever delivered

ASSUME PipeAssumption ==
  /\ Readers \cap Writers = {}
  /\ MAX_QUEUE_SIZE \in Nat \ {0}
  /\ Pollers \subseteq {"R", "W"} /\ Fcntls \subseteq {"R", "W"}
  /\ MaxBytes \in Nat /\ MaxSignals \in Nat

Contexts == Readers \cup Writers
Ends == {"R", "W", "W2"}
Sides == {"R", "W"}

SideOf(d) == IF d = "R" THEN "R" ELSE "W"
Caller(c) == IF c \in Readers THEN "R" ELSE "W"
Peer(side) == IF side = "R" THEN "W" ELSE "R"

VARIABLES
  queue,       \* Pipe.queue
  condition,   \* read_condition and write_condition
  alive,       \* reader_is_alive and writer_is_alive
  has_run_dup,
  nonblock,    \* sides with O_NONBLOCK in their flags
  inPipes,     \* PIPES holds the pipe
  lock,        \* the context that holds the mutex inside wait(), or {}
  fds,         \* descriptions that some file table refers to
  cl,          \* progress of the close of each description
  using,       \* the description each call in flight holds a clone of
  status, pc,
  events,      \* sides whose event waits in a poller's event queue
  nwritten,    \* bytes accepted
  got,         \* history: bytes delivered, in order
  drained,     \* history: sides that got EAGAIN since their last event
  raced,       \* history: callers asleep since after the peer's close notified
  nsignals

pipeVars == <<queue, condition, alive, has_run_dup, nonblock, inPipes, lock>>
callVars == <<using, status, pc>>
histVars == <<nwritten, got, drained, raced>>
vars == <<pipeVars, callVars, histVars, fds, cl, events, nsignals>>

\* pipe(): a new pipe, either through kopen, which hands out the read end only,
\* or through the pipe2 system call, which hands out both.
Init ==
  /\ queue = <<>>
  /\ condition = [s \in Sides |-> {}]
  /\ alive = [s \in Sides |-> TRUE]
  /\ has_run_dup = FALSE
  /\ nonblock \in {{}, Sides}
  /\ inPipes = TRUE
  /\ lock = {}
  /\ fds \in {{"R"}, {"R", "W"}}
  /\ cl = [d \in Ends |-> IF d \in fds THEN "open" ELSE "none"]
  /\ using = [c \in Contexts |-> {}]
  /\ status = [c \in Contexts |-> "Runnable"]
  /\ pc = [c \in Contexts |-> "idle"]
  /\ events = {} /\ drained = {}
  /\ nwritten = 0 /\ got = <<>>
  /\ raced = {}
  /\ nsignals = 0

Goto(c, l) == pc' = [pc EXCEPT ![c] = l]

\* The call returns and drops its clone of the file descriptor.
Return(c) ==
  /\ Goto(c, "idle")
  /\ using' = [using EXCEPT ![c] = {}]

\* Mutant: the waiters are popped and left blocked.
NotifySideNoUnblock(side) ==
  /\ condition' = [condition EXCEPT ![side] = {}]
  /\ UNCHANGED status

\* WaitCondition::notify on one of the two conditions.
NotifySide(side) ==
  /\ Unblock(status, condition[side])
  /\ condition' = [condition EXCEPT ![side] = {}]


\* event::trigger: an event for every event queue the side is registered with.
Trigger(side) == events' = events \cup (Pollers \cap {side})

\* file_op_generic, and the lookup in PIPES of kread and kwrite; EBADF changes
\* nothing.
Call(c) ==
  /\ pc[c] = "idle"
  /\ inPipes
  /\ \E d \in fds : SideOf(d) = Caller(c) /\ using' = [using EXCEPT ![c] = {d}]
  /\ Goto(c, "loop")
  /\ UNCHANGED <<pipeVars, histVars, status, fds, cl, events, nsignals>>

\* Mutant: the mutex is dropped before wait().
AtLoopNoLock(c) == pc[c] = "loop"

\* Top of the loop of kread and kwrite, with the queue's mutex.
AtLoop(c) == pc[c] = "loop" /\ lock = {}


\* vec.drain(..bytes_read)
Drain(k) == queue' = SubSeq(queue, k + 1, Len(queue))

\* kread with bytes in the queue, into a buffer of n bytes.
Read(c, n) ==
  LET k == IF n < Len(queue) THEN n ELSE Len(queue)
  IN  /\ AtLoop(c)
      /\ queue # <<>>
      /\ Drain(k)
      /\ got' = got \o SubSeq(queue, 1, k)
      /\ Trigger("W")
      /\ NotifySide("W")
      /\ Return(c)
      /\ UNCHANGED <<alive, has_run_dup, nonblock, inPipes, lock, fds, cl, nwritten,
                     drained, raced, nsignals>>

\* bytes_left is what is missing to MAX_QUEUE_SIZE.
Fits(k) == k <= MAX_QUEUE_SIZE - Len(queue)

\* kwrite with room in the queue: k bytes are taken from the buffer, fewer than
\* fit only if a later chunk of the buffer faults.
Write(c, k) ==
  /\ AtLoop(c)
  /\ Fits(k)
  /\ nwritten + k <= MaxBytes
  /\ queue' = queue \o [i \in 1..k |-> nwritten + i]
  /\ nwritten' = nwritten + k
  /\ Trigger("R")
  /\ NotifySide("R")
  /\ Return(c)
  /\ UNCHANGED <<alive, has_run_dup, nonblock, inPipes, lock, fds, cl, got, drained,
                 raced, nsignals>>

\* Nothing to read, or no room to write.
Starved(side) ==
  IF side = "R" THEN queue = <<>> ELSE Len(queue) = MAX_QUEUE_SIZE

\* No peer: kread returns 0, kwrite EPIPE.
PeerGone(c) ==
  /\ AtLoop(c)
  /\ Starved(Caller(c))
  /\ ~alive[Peer(Caller(c))]
  /\ Return(c)
  /\ UNCHANGED <<pipeVars, status, fds, cl, events, nwritten, got, drained, raced,
                 nsignals>>

\* O_NONBLOCK: EAGAIN.
Again(c) ==
  /\ AtLoop(c)
  /\ Starved(Caller(c))
  /\ alive[Peer(Caller(c))]
  /\ Caller(c) \in nonblock
  /\ drained' = drained \cup (Pollers \cap {Caller(c)})
  /\ Return(c)
  /\ UNCHANGED <<pipeVars, status, fds, cl, events, nwritten, got, raced, nsignals>>

\* wait(): the caller blocks, keeping the mutex ...
Wait(c) ==
  /\ AtLoop(c)
  /\ Starved(Caller(c))
  /\ alive[Peer(Caller(c))]
  /\ Caller(c) \notin nonblock
  /\ Block(status, c)
  /\ lock' = {c}
  /\ raced' = raced \ {c}
  /\ Goto(c, "push")
  /\ UNCHANGED <<queue, condition, alive, has_run_dup, nonblock, inPipes, using, fds,
                 cl, events, nwritten, got, drained, nsignals>>

\* The close of a description of this side has come past its notify().
CloseNotified(side) ==
  \E d \in Ends : SideOf(d) = side /\ cl[d] \in {"notified", "stored", "remove", "closed"}

\* ... enters the vector of waiters, releases the mutex and switches away.
EnterWaiters(c) ==
  /\ pc[c] = "push"
  /\ condition' = [condition EXCEPT ![Caller(c)] = @ \cup {c}]
  /\ lock' = {}
  /\ raced' = raced \cup {x \in {c} : CloseNotified(Peer(Caller(c)))}
  /\ Goto(c, "parked")
  /\ UNCHANGED <<queue, alive, has_run_dup, nonblock, inPipes, using, status, fds, cl,
                 events, nwritten, got, drained, nsignals>>

\* wait() returns: round the loop if notified, EINTR if still in the vector.
Resume(c) ==
  /\ pc[c] = "parked"
  /\ status[c] = "Runnable"
  /\ condition' = [condition EXCEPT ![Caller(c)] = @ \ {c}]
  /\ IF c \in condition[Caller(c)] THEN Return(c) ELSE Goto(c, "loop") /\ UNCHANGED using
  /\ UNCHANGED <<queue, alive, has_run_dup, nonblock, inPipes, lock, histVars, status,
                 fds, cl, events, nsignals>>

\* FileDescriptor::close takes the last reference to d out of a file table ...
CloseFd(d) ==
  /\ d \in fds
  /\ fds' = fds \ {d}
  /\ cl' = [cl EXCEPT ![d] = IF \E c \in Contexts : d \in using[c] THEN "leaked" ELSE "closing"]
  /\ UNCHANGED <<pipeVars, callVars, histVars, events, nsignals>>

\* ... and PipeScheme::close fails with EBADF if the pipe is not in PIPES,
CloseBadf(d) ==
  /\ cl[d] = "closing"
  /\ ~inPipes
  /\ cl' = [cl EXCEPT ![d] = "closed"]
  /\ UNCHANGED <<pipeVars, callVars, histVars, fds, events, nsignals>>

\* or triggers the peer's event and notifies the peer's waiters,
CloseNotify(d) ==
  /\ cl[d] = "closing"
  /\ inPipes
  /\ Trigger(Peer(SideOf(d)))
  /\ NotifySide(Peer(SideOf(d)))
  /\ cl' = [cl EXCEPT ![d] = "notified"]
  /\ UNCHANGED <<queue, alive, has_run_dup, nonblock, inPipes, lock, using, pc, histVars,
                 fds, nsignals>>

\* Mutant: the close of the read end forgets to say that it is dead.
CloseStoreWriter(d) ==
  /\ cl[d] = "notified"
  /\ alive' = [alive EXCEPT !["W"] = @ /\ SideOf(d) = "R"]
  /\ cl' = [cl EXCEPT ![d] = "stored"]
  /\ UNCHANGED <<queue, condition, has_run_dup, nonblock, inPipes, lock, callVars,
                 histVars, fds, events, nsignals>>

\* says that this side is dead,
CloseStore(d) ==
  /\ cl[d] = "notified"
  /\ alive' = [alive EXCEPT ![SideOf(d)] = FALSE]
  /\ cl' = [cl EXCEPT ![d] = "stored"]
  /\ UNCHANGED <<queue, condition, has_run_dup, nonblock, inPipes, lock, callVars,
                 histVars, fds, events, nsignals>>

\* looks whether the other side is dead as well,
CloseLoad(d) ==
  /\ cl[d] = "stored"
  /\ cl' = [cl EXCEPT ![d] = IF alive[Peer(SideOf(d))] THEN "closed" ELSE "remove"]
  /\ UNCHANGED <<pipeVars, callVars, histVars, fds, events, nsignals>>

\* and then takes the pipe out of PIPES.
CloseRemove(d) ==
  /\ cl[d] = "remove"
  /\ inPipes' = FALSE
  /\ cl' = [cl EXCEPT ![d] = "closed"]
  /\ UNCHANGED <<queue, condition, alive, has_run_dup, nonblock, lock, callVars,
                 histVars, fds, events, nsignals>>

\* kdup of the read end with "write": one write end, once.
Dup ==
  LET d == IF cl["W"] = "none" THEN "W" ELSE "W2"
  IN  /\ "R" \in fds
      /\ inPipes
      /\ ~has_run_dup
      /\ has_run_dup' = TRUE
      /\ fds' = fds \cup {d}
      /\ cl' = [cl EXCEPT ![d] = "open"]
      /\ UNCHANGED <<queue, condition, alive, nonblock, inPipes, lock, callVars, histVars,
                     events, nsignals>>

\* fcntl F_SETFL on either side.
Fcntl(side) ==
  /\ side \in Fcntls
  /\ \E d \in fds : SideOf(d) = side
  /\ inPipes
  /\ nonblock' = IF side \in nonblock THEN nonblock \ {side} ELSE nonblock \cup {side}
  /\ UNCHANGED <<queue, condition, alive, has_run_dup, inPipes, lock, callVars, histVars,
                 fds, cl, events, nsignals>>

\* A poller takes the side's event out of its event queue (event.rs).
TakeEvent(side) ==
  /\ side \in events
  /\ events' = events \ {side}
  /\ drained' = drained \ {side}
  /\ UNCHANGED <<pipeVars, callVars, nwritten, got, raced, fds, cl, nsignals>>

\* A signal unblocks a caller (context/switch.rs); its entry stays where it is.
Signal(c) ==
  /\ nsignals < MaxSignals
  /\ pc[c] = "parked"
  /\ status[c] = "Blocked"
  /\ Unblock(status, {c})
  /\ nsignals' = nsignals + 1
  /\ UNCHANGED <<pipeVars, histVars, using, pc, fds, cl, events>>

\* A signal ends a caller inside wait(): exit never returns to it, so neither
\* its entry nor its clone of the file descriptor is ever dropped.
Die(c) ==
  /\ nsignals < MaxSignals
  /\ pc[c] = "parked"
  /\ status' = [status EXCEPT ![c] = "Exited"]
  /\ Goto(c, "dead")
  /\ nsignals' = nsignals + 1
  /\ UNCHANGED <<pipeVars, histVars, using, fds, cl, events>>

CloseStep(d) ==
  \/ CloseBadf(d)
  \/ CloseNotify(d)
  \/ CloseStore(d)
  \/ CloseLoad(d)
  \/ CloseRemove(d)

Next ==
  \/ \E c \in Readers, n \in 1..MAX_QUEUE_SIZE : Read(c, n)
  \/ \E c \in Writers, k \in 1..MAX_QUEUE_SIZE : Write(c, k)
  \/ \E c \in Contexts :
       \/ Call(c)
       \/ PeerGone(c)
       \/ Again(c)
       \/ Wait(c)
       \/ EnterWaiters(c)
       \/ Resume(c)
       \/ Signal(c)
       \/ Die(c)
  \/ \E d \in Ends : CloseFd(d) \/ CloseStep(d)
  \/ Dup
  \/ \E side \in Sides : Fcntl(side) \/ TakeEvent(side)

Spec == Init /\ [][Next]_vars

-----------------------------------------------------------------------------

\* The queue never outgrows MAX_QUEUE_SIZE, the context on its way into a vector of
\* waiters, and no other, holds the mutex, and the rest of the state has its type.
TypeOK ==
  /\ queue \in Seq(1..MaxBytes) /\ Len(queue) <= MAX_QUEUE_SIZE
  /\ condition \in [Sides -> SUBSET Contexts]
  /\ alive \in [Sides -> BOOLEAN]
  /\ has_run_dup \in BOOLEAN
  /\ nonblock \subseteq Sides
  /\ inPipes \in BOOLEAN
  /\ lock \in {{}} \cup {{c} : c \in Contexts}
  /\ lock = {c \in Contexts : pc[c] = "push"}
  /\ fds \subseteq Ends
  /\ cl \in [Ends -> {"none", "open", "leaked", "closing", "notified", "stored",
                      "remove", "closed"}]
  /\ using \in [Contexts -> SUBSET Ends]
  /\ status \in [Contexts -> {"Runnable", "Blocked", "Exited"}]
  /\ pc \in [Contexts -> {"idle", "loop", "push", "parked", "dead"}]
  /\ events \subseteq Sides /\ drained \subseteq Sides
  /\ nwritten \in 0..MaxBytes /\ got \in Seq(1..MaxBytes)
  /\ raced \subseteq Contexts
  /\ nsignals \in 0..MaxSignals

Asleep(c) == pc[c] = "parked" /\ status[c] = "Blocked"


\* A caller asleep in kread has nothing to read and one asleep in kwrite has no
\* room, and both can be found by a notify(): since kread and kwrite notify with
\* the queue locked, there is no moment in between.  close() notifies before it
\* marks its side dead and takes no lock, so a caller can still fall asleep beside
\* a dead peer; the only ones that do are those that enter the vector after that
\* notify(), having seen the peer alive before.
SleepersAreStarved ==
  \A c \in Contexts : Asleep(c) =>
    /\ c \in condition[Caller(c)] /\ Starved(Caller(c))
    /\ alive[Peer(Caller(c))] \/ c \in raced

\* Two ends closed at the same time cannot both leave the pipe to the other: once
\* the closes of the read end and of a write end are over, the pipe is out of
\* PIPES.  And neither removes a pipe that the other side can still use: with one
\* write end, an open end finds its pipe in PIPES.
PipeReclaimed ==
  /\ cl["R"] = "closed" /\ "closed" \in {cl["W"], cl["W2"]} => ~inPipes
  /\ cl["W2"] = "none" /\ fds # {} => inPipes


=============================================================================
