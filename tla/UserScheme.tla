---------------------------- MODULE UserScheme ----------------------------
(***************************************************************************)
(* scheme/user.rs: a scheme served by a process.  A call on one of its     *)
(* files lends a buffer to the handler's address space, puts a packet in   *)
(* todo and waits in done for the answer under the packet's id; the        *)
(* handler reads packets from todo and writes answers.  unlink unmounts    *)
(* the scheme (scheme/root.rs), closing its file removes it.               *)
(*                                                                         *)
(* The handler answers a packet it has read, once, and again if the kernel *)
(* refused the answer.  An fmap answer makes the mapping in the caller's   *)
(* address space on the way.                                               *)
(***************************************************************************)
EXTENDS Naturals, Sequences, FiniteSets, SequencesExt, WaitCondition

CONSTANTS Callers,      \* contexts that call the scheme
          H,            \* the context of the handler
          MaxCalls,     \* bound: calls ever made
          Answers,      \* what the handler may answer: "ok", "EIO", "unaligned", "fd"
          MaxDeaths     \* bound: callers killed inside a call

ASSUME UserSchemeAssumption ==
  /\ H \notin Callers
  /\ MaxCalls \in Nat /\ MaxDeaths \in Nat
  /\ Answers \subseteq {"ok", "EIO", "unaligned", "fd"}

VARIABLES
  st,          \* status of every context
  next_id, todo, fmap, done, unmounting,
  todoWaits, doneWaits,   \* the vectors of the two conditions
  call,        \* per caller: where it is, its packet id, and whether it is an fmap
  lent,        \* callers whose buffer is mapped in the handler's space
  mapped,      \* callers whose last fmap made a mapping
  got,         \* per caller: how the last call ended
  hpc,         \* the handler's read: "idle", "load", "receive", "parked"
  block,       \* the value the read loaded
  held,        \* ids the handler has read and not answered
  open,        \* is the handler's file of the scheme open?
  upc,         \* unmount: "none", "store", "notify", "done"
  eof,         \* history: the handler has read end of file
  deaths

calls == <<next_id, fmap, call, lent, mapped, got>>
handler == <<hpc, block, held, open, eof>>
vars == <<st, todo, done, unmounting, todoWaits, doneWaits, calls, handler, upc, deaths>>

\* The first id; 0 is for messages that are no answers, which a mutant forgets.
FirstIdZero == 0
FirstId == 1

Init ==
  /\ st = [c \in Callers \cup {H} |-> "Runnable"]
  /\ next_id = FirstId /\ todo = <<>> /\ fmap = {} /\ done = << >> /\ unmounting = FALSE
  /\ todoWaits = {} /\ doneWaits = {}
  /\ call = [c \in Callers |-> [pc |-> "idle", id |-> 0, fmap |-> FALSE]]
  /\ lent = {} /\ mapped = {} /\ got = [c \in Callers |-> "none"]
  /\ hpc = "idle" /\ block = FALSE /\ held = {} /\ open = TRUE /\ eof = FALSE
  /\ upc = "none" /\ deaths = 0

To(c, pc) == call' = [call EXCEPT ![c].pc = pc]

-----------------------------------------------------------------------------
(* The caller *)

\* The id under which an fmap is registered, and a mutant that is one ahead.
RequestIdNext(id) == id + 1
RequestId(id) == id

\* A method of UserScheme: the buffer is captured, the packet gets an id, and
\* fmap_inner leaves the request where the answer will find it.
Begin(c, isFmap) ==
  /\ call[c].pc = "idle" /\ open /\ next_id <= MaxCalls
  /\ lent' = lent \cup {c}
  /\ call' = [call EXCEPT ![c] = [pc |-> "check", id |-> next_id, fmap |-> isFmap]]
  /\ next_id' = next_id + 1
  /\ fmap' = IF isFmap THEN fmap \cup {RequestId(next_id)} ELSE fmap
  /\ mapped' = mapped \ {c}
  /\ got' = [got EXCEPT ![c] = "none"]
  /\ UNCHANGED <<st, todo, done, unmounting, todoWaits, doneWaits, handler, upc, deaths>>

\* The call ends: the buffer is taken back and the result is there.
End(c, result) ==
  /\ To(c, "idle")
  /\ lent' = lent \ {c}
  /\ got' = [got EXCEPT ![c] = result]

\* call_extended_inner: refuse, or go on to send.
Check(c) ==
  /\ call[c].pc = "check"
  /\ IF unmounting THEN End(c, "ENODEV") ELSE To(c, "send") /\ UNCHANGED <<lent, got>>
  /\ UNCHANGED <<st, next_id, todo, fmap, done, unmounting, todoWaits, doneWaits,
                 mapped, handler, upc, deaths>>

SendPacket(c) ==
  /\ call[c].pc = "send"
  /\ todo' = Append(todo, call[c].id)
  /\ Notify(st, todoWaits)
  /\ To(c, "receive")
  /\ UNCHANGED <<next_id, fmap, done, unmounting, doneWaits, lent, mapped, got,
                 handler, upc, deaths>>

\* done.receive: the answer under the id, or sleep under the map's lock.
Receive(c) ==
  /\ call[c].pc = "receive"
  /\ IF call[c].id \in DOMAIN done
     THEN /\ End(c, done[call[c].id])
          /\ done' = [i \in DOMAIN done \ {call[c].id} |-> done[i]]
          /\ UNCHANGED <<st, doneWaits>>
     ELSE /\ Block(st, c) /\ WaitPush(doneWaits, c)
          /\ To(c, "asleep")
          /\ UNCHANGED <<done, lent, got>>
  /\ UNCHANGED <<next_id, todo, fmap, unmounting, todoWaits, mapped, handler, upc, deaths>>

\* Woken by an answer to anybody, or by a signal: receive looks again.
Awake(c) ==
  /\ call[c].pc = "asleep" /\ st[c] = "Runnable"
  /\ To(c, "receive")
  /\ \E waited \in BOOLEAN : WaitReturn(doneWaits, c, waited)
  /\ UNCHANGED <<st, next_id, todo, fmap, done, unmounting, todoWaits, lent, mapped, got,
                 handler, upc, deaths>>

\* A signal kills the caller in its sleep: its stack, and what it lent, stay.
Die(c) ==
  /\ call[c].pc = "asleep" /\ deaths < MaxDeaths
  /\ deaths' = deaths + 1
  /\ st' = [st EXCEPT ![c] = "Exited"]
  /\ To(c, "dead")
  /\ UNCHANGED <<next_id, todo, fmap, done, unmounting, todoWaits, doneWaits, lent, mapped,
                 got, handler, upc>>

-----------------------------------------------------------------------------
(* The handler *)

\* Mutant: read blocks although the scheme is unmounted.
ReadLoadBlocking ==
  /\ hpc = "idle" /\ open /\ ~eof
  /\ block' = TRUE
  /\ hpc' = "receive"
  /\ UNCHANGED <<st, todo, done, unmounting, todoWaits, doneWaits, calls, held, open, eof,
                 upc, deaths>>

\* UserInner::read loads unmounting,
ReadLoad ==
  /\ hpc = "idle" /\ open /\ ~eof
  /\ block' = ~unmounting
  /\ hpc' = "receive"
  /\ UNCHANGED <<st, todo, done, unmounting, todoWaits, doneWaits, calls, held, open, eof,
                 upc, deaths>>

\* What a read copies out of the queue, and a mutant that drops the rest.
CopiedFirst(q) == {Head(q)}
Copied(q) == ToSet(q)

\* and takes all packets there are, or sleeps under the queue's lock, or returns
\* end of file.
ReadReceive ==
  /\ hpc = "receive"
  /\ IF todo # <<>>
     THEN /\ held' = held \cup Copied(todo) /\ todo' = <<>>
          /\ hpc' = "idle" /\ UNCHANGED <<st, todoWaits, eof>>
     ELSE /\ UNCHANGED <<held, todo>>
          /\ IF block
             THEN Block(st, H) /\ WaitPush(todoWaits, H) /\ hpc' = "parked" /\ UNCHANGED eof
             ELSE hpc' = "idle" /\ eof' = unmounting /\ UNCHANGED <<st, todoWaits>>
  /\ UNCHANGED <<done, unmounting, doneWaits, calls, block, open, upc, deaths>>

\* The sleep ends: receive again, or EINTR if by a signal or by unmount.
ReadAwake ==
  /\ hpc = "parked" /\ st[H] = "Runnable"
  /\ \E waited \in BOOLEAN :
       WaitReturn(todoWaits, H, waited) /\ hpc' = IF waited THEN "receive" ELSE "idle"
  /\ UNCHANGED <<st, todo, done, unmounting, doneWaits, calls, block, held, open, eof,
                 upc, deaths>>

Owner(id) == {c \in Callers : call[c].id = id}
Dead(id) == \A c \in Owner(id) : call[c].pc = "dead"

\* handle_packet refuses an fmap answer that is not aligned, and one whose caller
\* has exited and not been reaped.
Refused(id, res, zombie) ==
  id \in fmap /\ (res = "unaligned" \/ (res = "ok" /\ zombie))

\* The callers done.send wakes, and its mutant that wakes nobody.
WakeNobody == UNCHANGED <<st, doneWaits>>
WakeCallers == Notify(st, doneWaits)

\* handle_packet for an answer: the request of an fmap is taken out, the mapping
\* is made, and the result is sent.  A refused answer the handler may correct.
\* An answer with a descriptor (SKMSG_FRETURNFD) does not look for a request.
Answer(id, res, zombie) ==
  /\ hpc = "idle" /\ open /\ id \in held
  /\ zombie => Dead(id)
  /\ fmap' = IF res = "fd" THEN fmap ELSE fmap \ {id}
  /\ IF Refused(id, res, zombie)
     THEN UNCHANGED <<st, done, doneWaits, mapped, held>>
     ELSE /\ held' = held \ {id}
          /\ mapped' = IF id \in fmap /\ res = "ok" THEN mapped \cup Owner(id) ELSE mapped
          /\ done' = [i \in DOMAIN done \cup {id} |-> IF i = id THEN res ELSE done[i]]
          /\ WakeCallers
  /\ UNCHANGED <<todo, unmounting, todoWaits, next_id, call, lent, got, hpc, block, open,
                 eof, upc, deaths>>

\* The handler closes its file, or exits: the scheme is gone, the calls are not.
Close ==
  /\ hpc = "idle" /\ open /\ eof
  /\ open' = FALSE
  /\ UNCHANGED <<st, todo, done, unmounting, todoWaits, doneWaits, calls, hpc, block, held,
                 eof, upc, deaths>>

-----------------------------------------------------------------------------
(* unlink of the scheme: UserInner::unmount *)

UnmountStore ==
  /\ upc = "none"
  /\ unmounting' = TRUE
  /\ upc' = "notify"
  /\ UNCHANGED <<st, todo, done, todoWaits, doneWaits, calls, handler, deaths>>

UnmountNotify ==
  /\ upc = "notify"
  /\ NotifySignal(st, todoWaits)
  /\ upc' = "done"
  /\ UNCHANGED <<todo, done, unmounting, doneWaits, calls, handler, deaths>>

Read == ReadLoad \/ ReadReceive \/ ReadAwake
Reply == \E id \in held, res \in Answers, zombie \in BOOLEAN : Answer(id, res, zombie)
Caller(c) == Check(c) \/ SendPacket(c) \/ Receive(c) \/ Awake(c)

Next ==
  \/ \E c \in Callers : (\E isFmap \in BOOLEAN : Begin(c, isFmap)) \/ Caller(c) \/ Die(c)
  \/ Read \/ Reply \/ Close
  \/ UnmountStore \/ UnmountNotify

Spec == Init /\ [][Next]_vars

\* The kernel goes on with its calls, and the handler reads and answers.
FairSpec ==
  /\ Spec
  /\ \A c \in Callers : WF_vars(Caller(c))
  /\ WF_vars(Read) /\ WF_vars(Reply) /\ WF_vars(UnmountNotify)

-----------------------------------------------------------------------------

InCall(c) == call[c].pc \notin {"idle", "dead"}

\* The state of the scheme has its type, and a caller's buffer is lent exactly while
\* it is in a call.
TypeOK ==
  /\ st \in [Callers \cup {H} -> Status]
  /\ next_id \in 1..(MaxCalls + 1)
  /\ ToSet(todo) \subseteq 1..MaxCalls /\ fmap \subseteq 1..MaxCalls /\ held \subseteq 1..MaxCalls
  /\ DOMAIN done \subseteq 1..MaxCalls /\ \A i \in DOMAIN done : done[i] \in Answers
  /\ unmounting \in BOOLEAN /\ block \in BOOLEAN /\ open \in BOOLEAN /\ eof \in BOOLEAN
  /\ todoWaits \subseteq {H} /\ doneWaits \subseteq Callers
  /\ lent = {c \in Callers : call[c].pc # "idle"} /\ mapped \subseteq Callers
  /\ deaths \in 0..MaxDeaths

\* A caller waits only for an answer somebody owes it: its packet is queued or
\* read once, or its answer is there and it is awake (the order of check, send,
\* receive against read and handle_packet).
AnswerIsOwed ==
  \A c \in Callers :
    call[c].pc \in {"receive", "asleep"} =>
      LET places == {"todo", "held", "done"}
          in(w) == CASE w = "todo" -> call[c].id \in ToSet(todo)
                     [] w = "held" -> call[c].id \in held
                     [] w = "done" -> call[c].id \in DOMAIN done
      IN  /\ \E w \in places : in(w) /\ \A v \in places : in(v) => v = w
          /\ st[c] = "Blocked" => ~in("done")

\* An fmap that returns an address has made a mapping, if the handler's answers
\* are aligned and none had to be repeated: the request is in fmap before the
\* handler can see the packet (fmap_inner, handle_packet).
FmapIsMapped ==
  \A c \in Callers : call[c].fmap /\ got[c] = "ok" => c \in mapped

\* The comment of unmount, "First, block new requests and prepare to return EOF":
\* no request reaches the queue after the handler has read end of file.
EofIsLast == eof => todo = <<>>

\* A call returns, if the handler answers what it reads (call_extended_inner):
\* until there is an unmount, the caller is woken by its own answer, whatever
\* other answers wake it before.  A handler that goes to sleep in read with
\* packets unanswered waits for more requests first.
CallReturns ==
  \A c \in Callers :
    InCall(c) ~> (~InCall(c) \/ unmounting \/ (hpc = "parked" /\ held # {}))

\* A handler that reads after unmount gets end of file, in spite of the requests
\* that are still queued then (read).
HandlerGetsEof == upc = "done" /\ hpc = "idle" ~> eof
=============================================================================
