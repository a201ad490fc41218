----------------------------- MODULE FileTable -----------------------------
(***************************************************************************)
(* Descriptors, the files behind them and the events they send: the file   *)
(* tables of context/context.rs, the calls of syscall/fs.rs that change    *)
(* them, FileDescriptor::close (context/file.rs), the registry of event.rs *)
(* with the queues of scheme/event.rs, and the timeouts of scheme/time.rs. *)
(*                                                                         *)
(* A description is named by the number its scheme knows it under; numbers *)
(* are handed out once (fetch_add).  It lives as long as some Arc refers   *)
(* to it: one in each slot of a table, and one in each variable of a call  *)
(* in progress (op).  Threads interleave between any two locks.  A lookup  *)
(* that finds nothing fails with EBADF; as the first thing a call does it  *)
(* changes nothing and is left out.  The two ends of a pipe, which share a *)
(* number, are in Pipe.                                                    *)
(***************************************************************************)
EXTENDS Naturals, FiniteSets, Functions

CONSTANTS Threads,
          Tables,              \* the file tables the threads start with
          CONTEXT_MAX_FILES,
          MaxNumbers,          \* bound: descriptions ever made
          MaxCalls,            \* bound: calls that threads begin, exit not counted
          Kinds,               \* schemes files are opened of: "time", "event", "proc"
          FlagSets             \* event flags that are asked for

ASSUME FileTableAssumption ==
  /\ CONTEXT_MAX_FILES \in Nat \ {0} /\ MaxNumbers \in Nat \ {0, 1}
  /\ MaxCalls \in Nat
  /\ Kinds \subseteq {"time", "event", "proc"}
  /\ FlagSets \subseteq SUBSET {"R", "W"}

Fds == 0..(CONTEXT_MAX_FILES - 1)
Numbers == 1..MaxNumbers
None == 0

VARIABLES
  files,      \* per table, the vector: a function on 0..len-1 to numbers or None
  tableOf,    \* the table a thread holds an Arc of: a set of at most one
  kind,       \* per number, its scheme, or "none" before it is handed out
  open,       \* numbers the scheme has a handle for
  op,         \* per thread, the call in progress and the Arcs it holds
  registry,   \* REGISTRY: [number, queue, id, flags]
  timeouts,   \* the list of context/timeout.rs: numbers
  events,     \* per queue, what is in it: [number, id]
  ncalls      \* calls begun

tables == <<files, tableOf>>
handles == <<kind, open>>
evs == <<registry, timeouts, events>>
vars == <<tables, handles, op, evs, ncalls>>

NoFiles == [fd \in {} |-> None]
Idle == [call |-> "none", pc |-> "idle", fd |-> 0, to |-> 0, flags |-> {},
         file |-> None, target |-> None, new |-> None, own |-> NoFiles]

\* Every thread has a table with an event queue (1) and a time: file (2): one that
\* threads share, or one of its own after a copy of the table, as a fork makes it.
Init ==
  /\ tableOf \in [Threads -> {{tb} : tb \in Tables}]
  /\ files = [tb \in Tables |->
                IF {tb} \in Range(tableOf) THEN [fd \in 0..1 |-> fd + 1] ELSE NoFiles]
  /\ kind = [n \in Numbers |-> IF n = 1 THEN "event" ELSE IF n = 2 THEN "time" ELSE "none"]
  /\ open = {1, 2}
  /\ op = [t \in Threads |-> Idle]
  /\ registry = {} /\ timeouts = {} /\ events = [n \in Numbers |-> {}]
  /\ ncalls = 0

-----------------------------------------------------------------------------
(* Arcs *)

Holders(tb) == {t \in Threads : tb \in tableOf[t]}

\* The file that exit, close or dup2 is closing: they go through own in order.
Current(t) == CHOOSE fd \in DOMAIN op[t].own : \A g \in DOMAIN op[t].own : fd <= g

\* References whose owner is going to close the file, or can: slots of a table that
\* some holder has not given up, and files taken out of a table to be closed.
Closers(n) ==
  {s \in {"slot"} \X Tables \X Fds :
     /\ s[3] \in DOMAIN files[s[2]] /\ files[s[2]][s[3]] = n
     /\ \E t \in Holders(s[2]) : op[t].pc # "leave"}
  \cup {s \in {"own"} \X Threads \X Fds :
          /\ s[3] \in DOMAIN op[s[2]].own /\ op[s[2]].own[s[3]] = n
          /\ ~(op[s[2]].pc = "drop" /\ s[3] = Current(s[2]))}

\* References that are only dropped: those of calls in progress, of closers that
\* have found that they are not the last, and of tables that are being dropped.
Passing(n) ==
  {s \in {"call"} \X Threads \X {"file", "target", "new"} : op[s[2]][s[3]] = n}
  \cup {s \in {"drop"} \X Threads : op[s[2]].pc = "drop" /\ op[s[2]].own[Current(s[2])] = n}
  \cup {s \in {"leave"} \X Tables \X Fds :
          /\ s[3] \in DOMAIN files[s[2]] /\ files[s[2]][s[3]] = n
          /\ Holders(s[2]) # {} /\ \A t \in Holders(s[2]) : op[t].pc = "leave"}

Refs(n) == Cardinality(Closers(n)) + Cardinality(Passing(n))

-----------------------------------------------------------------------------
(* Calls on a table *)

Step(t, o) == op' = [op EXCEPT ![t] = o] /\ UNCHANGED ncalls

\* A call of a thread that is in user mode; o is what its first step leaves.
Begin(t, call, o) ==
  /\ op[t].pc = "idle"
  /\ ncalls < MaxCalls
  /\ ncalls' = ncalls + 1
  /\ op' = [op EXCEPT ![t] = [o EXCEPT !.call = call]]

\* Context::get_file, as the set of what it finds.
Lookup(t, fd) ==
  {files[tb][fd] : tb \in {x \in tableOf[t] : fd \in DOMAIN files[x]}} \ {None}

\* The slot in the vector, which grows up to it if it has to.
Put(v, fd, n) ==
  [i \in DOMAIN v \cup 0..fd |-> IF i = fd THEN n ELSE IF i \in DOMAIN v THEN v[i] ELSE None]

Unused(n) == kind[n] = "none" /\ \A m \in Numbers : kind[m] = "none" => n <= m
NewHandle(n, k) ==
  /\ Unused(n)
  /\ kind' = [kind EXCEPT ![n] = k]
  /\ open' = open \cup {n}

\* open: the scheme's kopen makes a handle; then add_file.
Open(t, n, k) ==
  /\ k \in Kinds
  /\ NewHandle(n, k)
  /\ Begin(t, "open", [Idle EXCEPT !.pc = "add", !.new = n])
  /\ UNCHANGED <<tables, evs>>

\* The lookup is over and the descriptor is in the table, or dropped with EMFILE;
\* fcntl still has the clone it began with.
Added(o) ==
  IF o.file = None THEN Idle
  ELSE [Idle EXCEPT !.call = o.call, !.pc = "call", !.file = o.file]

VecLen(v) == Cardinality(DOMAIN v)

\* Mutant: the vector grows by one more than the limit.
FullLate(v) == VecLen(v) > CONTEXT_MAX_FILES
Full(v) == VecLen(v) >= CONTEXT_MAX_FILES

\* add_file_min: the lowest free slot from min on, or the end of the vector.
\* When min is beyond the end the lock is released before insert_file.
Add(t) ==
  \E tb \in tableOf[t] :
    LET v    == files[tb]
        free == {fd \in DOMAIN v : v[fd] = None /\ fd >= op[t].to}
        fd   == IF free = {} THEN VecLen(v) ELSE CHOOSE f \in free : \A g \in free : f <= g
        full == free = {} /\ Full(v)
        beyond == free = {} /\ VecLen(v) < op[t].to
    IN  /\ op[t].pc = "add"
        /\ IF ~full /\ beyond
           THEN Step(t, [op[t] EXCEPT !.pc = "insert"]) /\ UNCHANGED files
           ELSE /\ files' = IF full THEN files ELSE [files EXCEPT ![tb] = Put(v, fd, op[t].new)]
                /\ Step(t, Added(op[t]))
        /\ UNCHANGED <<tableOf, handles, evs>>

Taken(v, fd) == fd \in DOMAIN v /\ v[fd] # None

\* insert_file: the slot has to be free, whoever has taken it meanwhile.
Insert(t) ==
  \E tb \in tableOf[t] :
    /\ op[t].pc = "insert"
    /\ files' = IF op[t].to >= CONTEXT_MAX_FILES \/ Taken(files[tb], op[t].to)
                THEN files
                ELSE [files EXCEPT ![tb] = Put(@, op[t].to, op[t].new)]
    /\ Step(t, Added(op[t]))
    /\ UNCHANGED <<tableOf, handles, evs>>

\* file_op_generic: a call on the file keeps a clone of the descriptor to its end.
Call(t, fd) ==
  /\ \E n \in Lookup(t, fd) :
       Begin(t, "file", [Idle EXCEPT !.pc = "call", !.file = n])
  /\ UNCHANGED <<tables, handles, evs>>

\* What the call does: a write to time: adds a timeout, a read of a queue empties it.
\* The end of fcntl does nothing more.
CallEnd(t) ==
  LET n == op[t].file
      does(k) == op[t].call = "file" /\ kind[n] = k
  IN  /\ op[t].pc = "call"
      /\ \/ UNCHANGED <<timeouts, events>>
         \/ does("time") /\ timeouts' = timeouts \cup {n} /\ UNCHANGED events
         \/ does("event") /\ events' = [events EXCEPT ![n] = {}] /\ UNCHANGED timeouts
      /\ Step(t, Idle)
      /\ UNCHANGED <<tables, handles, registry>>

\* dup; fcntl with F_DUPFD does the same from min on, and has looked fd up before.
Dup(t, fd) ==
  /\ Begin(t, "dup", [Idle EXCEPT !.pc = "get", !.fd = fd])
  /\ UNCHANGED <<tables, handles, evs>>

Fcntl(t, fd, min) ==
  /\ \E n \in Lookup(t, fd) :
       Begin(t, "fcntl", [Idle EXCEPT !.pc = "get", !.fd = fd, !.to = min, !.file = n])
  /\ UNCHANGED <<tables, handles, evs>>

\* duplicate_file: the lookup, with EBADF ...
Get(t) ==
  /\ op[t].pc = "get"
  /\ \/ Lookup(t, op[t].fd) = {} /\ Step(t, Added(op[t]))
     \/ \E n \in Lookup(t, op[t].fd) : Step(t, [op[t] EXCEPT !.pc = "dup", !.target = n])
  /\ UNCHANGED <<tables, handles, evs>>

\* ... and one more Arc, or with a buffer a new handle, which only proc: gives out.
Duplicate(t) ==
  LET done(n) == Step(t, [op[t] EXCEPT !.pc = IF op[t].call = "dup2" THEN "insert" ELSE "add",
                                       !.target = None, !.new = n])
  IN  /\ op[t].pc = "dup"
      /\ \/ done(op[t].target) /\ UNCHANGED handles
         \/ /\ op[t].call # "fcntl"
            /\ \/ /\ kind[op[t].target] = "proc"
                  /\ \E m \in Numbers : NewHandle(m, "proc") /\ done(m)
               \/ kind[op[t].target] # "proc" /\ Step(t, Idle) /\ UNCHANGED handles
      /\ UNCHANGED <<tables, evs>>

-----------------------------------------------------------------------------
(* Closing *)

\* remove_file, and what is left to do with what was there: close of a descriptor
\* that is not there is EBADF, which dup2 ignores.
Close(t, fd) ==
  /\ \E tb \in tableOf[t], n \in Lookup(t, fd) :
       /\ files' = [files EXCEPT ![tb][fd] = None]
       /\ Begin(t, "close", [Idle EXCEPT !.pc = "close", !.own = [f \in {fd} |-> n]])
  /\ UNCHANGED <<tableOf, handles, evs>>

Dup2(t, fd, to) ==
  LET o == [Idle EXCEPT !.pc = "get", !.fd = fd, !.to = to]
  IN  /\ fd # to
      /\ \E tb \in tableOf[t] :
           \/ Lookup(t, to) = {} /\ Begin(t, "dup2", o) /\ UNCHANGED files
           \/ \E n \in Lookup(t, to) :
                /\ files' = [files EXCEPT ![tb][to] = None]
                /\ Begin(t, "dup2", [o EXCEPT !.pc = "close", !.own = [f \in {to} |-> n]])
      /\ UNCHANGED <<tableOf, handles, evs>>

\* Mutant: every close closes the file in its scheme.
LastAlways(n) == TRUE
Last(n) == Refs(n) = 1

\* Arc::try_unwrap of FileDescriptor::close: only the last Arc gives the file up.
Unwrap(t) ==
  /\ op[t].pc = "close"
  /\ Step(t, [op[t] EXCEPT !.pc = IF Last(op[t].own[Current(t)]) THEN "unregister" ELSE "drop"])
  /\ UNCHANGED <<tables, handles, evs>>

\* Mutant: the registrations of the queue are removed, not those of the file.
UnregisteredQueue(n) == {r \in registry : r.queue # n}
Unregistered(n) == {r \in registry : r.number # n}

UnregisterFile(t) ==
  /\ op[t].pc = "unregister"
  /\ registry' = Unregistered(op[t].own[Current(t)])
  /\ Step(t, [op[t] EXCEPT !.pc = "scheme"])
  /\ UNCHANGED <<tables, handles, timeouts, events>>

\* What follows the close of one file: the next file of exit, or the rest of dup2.
Closed(t) ==
  LET own == Restrict(op[t].own, DOMAIN op[t].own \ {Current(t)})
      o == [op[t] EXCEPT !.own = own]
  IN  IF DOMAIN own # {} THEN [o EXCEPT !.pc = "close"]
      ELSE CASE o.call = "dup2" -> [o EXCEPT !.pc = "get"]
             [] o.call = "exit" -> [o EXCEPT !.pc = "exited"]
             [] OTHER -> Idle

\* The scheme removes its handle; a queue goes with its events.
SchemeClose(t) ==
  /\ op[t].pc = "scheme"
  /\ open' = open \ {op[t].own[Current(t)]}
  /\ events' = [events EXCEPT ![op[t].own[Current(t)]] = {}]
  /\ Step(t, Closed(t))
  /\ UNCHANGED <<tables, kind, registry, timeouts>>

Drop(t) ==
  /\ op[t].pc = "drop"
  /\ Step(t, Closed(t))
  /\ UNCHANGED <<tables, handles, evs>>

\* exit takes the table and closes what is in it, if no other thread has it.  A
\* context that is killed in a call never goes back to it: its clone stays for good.
Exit(t) ==
  \E tb \in tableOf[t] :
    LET own == Restrict(files[tb], {fd \in DOMAIN files[tb] : files[tb][fd] # None})
        o == [op[t] EXCEPT !.call = "exit"]
    IN  /\ op[t].pc \in {"idle", "call"}
        /\ IF Holders(tb) # {t}
           THEN Step(t, [o EXCEPT !.pc = "leave"]) /\ UNCHANGED tables
           ELSE /\ Step(t, [o EXCEPT !.pc = IF DOMAIN own = {} THEN "exited" ELSE "close",
                                     !.own = own])
                /\ files' = [files EXCEPT ![tb] = NoFiles]
                /\ tableOf' = [tableOf EXCEPT ![t] = {}]
        /\ UNCHANGED <<handles, evs>>

\* The Arc of the table is dropped; with the last one the files, but not closed.
Leave(t) ==
  \E tb \in tableOf[t] :
    /\ op[t].pc = "leave"
    /\ files' = IF Holders(tb) = {t} THEN [files EXCEPT ![tb] = NoFiles] ELSE files
    /\ tableOf' = [tableOf EXCEPT ![t] = {}]
    /\ Step(t, [op[t] EXCEPT !.pc = "exited"])
    /\ UNCHANGED <<handles, evs>>

-----------------------------------------------------------------------------
(* Events *)

\* trigger: every registration with a flag in common whose queue still exists.
Triggered(n, flags) ==
  [q \in Numbers |-> events[q] \cup
     {[number |-> n, id |-> r.id] : r \in {x \in registry : /\ x.number = n /\ x.queue = q
                                                        /\ x.flags \cap flags # {}
                                                        /\ q \in open}}]

\* A write to a queue, which holds the queue's descriptor, looks a file up ...
EventWrite(t, qfd, fd, flags) ==
  /\ \E q \in Lookup(t, qfd) :
       /\ kind[q] = "event"
       /\ Begin(t, "event", [Idle EXCEPT !.pc = "find", !.file = q, !.fd = fd,
                               !.flags = flags])
  /\ UNCHANGED <<tables, handles, evs>>

Find(t) ==
  /\ op[t].pc = "find"
  /\ \/ Lookup(t, op[t].fd) = {} /\ Step(t, Idle)
     \/ \E n \in Lookup(t, op[t].fd) : Step(t, [op[t] EXCEPT !.pc = "register", !.target = n])
  /\ UNCHANGED <<tables, handles, evs>>

\* ... registers it under the number it had in the table, or takes that back ...
Register(t) ==
  LET o == op[t]
      others == {r \in registry : ~(r.number = o.target /\ r.queue = o.file /\ r.id = o.fd)}
  IN  /\ o.pc = "register"
      /\ registry' = others \cup
           (IF o.flags = {} THEN {}
            ELSE {[number |-> o.target, queue |-> o.file, id |-> o.fd, flags |-> o.flags]})
      /\ Step(t, [o EXCEPT !.pc = "sync"])
      /\ UNCHANGED <<tables, handles, timeouts, events>>

\* ... and asks the scheme what is ready already: nothing, except with a trace file
\* of proc:, which has events of the tracee.  An error changes nothing.
Sync(t) ==
  /\ op[t].pc = "sync"
  /\ \/ Step(t, Idle)
     \/ kind[op[t].target] = "proc" /\ Step(t, [op[t] EXCEPT !.pc = "trigger"])
  /\ UNCHANGED <<tables, handles, evs>>

Trigger(t) ==
  /\ op[t].pc = "trigger"
  /\ events' = Triggered(op[t].target, {"R"})
  /\ Step(t, Idle)
  /\ UNCHANGED <<tables, handles, registry, timeouts>>

\* timeout::trigger, on a tick: the timeout of one of the files is due.
Timeout(n) ==
  /\ n \in timeouts
  /\ timeouts' = timeouts \ {n}
  /\ events' = Triggered(n, {"R"})
  /\ UNCHANGED <<tables, handles, op, registry, ncalls>>

-----------------------------------------------------------------------------
Next ==
  \/ \E t \in Threads :
       \/ \E n \in Numbers, k \in Kinds : Open(t, n, k)
       \/ \E fd \in Fds : Call(t, fd) \/ Dup(t, fd) \/ Close(t, fd)
       \/ \E fd, to \in Fds : Fcntl(t, fd, to) \/ Dup2(t, fd, to)
       \/ \E qfd, fd \in Fds, flags \in FlagSets : EventWrite(t, qfd, fd, flags)
       \/ Add(t) \/ Insert(t) \/ CallEnd(t) \/ Get(t) \/ Duplicate(t)
       \/ Unwrap(t) \/ UnregisterFile(t) \/ SchemeClose(t) \/ Drop(t)
       \/ Exit(t) \/ Leave(t)
       \/ Find(t) \/ Register(t) \/ Sync(t) \/ Trigger(t)
  \/ \E n \in Numbers : Timeout(n)

Spec == Init /\ [][Next]_vars

-----------------------------------------------------------------------------

\* The vectors stay within CONTEXT_MAX_FILES, and the rest of the state has its type.
TypeOK ==
  /\ \A tb \in Tables :
       \E len \in 0..CONTEXT_MAX_FILES : files[tb] \in [0..(len - 1) -> Numbers \cup {None}]
  /\ tableOf \in [Threads -> SUBSET Tables] /\ \A t \in Threads : Cardinality(tableOf[t]) <= 1
  /\ kind \in [Numbers -> {"none", "time", "event", "proc"}]
  /\ open \subseteq {n \in Numbers : kind[n] # "none"}
  /\ \A t \in Threads :
       /\ DOMAIN op[t] = DOMAIN Idle
       /\ {op[t].file, op[t].target, op[t].new} \subseteq Numbers \cup {None}
       /\ DOMAIN op[t].own \subseteq Fds /\ Range(op[t].own) \subseteq Numbers
  /\ registry \subseteq [number : Numbers, queue : Numbers, id : Fds, flags : FlagSets \ {{}}]
  /\ timeouts \subseteq Numbers
  /\ events \in [Numbers -> SUBSET [number : Numbers, id : Fds]]

\* A file is closed in its scheme when nobody refers to it any more: what is in a slot
\* of a table, in the hands of a call or in the registry of events has its handle, so
\* no call meets a number that its scheme has forgotten (FileDescriptor::close).
HandleOutlivesUse ==
  \A n \in Numbers \ open : Refs(n) = 0 /\ ~ \E r \in registry : r.number = n


\* A file that has been closed is silent, and so is a queue: a timeout or a trigger
\* that comes late puts no event for it into a queue, whose reader could take the id
\* for that of the file that has the slot now (event.rs).
ClosedIsSilent ==
  [][\A q \in Numbers : \A e \in events'[q] \ events[q] : {q, e.number} \subseteq open]_vars
=============================================================================
