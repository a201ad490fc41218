------------------------------ MODULE Process ------------------------------
(***************************************************************************)
(* The life of a process: the list of contexts (context/list.rs), exit,    *)
(* waitpid and reap (syscall/process.rs), and the WaitMap through which a  *)
(* child tells its parent (sync/wait_map.rs).                              *)
(*                                                                         *)
(* Processes run on CPUs of their own, so their calls interleave between   *)
(* any two critical sections; pc says which section comes next.  Only the  *)
(* process itself waits on its map, so the vector of the map's condition   *)
(* is whether it is in it.  Process 1 is the first process and stays.      *)
(***************************************************************************)
EXTENDS Naturals, FiniteSets, Sequences

CONSTANTS MaxSpawns,     \* bound: processes ever created
          MaxWaits,      \* bound: calls of waitpid ever made
          MaxStops,      \* bound: stop and continue signals ever taken
          MaxFaults,     \* bound: status pointers that cannot be written
          Strangers,     \* may waitpid name a process that is not a child?
          Leaders        \* bound: processes that may lead a group of their own

ASSUME ProcessAssumption ==
  /\ {MaxSpawns, MaxWaits, MaxStops, MaxFaults} \subseteq Nat
  /\ Strangers \in BOOLEAN /\ Leaders \subseteq Nat

Ids == 1..(MaxSpawns + 1)
None == 0

VARIABLES
  list,     \* ContextList::map: the ids in use
  st, ppid, pgid,
  waitpid,  \* per process, its map: function from pids to [pgid, status]
  waiter,   \* per process, whether it is in the vector of its map
  pc,
  ex,       \* exit: the ppid and pgid it read, and the children's statuses
  wp,       \* waitpid: its target and flags, and what it received
  missed,   \* history: processes that exited while their parent changed
  faulted,  \* history: processes whose status was taken but not written
  spawns, waits, stops

bounds == <<spawns, waits, stops>>
proc == <<list, ppid, pgid>>
vars == <<proc, st, waitpid, waiter, pc, ex, wp, missed, faulted, bounds>>

Nothing == [pid |-> None, status |-> "none"]
NoExit == [ppid |-> None, pgid |-> None, children |-> << >>]
NoWait == [target |-> <<"any", None>>, nohang |-> FALSE, untraced |-> FALSE, got |-> Nothing]

Init ==
  /\ list = {1}
  /\ st = [p \in Ids |-> IF p = 1 THEN "Runnable" ELSE "Exited"]
  /\ ppid = [p \in Ids |-> None] /\ pgid = [p \in Ids |-> IF p = 1 THEN 1 ELSE None]
  /\ waitpid = [p \in Ids |-> << >>] /\ waiter = [p \in Ids |-> FALSE]
  /\ pc = [p \in Ids |-> IF p = 1 THEN "user" ELSE "none"]
  /\ ex = [p \in Ids |-> NoExit] /\ wp = [p \in Ids |-> NoWait]
  /\ missed = {} /\ faulted = {}
  /\ spawns = 0 /\ waits = 0 /\ stops = 0

-----------------------------------------------------------------------------
(* ContextList *)

\* new_context and inherit_context.  CONTEXT_MAX_CONTEXTS is close to 2^63, so
\* next_id only grows and no id is used twice.  The child is created stopped;
\* here its creator has also set it going.
Spawn(p) ==
  LET id == spawns + 2
  IN  /\ pc[p] = "user" /\ spawns < MaxSpawns
      /\ spawns' = spawns + 1
      /\ list' = list \cup {id}
      /\ ppid' = [ppid EXCEPT ![id] = p]
      /\ pgid' = [pgid EXCEPT ![id] = pgid[p]]
      /\ st' = [st EXCEPT ![id] = "Runnable"]
      /\ pc' = [pc EXCEPT ![id] = "user"]
      /\ UNCHANGED <<waitpid, waiter, ex, wp, missed, faulted, waits, stops>>

\* setpgid of a process on itself: it leads a group of its own.
Setpgid(p) ==
  /\ p \in Leaders /\ pc[p] = "user" /\ pgid[p] # p
  /\ pgid' = [pgid EXCEPT ![p] = p]
  /\ UNCHANGED <<list, ppid, st, waitpid, waiter, pc, ex, wp, missed, faulted, bounds>>

-----------------------------------------------------------------------------
(* WaitMap, keyed by WaitpidKey *)

\* BTreeMap::insert: the keys are ordered by pid, and a key that is there stays
\* as it is when its value is replaced.
Inserted(m, pid, pg, status) ==
  [q \in DOMAIN m \cup {pid} |->
     IF q # pid THEN m[q]
     ELSE [pgid |-> IF q \in DOMAIN m THEN m[q].pgid ELSE pg, status |-> status]]

\* A lookup by pgid walks the keys in the order of their pids and stops at the
\* first that does not compare as less.
FoundGroup(m, g) ==
  {q \in DOMAIN m : m[q].pgid = g /\ \A r \in DOMAIN m : r < q => m[r].pgid < g}

Lowest(S) == {q \in S : \A r \in S : q <= r}

\* The entry a receive takes, if any.
Found(m, target) ==
  CASE target[1] = "any"   -> Lowest(DOMAIN m)
    [] target[1] = "pid"   -> {target[2]} \cap DOMAIN m
    [] target[1] = "group" -> FoundGroup(m, target[2])

\* remove, and its mutant that leaves the entry.
WithoutRemoving(m, pid) == m
Without(m, pid) == [q \in DOMAIN m \ {pid} |-> m[q]]

\* WaitMap::send of several entries to one process: the values, and notify.
Send(p, m) ==
  /\ waitpid' = [waitpid EXCEPT ![p] = m]
  /\ waiter' = [waiter EXCEPT ![p] = FALSE]


\* What notify makes of the status of p.
Notified(s, p) ==
  IF waiter[p] /\ s[p] = "Blocked" THEN [s EXCEPT ![p] = "Runnable"] ELSE s

-----------------------------------------------------------------------------
(* exit *)

\* exit up to the end of closing the files.  A signal ends a process inside
\* waitpid too.
Exit(p) ==
  /\ p # 1 /\ p \in list
  /\ pc[p] = "user" \/ pc[p] = "asleep"
  /\ st' = [st EXCEPT ![p] = "Runnable"]
  /\ pc' = [pc EXCEPT ![p] = "grab"]
  /\ wp' = [wp EXCEPT ![p] = NoWait]
  /\ UNCHANGED <<proc, waitpid, waiter, ex, missed, faulted, bounds>>

ExitGrab(p) ==
  /\ pc[p] = "grab"
  /\ ex' = [ex EXCEPT ![p] = [NoExit EXCEPT !.ppid = ppid[p], !.pgid = pgid[p]]]
  /\ pc' = [pc EXCEPT ![p] = "reparent"]
  /\ UNCHANGED <<proc, st, waitpid, waiter, wp, missed, faulted, bounds>>

\* The children of p that have read p as their parent and not yet sent to it.
Racing(p) == {q \in list : ppid[q] = p /\ pc[q] \in {"reparent", "status", "send"}}

\* "Transfer child processes to parent".
ExitReparent(p) ==
  /\ pc[p] = "reparent"
  /\ ppid' = [q \in Ids |-> IF q \in list /\ ppid[q] = p THEN ex[p].ppid ELSE ppid[q]]
  /\ missed' = missed \cup Racing(p)
                 \cup UNION {DOMAIN waitpid[q] \cup DOMAIN ex[q].children : q \in Racing(p)}
  /\ pc' = [pc EXCEPT ![p] = "status"]
  /\ UNCHANGED <<list, pgid, st, waitpid, waiter, ex, wp, faulted, bounds>>

\* Mutant: the statuses of the children are dropped.
ExitStatusAlone(p) ==
  /\ pc[p] = "status"
  /\ st' = [st EXCEPT ![p] = "Exited"]
  /\ waitpid' = [waitpid EXCEPT ![p] = << >>]
  /\ pc' = [pc EXCEPT ![p] = "send"]
  /\ UNCHANGED <<proc, waiter, ex, wp, missed, faulted, bounds>>

ExitStatus(p) ==
  /\ pc[p] = "status"
  /\ st' = [st EXCEPT ![p] = "Exited"]
  /\ ex' = [ex EXCEPT ![p].children = waitpid[p]]
  /\ waitpid' = [waitpid EXCEPT ![p] = << >>]
  /\ pc' = [pc EXCEPT ![p] = "send"]
  /\ UNCHANGED <<proc, waiter, wp, missed, faulted, bounds>>

\* The statuses p had not waited for, and its own, go to the parent.
Bequest(p) ==
  LET parent == ex[p].ppid
      kids == ex[p].children
      m == waitpid[parent]
      merged == [q \in DOMAIN m \cup DOMAIN kids |->
                   IF q \notin DOMAIN kids THEN m[q]
                   ELSE [pgid |-> IF q \in DOMAIN m THEN m[q].pgid ELSE kids[q].pgid,
                         status |-> kids[q].status]]
  IN  Inserted(merged, p, ex[p].pgid, "exited")

ExitSend(p) ==
  /\ pc[p] = "send"
  /\ IF ex[p].ppid \in list
     THEN Send(ex[p].ppid, Bequest(p)) /\ st' = Notified(st, ex[p].ppid)
     ELSE UNCHANGED <<waitpid, waiter, st>>
  /\ ex' = [ex EXCEPT ![p] = NoExit]
  /\ pc' = [pc EXCEPT ![p] = "switch"]
  /\ UNCHANGED <<proc, wp, missed, faulted, bounds>>

\* The last switch(): running becomes false.
ExitSwitch(p) ==
  /\ pc[p] = "switch"
  /\ pc' = [pc EXCEPT ![p] = "dead"]
  /\ UNCHANGED <<proc, st, waitpid, waiter, ex, wp, missed, faulted, bounds>>

-----------------------------------------------------------------------------
(* stop and continue: signal_handler *)

\* Mutant: the status is sent as it is in the context.
TellRaw(p, status, to) ==
  /\ pc' = [pc EXCEPT ![p] = IF to = "Stopped" THEN "stopped" ELSE "user"]
  /\ ppid[p] \in list
  /\ Send(ppid[p], Inserted(waitpid[ppid[p]], p, pgid[p], to))
  /\ st' = Notified([st EXCEPT ![p] = to], ppid[p])

\* Stop and continue give the parent a status, if there is a parent.
Tell(p, status, to) ==
  /\ pc' = [pc EXCEPT ![p] = IF to = "Stopped" THEN "stopped" ELSE "user"]
  /\ IF ppid[p] \in list
     THEN /\ Send(ppid[p], Inserted(waitpid[ppid[p]], p, pgid[p], status))
          /\ st' = Notified([st EXCEPT ![p] = to], ppid[p])
     ELSE UNCHANGED <<waitpid, waiter>> /\ st' = [st EXCEPT ![p] = to]

StopOrContinue(p) ==
  /\ stops < MaxStops /\ stops' = stops + 1
  /\ \/ pc[p] = "user" /\ p # 1 /\ Tell(p, "stopped", "Stopped")
     \/ pc[p] = "stopped" /\ Tell(p, "continued", "Runnable")
  /\ UNCHANGED <<proc, ex, wp, missed, faulted, spawns, waits>>

-----------------------------------------------------------------------------
(* waitpid *)

Targets(p) ==
  {<<"any", None>>}
    \cup {<<"pid", q>> : q \in {q \in list \ {p} : Strangers \/ ppid[q] = p}}
    \cup {<<"group", g>> : g \in {pgid[q] : q \in list} \cap Leaders}

Waitpid(p, target, nohang, untraced) ==
  /\ pc[p] = "user" /\ waits < MaxWaits
  /\ waits' = waits + 1
  /\ wp' = [wp EXCEPT ![p] = [target |-> target, nohang |-> nohang,
                              untraced |-> untraced, got |-> Nothing]]
  /\ pc' = [pc EXCEPT ![p] = "check"]
  /\ UNCHANGED <<proc, st, waitpid, waiter, ex, missed, faulted, spawns, stops>>

\* Is there such a child?  (of a group, any member: the parent is not looked at)
Exists(p) ==
  LET t == wp[p].target
  IN  CASE t[1] = "any"   -> \E q \in list : ppid[q] = p
        [] t[1] = "pid"   -> t[2] \in list
        [] t[1] = "group" -> \E q \in list : pgid[q] = t[2]

\* The top of waitpid's loop.  A pid that is not a child becomes one ("Hack for
\* rustc"), and if it has exited its status is taken from it.
WaitpidCheck(p) ==
  LET t == wp[p].target
      q == t[2]
      hack == t[1] = "pid" /\ q \in list /\ ppid[q] # p
  IN  /\ pc[p] = "check"
      /\ IF hack THEN ppid' = [ppid EXCEPT ![q] = p] ELSE UNCHANGED ppid
      /\ missed' = IF hack /\ pc[q] \in {"reparent", "status", "send", "switch", "dead"}
                   THEN missed \cup {q} ELSE missed
      /\ IF hack /\ st[q] = "Exited"
         THEN /\ waitpid' = [waitpid EXCEPT ![p] = Without(@, q)]
              /\ wp' = [wp EXCEPT ![p].got = [pid |-> q, status |-> "exited"]]
              /\ pc' = [pc EXCEPT ![p] = "reap"]
         ELSE /\ UNCHANGED waitpid
              /\ pc' = [pc EXCEPT ![p] = IF Exists(p) THEN "receive" ELSE "user"]
              /\ wp' = [wp EXCEPT ![p] = IF Exists(p) THEN @ ELSE NoWait]
      /\ UNCHANGED <<list, pgid, st, waiter, ex, faulted, bounds>>

\* receive: take an entry, or return with WNOHANG, or wait under the map's lock.
Receive(p) ==
  LET found == Found(waitpid[p], wp[p].target)
  IN  /\ pc[p] = "receive"
      /\ \/ \E q \in found :
              /\ wp' = [wp EXCEPT ![p].got = [pid |-> q, status |-> waitpid[p][q].status]]
              /\ waitpid' = [waitpid EXCEPT ![p] = Without(@, q)]
              /\ pc' = [pc EXCEPT ![p] = "reap"]
              /\ UNCHANGED <<st, waiter>>
         \/ /\ found = {}
            /\ IF wp[p].nohang
               THEN /\ pc' = [pc EXCEPT ![p] = "user"]
                    /\ wp' = [wp EXCEPT ![p] = NoWait]
                    /\ UNCHANGED <<st, waiter>>
               ELSE /\ st' = [st EXCEPT ![p] = "Blocked"]
                    /\ waiter' = [waiter EXCEPT ![p] = TRUE]
                    /\ pc' = [pc EXCEPT ![p] = "asleep"]
                    /\ UNCHANGED wp
            /\ UNCHANGED waitpid
      /\ UNCHANGED <<proc, ex, missed, faulted, bounds>>

\* The wait returns, and receive looks again whatever woke it.
Awake(p) ==
  /\ pc[p] = "asleep" /\ st[p] = "Runnable"
  /\ waiter' = [waiter EXCEPT ![p] = FALSE]
  /\ pc' = [pc EXCEPT ![p] = "receive"]
  /\ UNCHANGED <<proc, st, waitpid, ex, wp, missed, faulted, bounds>>

\* A signal that is handled ends the sleep too.
Signal(p) ==
  /\ pc[p] = "asleep" /\ st[p] = "Blocked" /\ stops < MaxStops
  /\ stops' = stops + 1
  /\ st' = [st EXCEPT ![p] = "Runnable"]
  /\ UNCHANGED <<proc, waitpid, waiter, pc, ex, wp, missed, faulted, spawns, waits>>


\* reap spins until the process has left its CPU for good.
Left(q) == q \notin list \/ pc[q] = "dead"

\* grim_reaper: a stop or continue status is returned or ignored; a process that
\* exited is removed, unless its status cannot be written.
GrimReaper(p) ==
  LET got == wp[p].got
  IN  /\ pc[p] = "reap"
      /\ \/ /\ got.status # "exited"
            /\ pc' = [pc EXCEPT ![p] = IF wp[p].untraced THEN "user" ELSE "check"]
            /\ wp' = [wp EXCEPT ![p] = IF @.untraced THEN NoWait ELSE [@ EXCEPT !.got = Nothing]]
            /\ UNCHANGED <<list, faulted>>
         \/ /\ got.status = "exited" /\ Cardinality(faulted) < MaxFaults
            /\ faulted' = faulted \cup {got.pid}
            /\ pc' = [pc EXCEPT ![p] = "user"]
            /\ wp' = [wp EXCEPT ![p] = NoWait]
            /\ UNCHANGED list
         \/ /\ got.status = "exited" /\ Left(got.pid)
            /\ list' = list \ {got.pid}
            /\ pc' = [pc EXCEPT ![p] = "user"]
            /\ wp' = [wp EXCEPT ![p] = NoWait]
            /\ UNCHANGED faulted
      /\ UNCHANGED <<ppid, pgid, st, waitpid, waiter, ex, missed, bounds>>

Exiting(p) ==
  ExitGrab(p) \/ ExitReparent(p) \/ ExitStatus(p) \/ ExitSend(p) \/ ExitSwitch(p)

Waiting(p) == WaitpidCheck(p) \/ Receive(p) \/ Awake(p) \/ GrimReaper(p)

Next ==
  \E p \in list :
    \/ Spawn(p) \/ Setpgid(p) \/ Exit(p) \/ StopOrContinue(p) \/ Signal(p)
    \/ Exiting(p) \/ Waiting(p)
    \/ \E t \in Targets(p), nohang, untraced \in BOOLEAN : Waitpid(p, t, nohang, untraced)

Spec == Init /\ [][Next]_vars

-----------------------------------------------------------------------------

Entry == [pgid : Ids, status : {"exited", "stopped", "continued"}]
\* The state of the processes has its type.
TypeOK ==
  /\ list \subseteq Ids
  /\ ppid \in [Ids -> Ids \cup {None}] /\ pgid \in [Ids -> Ids \cup {None}]
  /\ st \in [Ids -> {"Runnable", "Blocked", "Stopped", "Exited"}]
  /\ \A p \in Ids :
       /\ DOMAIN waitpid[p] \subseteq Ids
       /\ \A q \in DOMAIN waitpid[p] : waitpid[p][q] \in Entry
       /\ wp[p].got.pid \in Ids \cup {None} /\ ex[p].ppid \in Ids \cup {None}
  /\ waiter \in [Ids -> BOOLEAN]
  /\ missed \subseteq Ids /\ faulted \subseteq Ids
  /\ spawns \in 0..MaxSpawns /\ waits \in 0..MaxWaits /\ stops \in 0..MaxStops

\* r holds the exit status of p: in its map, in hand, or on the way to its parent.
Holds(r, p) ==
  \/ p \in DOMAIN waitpid[r] /\ waitpid[r][p].status = "exited"
  \/ wp[r].got.pid = p
  \/ pc[r] = "send" /\ p \in DOMAIN ex[r].children

Announced(p) ==
  \E r \in list :
    /\ Holds(r, p)
    /\ r = ppid[p] \/ (pc[r] \in {"status", "send"} /\ ex[r].ppid = ppid[p])

Zombie(p) ==
  /\ p \in list /\ pc[p] \in {"switch", "dead"}
  /\ ppid[p] \in list /\ st[ppid[p]] # "Exited"

\* exit reaches the parent: the living parent of a process that has exited can
\* still learn of it and remove it (exit, receive_all and the sends).  Where that
\* fails the process exited while its parent did, between reading its parent and
\* sending to it, or its status could not be written, or a stranger took it.
UnannouncedOnlyByRace == \A p \in list \ (missed \cup faulted) : Zombie(p) => Announced(p)



\* A process is reported by at most one call: nobody else still holds the exit
\* status of a process that has been removed, so no second waitpid fails with
\* ESRCH, unless a waitpid of a stranger took a process that had begun to exit.
ReportedOnce ==
  \A p \in Ids \ (list \cup missed) : ~ \E r \in list : pc[r] # "none" /\ Holds(r, p)

=============================================================================
