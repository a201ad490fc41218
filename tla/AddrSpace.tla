----------------------------- MODULE AddrSpace -----------------------------
(***************************************************************************)
(* context/memory.rs: address spaces.  A space keeps its grants ordered by *)
(* start, the holes between them, its page table, and for the mappings of  *)
(* files of user schemes the address in the handler (funmap).  Operations  *)
(* hold the space's lock; munmap tells the schemes after it has let go.    *)
(*                                                                         *)
(* The unit is the page.  A page table maps a page to whether it may be    *)
(* written; PROT_EXEC is treated by the code exactly as PROT_WRITE.        *)
(***************************************************************************)
EXTENDS Naturals, Integers, Sequences, FiniteSets, FiniteSetsExt

CONSTANTS Spaces, Home,  \* address spaces; Home is the one the threads run in
          Threads,       \* contexts inside the kernel
          UserEnd,       \* USER_END_OFFSET, in pages
          MmapMins,      \* values of mmap_min
          Bases,         \* pages of a handler that it answers to an fmap
          BootPages,     \* pages of the bootstrap mapping, 0 if there is none
          Oom,           \* may the page tables run out of frames?
          Writes,        \* protections that are asked for
          Kfmaps         \* is proc: used to move grants between spaces?

ASSUME AddrSpaceAssumption ==
  /\ Home \in Spaces
  /\ UserEnd \in Nat \ {0} /\ BootPages \in 0..UserEnd
  /\ MmapMins \subseteq 0..UserEnd
  /\ Bases \subseteq Nat
  /\ Oom \in BOOLEAN /\ Kfmaps \in BOOLEAN /\ Writes \subseteq BOOLEAN

VARIABLES
  space,    \* per space: grants, holes, table, funmap, mmap_min
  live,     \* spaces that exist
  th,       \* per thread: the operation it is in
  told,     \* history: how the last funmap of a scheme went
  panic     \* the assertions that have failed

vars == <<space, live, th, told, panic>>

PAGE_SIZE == 4096
NoFile == -1      \* a grant without desc_opt
NoRegion == -1    \* find_free: None

Last(r) == r.start + r.size
Pages(r) == r.start..(Last(r) - 1)
Region(start, size) == [start |-> start, size |-> size]

\* Region::between with its saturating subtraction, and intersect.
Between(start, end) == Region(start, IF end > start THEN end - start ELSE 0)
Intersect(r, o) == Between(Max({r.start, o.start}), Min({Last(r), Last(o)}))

Rebase(base, start, page) == base + (page - start)

-----------------------------------------------------------------------------
(* UserGrants *)

\* Region::collides, in bytes.
Collides(r, o) == r.start <= o.start /\ Last(o) - r.start < r.size

Bytes(r) == Region(PAGE_SIZE * r.start, PAGE_SIZE * r.size)

\* Mutant: only a grant that begins there.
ContainsExactly(grants, page) == {g \in grants : g.start = page}

\* The grant, if any, that occupies the first byte of a page.
Contains(grants, page) ==
  {g \in grants :
     /\ g.start <= page
     /\ \A o \in grants : o.start <= page => o.start <= g.start
     /\ Collides(Bytes(g), Region(PAGE_SIZE * page, 1))}

\* The grants from there, or from the requested start, as long as they intersect.
Conflicts(grants, r) ==
  LET first == Contains(grants, r.start)
      from  == IF first = {} THEN r.start ELSE (CHOOSE g \in first : TRUE).start
      run   == {g \in grants : g.start >= from}
  IN  {g \in run : \A o \in run : o.start <= g.start => Intersect(o, r).size > 0}

\* Mutant: the room below min is counted.
FindFreeBelow(holes, min, size) ==
  LET fit == {k \in DOMAIN holes : size <= holes[k] /\ k + holes[k] > min}
  IN  IF fit = {} THEN NoRegion ELSE Max({Min(fit), min})

\* The first hole, after the ones below min, with enough room above min.
FindFree(holes, min, size) ==
  LET avail(k) == IF k <= min /\ min <= k + holes[k] THEN holes[k] - (min - k) ELSE holes[k]
      fit == {k \in DOMAIN holes :
                /\ size <= avail(k)
                /\ \E j \in DOMAIN holes : j <= k /\ j + holes[j] > min}
  IN  IF fit = {} THEN NoRegion ELSE Max({Min(fit), min})

\* find_free_at: address zero leaves the choice to the kernel; another address is
\* taken if it is free, and is an error or a hint if it is not.
FindFreeAt(sp, page, size, fixed) ==
  CASE page = 0 -> FindFree(sp.holes, sp.mmap_min, size)
    [] page # 0 /\ page + size > UserEnd -> NoRegion
    [] page # 0 /\ page + size <= UserEnd ->
         IF Conflicts(sp.grants, Region(page, size)) = {} THEN page
         ELSE IF fixed THEN NoRegion
         ELSE FindFree(sp.holes, sp.mmap_min, size)

Without(f, k) == [j \in DOMAIN f \ {k} |-> f[j]]
With(f, k, v) == [j \in DOMAIN f \cup {k} |-> IF j = k THEN v ELSE f[j]]
Below(f, k) == {j \in DOMAIN f : j < k}

\* reserve: the hole below the grant is cut, its rest and the rest of a hole that
\* begins with the grant begin after it.
Reserve(holes, g) ==
  LET below == Below(holes, g.start)
      p     == Max(below)
      end   == p + holes[p]
      cut   == IF below # {} /\ end > g.start THEN With(holes, p, g.start - p) ELSE holes
      split == IF below # {} /\ end > Last(g) THEN With(cut, Last(g), end - Last(g)) ELSE cut
  IN  IF g.start \notin DOMAIN split THEN split
      ELSE IF split[g.start] > g.size
           THEN With(Without(split, g.start), Last(g), split[g.start] - g.size)
           ELSE Without(split, g.start)

\* Mutant: the hole after the grant is not joined.
UnreserveBefore(holes, g) ==
  LET below == Below(holes, g.start)
      p     == Max(below)
  IN  IF below # {} /\ p + holes[p] = g.start
      THEN With(holes, p, Last(g) - p)
      ELSE With(holes, g.start, g.size)

\* unreserve: a new hole, joined with the one after and the one that ends before it.
Unreserve(holes, g) ==
  LET after == IF Last(g) \in DOMAIN holes THEN holes[Last(g)] ELSE 0
      rest  == Without(holes, Last(g))
      below == Below(rest, g.start)
      p     == Max(below)
  IN  IF below # {} /\ p + rest[p] = g.start
      THEN With(rest, p, Last(g) - p + after)
      ELSE With(rest, g.start, g.size + after)

Insert(sp, g) == [sp EXCEPT !.grants = @ \cup {g}, !.holes = Reserve(@, g)]
Take(sp, g) == [sp EXCEPT !.grants = @ \ {g}, !.holes = Unreserve(@, g)]

\* Insert what is there of an optional grant.
InsertOpt(sp, opt) == IF opt = {} THEN sp ELSE Insert(sp, CHOOSE g \in opt : TRUE)

-----------------------------------------------------------------------------
(* Grants *)

\* owned is false for borrowed and physical memory; src is the handler's page the
\* first page is borrowed from.
Grant(start, size, write, owned, src) ==
  [start |-> start, size |-> size, write |-> write, owned |-> owned, src |-> src]

\* The part r of g, keeping everything else; src moves along.
Part(g, r) ==
  IF r.size = 0 THEN {}
  ELSE {Grant(r.start, r.size, g.write, g.owned,
              IF g.src = NoFile THEN NoFile ELSE g.src + (r.start - g.start))}

\* Mutant: the part after the region is lost.
NoAfterPart(g, r) == {}

\* extract: before, the region, after.
BeforePart(g, r) == Part(g, Between(g.start, r.start))
AfterPart(g, r) == Part(g, Between(Last(r), Last(g)))
Middle(g, r) == CHOOSE m \in Part(g, r) : TRUE

\* Mutant: borrowed memory gets any right.
AnyFlags(g, write) == TRUE

\* Borrowed memory never gets rights that it did not have.
can_have_flags(g, write) == g.owned \/ g.write \/ ~write

MapPages(table, r, write) ==
  [p \in DOMAIN table \cup Pages(r) |-> IF p \in Pages(r) THEN write ELSE table[p]]
UnmapPages(table, r) == [p \in DOMAIN table \ Pages(r) |-> table[p]]

\* Take g out, and put back what lies outside r.
Cut(sp, g, r) == InsertOpt(InsertOpt(Take(sp, g), BeforePart(g, r)), AfterPart(g, r))

-----------------------------------------------------------------------------

Empty == [grants |-> {}, holes |-> [k \in {0} |-> UserEnd], table |-> [p \in {} |-> FALSE],
          funmap |-> [k \in {} |-> 0], mmap_min |-> 1]

\* usermode_bootstrap maps the boot image at address zero.
Boot ==
  LET g == Grant(0, BootPages, TRUE, TRUE, NoFile)
  IN  IF BootPages = 0 THEN Empty
      ELSE [Insert(Empty, g) EXCEPT !.table = MapPages(@, g, TRUE)]

Idle == [op |-> "idle"]

Init ==
  /\ space = [s \in Spaces |-> IF s = Home THEN Boot ELSE Empty]
  /\ live = {Home}
  /\ th = [t \in Threads |-> Idle]
  /\ told = "right" /\ panic = {}

\* The write lock of a space is free.
Unlocked(s) ==
  \A t \in Threads : th[t].op \notin {"idle", "notify"} => s \notin {th[t].space, th[t].new}
Ready(t, s) == panic = {} /\ th[t] = Idle /\ s \in live /\ Unlocked(s)
Requests == {r \in [start : 0..UserEnd, size : 1..UserEnd] : Last(r) <= UserEnd}

SetMmapMin(t, s, min) ==
  /\ Ready(t, s)
  /\ space' = [space EXCEPT ![s].mmap_min = min]
  /\ UNCHANGED <<live, th, told, panic>>

\* fmap_anonymous, physmap, fmap_inner and the captures: find a region, map it, and
\* insert the grant.  handle_packet adds the handler's address; the map keeps the
\* key it has if one begins at the same page.  Grant::zeroed gives up half way
\* when the frames run out, the others clean up.
Mmap(t, s, r, fixed, write, owned, src) ==
  /\ Ready(t, s)
  /\ LET start == FindFreeAt(space[s], r.start, r.size, fixed)
         g == Grant(start, r.size, write, owned, src)
         sp == space[s]
         key == IF start \in DOMAIN sp.funmap THEN sp.funmap[start].size ELSE r.size
     IN  /\ start # NoRegion
         /\ \/ /\ space' = [space EXCEPT ![s] =
                    [Insert(sp, g) EXCEPT
                       !.table = MapPages(@, g, write),
                       !.funmap = IF src = NoFile THEN @
                                  ELSE With(@, start, [size |-> key, base |-> src])]]
               /\ panic' = IF Conflicts(sp.grants, g) = {} THEN panic
                           ELSE panic \cup {"insert"}
            \/ \E n \in 0..(r.size - 1) :
                 /\ Oom /\ owned
                 /\ space' = [space EXCEPT ![s].table = MapPages(@, Region(start, n), write)]
                 /\ UNCHANGED panic
  /\ UNCHANGED <<live, th, told>>

Working(op, s, r, write, new, notify) ==
  [op |-> op, space |-> s, region |-> r, write |-> write, new |-> new, notify |-> notify,
   rest |-> {g.start : g \in IF op = "clone" THEN space[s].grants
                             ELSE Conflicts(space[s].grants, r)}]

\* munmap and mprotect collect the grants they touch, clone takes all.
Start(t, op, s, r, write, new) ==
  /\ Ready(t, s)
  /\ th' = [th EXCEPT ![t] = Working(op, s, r, write, new, <<>>)]
  /\ UNCHANGED <<space, live, told, panic>>

Found(t) == {g \in space[th[t].space].grants : g.start = Min(th[t].rest)}

\* The next grant of a munmap: the part is cut out and unmapped, and a scheme to be
\* told is noted.
MunmapPiece(t) ==
  /\ panic = {} /\ th[t].op = "munmap" /\ th[t].rest # {}
  /\ LET s == th[t].space
         g == CHOOSE x \in Found(t) : TRUE
         r == Intersect(g, th[t].region)
         m == Middle(g, r)
     IN  IF Found(t) = {} \/ r.size = 0 \/ ~(Pages(r) \subseteq DOMAIN space[s].table)
         THEN panic' = panic \cup {"unmap"} /\ UNCHANGED <<space, th>>
         ELSE /\ space' = [space EXCEPT ![s] =
                   [Cut(@, g, r) EXCEPT !.table = UnmapPages(@, r)]]
              /\ th' = [th EXCEPT ![t].rest = @ \ {g.start},
                                  ![t].notify = IF m.src = NoFile THEN @ ELSE Append(@, m)]
              /\ UNCHANGED panic
  /\ UNCHANGED <<live, told>>

\* The lock is released, the schemes are still to be told.
MunmapUnlock(t) ==
  /\ panic = {} /\ th[t].op = "munmap" /\ th[t].rest = {}
  /\ th' = [th EXCEPT ![t] = IF @.notify = <<>> THEN Idle
                             ELSE [op |-> "notify", notify |-> @.notify]]
  /\ UNCHANGED <<space, live, told, panic>>

\* UserScheme::funmap: what the map of the current space says of the address, with
\* the part removed from the map.
MunmapNotify(t) ==
  /\ panic = {} /\ th[t].op = "notify" /\ Unlocked(Home)
  /\ LET m == Head(th[t].notify)
         f == space[Home].funmap
         below == Below(f, m.start + 1)
         k == Max(below)
         e == Region(k, f[k].size)
         cut == Without(f, k)
         before == IF k < m.start
                   THEN With(cut, k, [size |-> m.start - k, base |-> f[k].base]) ELSE cut
         after == IF Last(m) < Last(e)
                  THEN With(before, Last(m), [size |-> Last(e) - Last(m),
                                              base |-> Rebase(f[k].base, k, Last(m))])
                  ELSE before
     IN  IF below = {} \/ Last(m) > Last(e)
         THEN told' = "EINVAL" /\ UNCHANGED space
         ELSE /\ told' = IF Rebase(f[k].base, k, m.start) = m.src THEN "right" ELSE "wrong"
              /\ space' = [space EXCEPT ![Home].funmap = after]
  /\ th' = [th EXCEPT ![t] = IF Len(@.notify) = 1 THEN Idle ELSE [@ EXCEPT !.notify = Tail(@)]]
  /\ UNCHANGED <<live, panic>>

\* The next grant of an mprotect: cut in parts, and refused or changed.
MprotectPiece(t) ==
  /\ panic = {} /\ th[t].op = "mprotect" /\ th[t].rest # {}
  /\ LET s == th[t].space
         g == CHOOSE x \in Found(t) : TRUE
         r == Intersect(g, th[t].region)
         m == Middle(g, r)
         cut == Cut(space[s], g, r)
     IN  IF Found(t) = {} \/ r.size = 0 \/ ~(Pages(r) \subseteq DOMAIN space[s].table)
         THEN panic' = panic \cup {"remap"} /\ UNCHANGED <<space, th>>
         ELSE /\ IF can_have_flags(m, th[t].write)
                 THEN /\ space' = [space EXCEPT ![s] =
                           [Insert(cut, [m EXCEPT !.write = th[t].write]) EXCEPT
                              !.table = MapPages(@, r, th[t].write)]]
                      /\ th' = [th EXCEPT ![t].rest = @ \ {g.start}]
                 ELSE /\ space' = [space EXCEPT ![s] = Insert(cut, m)]
                      /\ th' = [th EXCEPT ![t].rest = {}]
              /\ UNCHANGED panic
  /\ UNCHANGED <<live, told>>

MprotectDone(t) ==
  /\ panic = {} /\ th[t].op = "mprotect" /\ th[t].rest = {}
  /\ th' = [th EXCEPT ![t] = Idle]
  /\ UNCHANGED <<space, live, told, panic>>

\* try_clone: the next grant is copied, or borrowed again, to the same address; one
\* with a file is skipped.  Without frames the new space is dropped.
ClonePiece(t) ==
  /\ panic = {} /\ th[t].op = "clone" /\ th[t].rest # {}
  /\ LET n == th[t].new
         g == CHOOSE x \in Found(t) : TRUE
     IN  \/ /\ space' = [space EXCEPT ![n] =
                 IF g.src # NoFile THEN @
                 ELSE [Insert(@, g) EXCEPT !.table = MapPages(@, g, g.write)]]
            /\ th' = [th EXCEPT ![t].rest = @ \ {g.start}]
            /\ panic' = IF Pages(g) \subseteq DOMAIN space[th[t].space].table THEN panic
                        ELSE panic \cup {"clone"}
         \/ /\ Oom /\ g.src = NoFile
            /\ panic' = IF space[n].grants = {} THEN panic ELSE panic \cup {"drop"}
            /\ space' = [space EXCEPT ![n] = Empty]
            /\ th' = [th EXCEPT ![t] = Idle]
  /\ UNCHANGED <<live, told>>

CloneDone(t) ==
  /\ panic = {} /\ th[t].op = "clone" /\ th[t].rest = {}
  /\ live' = live \cup {th[t].new}
  /\ th' = [th EXCEPT ![t] = Idle]
  /\ UNCHANGED <<space, told, panic>>

\* maybe_cleanup_addr_space, empty: the last reference is gone.
DropSpace(s) ==
  /\ panic = {} /\ s \in live \ {Home} /\ Unlocked(s)
  /\ live' = live \ {s}
  /\ space' = [space EXCEPT ![s] = Empty]
  /\ panic' = IF \A g \in space[s].grants : Pages(g) \subseteq DOMAIN space[s].table
              THEN panic ELSE panic \cup {"unmap"}
  /\ UNCHANGED <<th, told>>

\* kfmap of an address space: the only grant of src in the region, or its part, is
\* moved to dst or borrowed by it.
Kfmap(t, src, dst, r, page, fixed, write, consume) ==
  /\ Kfmaps /\ (consume => fixed) /\ Ready(t, src) /\ Ready(t, dst) /\ src # dst /\ page + r.size <= UserEnd
  /\ LET found == Conflicts(space[src].grants, r)
         g == CHOOSE x \in found : TRUE
         part == Intersect(g, r)
         m == Middle(g, part)
         cut == Cut(space[src], g, part)
         to == FindFreeAt(space[dst], page, part.size, fixed)
         new(w, owned, file) == Grant(to, part.size, w, owned, file)
         put(grant) == [Insert(space[dst], grant) EXCEPT !.table = MapPages(@, grant, grant.write)]
     IN  /\ Cardinality(found) = 1 /\ can_have_flags(g, write)
         /\ CASE consume /\ part.start # g.start ->
                   panic' = panic \cup {"disappear"} /\ UNCHANGED space
              [] consume /\ part.start = g.start /\ to = NoRegion ->
                   panic' = panic \cup {"drop"} /\ UNCHANGED space
              [] consume /\ part.start = g.start /\ to # NoRegion ->
                   /\ \/ space' = [space EXCEPT
                           ![src] = [cut EXCEPT !.table = UnmapPages(@, part)],
                           ![dst] = put(new(m.write, m.owned, m.src))]
                      \/ \E n \in 1..part.size :
                           /\ Oom
                           /\ space' = [space EXCEPT
                                ![src] = [cut EXCEPT !.table = UnmapPages(@, Region(part.start, n))],
                                ![dst].table = UnmapPages(@, Region(to, n - 1))]
                   /\ UNCHANGED panic
              [] ~consume ->
                   /\ to # NoRegion
                   /\ space' = [space EXCEPT ![dst] = put(new(write, FALSE, NoFile))]
                   /\ UNCHANGED panic
  /\ UNCHANGED <<live, th, told>>

Next ==
  \/ \E t \in Threads, s \in Spaces :
       \/ \E min \in MmapMins : SetMmapMin(t, s, min)
       \/ \E r \in Requests, fixed \in BOOLEAN, write \in Writes :
            \/ \E owned \in BOOLEAN : Mmap(t, s, r, fixed, write, owned, NoFile)
            \/ s = Home /\ \E src \in Bases : Mmap(t, s, r, fixed, write, FALSE, src)
       \/ \E r \in Requests : Start(t, "munmap", s, r, FALSE, s)
       \/ \E r \in Requests, write \in Writes : Start(t, "mprotect", s, r, write, s)
       \/ \E new \in Spaces \ live : Unlocked(new) /\ Start(t, "clone", s, Region(0, UserEnd), FALSE, new)
       \/ \E dst \in Spaces, r \in Requests, page \in 0..UserEnd, fixed \in BOOLEAN,
             write \in Writes, consume \in BOOLEAN :
            Kfmap(t, s, dst, r, page, fixed, write, consume)
  \/ \E t \in Threads :
       \/ MunmapPiece(t) \/ MunmapUnlock(t) \/ MunmapNotify(t)
       \/ MprotectPiece(t) \/ MprotectDone(t)
       \/ ClonePiece(t) \/ CloneDone(t)
  \/ \E s \in Spaces : DropSpace(s)

Spec == Init /\ [][Next]_vars

-----------------------------------------------------------------------------

Granted(s) == UNION {Pages(g) : g \in space[s].grants}

\* Every grant and hole lies in user space, and every thread is in a known place.
TypeOK ==
  /\ \A s \in Spaces :
       /\ \A g \in space[s].grants :
            /\ g.start \in 0..UserEnd /\ g.size \in 1..UserEnd /\ Last(g) <= UserEnd
            /\ g.write \in BOOLEAN /\ g.owned \in BOOLEAN /\ g.src \in Int
       /\ DOMAIN space[s].holes \subseteq 0..UserEnd
       /\ DOMAIN space[s].table \subseteq 0..(UserEnd - 1)
       /\ space[s].mmap_min \in MmapMins
  /\ live \subseteq Spaces
  /\ \A t \in Threads : th[t].op \in {"idle", "munmap", "mprotect", "clone", "notify"}
  /\ told \in {"right", "wrong", "EINVAL"}

\* No page is granted twice, and the holes are the longest runs of pages that are
\* not granted, whatever reserve and unreserve have cut and joined: find_free
\* finds room exactly if there is room.
HolesAreTheRest ==
  \A s \in Spaces :
    LET holes == space[s].holes
        hole(k) == k..(k + holes[k] - 1)
    IN  /\ \A g, h \in space[s].grants : g # h => Pages(g) \cap Pages(h) = {}
        /\ \A k \in DOMAIN holes :
             /\ holes[k] > 0 /\ k + holes[k] \notin DOMAIN holes
             /\ \A j \in DOMAIN holes : j # k => hole(j) \cap hole(k) = {}
        /\ UNION {hole(k) : k \in DOMAIN holes} = (0..(UserEnd - 1)) \ Granted(s)

\* The page table has every granted page with the grant's rights, and nothing else
\* unless frames ran out (map, remap, unmap, extract, transfer).
TableHasGrants ==
  \A s \in Spaces :
    /\ \A g \in space[s].grants : \A p \in Pages(g) :
         p \in DOMAIN space[s].table /\ space[s].table[p] = g.write
    /\ Oom \/ DOMAIN space[s].table = Granted(s)

\* The assertions of insert, unmap, remap and try_clone never fail: a region that
\* find_free returns is free, a collected grant is still there, its pages mapped.
OwnAssertionsHold == panic \cap {"insert", "unmap", "remap", "clone"} = {}

\* Memory that is borrowed without the right to write never gets it (mprotect).
BorrowedStaysReadOnly ==
  [][\A s \in Spaces : \A g \in space[s].grants, h \in space'[s].grants :
       ~g.owned /\ ~h.owned /\ Pages(g) \cap Pages(h) # {} /\ h.write => g.write]_vars


\* "grant cannot disappear" (kfmap): the grant that conflicts found can be taken.
GrantCannotDisappear == "disappear" \notin panic

=============================================================================
