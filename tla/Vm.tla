--------------------------------- MODULE Vm ---------------------------------
(***************************************************************************)
(* Physical pages and address spaces: what fork(), sbrk(), exit(), wait(), *)
(* page faults and copyout()/copyin() do to them when memory runs out at   *)
(* any point (Proyecto3/kernel/vm.c, and proc.c where it builds and frees  *)
(* an address space).                                                      *)
(*                                                                         *)
(* Granularity.  A process only touches its own page table, and that of    *)
(* the child it is creating; what processes share is the free list.  A     *)
(* step is one page: a kalloc() with the mappages() that uses it.  The     *)
(* clean-up after a failure is a step of its own, so that other CPUs may   *)
(* take and give back pages in between.                                    *)
(*                                                                         *)
(* Addresses are in pages; p->sz is in units of which a page has PGSIZE.   *)
(***************************************************************************)
EXTENDS Integers, FiniteSets

CONSTANTS
  NPROC,      \* number of slots of proc[]
  NPAGES,     \* number of physical pages that kinit() frees
  HeldPages,  \* how many of them the kernel may have taken when init starts
  PGSIZE,     \* units of p->sz in a page
  FAN,        \* PTEs in a page-table page (512)
  MAXVA,      \* pages in an address space
  WORD,       \* uint64 arithmetic is modulo this
  MaxPid,     \* bound: no fork starts once nextpid would pass it
  SbrkArgs,   \* the increments that user programs pass to sbrk()
  TouchedVa   \* the pages that user programs touch or pass to system calls

TRAMPOLINE == MAXVA - 1
TRAPFRAME  == TRAMPOLINE - 1
USYSCALL   == TRAPFRAME - 1

ASSUME VmAssumption ==
  /\ NPROC \in Nat \ {0} /\ PGSIZE \in Nat \ {0}
  /\ NPAGES \in Nat /\ NPAGES >= 9       \* enough for init
  /\ HeldPages \subseteq 0..(NPAGES - 9)
  /\ FAN \in Nat /\ FAN >= 3            \* the layout of Sv39, see Init
  /\ MAXVA \in Nat /\ MAXVA > FAN * FAN /\ MAXVA % FAN = 0
  /\ WORD \in Nat /\ WORD > 2 * MAXVA * PGSIZE
  /\ MaxPid \in Nat \ {0}               \* init has a pid
  /\ SbrkArgs \subseteq (1 - WORD)..(WORD - MAXVA * PGSIZE)
  /\ TouchedVa \subseteq 0..(MAXVA - 1)

Slot     == 1..NPROC
Page     == 1..NPAGES
VA       == 0..(MAXVA - 1)
UserVA   == 0..(USYSCALL - 1)
initproc == 1
NULL     == 0                 \* no page, or an invalid PTE
TEXT     == NPAGES + 1        \* the kernel page of the trampoline code

(* What a page holds: JUNK (the fill of kfree() and kalloc()), 0 (memset), a  *)
(* pid n (struct usyscall), what was last written for the process n, or what  *)
(* the kernel keeps for itself (its stacks and tables).                       *)
JUNK == -1
By(n) == -1 - n
KERNEL == By(MaxPid + 1)

(* Page-table pages below the root, by the addresses they cover. *)
L1(v) == <<1, v \div (FAN * FAN)>>
L0(v) == <<0, v \div FAN>>
Dir   == {L1(v) : v \in VA} \cup {L0(v) : v \in VA}

Flags == {"R", "W", "X", "U"}
NoPte == [pa |-> NULL, flags |-> {}]

PGROUNDUP(n) == (n + PGSIZE - 1) \div PGSIZE     \* in pages

VARIABLES
  free,       \* kmem.freelist
  data,       \* what each page holds
  nextpid,
  \* struct proc
  state, pid, sz, trapframe, usyscall,
  root,       \* p->pagetable
  dir,        \* its page-table pages below the root
  pte,        \* its leaf PTEs
  \* the kernel thread of each process
  pc, np, i, newsz,
  lineage,    \* the pids of a process and of its ancestors (history)
  panicked

thread == <<pc, np, i, newsz>>
table  == <<free, dir, pte, panicked>>
proc   == <<state, pid, sz, trapframe, usyscall, root, lineage>>

vars == <<free, data, nextpid, state, pid, sz, trapframe, usyscall, root, dir,
          pte, pc, np, i, newsz, lineage, panicked>>

Pc == {"user", "usyscall", "root", "map", "map_undo", "copy", "copy_undo",
       "fork_fail", "grow", "grow_undo"}

(* The state when init has been loaded: its trampoline, trapframe and        *)
(* USYSCALL pages, a page of text and the guard page of its stack.           *)
Init ==
  /\ \E held \in HeldPages :
       /\ free = 10..(NPAGES - held)
       /\ data = [g \in Page |-> CASE g = 2 -> 1
                                   [] g \in {8, 9} -> By(1)
                                   [] g > NPAGES - held -> KERNEL
                                   [] OTHER -> JUNK]
  /\ nextpid = 2
  /\ state = [q \in Slot |-> IF q = initproc THEN "RUNNABLE" ELSE "UNUSED"]
  /\ pid = [q \in Slot |-> IF q = initproc THEN 1 ELSE 0]
  /\ sz = [q \in Slot |-> IF q = initproc THEN 2 * PGSIZE ELSE 0]
  /\ trapframe = [q \in Slot |-> IF q = initproc THEN 1 ELSE NULL]
  /\ usyscall = [q \in Slot |-> IF q = initproc THEN 2 ELSE NULL]
  /\ root = [q \in Slot |-> IF q = initproc THEN 3 ELSE NULL]
  /\ dir = [q \in Slot |-> [d \in Dir |->
              CASE q = initproc /\ d = L1(TRAMPOLINE) -> 4
                [] q = initproc /\ d = L0(TRAMPOLINE) -> 5
                [] q = initproc /\ d = L1(0) -> 6
                [] q = initproc /\ d = L0(0) -> 7
                [] OTHER -> NULL]]
  /\ pte = [q \in Slot |-> [v \in VA |->
              CASE q = initproc /\ v = TRAMPOLINE -> [pa |-> TEXT, flags |-> {"R", "X"}]
                [] q = initproc /\ v = TRAPFRAME -> [pa |-> 1, flags |-> {"R", "W"}]
                [] q = initproc /\ v = USYSCALL -> [pa |-> 2, flags |-> {"R", "U"}]
                [] q = initproc /\ v = 0 -> [pa |-> 8, flags |-> {"R", "X", "U"}]
                [] q = initproc /\ v = 1 -> [pa |-> 9, flags |-> {"R", "W"}]
                [] OTHER -> NoPte]]
  /\ pc = [q \in Slot |-> "user"]
  /\ np = [q \in Slot |-> 0]
  /\ i = [q \in Slot |-> 0]
  /\ newsz = [q \in Slot |-> 0]
  /\ lineage = [q \in Slot |-> IF q = initproc THEN {1} ELSE {}]
  /\ panicked = FALSE

-----------------------------------------------------------------------------
(* Pages and page tables. *)

(* kalloc(): a page of the free list F, or NULL. *)
kalloc(F) == IF F = {} THEN NULL ELSE CHOOSE g \in F : TRUE

(* kfree() of the pages in G, which it fills with junk. *)
Junked(G) == [g \in Page |-> IF g \in G THEN JUNK ELSE data[g]]

(* walk(pagetable, v, 1) on the table of q when the free list is F: the page *)
(* of the second and of the last level, allocated if need be, or NULL.       *)
walk_l1(q, v, F) == IF dir[q][L1(v)] # NULL THEN dir[q][L1(v)] ELSE kalloc(F)

walk_l0(q, v, F) ==
  CASE walk_l1(q, v, F) = NULL -> NULL
    [] walk_l1(q, v, F) # NULL /\ dir[q][L0(v)] # NULL -> dir[q][L0(v)]
    [] OTHER -> kalloc(F \ {walk_l1(q, v, F)})

(* mappages() of one page with free list F.  It fails when walk() does; the  *)
(* page-table pages that walk() got stay in the table, and the caller gives  *)
(* the pages in mem back.                                                    *)
mappages(q, v, g, flags, F, mem) ==
  LET ok == walk_l0(q, v, F) # NULL
  IN  /\ dir' = [dir EXCEPT ![q][L1(v)] = walk_l1(q, v, F),
                            ![q][L0(v)] = walk_l0(q, v, F)]
      /\ free' = (F \ {walk_l1(q, v, F), walk_l0(q, v, F)})
                   \cup (IF ok THEN {} ELSE mem)
      /\ pte' = IF ok THEN [pte EXCEPT ![q][v] = [pa |-> g, flags |-> flags]]
                ELSE pte
      /\ panicked' = (ok /\ pte[q][v] # NoPte)          \* "mappages: remap"

(* A page that is kalloc()ed, filled with d and mapped at v: the body of the *)
(* loops of uvmalloc() and uvmcopy(), and vmfault().                         *)
MapFails(q, v) ==
  \/ free = {}
  \/ walk_l0(q, v, free \ {kalloc(free)}) = NULL

\* Mutant: the page is not freed when mappages() fails.
MapPage_leaks(q, v, flags, d) ==
  LET mem == kalloc(free)
  IN  IF mem = NULL
      THEN UNCHANGED <<data, table>>
      ELSE /\ mappages(q, v, mem, flags, free \ {mem}, {})
           /\ data' = [data EXCEPT ![mem] = IF MapFails(q, v) THEN JUNK ELSE d]

MapPage(q, v, flags, d) ==
  LET mem == kalloc(free)
  IN  IF mem = NULL
      THEN UNCHANGED <<data, table>>
      ELSE /\ mappages(q, v, mem, flags, free \ {mem}, {mem})
           /\ data' = [data EXCEPT ![mem] = IF MapFails(q, v) THEN JUNK ELSE d]

(* The pages that the PTEs of q at V refer to. *)
Mapped(q, V) == {pte[q][v].pa : v \in V} \ {NULL}

(* uvmunmap(pagetable, V, 1): the pages are freed. *)
uvmunmap(q, V) ==
  /\ pte' = [pte EXCEPT ![q] = [v \in VA |-> IF v \in V THEN NoPte ELSE @[v]]]
  /\ free' = free \cup Mapped(q, V)
  /\ data' = Junked(Mapped(q, V))

(* freewalk() of the table of q after the PTEs at V have been removed: it    *)
(* frees the page-table pages, and panics on a leaf that is still valid.     *)
TablePages(q) == ({root[q]} \cup {dir[q][d] : d \in Dir}) \ {NULL}

freewalk(q, V) ==
  /\ panicked' = \E v \in VA \ V : pte[q][v] # NoPte
  /\ dir' = [dir EXCEPT ![q] = [d \in Dir |-> NULL]]
  /\ pte' = [pte EXCEPT ![q] = [v \in VA |-> NoPte]]
  /\ root' = [root EXCEPT ![q] = NULL]

(* proc_freepagetable(): the three fixed pages are unmapped, the user pages  *)
(* below sz are freed.                                                       *)
Fixed == {TRAMPOLINE, TRAPFRAME, USYSCALL}
BelowSz(q) == {v \in VA : v < PGROUNDUP(sz[q])}

(* freeproc(): everything that hangs from the slot goes back. *)
freeproc(q) ==
  LET gone == ({trapframe[q], usyscall[q]} \ {NULL})
                \cup (IF root[q] = NULL THEN {}
                      ELSE Mapped(q, BelowSz(q) \ Fixed) \cup TablePages(q))
  IN  /\ free' = free \cup gone
      /\ data' = Junked(gone)
      /\ IF root[q] = NULL
         THEN UNCHANGED <<dir, pte, root, panicked>>
         ELSE freewalk(q, Fixed \cup BelowSz(q))
      /\ trapframe' = [trapframe EXCEPT ![q] = NULL]
      /\ usyscall' = [usyscall EXCEPT ![q] = NULL]
      /\ sz' = [sz EXCEPT ![q] = 0]
      /\ pid' = [pid EXCEPT ![q] = 0]
      /\ state' = [state EXCEPT ![q] = "UNUSED"]
      /\ lineage' = [lineage EXCEPT ![q] = {}]

-----------------------------------------------------------------------------
(* fork(): allocproc(), uvmcopy() and their failures. *)

At(p, l) == ~panicked /\ state[p] = "RUNNABLE" /\ pc[p] = l

Goto(p, l) == pc' = [pc EXCEPT ![p] = l]

(* Leave the kernel: the locals of the thread are forgotten. *)
Return(p) ==
  /\ Goto(p, "user")
  /\ np' = [np EXCEPT ![p] = 0]
  /\ i' = [i EXCEPT ![p] = 0]
  /\ newsz' = [newsz EXCEPT ![p] = 0]

(* External, init.c: init forks the shell again when the last one is gone. *)
ChildOfInit(r) == lineage[r] = {pid[initproc], pid[r]} /\ r # initproc

(* The slot, the pid and the trapframe page of the child. *)
allocproc(p, q) ==
  /\ At(p, "user")
  /\ state[q] = "UNUSED" /\ \A r \in Slot : r < q => state[r] # "UNUSED"
  /\ p = initproc => ~ \E r \in Slot : ChildOfInit(r)
  /\ nextpid <= MaxPid
  /\ pid' = [pid EXCEPT ![q] = nextpid]
  /\ nextpid' = nextpid + 1
  /\ state' = [state EXCEPT ![q] = "USED"]
  /\ trapframe' = [trapframe EXCEPT ![q] = kalloc(free)]
  /\ free' = free \ {kalloc(free)}
  /\ np' = [np EXCEPT ![p] = q]
  /\ Goto(p, IF free = {} THEN "fork_fail" ELSE "usyscall")
  /\ UNCHANGED <<data, sz, usyscall, root, dir, pte, i, newsz, lineage, panicked>>

(* p->usyscall = kalloc(); memset(); p->usyscall->pid = p->pid; *)
allocproc_usyscall(p) ==
  LET q == np[p]
      g == kalloc(free)
  IN
  /\ At(p, "usyscall")
  /\ usyscall' = [usyscall EXCEPT ![q] = g]
  /\ free' = free \ {g}
  /\ data' = [h \in Page |-> IF h = g THEN pid[q] ELSE data[h]]
  /\ Goto(p, IF free = {} THEN "fork_fail" ELSE "root")
  /\ UNCHANGED <<nextpid, state, pid, sz, trapframe, root, dir, pte, np, i, newsz,
                 lineage, panicked>>

(* The uvmcreate() of proc_pagetable(). *)
uvmcreate(p) ==
  /\ At(p, "root")
  /\ root' = [root EXCEPT ![np[p]] = kalloc(free)]
  /\ free' = free \ {kalloc(free)}
  /\ Goto(p, IF free = {} THEN "fork_fail" ELSE "map")
  /\ UNCHANGED <<data, nextpid, state, pid, sz, trapframe, usyscall, dir, pte, np,
                 i, newsz, lineage, panicked>>

(* What proc_pagetable() maps, in this order. *)
FixedVa(k) == TRAMPOLINE - k
FixedPa(q, k) ==
  CASE k = 0 -> TEXT [] k = 1 -> trapframe[q] [] k = 2 -> usyscall[q]
FixedFlags(k) ==
  CASE k = 0 -> {"R", "X"} [] k = 1 -> {"R", "W"} [] k = 2 -> {"R", "U"}

proc_pagetable(p) ==
  LET q == np[p]
      k == i[p]
      failed == walk_l0(q, FixedVa(k), free) = NULL
  IN
  /\ At(p, "map")
  /\ mappages(q, FixedVa(k), FixedPa(q, k), FixedFlags(k), free, {})
  /\ IF failed
     THEN Goto(p, "map_undo") /\ UNCHANGED i
     ELSE IF k < 2
          THEN i' = [i EXCEPT ![p] = k + 1] /\ UNCHANGED pc
          ELSE i' = [i EXCEPT ![p] = 0] /\ Goto(p, "copy")
  /\ UNCHANGED <<data, nextpid, proc, np, newsz>>

(* A failed proc_pagetable() unmaps what it had mapped and frees the table. *)
proc_pagetable_undo(p) ==
  LET q == np[p] IN
  /\ At(p, "map_undo")
  /\ freewalk(q, {FixedVa(k) : k \in 0..(i[p] - 1)})
  /\ free' = free \cup TablePages(q)
  /\ data' = Junked(TablePages(q))
  /\ i' = [i EXCEPT ![p] = 0]
  /\ Goto(p, "fork_fail")
  /\ UNCHANGED <<nextpid, state, pid, sz, trapframe, usyscall, np, newsz, lineage>>

(* freeproc(np); return -1; *)
kfork_fail(p) ==
  /\ At(p, "fork_fail")
  /\ freeproc(np[p])
  /\ Return(p)
  /\ UNCHANGED nextpid

\* Mutant: the flags of the parent's PTE are not copied.
uvmcopy_flags(p) ==
  LET q == np[p]
      v == i[p]
  IN
  /\ At(p, "copy")
  /\ v * PGSIZE < sz[p]
  /\ IF pte[p][v] = NoPte
     THEN /\ i' = [i EXCEPT ![p] = v + 1]
          /\ UNCHANGED <<data, table, pc>>
     ELSE /\ MapPage(q, v, {"R", "W", "U"}, data[pte[p][v].pa])
          /\ IF MapFails(q, v)
             THEN Goto(p, "copy_undo") /\ UNCHANGED i
             ELSE i' = [i EXCEPT ![p] = v + 1] /\ UNCHANGED pc
  /\ UNCHANGED <<nextpid, proc, np, newsz>>

(* One iteration of uvmcopy(): a page that was never touched is skipped. *)
uvmcopy(p) ==
  LET q == np[p]
      v == i[p]
  IN
  /\ At(p, "copy")
  /\ v * PGSIZE < sz[p]
  /\ IF pte[p][v] = NoPte
     THEN /\ i' = [i EXCEPT ![p] = v + 1]
          /\ UNCHANGED <<data, table, pc>>
     ELSE /\ MapPage(q, v, pte[p][v].flags, data[pte[p][v].pa])
          /\ IF MapFails(q, v)
             THEN Goto(p, "copy_undo") /\ UNCHANGED i
             ELSE i' = [i EXCEPT ![p] = v + 1] /\ UNCHANGED pc
  /\ UNCHANGED <<nextpid, proc, np, newsz>>

\* Mutant: the last page that was copied is forgotten.
uvmcopy_undo_short(p) ==
  /\ At(p, "copy_undo")
  /\ uvmunmap(np[p], 0..(i[p] - 2))
  /\ i' = [i EXCEPT ![p] = 0]
  /\ Goto(p, "fork_fail")
  /\ UNCHANGED <<nextpid, proc, dir, np, newsz, panicked>>

(* err: uvmunmap(new, 0, i / PGSIZE, 1); *)
uvmcopy_undo(p) ==
  /\ At(p, "copy_undo")
  /\ uvmunmap(np[p], 0..(i[p] - 1))
  /\ i' = [i EXCEPT ![p] = 0]
  /\ Goto(p, "fork_fail")
  /\ UNCHANGED <<nextpid, proc, dir, np, newsz, panicked>>

(* The rest of kfork(): the child has the size of its parent and may run. *)
kfork(p) ==
  LET q == np[p] IN
  /\ At(p, "copy")
  /\ i[p] * PGSIZE >= sz[p]
  /\ sz' = [sz EXCEPT ![q] = sz[p]]
  /\ state' = [state EXCEPT ![q] = "RUNNABLE"]
  /\ lineage' = [lineage EXCEPT ![q] = lineage[p] \cup {pid[q]}]
  /\ Return(p)
  /\ UNCHANGED <<data, table, nextpid, pid, trapframe, usyscall, root>>

-----------------------------------------------------------------------------
(* sbrk(). *)

(* The program of init only forks and waits. *)
User(p) == At(p, "user") /\ p # initproc

\* Mutant: the limit from before the USYSCALL page.
Limit_trapframe == TRAPFRAME * PGSIZE

(* Where user memory must end. *)
Limit == USYSCALL * PGSIZE

(* growproc(n) for n > 0 enters the loop of uvmalloc(). *)
sbrk_eager(p, n) ==
  LET new == (sz[p] + n) % WORD IN
  /\ User(p)
  /\ n > 0 /\ new <= Limit
  /\ newsz' = [newsz EXCEPT ![p] = new]
  /\ i' = [i EXCEPT ![p] = PGROUNDUP(sz[p])]
  /\ Goto(p, "grow")
  /\ UNCHANGED <<data, table, nextpid, proc, np>>

(* One iteration of uvmalloc(). *)
uvmalloc(p) ==
  /\ At(p, "grow")
  /\ i[p] * PGSIZE < newsz[p]
  /\ MapPage(p, i[p], {"R", "W", "U"}, 0)
  /\ IF MapFails(p, i[p])
     THEN Goto(p, "grow_undo") /\ UNCHANGED i
     ELSE i' = [i EXCEPT ![p] = @ + 1] /\ UNCHANGED pc
  /\ UNCHANGED <<nextpid, proc, np, newsz>>

(* uvmdealloc(pagetable, a, oldsz); return 0; *)
uvmalloc_undo(p) ==
  /\ At(p, "grow_undo")
  /\ uvmunmap(p, PGROUNDUP(sz[p])..(i[p] - 1))
  /\ Return(p)
  /\ UNCHANGED <<nextpid, proc, dir, panicked>>

(* p->sz = sz; *)
growproc(p) ==
  /\ At(p, "grow")
  /\ i[p] * PGSIZE >= newsz[p]
  /\ sz' = [sz EXCEPT ![p] = newsz[p]]
  /\ Return(p)
  /\ UNCHANGED <<data, table, nextpid, state, pid, trapframe, usyscall, root,
                 lineage>>

\* Mutant: signed arithmetic, a decrement beyond 0 is not ignored.
sbrk_shrink_signed(p, n) ==
  LET new == sz[p] + n IN
  /\ User(p)
  /\ n < 0
  /\ uvmunmap(p, PGROUNDUP(new)..(PGROUNDUP(sz[p]) - 1))
  /\ sz' = [sz EXCEPT ![p] = new]
  /\ UNCHANGED <<dir, panicked, nextpid, state, pid, trapframe, usyscall, root,
                 lineage, thread>>

(* growproc(n) for n < 0: uvmdealloc(), which does nothing when sz + n wraps. *)
sbrk_shrink(p, n) ==
  LET new == (sz[p] + n) % WORD IN
  /\ User(p)
  /\ n < 0
  /\ IF new >= sz[p]
     THEN UNCHANGED <<data, free, pte, sz>>
     ELSE /\ uvmunmap(p, PGROUNDUP(new)..(PGROUNDUP(sz[p]) - 1))
          /\ sz' = [sz EXCEPT ![p] = new]
  /\ UNCHANGED <<dir, panicked, nextpid, state, pid, trapframe, usyscall, root,
                 lineage, thread>>

(* The size grows; vmfault() will find the pages. *)
sbrk_lazy(p, n) ==
  LET new == (sz[p] + n) % WORD IN
  /\ User(p)
  /\ n >= 0 /\ new >= sz[p] /\ new <= Limit
  /\ sz' = [sz EXCEPT ![p] = new]
  /\ UNCHANGED <<data, table, nextpid, state, pid, trapframe, usyscall, root,
                 lineage, thread>>

-----------------------------------------------------------------------------
(* Page faults, copyout() and copyin(). *)

(* vmfault() gives up: the address is not below sz, or there is a PTE that   *)
(* does not allow the access, or no memory.                                  *)
VmfaultFails(p, v) ==
  v * PGSIZE >= sz[p] \/ pte[p][v] # NoPte \/ MapFails(p, v)

\* Mutant: the page is not cleared.
vmfault_dirty(p, v) ==
  IF v * PGSIZE >= sz[p] \/ pte[p][v] # NoPte
  THEN UNCHANGED <<data, table>>
  ELSE MapPage(p, v, {"R", "W", "U"}, JUNK)

vmfault(p, v) ==
  IF v * PGSIZE >= sz[p] \/ pte[p][v] # NoPte
  THEN UNCHANGED <<data, table>>
  ELSE MapPage(p, v, {"R", "W", "U"}, 0)

CanRead(p, v)  == {"R", "U"} \subseteq pte[p][v].flags
CanWrite(p, v) == {"W", "U"} \subseteq pte[p][v].flags

(* A store by the program. *)
store(p, v) ==
  /\ User(p) /\ CanWrite(p, v)
  /\ data' = [data EXCEPT ![pte[p][v].pa] = By(pid[p])]
  /\ UNCHANGED <<table, nextpid, proc, thread>>

(* External, trap.c: a page fault ends the process when vmfault() fails. *)
usertrap(p, v, write) ==
  /\ User(p)
  /\ IF write THEN ~CanWrite(p, v) ELSE ~CanRead(p, v)
  /\ vmfault(p, v)
  /\ state' = [state EXCEPT ![p] = IF VmfaultFails(p, v) THEN "ZOMBIE" ELSE @]
  /\ UNCHANGED <<nextpid, pid, sz, trapframe, usyscall, root, lineage, thread>>

(* walkaddr(): the page that user mode has at v, or NULL. *)
walkaddr(p, v) == IF "U" \in pte[p][v].flags THEN pte[p][v].pa ELSE NULL

(* One iteration of copyout(): a missing page is allocated, one that is not  *)
(* writable is refused, the rest is overwritten.                             *)
CopyoutFails(p, v) ==
  IF walkaddr(p, v) = NULL THEN VmfaultFails(p, v) ELSE "W" \notin pte[p][v].flags

\* Mutant: PTE_W is not tested.
copyout_anywhere(p, v) ==
  IF walkaddr(p, v) # NULL
  THEN /\ data' = [data EXCEPT ![pte[p][v].pa] = By(pid[p])]
       /\ UNCHANGED table
  ELSE IF v * PGSIZE >= sz[p] \/ pte[p][v] # NoPte
  THEN UNCHANGED <<data, table>>
  ELSE MapPage(p, v, {"R", "W", "U"}, By(pid[p]))

copyout(p, v) ==
  IF walkaddr(p, v) # NULL
  THEN /\ data' = IF CopyoutFails(p, v) THEN data
                  ELSE [data EXCEPT ![pte[p][v].pa] = By(pid[p])]
       /\ UNCHANGED table
  ELSE IF v * PGSIZE >= sz[p] \/ pte[p][v] # NoPte
  THEN UNCHANGED <<data, table>>
  ELSE MapPage(p, v, {"R", "W", "U"}, By(pid[p]))

(* A system call that writes to, or reads from, the memory of the program. *)
sys_copyout(p, v) ==
  /\ User(p)
  /\ copyout(p, v)
  /\ UNCHANGED <<nextpid, proc, thread>>

copyin(p, v) ==
  /\ User(p)
  /\ IF walkaddr(p, v) = NULL THEN vmfault(p, v) ELSE UNCHANGED <<data, table>>
  /\ UNCHANGED <<nextpid, proc, thread>>

-----------------------------------------------------------------------------
(* exit() and wait(). *)

kexit(p) ==
  /\ User(p)
  /\ state' = [state EXCEPT ![p] = "ZOMBIE"]
  /\ UNCHANGED <<data, table, nextpid, pid, sz, trapframe, usyscall, root,
                 lineage, thread>>

(* One iteration of the loop of kwait(0): a zombie is freed. *)
kwait(p, q) ==
  /\ At(p, "user")
  /\ IF state[q] = "ZOMBIE"
     THEN freeproc(q)
     ELSE UNCHANGED <<data, table, proc>>
  /\ UNCHANGED <<nextpid, thread>>

-----------------------------------------------------------------------------
Fork(p) ==
  \/ \E q \in Slot : allocproc(p, q)
  \/ allocproc_usyscall(p) \/ uvmcreate(p) \/ proc_pagetable(p)
  \/ proc_pagetable_undo(p) \/ kfork_fail(p)
  \/ uvmcopy(p) \/ uvmcopy_undo(p) \/ kfork(p)

Sbrk(p) ==
  \/ \E n \in SbrkArgs : sbrk_eager(p, n) \/ sbrk_shrink(p, n) \/ sbrk_lazy(p, n)
  \/ uvmalloc(p) \/ uvmalloc_undo(p) \/ growproc(p)

Touch(p) ==
  \E v \in TouchedVa :
    \/ store(p, v) \/ sys_copyout(p, v) \/ copyin(p, v)
    \/ \E write \in BOOLEAN : usertrap(p, v, write)

Next ==
  \E p \in Slot :
    \/ Fork(p) \/ Sbrk(p) \/ Touch(p) \/ kexit(p)
    \/ \E q \in Slot : kwait(p, q)

Spec == Init /\ [][Next]_vars

-----------------------------------------------------------------------------
(* Properties. *)

TypeOK ==
  /\ free \subseteq Page
  /\ data \in [Page -> Int]
  /\ nextpid \in Nat
  /\ state \in [Slot -> {"UNUSED", "USED", "RUNNABLE", "ZOMBIE"}]
  /\ pid \in [Slot -> Nat]
  /\ sz \in [Slot -> 0..(WORD - 1)]
  /\ trapframe \in [Slot -> Page \cup {NULL}]
  /\ usyscall \in [Slot -> Page \cup {NULL}]
  /\ root \in [Slot -> Page \cup {NULL}]
  /\ dir \in [Slot -> [Dir -> Page \cup {NULL}]]
  /\ pte \in [Slot -> [VA -> [pa : Page \cup {NULL, TEXT}, flags : SUBSET Flags]]]
  /\ pc \in [Slot -> Pc]
  /\ np \in [Slot -> Slot \cup {0}]
  /\ i \in [Slot -> VA]
  /\ newsz \in [Slot -> 0..(WORD - 1)]
  /\ lineage \in [Slot -> SUBSET Nat]
  /\ panicked \in BOOLEAN

(* Who refers to page g. *)
Owners(g) ==
       {<<"kernel", d>> : d \in {KERNEL} \cap {data[g]}}
  \cup {<<"trapframe", q>> : q \in {r \in Slot : trapframe[r] = g}}
  \cup {<<"usyscall", q>> : q \in {r \in Slot : usyscall[r] = g}}
  \cup {<<"root", q>> : q \in {r \in Slot : root[r] = g}}
  \cup {<<"dir", o>> : o \in {o \in Slot \X Dir : dir[o[1]][o[2]] = g}}
  \cup {<<"user", o>> : o \in {o \in Slot \X UserVA : pte[o[1]][o[2]].pa = g}}

(* No page is lost, freed twice or used twice, however many allocations      *)
(* failed on the way: a page is on the free list or has exactly one owner.   *)
PagesAccounted ==
  \A g \in Page : Cardinality(Owners(g)) = IF g \in free THEN 0 ELSE 1

(* A process has no PTE at or above its size, so that freeproc() finds all   *)
(* its pages; below it there may be holes (lazy allocation).                 *)
MappedBelowSz ==
  \A q \in Slot : state[q] \in {"RUNNABLE", "ZOMBIE"} /\ pc[q] \notin {"grow", "grow_undo"} =>
    /\ sz[q] <= USYSCALL * PGSIZE
    /\ \A v \in UserVA : pte[q][v] # NoPte => v < PGROUNDUP(sz[q])

(* ugetpid(): a process reads its own pid at USYSCALL and cannot write there, *)
(* neither itself nor through copyout().                                      *)
UsyscallTrue ==
  \A q \in Slot : state[q] \in {"RUNNABLE", "ZOMBIE"} =>
    /\ pte[q][USYSCALL] = [pa |-> usyscall[q], flags |-> {"R", "U"}]
    /\ data[usyscall[q]] = pid[q]

(* What a program can read was zero, or written by itself or by an ancestor: *)
(* never what a freed page held.                                             *)
NoForeignData ==
  \A q \in Slot : state[q] = "RUNNABLE" =>
    \A v \in UserVA : pte[q][v] # NoPte => 
      data[pte[q][v].pa] \in {By(n) : n \in lineage[q]} \cup {0}

(* No panic("mappages: remap") and no panic("freewalk: leaf"). *)
NoPanic == ~panicked

(* A child starts with the memory of its parent, in pages of its own. *)
Forked ==
  \A p, q \in Slot :
    state[q] = "USED" /\ state'[q] = "RUNNABLE" /\ np[p] = q =>
      /\ sz'[q] = sz[p]
      /\ \A v \in UserVA :
           /\ pte[q][v].flags = pte[p][v].flags
           /\ pte[p][v] # NoPte =>
                /\ data[pte[q][v].pa] = data[pte[p][v].pa]
                /\ pte[q][v].pa # pte[p][v].pa

(* So it is for every fork that succeeds, whatever was allocated lazily. *)
ForkCopies == [][Forked]_vars
=============================================================================
