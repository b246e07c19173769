------------------------------- MODULE VmInv -------------------------------
(***************************************************************************)
(* The inductive invariant of Vm: where every page is between two steps,   *)
(* and how far each fork() and each sbrk() has got.                        *)
(***************************************************************************)
EXTENDS Vm

-----------------------------------------------------------------------------
(* Pages. *)

(* The places of the kernel that hold the address of a page. *)
Loc ==
       {"trapframe", "usyscall", "root"} \X Slot \X {0}
  \cup {"dir"} \X Slot \X Dir
  \cup {"user"} \X Slot \X UserVA

(* The page that each of them has. *)
Ref ==
  [x \in Loc |-> CASE x[1] = "trapframe" -> trapframe[x[2]]
                   [] x[1] = "usyscall"  -> usyscall[x[2]]
                   [] x[1] = "root"      -> root[x[2]]
                   [] x[1] = "dir"       -> dir[x[2]][x[3]]
                   [] x[1] = "user"      -> pte[x[2]][x[3]].pa]

(* The pages that the kernel keeps for itself. *)
Kernel == {g \in Page : data[g] = KERNEL}

(* With these references, free list and kernel pages, every page is in       *)
(* exactly one place.                                                        *)
Accounted(ref, F, K) ==
  /\ F \subseteq Page /\ K \subseteq Page /\ F \cap K = {}
  /\ \A x \in Loc : ref[x] \in Page \cup {NULL} /\ ref[x] \notin F /\ ref[x] \notin K
  /\ \A x, y \in Loc : ref[x] = ref[y] /\ ref[x] # NULL => x = y
  /\ \A g \in Page : g \in F \/ g \in K \/ \E x \in Loc : ref[x] = g

-----------------------------------------------------------------------------
(* The address space of a slot. *)

(* proc_pagetable() has mapped the first k of its pages. *)
FixedTo(q, k) ==
  \A j \in 0..2 :
    pte[q][FixedVa(j)] =
      IF j < k THEN [pa |-> FixedPa(q, j), flags |-> FixedFlags(j)] ELSE NoPte

(* No user page is mapped. *)
NoUser(q) == \A v \in UserVA : pte[q][v] = NoPte

(* What allocproc() has got before it builds the table. *)
Paged(q) ==
  /\ trapframe[q] # NULL /\ usyscall[q] # NULL
  /\ data[usyscall[q]] = pid[q]

(* proc_pagetable() is done. *)
Built(q) == Paged(q) /\ root[q] # NULL /\ FixedTo(q, 3)

(* walk() finds every page-table page, and a PTE of a user page is valid     *)
(* exactly when it has a page.                                               *)
TableInv(q) ==
  /\ root[q] = NULL => /\ \A d \in Dir : dir[q][d] = NULL
                       /\ \A v \in VA : pte[q][v] = NoPte
  /\ \A v \in VA : dir[q][L0(v)] # NULL => dir[q][L1(v)] # NULL
  /\ \A v \in UserVA : pte[q][v] # NoPte => pte[q][v].pa \in Page

(* Up to where the pages of q may be mapped: its size, or how far uvmalloc() *)
(* has got.                                                                  *)
Growing(q) == pc[q] \in {"grow", "grow_undo"}
Top(q) == IF Growing(q) THEN i[q] ELSE PGROUNDUP(sz[q])

(* The heap of q lies below its size, or below what uvmalloc() has mapped.  *)
HeapInv(q) ==
  /\ sz[q] <= Limit
  /\ \A v \in UserVA : pte[q][v] # NoPte => v < Top(q)
  /\ Growing(q) =>
       /\ sz[q] <= newsz[q] /\ newsz[q] <= Limit
       /\ PGROUNDUP(sz[q]) <= i[q] /\ i[q] <= PGROUNDUP(newsz[q])

(* What the program of q can read. *)
Readable(q) ==
  \A v \in UserVA : pte[q][v] # NoPte =>
    data[pte[q][v].pa] \in {By(m) : m \in lineage[q]} \cup {0}

(* Inside kfork(), after it has found a free slot. *)
ForkPc == {"usyscall", "root", "map", "map_undo", "copy", "copy_undo", "fork_fail"}

(* What a slot has in each of its states. *)
SlotInv(q) ==
  /\ TableInv(q)
  /\ pid[q] <= MaxPid
  /\ state[q] # "RUNNABLE" => pc[q] = "user"
  /\ pc[q] \notin ForkPc => np[q] = 0
  /\ state[q] = "UNUSED" => trapframe[q] = NULL /\ usyscall[q] = NULL /\ root[q] = NULL
  /\ state[q] \in {"UNUSED", "USED"} => sz[q] = 0
  /\ state[q] \in {"RUNNABLE", "ZOMBIE"} =>
       Built(q) /\ HeapInv(q) /\ pid[q] \in lineage[q]
  /\ state[q] = "RUNNABLE" => Readable(q)

-----------------------------------------------------------------------------
(* How far a fork() has got. *)

(* The pages of p below i[p] have copies in q, and there is nothing else. *)
Copied(p, q) ==
  /\ i[p] <= PGROUNDUP(sz[p])
  /\ \A v \in UserVA :
       IF v < i[p] /\ pte[p][v] # NoPte
       THEN /\ pte[q][v] # NoPte
            /\ pte[q][v].flags = pte[p][v].flags
            /\ data[pte[q][v].pa] = data[pte[p][v].pa]
       ELSE pte[q][v] = NoPte

(* What p has done for the slot q of its child when it is at pc[p]. *)
Progress(p, q) ==
  /\ pc[p] = "usyscall" => trapframe[q] # NULL /\ usyscall[q] = NULL /\ root[q] = NULL
  /\ pc[p] = "root" => Paged(q) /\ root[q] = NULL
  /\ pc[p] \in {"usyscall", "root"} => i[p] = 0
  /\ pc[p] \in {"map", "map_undo"} =>
       Paged(q) /\ root[q] # NULL /\ i[p] \in 0..2 /\ FixedTo(q, i[p]) /\ NoUser(q)
  /\ pc[p] \in {"copy", "copy_undo"} => Built(q) /\ Copied(p, q)
  /\ pc[p] = "fork_fail" => NoUser(q)

(* No other fork() has the slot. *)
ForkInv(p, q) ==
  /\ q \in Slot /\ state[q] = "USED"
  /\ \A r \in Slot : pc[r] \in ForkPc /\ np[r] = q => r = p
  /\ Progress(p, q)

(* A thread at "user" has no locals. *)
ThreadInv(p) ==
  /\ pc[p] = "user" => i[p] = 0
  /\ pc[p] \in ForkPc => ForkInv(p, np[p])

(* The invariant. *)
VmInv ==
  /\ TypeOK
  /\ Accounted(Ref, free, Kernel)
  /\ \A q \in Slot : SlotInv(q) /\ ThreadInv(q)
  /\ ~panicked
=============================================================================
