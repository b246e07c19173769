------------------------------ MODULE Pgaccess ------------------------------
(***************************************************************************)
(* The pgaccess() system call of Proyecto3 (sys_pgaccess() of sysproc.c)   *)
(* and everything that sets, copies or drops the PTE_A bit it reads: the   *)
(* hardware when a program touches a page, uvmcopy() in fork(), and sbrk() *)
(* when it unmaps.                                                         *)
(*                                                                         *)
(* A process has one thread, so nobody touches its pages during its own    *)
(* system call, and one call is one step.  The trampoline flushes the TLB  *)
(* on every return to user mode, so the first access after a call walks    *)
(* the page table.  Addresses are in units of which a page has PGSIZE, and *)
(* wrap at WORD.                                                           *)
(***************************************************************************)
EXTENDS Integers

CONSTANTS
  NPROC,      \* number of slots of proc[]
  PGSIZE,     \* units in a page
  MAXPAGES,   \* the most pages that one call accepts (64)
  USYSCALL,   \* the page of the struct usyscall: the heap ends below it
  WORD,       \* uint64 arithmetic is modulo this
  Bases,      \* the addresses that programs pass as base
  Counts      \* the numbers that programs pass as npages

MAXVA == USYSCALL + 3     \* in pages: USYSCALL, TRAPFRAME, TRAMPOLINE

ASSUME PgaccessAssumption ==
  /\ NPROC \in Nat \ {0} /\ PGSIZE \in Nat \ {0} /\ MAXPAGES \in Nat \ {0}
  /\ USYSCALL \in Nat \ {0}
  /\ WORD \in Nat /\ WORD > 2 * MAXVA * PGSIZE /\ WORD > MAXPAGES * PGSIZE
  /\ Bases \subseteq 0..(WORD - 1)
  /\ Counts \subseteq Int

Slot == 1..NPROC
Page == 0..(USYSCALL - 1)     \* the pages that sbrk() can reach

VARIABLES
  live,       \* the slots in use
  sz,         \* p->sz
  mapped,     \* the pages with PTE_V
  accessed,   \* the pages with PTE_A
  ret,        \* what the last system call of the process returned, with the
              \* mask of pgaccess() and, as history, what was used by then: by
              \* the process itself (own), or also by its parent (due)
  touched,    \* history: the pages the process used since it last asked
  inherited,  \* history: those its parent had used when it was forked
  panicked    \* walk() was called beyond MAXVA

vars == <<live, sz, mapped, accessed, ret, touched, inherited, panicked>>

NoRet == [value |-> -1, mask |-> {}, own |-> {}, due |-> {}]

(* The first process has one page of text, which it has not used yet. *)
Init ==
  /\ live = {1}
  /\ sz = [p \in Slot |-> IF p = 1 THEN PGSIZE ELSE 0]
  /\ mapped = [p \in Slot |-> IF p = 1 THEN {0} ELSE {}]
  /\ accessed = [p \in Slot |-> {}]
  /\ ret = [p \in Slot |-> NoRet]
  /\ touched = [p \in Slot |-> {}]
  /\ inherited = [p \in Slot |-> {}]
  /\ panicked = FALSE

PGROUNDUP(n) == (n + PGSIZE - 1) \div PGSIZE     \* in pages

BelowSz(n) == {v \in Page : v < PGROUNDUP(n)}

-----------------------------------------------------------------------------
(* External: the program reads or writes page v; vmfault() maps a page that  *)
(* is still lazy, and the hardware sets PTE_A.                               *)
touch(p, v) ==
  /\ p \in live /\ ~panicked
  /\ v \in BelowSz(sz[p])
  /\ mapped' = [mapped EXCEPT ![p] = @ \cup {v}]
  /\ accessed' = [accessed EXCEPT ![p] = @ \cup {v}]
  /\ touched' = [touched EXCEPT ![p] = @ \cup {v}]
  /\ ret' = [ret EXCEPT ![p] = NoRet]
  /\ UNCHANGED <<live, sz, inherited, panicked>>

(* fork(): uvmcopy() copies the flags of every PTE, PTE_A included. *)
uvmcopy(p, q) ==
  /\ p \in live /\ ~panicked
  /\ q \in Slot \ live
  /\ live' = live \cup {q}
  /\ sz' = [sz EXCEPT ![q] = sz[p]]
  /\ mapped' = [mapped EXCEPT ![q] = mapped[p] \cap BelowSz(sz[p])]
  /\ accessed' = [accessed EXCEPT ![q] = accessed[p] \cap BelowSz(sz[p])]
  /\ inherited' = [inherited EXCEPT ![q] = touched[p] \cup inherited[p]]
  /\ UNCHANGED <<ret, touched, panicked>>

(* exit() and the freeproc() that follows it. *)
freeproc(p) ==
  /\ p \in live /\ p # 1 /\ ~panicked
  /\ live' = live \ {p}
  /\ sz' = [sz EXCEPT ![p] = 0]
  /\ mapped' = [mapped EXCEPT ![p] = {}]
  /\ accessed' = [accessed EXCEPT ![p] = {}]
  /\ ret' = [ret EXCEPT ![p] = NoRet]
  /\ touched' = [touched EXCEPT ![p] = {}]
  /\ inherited' = [inherited EXCEPT ![p] = {}]
  /\ UNCHANGED panicked

(* sbrk() upwards by n, lazily or with uvmalloc(), whose new PTEs have no    *)
(* PTE_A.                                                                    *)
sbrk_grow(p, n, lazy) ==
  /\ p \in live /\ ~panicked
  /\ sz[p] + n <= USYSCALL * PGSIZE
  /\ sz' = [sz EXCEPT ![p] = @ + n]
  /\ mapped' = [mapped EXCEPT ![p] =
                  IF lazy THEN @ ELSE @ \cup (BelowSz(sz[p] + n) \ BelowSz(sz[p]))]
  /\ ret' = [ret EXCEPT ![p] = NoRet]
  /\ UNCHANGED <<live, accessed, touched, inherited, panicked>>

(* sbrk() downwards by n: uvmdealloc() unmaps the pages above the new size. *)
sbrk_shrink(p, n) ==
  LET gone == BelowSz(sz[p]) \ BelowSz(sz[p] - n) IN
  /\ p \in live /\ ~panicked
  /\ n <= sz[p]                \* otherwise newsz wraps and nothing is done
  /\ sz' = [sz EXCEPT ![p] = @ - n]
  /\ mapped' = [mapped EXCEPT ![p] = @ \ gone]
  /\ accessed' = [accessed EXCEPT ![p] = @ \ gone]
  /\ touched' = [touched EXCEPT ![p] = @ \ gone]
  /\ inherited' = [inherited EXCEPT ![p] = @ \ gone]
  /\ ret' = [ret EXCEPT ![p] = NoRet]
  /\ UNCHANGED <<live, panicked>>

-----------------------------------------------------------------------------
(* sys_pgaccess(). *)

(* base + npages * PGSIZE in uint64 arithmetic. *)
EndOf(base, npages) == (base + npages * PGSIZE) % WORD

\* Mutant: the sum is not checked for overflow.
Valid_wraps(p, base, npages) ==
  /\ base % PGSIZE = 0
  /\ npages \in 1..MAXPAGES
  /\ EndOf(base, npages) <= sz[p]

(* The validation of the arguments. *)
Valid(p, base, npages) ==
  /\ base % PGSIZE = 0
  /\ npages \in 1..MAXPAGES
  /\ EndOf(base, npages) >= base
  /\ EndOf(base, npages) <= sz[p]

(* The pages of the call. *)
Asked(base, npages) == {(base \div PGSIZE) + i : i \in 0..(npages - 1)}

pgaccess_invalid(p, base, npages) ==
  /\ p \in live /\ ~panicked
  /\ ~Valid(p, base, npages)
  /\ ret' = [ret EXCEPT ![p] = NoRet]
  /\ UNCHANGED <<live, sz, mapped, accessed, touched, inherited, panicked>>

(* walk() panics for an address beyond MAXVA. *)
walk(base, npages) == panicked' = (\E v \in Asked(base, npages) : v >= MAXVA)

\* Mutant: the first pass clears the bits that it reads.
pgaccess_fails_cleared(p, base, npages, M) ==
  /\ p \in live /\ ~panicked
  /\ Valid(p, base, npages)
  /\ walk(base, npages)
  /\ M \subseteq BelowSz(sz[p])
  /\ mapped' = [mapped EXCEPT ![p] = @ \cup M]
  /\ accessed' = [accessed EXCEPT ![p] = @ \ Asked(base, npages)]
  /\ ret' = [ret EXCEPT ![p] = NoRet]
  /\ UNCHANGED <<live, sz, touched, inherited>>

(* The copyout() of the mask fails: the bits stay for the next call.  The    *)
(* pages M of the buffer that were lazy have been mapped on the way.         *)
pgaccess_fails(p, base, npages, M) ==
  /\ p \in live /\ ~panicked
  /\ Valid(p, base, npages)
  /\ walk(base, npages)
  /\ M \subseteq BelowSz(sz[p])
  /\ mapped' = [mapped EXCEPT ![p] = @ \cup M]
  /\ ret' = [ret EXCEPT ![p] = NoRet]
  /\ UNCHANGED <<live, sz, accessed, touched, inherited>>

(* The mask goes out and its bits are cleared.  The kernel writes the buffer *)
(* through its own mapping, which sets no PTE_A of the process.              *)
pgaccess(p, base, npages, M) ==
  LET asked == Asked(base, npages)
      mask  == {v \in asked : v \in mapped[p] /\ v \in accessed[p]}
  IN
  /\ p \in live /\ ~panicked
  /\ Valid(p, base, npages)
  /\ walk(base, npages)
  /\ M \subseteq BelowSz(sz[p])
  /\ mapped' = [mapped EXCEPT ![p] = @ \cup M]
  /\ accessed' = [accessed EXCEPT ![p] = @ \ mask]
  /\ ret' = [ret EXCEPT ![p] = [value |-> 0, mask |-> mask,
                                own |-> touched[p] \cap asked,
                                due |-> (touched[p] \cup inherited[p]) \cap asked]]
  /\ touched' = [touched EXCEPT ![p] = @ \ asked]
  /\ inherited' = [inherited EXCEPT ![p] = @ \ asked]
  /\ UNCHANGED <<live, sz>>

-----------------------------------------------------------------------------
Query(p) ==
  \E base \in Bases, npages \in Counts :
    \/ pgaccess_invalid(p, base, npages)
    \/ \E M \in SUBSET Page :
         pgaccess_fails(p, base, npages, M) \/ pgaccess(p, base, npages, M)

Next ==
  \E p \in Slot :
    \/ \E v \in Page : touch(p, v)
    \/ \E q \in Slot : uvmcopy(p, q)
    \/ freeproc(p)
    \/ \E n \in 1..(2 * PGSIZE) :
         \/ sbrk_shrink(p, n)
         \/ \E lazy \in BOOLEAN : sbrk_grow(p, n, lazy)
    \/ Query(p)

Spec == Init /\ [][Next]_vars

-----------------------------------------------------------------------------
(* The types; in particular PTE_A is only set in a valid PTE below p->sz. *)
TypeOK ==
  /\ live \subseteq Slot
  /\ sz \in [Slot -> 0..(USYSCALL * PGSIZE)]
  /\ \A p \in Slot :
       /\ accessed[p] \subseteq mapped[p]
       /\ mapped[p] \subseteq BelowSz(sz[p])

(* A mask that reaches the program names exactly the pages of the range that *)
(* were used since they were last reported, by the process or, before the    *)
(* fork, by its parent: a call that fails loses none, a page that was freed  *)
(* and grown again starts unused, a lazy page counts as unused.              *)
MaskExact == TypeOK /\ \A p \in Slot : ret[p].mask = ret[p].due

(* No accepted range makes walk() panic. *)
NoPanic == ~panicked

(* What the comment of sys_pgaccess() says: bit i is 1 if the page was read  *)
(* or written since the last query, by the process that asks.                *)
MaskOwn == \A p \in Slot : ret[p].mask \subseteq ret[p].own
=============================================================================
