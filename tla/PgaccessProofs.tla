--------------------------- MODULE PgaccessProofs ---------------------------
(***************************************************************************)
(* The theorems about pgaccess(), for every number of processes, every     *)
(* size of a page, of the address space and of a word, and all arguments:  *)
(* the mask is exact and walk() does not panic.                            *)
(***************************************************************************)
EXTENDS Pgaccess, TLAPS

-----------------------------------------------------------------------------
(* Arithmetic. *)

(* The constants, without the words about them. *)
LEMMA Sizes ==
  /\ PGSIZE \in Nat \ {0} /\ USYSCALL \in Nat \ {0} /\ WORD \in Nat \ {0}
  /\ USYSCALL * PGSIZE \in Nat
BY PgaccessAssumption DEF MAXVA

(* The quotient grows with the dividend. *)
LEMMA DivMonotone ==
  ASSUME NEW P \in Nat \ {0}, NEW a \in Int, NEW b \in Int, a <= b
  PROVE  a \div P <= b \div P
OBVIOUS

(* An aligned address is the first of its page. *)
LEMMA DivExact ==
  ASSUME NEW P \in Nat \ {0}, NEW a \in Int, a % P = 0
  PROVE  (a \div P) \in Int /\ (a \div P) * P = a
OBVIOUS

(* Pages are in the order of their addresses. *)
LEMMA TimesOrder ==
  ASSUME NEW P \in Nat \ {0}, NEW x \in Int, NEW y \in Int
  PROVE  /\ x * P < y * P => x < y
         /\ x <= y => x * P <= y * P
OBVIOUS

(* A sum that wraps is smaller than its terms. *)
LEMMA SumWraps ==
  ASSUME NEW W \in Nat \ {0}, NEW a \in 0..(W - 1), NEW b \in 0..(W - 1),
         (a + b) % W >= a
  PROVE  (a + b) % W = a + b
OBVIOUS

(* A larger heap has more pages. *)
LEMMA BelowMonotone ==
  ASSUME NEW m \in Int, NEW n \in Int, m <= n
  PROVE  BelowSz(m) \subseteq BelowSz(n)
  <1>1. PGROUNDUP(m) <= PGROUNDUP(n)
    BY Sizes, DivMonotone DEF PGROUNDUP
  <1>2. PGROUNDUP(m) \in Int /\ PGROUNDUP(n) \in Int
    BY Sizes DEF PGROUNDUP
  <1> QED BY <1>1, <1>2, Sizes DEF BelowSz, Page

(* The pages of an accepted range are below p->sz: the validation of         *)
(* sys_pgaccess() leaves no base for which base + npages * PGSIZE wraps.     *)
LEMMA AskedBelow ==
  ASSUME NEW p \in Slot, sz[p] \in 0..(USYSCALL * PGSIZE),
         NEW base \in Bases, NEW npages \in Counts, Valid(p, base, npages),
         NEW v \in Asked(base, npages)
  PROVE  v < USYSCALL
  <1> DEFINE P == PGSIZE  b == base \div PGSIZE  len == npages * PGSIZE
  <1>1. base \in 0..(WORD - 1) /\ npages \in 1..MAXPAGES /\ MAXPAGES \in Nat
    BY PgaccessAssumption DEF Valid
  <1>2. b \in Int /\ b * P = base
    BY <1>1, DivExact, Sizes DEF Valid
  <1>3. PICK i \in 0..(npages - 1) : v = b + i
    BY DEF Asked
  <1>4. len \in 0..(WORD - 1)
    <2>1. npages * PGSIZE <= MAXPAGES * PGSIZE
      BY <1>1, TimesOrder, Sizes
    <2>2. MAXPAGES * PGSIZE < WORD /\ MAXPAGES * PGSIZE \in Int
      BY <1>1, PgaccessAssumption
    <2>3. npages * PGSIZE \in Nat
      BY <1>1, Sizes
    <2> QED BY <2>1, <2>2, <2>3, Sizes
  <1>5. base + len <= USYSCALL * PGSIZE
    <2>1. EndOf(base, npages) = base + len
      <3>1. EndOf(base, npages) = (base + len) % WORD
        BY DEF EndOf
      <3> HIDE DEF len
      <3>2. (base + len) % WORD >= base
        BY <3>1 DEF Valid
      <3> QED BY <3>1, <3>2, <1>1, <1>4, SumWraps, Sizes
    <2> HIDE DEF len
    <2> QED BY <2>1, <1>1, <1>4, Sizes DEF Valid
  <1>6. i * P + P <= len
    <2>1. (i + 1) * P <= npages * P
      BY <1>1, <1>3, TimesOrder, Sizes
    <2>2. (i + 1) * P = i * P + P
      BY <1>3, <1>1, Sizes
    <2> QED BY <2>1, <2>2
  <1>7. v \in Int /\ v * P = base + i * P
    <2>1. (b + i) * P = b * P + i * P
      BY <1>1, <1>2, <1>3, Sizes
    <2> QED BY <2>1, <1>1, <1>2, <1>3
  <1>8. v * P < USYSCALL * P
    <2>1. i * P \in Int /\ len \in Int /\ P \in Nat \ {0}
      BY <1>1, <1>3, <1>4, Sizes
    <2> HIDE DEF len
    <2> QED BY <2>1, <1>1, <1>5, <1>6, <1>7, Sizes
  <1> QED BY <1>7, <1>8, TimesOrder, Sizes

-----------------------------------------------------------------------------
(* The mask. *)

(* The types of the page tables and of the history. *)
PageTypes ==
  /\ live \subseteq Slot
  /\ sz \in [Slot -> 0..(USYSCALL * PGSIZE)]
  /\ mapped \in [Slot -> SUBSET Page]
  /\ accessed \in [Slot -> SUBSET Page]
  /\ touched \in [Slot -> SUBSET Page]
  /\ inherited \in [Slot -> SUBSET Page]
  /\ DOMAIN ret = Slot

(* PTE_A says what was used: by the process since it last asked, or by its   *)
(* parent before the fork.  A slot that is free has no history.              *)
UsedBits ==
  \A p \in Slot :
    /\ accessed[p] \subseteq mapped[p]
    /\ mapped[p] \subseteq BelowSz(sz[p])
    /\ accessed[p] = touched[p] \cup inherited[p]
    /\ p \notin live => touched[p] = {}

(* The inductive invariant; a mask that arrived is the one that was due. *)
MaskInv == PageTypes /\ UsedBits /\ \A p \in Slot : ret[p].mask = ret[p].due

(* A size below the heap's limit is an integer. *)
LEMMA SzInt ==
  ASSUME PageTypes
  PROVE  \A p \in Slot : sz[p] \in Int
BY Sizes DEF PageTypes

(* Every step keeps MaskInv: whatever drops a PTE also drops what was        *)
(* recorded of it, and only a mask that was copied out clears a bit.         *)
LEMMA MaskStep ==
  ASSUME MaskInv, [Next]_vars
  PROVE  MaskInv'
  <1> USE DEF MaskInv
  <1>1. ASSUME NEW p \in Slot, NEW v \in Page, touch(p, v) PROVE MaskInv'
    <2>1. PageTypes'
      BY <1>1 DEF PageTypes, touch
    <2>2. UsedBits'
      BY <1>1 DEF PageTypes, UsedBits, touch
    <2>3. \A q \in Slot : ret'[q].mask = ret'[q].due
      BY <1>1 DEF PageTypes, touch, NoRet
    <2> QED BY <2>1, <2>2, <2>3
  <1>2. ASSUME NEW p \in Slot, NEW q \in Slot, uvmcopy(p, q) PROVE MaskInv'
    <2>1. PageTypes'
      BY <1>2 DEF PageTypes, uvmcopy
    <2>2. UsedBits'
      BY <1>2 DEF PageTypes, UsedBits, uvmcopy
    <2> QED BY <1>2, <2>1, <2>2 DEF uvmcopy
  <1>3. ASSUME NEW p \in Slot, freeproc(p) PROVE MaskInv'
    <2>1. PageTypes'
      BY <1>3, Sizes DEF PageTypes, freeproc
    <2>2. UsedBits'
      BY <1>3 DEF PageTypes, UsedBits, freeproc
    <2>3. \A q \in Slot : ret'[q].mask = ret'[q].due
      BY <1>3 DEF PageTypes, freeproc, NoRet
    <2> QED BY <2>1, <2>2, <2>3
  <1>4. ASSUME NEW p \in Slot, NEW n \in 1..(2 * PGSIZE), sbrk_shrink(p, n)
        PROVE  MaskInv'
    <2>0. n \in Nat /\ sz[p] \in Int
      BY Sizes, SzInt
    <2>1. PageTypes'
      BY <1>4, <2>0, Sizes DEF PageTypes, sbrk_shrink
    <2>2. UsedBits'
      BY <1>4, <2>0 DEF PageTypes, UsedBits, sbrk_shrink
    <2>3. \A q \in Slot : ret'[q].mask = ret'[q].due
      BY <1>4 DEF PageTypes, sbrk_shrink, NoRet
    <2> QED BY <2>1, <2>2, <2>3
  <1>5. ASSUME NEW p \in Slot, NEW n \in 1..(2 * PGSIZE), NEW lazy \in BOOLEAN,
               sbrk_grow(p, n, lazy)
        PROVE  MaskInv'
    <2>0. n \in Nat /\ sz[p] \in Int
      BY Sizes, SzInt
    <2>1. PageTypes'
      BY <1>5, <2>0, Sizes DEF PageTypes, sbrk_grow, BelowSz
    <2>2. BelowSz(sz[p]) \subseteq BelowSz(sz[p] + n)
      BY <2>0, BelowMonotone
    <2>3. UsedBits'
      BY <1>5, <2>2 DEF PageTypes, UsedBits, sbrk_grow
    <2>4. \A q \in Slot : ret'[q].mask = ret'[q].due
      BY <1>5 DEF PageTypes, sbrk_grow, NoRet
    <2> QED BY <2>1, <2>3, <2>4
  <1>6. ASSUME NEW p \in Slot, NEW base \in Bases, NEW npages \in Counts,
               pgaccess_invalid(p, base, npages)
        PROVE  MaskInv'
    BY <1>6 DEF PageTypes, UsedBits, pgaccess_invalid, NoRet
  <1>7. ASSUME NEW p \in Slot, NEW base \in Bases, NEW npages \in Counts,
               NEW M \in SUBSET Page, pgaccess_fails(p, base, npages, M)
        PROVE  MaskInv'
    <2>1. PageTypes'
      BY <1>7 DEF PageTypes, pgaccess_fails
    <2>2. UsedBits'
      BY <1>7 DEF PageTypes, UsedBits, pgaccess_fails
    <2>3. \A q \in Slot : ret'[q].mask = ret'[q].due
      BY <1>7 DEF PageTypes, pgaccess_fails, NoRet
    <2> QED BY <2>1, <2>2, <2>3
  <1>8. ASSUME NEW p \in Slot, NEW base \in Bases, NEW npages \in Counts,
               NEW M \in SUBSET Page, pgaccess(p, base, npages, M)
        PROVE  MaskInv'
    <2> DEFINE asked == Asked(base, npages)
               mask  == {v \in asked : v \in mapped[p] /\ v \in accessed[p]}
    <2>1. mask = accessed[p] \cap asked
      BY DEF UsedBits
    <2>2. PageTypes'
      BY <1>8 DEF PageTypes, pgaccess
    <2>3. UsedBits'
      BY <1>8, <2>1 DEF PageTypes, UsedBits, pgaccess
    <2>4. mask = (touched[p] \cup inherited[p]) \cap asked
      BY <2>1 DEF UsedBits
    <2>5. \A q \in Slot : ret'[q].mask = ret'[q].due
      BY <1>8, <2>4 DEF PageTypes, pgaccess
    <2> QED BY <2>2, <2>3, <2>5
  <1>9. CASE UNCHANGED vars
    BY <1>9 DEF vars, PageTypes, UsedBits
  <1> QED
    BY <1>1, <1>2, <1>3, <1>4, <1>5, <1>6, <1>7, <1>8, <1>9 DEF Next, Query

(* MaskInv holds in every reachable state. *)
LEMMA MaskSafety == Spec => []MaskInv
  <1>1. Init => MaskInv
    <2> SUFFICES ASSUME Init PROVE MaskInv
      OBVIOUS
    <2>1. 0 \in Page /\ PGSIZE \in 0..(USYSCALL * PGSIZE)
      <3>1. 1 * PGSIZE <= USYSCALL * PGSIZE
        BY Sizes, TimesOrder
      <3> QED BY <3>1, Sizes DEF Page
    <2>2. 0 \in BelowSz(PGSIZE)
      <3>1. PGSIZE \div PGSIZE <= PGROUNDUP(PGSIZE)
        BY Sizes, DivMonotone DEF PGROUNDUP
      <3>2. PGSIZE \div PGSIZE = 1
        BY Sizes
      <3>3. PGROUNDUP(PGSIZE) \in Int
        BY Sizes DEF PGROUNDUP
      <3> QED BY <3>1, <3>2, <3>3, <2>1 DEF BelowSz
    <2>3. 1 \in Slot
      BY PgaccessAssumption DEF Slot
    <2>4. PageTypes
      BY <2>1, <2>3, Sizes DEF Init, PageTypes
    <2>5. UsedBits
      BY <2>2 DEF Init, UsedBits
    <2> QED BY <2>4, <2>5 DEF Init, MaskInv, NoRet
  <1> QED BY <1>1, MaskStep, PTL DEF Spec

(* A mask that sys_pgaccess() copies out names exactly the pages of the      *)
(* range that were used since they were last reported, by the process or,    *)
(* before the fork, by its parent.                                           *)
THEOREM MasksExact == Spec => []MaskExact
  <1>1. MaskInv => MaskExact
    BY DEF MaskInv, PageTypes, UsedBits, MaskExact, TypeOK
  <1> QED BY <1>1, MaskSafety, PTL

-----------------------------------------------------------------------------
(* walk(). *)

(* No range that sys_pgaccess() accepts reaches MAXVA, where walk() panics:  *)
(* not even with a base close to the end of uint64.                          *)
THEOREM WalkInRange == Spec => []NoPanic
  <1>1. Init => NoPanic
    BY DEF Init, NoPanic
  <1>2. MaskInv /\ NoPanic /\ [Next]_vars => NoPanic'
    <2> SUFFICES ASSUME MaskInv, NoPanic, [Next]_vars PROVE NoPanic'
      OBVIOUS
    <2>1. ASSUME NEW p \in Slot, NEW base \in Bases, NEW npages \in Counts,
                 Valid(p, base, npages), walk(base, npages)
          PROVE  NoPanic'
      <3>1. sz[p] \in 0..(USYSCALL * PGSIZE)
        BY DEF MaskInv, PageTypes
      <3>2. ASSUME NEW v \in Asked(base, npages) PROVE ~(v >= MAXVA)
        <4>1. v < USYSCALL
          BY <2>1, <3>1, AskedBelow
        <4>2. v \in Int
          BY PgaccessAssumption, Sizes DEF Asked
        <4> QED BY <4>1, <4>2, Sizes DEF MAXVA
      <3> QED BY <2>1, <3>2 DEF walk, NoPanic
    <2> QED
      BY <2>1 DEF Next, Query, vars, NoPanic, touch, uvmcopy, freeproc, sbrk_grow,
         sbrk_shrink, pgaccess_invalid, pgaccess_fails, pgaccess
  <1> QED BY <1>1, <1>2, MaskSafety, PTL DEF Spec
=============================================================================
