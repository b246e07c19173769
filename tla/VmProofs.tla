------------------------------ MODULE VmProofs ------------------------------
(***************************************************************************)
(* The theorems about address spaces, for every number of processes and of *)
(* pages, every layout and every amount of memory that is missing.         *)
(***************************************************************************)
EXTENDS VmInv, FiniteSetTheorems, TLAPS

-----------------------------------------------------------------------------
(* Numbers. *)

(* The constants, without the words about them. *)
LEMMA Sizes ==
  /\ NPROC \in Nat \ {0} /\ PGSIZE \in Nat \ {0} /\ NPAGES \in Nat /\ NPAGES >= 9
  /\ FAN \in Nat /\ FAN >= 3 /\ MAXVA \in Nat /\ MAXVA > FAN * FAN /\ MAXVA >= 10
  /\ WORD \in Nat /\ WORD > 2 * MAXVA * PGSIZE
  /\ MaxPid \in Nat \ {0}
  /\ USYSCALL \in Nat /\ USYSCALL = MAXVA - 3 /\ USYSCALL >= 7
  /\ TRAPFRAME = MAXVA - 2 /\ TRAMPOLINE = MAXVA - 1
  <1>1. FAN * FAN >= 9
    <2>1. FAN \in Nat /\ FAN >= 3
      BY VmAssumption
    <2> QED BY <2>1
  <1> QED BY <1>1, VmAssumption DEF USYSCALL, TRAPFRAME, TRAMPOLINE

(* Values that differ. *)
LEMMA Values ==
  /\ NULL = 0 /\ NULL \notin Page /\ TEXT \notin Page /\ TEXT # NULL
  /\ JUNK \in Int /\ KERNEL \in Int /\ JUNK # KERNEL /\ KERNEL # 0
  /\ \A m \in Nat : By(m) \in Int /\ m # KERNEL /\ (m <= MaxPid => By(m) # KERNEL)
  /\ NoPte.pa = NULL /\ NoPte.flags = {}
BY Sizes DEF NULL, Page, TEXT, JUNK, KERNEL, By, NoPte

(* The addresses of a process are those of its program and the fixed ones. *)
LEMMA Addresses ==
  /\ UserVA \subseteq VA /\ UserVA \cap Fixed = {} /\ VA = UserVA \cup Fixed
  /\ Fixed = {FixedVa(0), FixedVa(1), FixedVa(2)}
  /\ FixedVa(0) = TRAMPOLINE /\ FixedVa(1) = TRAPFRAME /\ FixedVa(2) = USYSCALL
  /\ FixedVa(0) # FixedVa(1) /\ FixedVa(0) # FixedVa(2) /\ FixedVa(1) # FixedVa(2)
  /\ \A k \in 0..2 : FixedVa(k) \in VA /\ FixedVa(k) \notin UserVA
  /\ \A v \in VA : v \in Nat
  /\ 0 \in UserVA /\ 1 \in UserVA /\ USYSCALL \in VA
BY Sizes DEF UserVA, VA, Fixed, FixedVa

(* The quotient, by what it is bounded by. *)
LEMMA DivBounds ==
  ASSUME NEW P \in Nat \ {0}, NEW a \in Nat
  PROVE  /\ a \div P \in Nat
         /\ (a \div P) * P <= a /\ a < (a \div P) * P + P
OBVIOUS

(* A page is below the rounded size exactly when it starts below the size. *)
LEMMA RoundUp ==
  ASSUME NEW s \in Nat
  PROVE  /\ PGROUNDUP(s) \in Nat
         /\ \A v \in Nat : v < PGROUNDUP(s) <=> v * PGSIZE < s
  <1> DEFINE r == PGROUNDUP(s)
  <1>1. s + PGSIZE - 1 \in Nat /\ PGSIZE \in Nat \ {0}
    BY Sizes
  <1>2. r \in Nat /\ r * PGSIZE <= s + PGSIZE - 1 /\ s + PGSIZE - 1 < r * PGSIZE + PGSIZE
    BY <1>1, DivBounds DEF PGROUNDUP
  <1> HIDE DEF r
  <1>3. ASSUME NEW v \in Nat PROVE v < r <=> v * PGSIZE < s
    <2>1. CASE v < r
      <3>1. (v + 1) * PGSIZE <= r * PGSIZE
        BY <1>1, <1>2, <2>1
      <3>2. (v + 1) * PGSIZE = v * PGSIZE + PGSIZE
        BY <1>1
      <3> QED BY <1>1, <1>2, <2>1, <3>1, <3>2
    <2>2. CASE v >= r
      <3>1. r * PGSIZE <= v * PGSIZE
        BY <1>1, <1>2, <2>2
      <3> QED BY <1>1, <1>2, <2>2, <3>1
    <2> QED BY <1>2, <2>1, <2>2
  <1> QED BY <1>2, <1>3 DEF r

(* Sizes that are in order round to pages that are in order. *)
LEMMA RoundOrder ==
  ASSUME NEW a \in Nat, NEW b \in Nat, a <= b
  PROVE  PGROUNDUP(a) <= PGROUNDUP(b)
  <1>1. PGROUNDUP(a) \in Nat /\ PGROUNDUP(b) \in Nat
    BY RoundUp
  <1>2. ~(PGROUNDUP(b) * PGSIZE < b)
    BY <1>1, RoundUp
  <1>3. PGROUNDUP(b) * PGSIZE \in Nat
    BY <1>1, Sizes
  <1>4. ~(PGROUNDUP(b) * PGSIZE < a)
    BY <1>2, <1>3
  <1>5. ~(PGROUNDUP(b) < PGROUNDUP(a))
    BY <1>1, <1>4, RoundUp
  <1> QED BY <1>1, <1>5

(* A size below the limit ends below the fixed pages. *)
LEMMA RoundLimit ==
  ASSUME NEW s \in Nat, s <= Limit
  PROVE  /\ PGROUNDUP(s) \in Nat /\ PGROUNDUP(s) <= USYSCALL
         /\ \A v \in Nat : v * PGSIZE < s => v \in UserVA
  <1>1. PGROUNDUP(s) \in Nat
    BY RoundUp
  <1>2. ~(USYSCALL * PGSIZE < s)
    BY Sizes DEF Limit
  <1>3. ~(USYSCALL < PGROUNDUP(s))
    BY <1>2, Sizes, RoundUp
  <1>4. PGROUNDUP(s) <= USYSCALL
    BY <1>1, <1>3, Sizes
  <1>5. ASSUME NEW v \in Nat, v * PGSIZE < s PROVE v \in UserVA
    <2>1. v < PGROUNDUP(s)
      BY <1>5, RoundUp
    <2> QED BY <1>1, <1>4, <2>1, Sizes DEF UserVA
  <1> QED BY <1>1, <1>4, <1>5

-----------------------------------------------------------------------------
(* Pages and the places that refer to them. *)

(* The places of a slot. *)
LEMMA Places ==
  /\ \A q \in Slot : \A t \in {"trapframe", "usyscall", "root"} : <<t, q, 0>> \in Loc
  /\ \A q \in Slot : \A d \in Dir : <<"dir", q, d>> \in Loc
  /\ \A q \in Slot : \A v \in UserVA : <<"user", q, v>> \in Loc
BY DEF Loc

(* There are no other places. *)
LEMMA PlaceCases ==
  ASSUME NEW x \in Loc
  PROVE  \E q \in Slot :
           \/ x = <<"trapframe", q, 0>> \/ x = <<"usyscall", q, 0>> \/ x = <<"root", q, 0>>
           \/ \E d \in Dir : x = <<"dir", q, d>>
           \/ \E v \in UserVA : x = <<"user", q, v>>
BY DEF Loc

(* The page that each has. *)
LEMMA RefAt ==
  /\ \A q \in Slot : /\ Ref[<<"trapframe", q, 0>>] = trapframe[q]
                     /\ Ref[<<"usyscall", q, 0>>] = usyscall[q]
                     /\ Ref[<<"root", q, 0>>] = root[q]
                     /\ \A d \in Dir : Ref[<<"dir", q, d>>] = dir[q][d]
                     /\ \A v \in UserVA : Ref[<<"user", q, v>>] = pte[q][v].pa
BY Places DEF Ref

(* The same after a step. *)
LEMMA RefAtNext ==
  /\ \A q \in Slot : /\ Ref'[<<"trapframe", q, 0>>] = trapframe'[q]
                     /\ Ref'[<<"usyscall", q, 0>>] = usyscall'[q]
                     /\ Ref'[<<"root", q, 0>>] = root'[q]
                     /\ \A d \in Dir : Ref'[<<"dir", q, d>>] = dir'[q][d]
                     /\ \A v \in UserVA : Ref'[<<"user", q, v>>] = pte'[q][v].pa
BY Places DEF Ref

(* kalloc() takes a page of the free list, if there is one. *)
LEMMA KallocFacts ==
  ASSUME NEW F
  PROVE  /\ F = {} => kalloc(F) = NULL
         /\ F # {} => kalloc(F) \in F
         /\ F \subseteq Page => (kalloc(F) = NULL <=> F = {})
BY Values DEF kalloc

(* A page of the free list goes to a place that had none. *)
LEMMA PageTaken ==
  ASSUME NEW ref, NEW new, NEW F, NEW K, Accounted(ref, F, K),
         NEW o \in Loc, ref[o] = NULL, NEW g \in F, new[o] = g,
         \A x \in Loc : x # o => new[x] = ref[x]
  PROVE  Accounted(new, F \ {g}, K)
  <1> USE Values DEF Accounted
  <1>1. F \ {g} \subseteq Page /\ K \subseteq Page /\ (F \ {g}) \cap K = {}
    OBVIOUS
  <1>2. \A x \in Loc : new[x] \in Page \cup {NULL} /\ new[x] \notin F \ {g} /\ new[x] \notin K
    OBVIOUS
  <1>3. \A x, y \in Loc : new[x] = new[y] /\ new[x] # NULL => x = y
    OBVIOUS
  <1>4. ASSUME NEW h \in Page PROVE h \in F \ {g} \/ h \in K \/ \E x \in Loc : new[x] = h
    <2>1. CASE h = g
      BY <2>1
    <2>2. CASE h \in F \ {g} \/ h \in K
      BY <2>2
    <2>3. CASE \E x \in Loc : ref[x] = h
      <3>1. PICK x \in Loc : ref[x] = h
        BY <2>3
      <3>2. x # o
        BY <3>1
      <3> QED BY <3>1, <3>2
    <2> QED BY <2>1, <2>2, <2>3
  <1> QED BY <1>1, <1>2, <1>3, <1>4

(* The pages of some places go back to the free list. *)
LEMMA PagesGiven ==
  ASSUME NEW ref, NEW new, NEW F, NEW K, Accounted(ref, F, K),
         NEW O \in SUBSET Loc,
         \A x \in O : new[x] = NULL,
         \A x \in Loc \ O : new[x] = ref[x]
  PROVE  Accounted(new, F \cup ({ref[x] : x \in O} \ {NULL}), K)
  <1> DEFINE G == {ref[x] : x \in O} \ {NULL}
  <1>1. G \subseteq Page /\ G \cap K = {}
    BY DEF Accounted
  <1>2. ASSUME NEW x \in Loc
        PROVE  new[x] \in Page \cup {NULL} /\ new[x] \notin F \cup G /\ new[x] \notin K
    <2>1. CASE x \in O
      BY <1>1, <2>1, Values DEF Accounted
    <2>2. CASE x \notin O
      BY <2>2 DEF Accounted
    <2> QED BY <2>1, <2>2
  <1>3. \A x, y \in Loc : new[x] = new[y] /\ new[x] # NULL => x = y
    BY DEF Accounted
  <1>4. ASSUME NEW h \in Page PROVE h \in F \cup G \/ h \in K \/ \E x \in Loc : new[x] = h
    <2>1. CASE h \in F \/ h \in K
      BY <2>1
    <2>2. CASE \E x \in Loc : ref[x] = h
      <3>1. PICK x \in Loc : ref[x] = h
        BY <2>2
      <3>2. CASE x \in O
        BY <3>1, <3>2, Values
      <3>3. CASE x \notin O
        BY <3>1, <3>3
      <3> QED BY <3>2, <3>3
    <2> QED BY <2>1, <2>2 DEF Accounted
  <1> QED BY <1>1, <1>2, <1>3, <1>4 DEF Accounted

(* The same places have the same pages. *)
LEMMA PagesKept ==
  ASSUME NEW ref, NEW new, NEW F, NEW K, Accounted(ref, F, K),
         \A x \in Loc : new[x] = ref[x]
  PROVE  Accounted(new, F, K)
BY DEF Accounted

-----------------------------------------------------------------------------
(* walk() and mappages(). *)

(* Two addresses of the same last-level table are under the same table of    *)
(* the level above.                                                          *)
LEMMA Directories ==
  /\ \A v \in VA : L1(v) \in Dir /\ L0(v) \in Dir
  /\ \A v, w \in VA : L1(v) # L0(w)
  /\ \A v, w \in VA : L0(v) = L0(w) => L1(v) = L1(w)
  <1>1. ASSUME NEW v \in VA PROVE v \div (FAN * FAN) = (v \div FAN) \div FAN
    <2> DEFINE a == v \div FAN
               b == (v \div FAN) \div FAN
               c == v \div (FAN * FAN)
    <2>1. v \in Nat /\ FAN \in Nat \ {0}
      BY Sizes, Addresses
    <2>2. FAN * FAN \in Nat \ {0}
      BY <2>1
    <2>3. a \in Nat /\ a * FAN <= v /\ v < a * FAN + FAN
      BY <2>1, DivBounds
    <2>4. b \in Nat /\ b * FAN <= a /\ a < b * FAN + FAN
      BY <2>1, <2>3, DivBounds
    <2>5. c \in Nat /\ c * (FAN * FAN) <= v /\ v < c * (FAN * FAN) + FAN * FAN
      BY <2>1, <2>2, DivBounds
    <2> HIDE DEF a, b, c
    <2>6. (b * FAN) * FAN <= a * FAN
      BY <2>1, <2>3, <2>4
    <2>7. b * (FAN * FAN) = (b * FAN) * FAN
      BY <2>1, <2>4
    <2>8. b * (FAN * FAN) <= v
      BY <2>1, <2>2, <2>3, <2>4, <2>6, <2>7
    <2>9. (a + 1) * FAN <= (b * FAN + FAN) * FAN
      BY <2>1, <2>3, <2>4
    <2>10. /\ (a + 1) * FAN = a * FAN + FAN
           /\ (b * FAN + FAN) * FAN = b * (FAN * FAN) + FAN * FAN
      BY <2>1, <2>3, <2>4
    <2>11. v < b * (FAN * FAN) + FAN * FAN
      BY <2>1, <2>2, <2>3, <2>4, <2>9, <2>10
    <2>12. ASSUME NEW x \in Nat, NEW y \in Nat, x < y,
                  y * (FAN * FAN) <= v, v < x * (FAN * FAN) + FAN * FAN
           PROVE  FALSE
      <3>1. (x + 1) * (FAN * FAN) <= y * (FAN * FAN)
        BY <2>2, <2>12
      <3>2. (x + 1) * (FAN * FAN) = x * (FAN * FAN) + FAN * FAN
        BY <2>2
      <3> QED BY <2>1, <2>2, <2>12, <3>1, <3>2
    <2>13. ~(b < c) /\ ~(c < b)
      BY <2>4, <2>5, <2>8, <2>11, <2>12
    <2> QED BY <2>4, <2>5, <2>13 DEF b, c
  <1>2. ASSUME NEW v \in VA, NEW w \in VA, L0(v) = L0(w) PROVE L1(v) = L1(w)
    BY <1>1, <1>2 DEF L0, L1
  <1> QED BY <1>2 DEF L0, L1, Dir

(* What walk() returns. *)
LEMMA WalkFacts ==
  ASSUME TypeOK, NEW q \in Slot, NEW v \in VA, NEW F \in SUBSET Page
  PROVE  /\ walk_l1(q, v, F) \in Page \cup {NULL}
         /\ walk_l0(q, v, F) \in Page \cup {NULL}
         /\ dir[q][L1(v)] # NULL => walk_l1(q, v, F) = dir[q][L1(v)]
         /\ dir[q][L1(v)] = NULL => walk_l1(q, v, F) \in F \cup {NULL}
         /\ walk_l1(q, v, F) = NULL => dir[q][L1(v)] = NULL /\ walk_l0(q, v, F) = NULL
         /\ walk_l1(q, v, F) # NULL /\ dir[q][L0(v)] # NULL =>
              walk_l0(q, v, F) = dir[q][L0(v)]
         /\ walk_l1(q, v, F) # NULL /\ dir[q][L0(v)] = NULL =>
              walk_l0(q, v, F) \in (F \ {walk_l1(q, v, F)}) \cup {NULL}
  <1>1. dir[q][L1(v)] \in Page \cup {NULL} /\ dir[q][L0(v)] \in Page \cup {NULL}
    BY Directories DEF TypeOK
  <1>2. kalloc(F) \in F \cup {NULL}
    BY KallocFacts
  <1>3. kalloc(F \ {walk_l1(q, v, F)}) \in (F \ {walk_l1(q, v, F)}) \cup {NULL}
    BY KallocFacts
  <1>4. walk_l1(q, v, F) \in Page \cup {NULL}
    BY <1>1, <1>2 DEF walk_l1
  <1>5. walk_l0(q, v, F) = IF walk_l1(q, v, F) = NULL THEN NULL
                           ELSE IF dir[q][L0(v)] # NULL THEN dir[q][L0(v)]
                           ELSE kalloc(F \ {walk_l1(q, v, F)})
    BY DEF walk_l0
  <1>6. /\ dir[q][L1(v)] # NULL => walk_l1(q, v, F) = dir[q][L1(v)]
        /\ dir[q][L1(v)] = NULL => walk_l1(q, v, F) \in F \cup {NULL}
    BY <1>2 DEF walk_l1
  <1> QED BY <1>1, <1>3, <1>4, <1>5, <1>6

(* walk() leaves every page in one place: the page-table pages it takes from *)
(* the free list stay in the table, also when the second one is missing.     *)
LEMMA WalkAccounted ==
  ASSUME TypeOK, NEW q \in Slot, NEW v \in VA, TableInv(q),
         NEW ref, NEW new, NEW F, NEW K, Accounted(ref, F, K),
         ref[<<"dir", q, L1(v)>>] = dir[q][L1(v)],
         ref[<<"dir", q, L0(v)>>] = dir[q][L0(v)],
         new = [x \in Loc |-> IF x = <<"dir", q, L1(v)>> THEN walk_l1(q, v, F)
                              ELSE IF x = <<"dir", q, L0(v)>> THEN walk_l0(q, v, F)
                              ELSE ref[x]]
  PROVE  Accounted(new, F \ {walk_l1(q, v, F), walk_l0(q, v, F)}, K)
  <1> DEFINE a == <<"dir", q, L1(v)>>
             b == <<"dir", q, L0(v)>>
             g == walk_l1(q, v, F)
             h == walk_l0(q, v, F)
             mid == [x \in Loc |-> IF x = a THEN g ELSE ref[x]]
  <1>1. a \in Loc /\ b \in Loc /\ a # b
    BY Directories, Places
  <1>2. F \in SUBSET Page
    BY DEF Accounted
  <1>3. /\ dir[q][L1(v)] # NULL => g = dir[q][L1(v)]
        /\ dir[q][L1(v)] = NULL => g \in F \cup {NULL}
        /\ g = NULL => dir[q][L1(v)] = NULL /\ h = NULL
        /\ g # NULL /\ dir[q][L0(v)] # NULL => h = dir[q][L0(v)]
        /\ g # NULL /\ dir[q][L0(v)] = NULL => h \in (F \ {g}) \cup {NULL}
    BY <1>2, WalkFacts
  <1>4. g = NULL => dir[q][L0(v)] = NULL
    BY <1>3 DEF TableInv
  <1>5. NULL \notin F
    BY <1>2, Values
  <1>6. \A x \in Loc : new[x] = IF x = a THEN g ELSE IF x = b THEN h ELSE ref[x]
    OBVIOUS
  <1>7. \A x \in Loc : mid[x] = IF x = a THEN g ELSE ref[x]
    OBVIOUS
  <1>8. ref[a] = dir[q][L1(v)] /\ ref[b] = dir[q][L0(v)] /\ ref[a] \notin F /\ ref[b] \notin F
    BY <1>1 DEF Accounted
  <1> HIDE DEF a, b, g, h, mid
  <1>9. Accounted(mid, F \ {g}, K)
    <2>1. CASE ref[a] = NULL /\ g \in F
      BY <1>1, <1>7, <2>1, PageTaken
    <2>2. CASE g = ref[a]
      <3>1. F \ {g} = F
        BY <1>8, <2>2
      <3> QED BY <1>7, <2>2, <3>1, PagesKept
    <2> QED BY <1>3, <1>8, <2>1, <2>2
  <1>10. Accounted(new, (F \ {g}) \ {h}, K)
    <2>1. CASE ref[b] = NULL /\ h \in F \ {g}
      BY <1>1, <1>6, <1>7, <1>9, <2>1, PageTaken
    <2>2. CASE h = ref[b]
      <3>1. (F \ {g}) \ {h} = F \ {g}
        BY <1>8, <2>2
      <3>2. \A x \in Loc : new[x] = mid[x]
        BY <1>1, <1>6, <1>7, <2>2
      <3> QED BY <1>9, <3>1, <3>2, PagesKept
    <2> QED BY <1>3, <1>4, <1>8, <2>1, <2>2
  <1>11. (F \ {g}) \ {h} = F \ {g, h}
    OBVIOUS
  <1> QED BY <1>10, <1>11 DEF g, h

(* What mappages() does to the table: walk() may add page-table pages, and   *)
(* the PTE is set if there are enough of them.                               *)
LEMMA MapTable ==
  ASSUME TypeOK, NEW q \in Slot, NEW v \in VA, TableInv(q), root[q] # NULL, root' = root,
         NEW F, F \subseteq Page, NEW mem, mem \subseteq Page,
         NEW flags, flags \subseteq Flags,
         NEW g, g \in Page \cup {TEXT}, v \in UserVA => g \in Page,
         mappages(q, v, g, flags, F, mem)
  PROVE  /\ free' \subseteq Page
         /\ dir' \in [Slot -> [Dir -> Page \cup {NULL}]]
         /\ pte' \in [Slot -> [VA -> [pa : Page \cup {NULL, TEXT}, flags : SUBSET Flags]]]
         /\ \A r \in Slot : r # q => dir'[r] = dir[r] /\ pte'[r] = pte[r]
         /\ \A d \in Dir : dir'[q][d] = IF d = L1(v) THEN walk_l1(q, v, F)
                                        ELSE IF d = L0(v) THEN walk_l0(q, v, F)
                                        ELSE dir[q][d]
         /\ \A w \in VA : pte'[q][w] = IF w = v /\ walk_l0(q, v, F) # NULL
                                       THEN [pa |-> g, flags |-> flags] ELSE pte[q][w]
         /\ TableInv(q)'
  <1>1. L1(v) \in Dir /\ L0(v) \in Dir /\ L1(v) # L0(v)
    BY Directories
  <1>2. walk_l1(q, v, F) \in Page \cup {NULL} /\ walk_l0(q, v, F) \in Page \cup {NULL}
    BY WalkFacts
  <1>3. dir' = [dir EXCEPT ![q][L1(v)] = walk_l1(q, v, F), ![q][L0(v)] = walk_l0(q, v, F)]
    BY DEF mappages
  <1>4. pte' = IF walk_l0(q, v, F) # NULL
               THEN [pte EXCEPT ![q][v] = [pa |-> g, flags |-> flags]] ELSE pte
    BY DEF mappages
  <1>5. free' \subseteq Page
    BY DEF mappages
  <1>6. dir \in [Slot -> [Dir -> Page \cup {NULL}]]
    BY DEF TypeOK
  <1>7. pte \in [Slot -> [VA -> [pa : Page \cup {NULL, TEXT}, flags : SUBSET Flags]]]
    BY DEF TypeOK
  <1>8. dir' \in [Slot -> [Dir -> Page \cup {NULL}]]
    BY <1>1, <1>2, <1>3, <1>6
  <1>9. \A d \in Dir : dir'[q][d] = IF d = L1(v) THEN walk_l1(q, v, F)
                                    ELSE IF d = L0(v) THEN walk_l0(q, v, F)
                                    ELSE dir[q][d]
    BY <1>1, <1>3, <1>6
  <1>10. [pa |-> g, flags |-> flags] \in [pa : Page \cup {NULL, TEXT}, flags : SUBSET Flags]
    OBVIOUS
  <1>11. pte' \in [Slot -> [VA -> [pa : Page \cup {NULL, TEXT}, flags : SUBSET Flags]]]
    BY <1>4, <1>7, <1>10
  <1>12. \A w \in VA : pte'[q][w] = IF w = v /\ walk_l0(q, v, F) # NULL
                                    THEN [pa |-> g, flags |-> flags] ELSE pte[q][w]
    BY <1>4, <1>7
  <1>13. \A r \in Slot : r # q => dir'[r] = dir[r] /\ pte'[r] = pte[r]
    BY <1>3, <1>4, <1>6, <1>7
  <1>14. TableInv(q)'
    <2>1. ASSUME NEW w \in VA, dir'[q][L0(w)] # NULL PROVE dir'[q][L1(w)] # NULL
      <3>1. L1(w) \in Dir /\ L0(w) \in Dir /\ L1(w) # L0(v) /\ L0(w) # L1(v)
        BY Directories
      <3>2. CASE L1(w) = L1(v)
        <4>1. dir'[q][L1(w)] = walk_l1(q, v, F)
          BY <1>9, <3>1, <3>2
        <4>2. CASE L0(w) = L0(v)
          BY <1>9, <1>1, <2>1, <3>1, <4>1, <4>2, WalkFacts
        <4>3. CASE L0(w) # L0(v)
          <5>1. dir[q][L0(w)] # NULL
            BY <1>9, <2>1, <3>1, <4>3
          <5>2. dir[q][L1(v)] # NULL
            BY <3>2, <5>1 DEF TableInv
          <5> QED BY <4>1, <5>2, WalkFacts
        <4> QED BY <4>2, <4>3
      <3>3. CASE L1(w) # L1(v)
        <4>1. L0(w) # L0(v)
          BY <3>3, Directories
        <4>2. dir'[q][L0(w)] = dir[q][L0(w)] /\ dir'[q][L1(w)] = dir[q][L1(w)]
          BY <1>9, <3>1, <3>3, <4>1
        <4> QED BY <2>1, <4>2 DEF TableInv
      <3> QED BY <3>2, <3>3
    <2>2. ASSUME NEW w \in UserVA, pte'[q][w] # NoPte PROVE pte'[q][w].pa \in Page
      BY <1>12, <2>2, Addresses DEF TableInv
    <2> QED BY <2>1, <2>2 DEF TableInv
  <1> QED BY <1>5, <1>8, <1>9, <1>11, <1>12, <1>13, <1>14

(* A step that changes no reference but those of one table. *)
LEMMA RefTable ==
  ASSUME NEW q \in Slot, UNCHANGED <<trapframe, usyscall, root>>,
         \A r \in Slot : r # q => dir'[r] = dir[r] /\ pte'[r] = pte[r],
         NEW x \in Loc
  PROVE  \/ Ref'[x] = Ref[x]
         \/ \E d \in Dir : x = <<"dir", q, d>> /\ Ref'[x] = dir'[q][d] /\ Ref[x] = dir[q][d]
         \/ \E v \in UserVA : x = <<"user", q, v>> /\ Ref'[x] = pte'[q][v].pa
                                                   /\ Ref[x] = pte[q][v].pa
  <1>1. PICK r \in Slot :
           \/ x = <<"trapframe", r, 0>> \/ x = <<"usyscall", r, 0>> \/ x = <<"root", r, 0>>
           \/ \E d \in Dir : x = <<"dir", r, d>>
           \/ \E v \in UserVA : x = <<"user", r, v>>
    BY PlaceCases
  <1>2. CASE x = <<"trapframe", r, 0>> \/ x = <<"usyscall", r, 0>> \/ x = <<"root", r, 0>>
    <2>1. CASE x = <<"trapframe", r, 0>>
      <3>1. Ref[x] = trapframe[r] /\ Ref'[x] = trapframe'[r]
        BY <2>1, RefAt, RefAtNext
      <3> QED BY <3>1
    <2>2. CASE x = <<"usyscall", r, 0>>
      <3>1. Ref[x] = usyscall[r] /\ Ref'[x] = usyscall'[r]
        BY <2>2, RefAt, RefAtNext
      <3> QED BY <3>1
    <2>3. CASE x = <<"root", r, 0>>
      <3>1. Ref[x] = root[r] /\ Ref'[x] = root'[r]
        BY <2>3, RefAt, RefAtNext
      <3> QED BY <3>1
    <2> QED BY <1>2, <2>1, <2>2, <2>3
  <1>3. CASE \E d \in Dir : x = <<"dir", r, d>>
    <2>1. PICK d \in Dir : x = <<"dir", r, d>>
      BY <1>3
    <2>2. Ref[x] = dir[r][d] /\ Ref'[x] = dir'[r][d]
      BY <2>1, RefAt, RefAtNext
    <2>3. CASE r = q
      BY <2>1, <2>2, <2>3
    <2>4. CASE r # q
      BY <2>2, <2>4
    <2> QED BY <2>3, <2>4
  <1>4. CASE \E v \in UserVA : x = <<"user", r, v>>
    <2>1. PICK v \in UserVA : x = <<"user", r, v>>
      BY <1>4
    <2>2. Ref[x] = pte[r][v].pa /\ Ref'[x] = pte'[r][v].pa
      BY <2>1, RefAt, RefAtNext
    <2>3. CASE r = q
      BY <2>1, <2>2, <2>3
    <2>4. CASE r # q
      BY <2>2, <2>4
    <2> QED BY <2>3, <2>4
  <1> QED BY <1>1, <1>2, <1>3, <1>4

(* mappages() of a page that is not the program's own keeps every page in    *)
(* its place.                                                                *)
LEMMA MapFixed ==
  ASSUME TypeOK, Accounted(Ref, free, Kernel),
         NEW q \in Slot, NEW v \in VA \ UserVA, TableInv(q), root[q] # NULL,
         NEW flags \in SUBSET Flags, NEW g \in Page \cup {TEXT},
         mappages(q, v, g, flags, free, {}),
         UNCHANGED <<trapframe, usyscall, root, data>>
  PROVE  Accounted(Ref, free, Kernel)'
  <1> DEFINE a == <<"dir", q, L1(v)>>
             b == <<"dir", q, L0(v)>>
             new == [x \in Loc |-> IF x = a THEN walk_l1(q, v, free)
                                   ELSE IF x = b THEN walk_l0(q, v, free) ELSE Ref[x]]
  <1>1. free \in SUBSET Page
    BY DEF TypeOK
  <1>2. Accounted(new, free \ {walk_l1(q, v, free), walk_l0(q, v, free)}, Kernel)
    <2>1. Ref[a] = dir[q][L1(v)] /\ Ref[b] = dir[q][L0(v)]
      BY RefAt, Directories
    <2> QED BY <2>1, WalkAccounted
  <1>3. /\ \A r \in Slot : r # q => dir'[r] = dir[r] /\ pte'[r] = pte[r]
        /\ \A d \in Dir : dir'[q][d] = IF d = L1(v) THEN walk_l1(q, v, free)
                                       ELSE IF d = L0(v) THEN walk_l0(q, v, free)
                                       ELSE dir[q][d]
        /\ \A w \in VA : w # v => pte'[q][w] = pte[q][w]
    <2> DEFINE none == {}
    <2>1. /\ v \in VA /\ (v \in UserVA => g \in Page) /\ root' = root
          /\ none \subseteq Page /\ free \subseteq Page /\ flags \subseteq Flags
          /\ g \in Page \cup {TEXT}
          /\ mappages(q, v, g, flags, free, none)
      BY <1>1
    <2> HIDE DEF none
    <2>2. \A r \in Slot : r # q => dir'[r] = dir[r] /\ pte'[r] = pte[r]
      BY <2>1, MapTable
    <2>3. \A d \in Dir : dir'[q][d] = IF d = L1(v) THEN walk_l1(q, v, free)
                                     ELSE IF d = L0(v) THEN walk_l0(q, v, free)
                                     ELSE dir[q][d]
      BY <2>1, MapTable
    <2>4. \A w \in VA : pte'[q][w] = IF w = v /\ walk_l0(q, v, free) # NULL
                                   THEN [pa |-> g, flags |-> flags] ELSE pte[q][w]
      BY <2>1, MapTable
    <2> QED BY <2>2, <2>3, <2>4
  <1>4. ASSUME NEW x \in Loc PROVE Ref'[x] = new[x]
    <2>1. CASE \E d \in Dir : x = <<"dir", q, d>>
      <3>1. PICK d \in Dir : x = <<"dir", q, d>>
        BY <2>1
      <3>2. Ref'[x] = dir'[q][d] /\ Ref[x] = dir[q][d]
        BY <3>1, RefAt, RefAtNext
      <3>3. (x = a <=> d = L1(v)) /\ (x = b <=> d = L0(v))
        BY <3>1
      <3> QED BY <1>3, <3>2, <3>3
    <2>2. CASE ~ \E d \in Dir : x = <<"dir", q, d>>
      <3>1. x # a /\ x # b
        BY <2>2, Directories
      <3>2. Ref'[x] = Ref[x]
        BY <1>3, <2>2, RefTable, Addresses
      <3> QED BY <3>1, <3>2
    <2> QED BY <2>1, <2>2
  <1>5. free' = free \ {walk_l1(q, v, free), walk_l0(q, v, free)}
    BY DEF mappages
  <1>6. Kernel' = Kernel
    BY DEF Kernel
  <1> HIDE DEF new
  <1>7. Accounted(Ref', free', Kernel')
    BY <1>2, <1>4, <1>5, <1>6, PagesKept
  <1> QED BY <1>7 DEF Accounted

(* A page is allocated, filled and mapped for the program, or everything but *)
(* the new page-table pages is as before.                                    *)
LEMMA MapUser ==
  ASSUME TypeOK, Accounted(Ref, free, Kernel), ~panicked,
         NEW q \in Slot, NEW v \in UserVA, TableInv(q), root[q] # NULL,
         pte[q][v] = NoPte,
         NEW flags \in SUBSET Flags, NEW d \in Int, d # KERNEL,
         MapPage(q, v, flags, d),
         UNCHANGED <<trapframe, usyscall, root>>
  PROVE  /\ free' \subseteq Page
         /\ data' \in [Page -> Int]
         /\ dir' \in [Slot -> [Dir -> Page \cup {NULL}]]
         /\ pte' \in [Slot -> [VA -> [pa : Page \cup {NULL, TEXT}, flags : SUBSET Flags]]]
         /\ panicked' = FALSE
         /\ Accounted(Ref, free, Kernel)'
         /\ \A r \in Slot : r # q => dir'[r] = dir[r] /\ pte'[r] = pte[r]
         /\ \A w \in VA : w # v => pte'[q][w] = pte[q][w]
         /\ \A x \in Loc : Ref[x] # NULL => data'[Ref[x]] = data[Ref[x]]
         /\ TableInv(q)'
         /\ MapFails(q, v) => pte'[q][v] = NoPte
         /\ ~MapFails(q, v) => /\ pte'[q][v].pa \in Page /\ pte'[q][v].flags = flags
                               /\ pte'[q][v] # NoPte
                               /\ data'[pte'[q][v].pa] = d
  <1>1. CASE free = {}
    <2>1. UNCHANGED <<data, free, dir, pte, panicked>>
      BY <1>1 DEF MapPage, kalloc, table
    <2>2. MapFails(q, v)
      BY <1>1 DEF MapFails
    <2>3. \A x \in Loc : Ref'[x] = Ref[x]
      BY <2>1, RefTable
    <2>4. Kernel' = Kernel
      BY <2>1 DEF Kernel
    <2>5. Accounted(Ref', free', Kernel')
      BY <2>1, <2>3, <2>4, PagesKept
    <2>6. Accounted(Ref, free, Kernel)'
      BY <2>5 DEF Accounted
    <2>7. TableInv(q)'
      BY <2>1 DEF TableInv
    <2> QED BY <2>1, <2>2, <2>6, <2>7 DEF TypeOK
  <1>2. CASE free # {}
    <2> DEFINE mem == kalloc(free)
               F == free \ {mem}
               a == <<"dir", q, L1(v)>>
               b == <<"dir", q, L0(v)>>
               u == <<"user", q, v>>
               g == walk_l1(q, v, F)
               h == walk_l0(q, v, F)
               one == [x \in Loc |-> IF x = u THEN mem ELSE Ref[x]]
               new == [x \in Loc |-> IF x = a THEN g ELSE IF x = b THEN h ELSE one[x]]
    <2>1. mem \in free /\ mem \in Page /\ mem # NULL /\ F \in SUBSET Page
      BY <1>2, KallocFacts, Values DEF TypeOK
    <2>2. /\ mappages(q, v, mem, flags, F, {mem})
          /\ data' = [data EXCEPT ![mem] = IF MapFails(q, v) THEN JUNK ELSE d]
      BY <2>1 DEF MapPage
    <2>3. MapFails(q, v) <=> h = NULL
      BY <1>2 DEF MapFails
    <2>4. v \in VA /\ u \in Loc /\ Ref[u] = NULL
      BY Addresses, Places, RefAt, Values
    <2>5. Accounted(one, F, Kernel)
      BY <2>1, <2>4, PageTaken
    <2>6. /\ u # a /\ u # b
          /\ one[a] = dir[q][L1(v)] /\ one[b] = dir[q][L0(v)]
      BY <2>4, Directories, Places, RefAt
    <2>7. Accounted(new, F \ {g, h}, Kernel)
      <3>1. new = [x \in Loc |-> IF x = <<"dir", q, L1(v)>> THEN walk_l1(q, v, F)
                                 ELSE IF x = <<"dir", q, L0(v)>> THEN walk_l0(q, v, F)
                                 ELSE one[x]]
        OBVIOUS
      <3>2. one[<<"dir", q, L1(v)>>] = dir[q][L1(v)] /\ one[<<"dir", q, L0(v)>>] = dir[q][L0(v)]
        BY <2>6
      <3> HIDE DEF new, one, F, mem, u, a, b
      <3> QED BY <2>4, <2>5, <3>1, <3>2, WalkAccounted
    <2>8. /\ free' \subseteq Page
          /\ dir' \in [Slot -> [Dir -> Page \cup {NULL}]]
          /\ pte' \in [Slot -> [VA -> [pa : Page \cup {NULL, TEXT}, flags : SUBSET Flags]]]
          /\ \A r \in Slot : r # q => dir'[r] = dir[r] /\ pte'[r] = pte[r]
          /\ \A e \in Dir : dir'[q][e] = IF e = L1(v) THEN g
                                         ELSE IF e = L0(v) THEN h ELSE dir[q][e]
          /\ \A w \in VA : pte'[q][w] = IF w = v /\ h # NULL
                                        THEN [pa |-> mem, flags |-> flags] ELSE pte[q][w]
          /\ TableInv(q)'
      BY <2>1, <2>2, <2>4, MapTable
    <2>9. free' = (F \ {g, h}) \cup (IF h # NULL THEN {} ELSE {mem})
      BY <2>2 DEF mappages
    <2>10. panicked' = FALSE
      BY <2>2 DEF mappages
    <2>11. data' \in [Page -> Int] /\ data'[mem] = IF MapFails(q, v) THEN JUNK ELSE d
      BY <2>1, <2>2, Values DEF TypeOK
    <2>12. \A k \in Page : k # mem => data'[k] = data[k]
      BY <2>1, <2>2 DEF TypeOK
    <2>13. Kernel' = Kernel
      <3>1. mem \notin Kernel
        BY <2>1 DEF Accounted
      <3> QED BY <2>1, <2>11, <2>12, <3>1, Values DEF Kernel
    <2>14. \A x \in Loc : Ref[x] # NULL => data'[Ref[x]] = data[Ref[x]]
      BY <2>1, <2>12 DEF Accounted
    <2>15. pte'[q][v] = IF h # NULL THEN [pa |-> mem, flags |-> flags] ELSE NoPte
      BY <2>4, <2>8
    <2>16. ASSUME NEW x \in Loc
           PROVE  Ref'[x] = IF x = u /\ h = NULL THEN NULL ELSE new[x]
      <3>1. CASE \E e \in Dir : x = <<"dir", q, e>>
        <4>1. PICK e \in Dir : x = <<"dir", q, e>>
          BY <3>1
        <4>2. Ref'[x] = dir'[q][e] /\ Ref[x] = dir[q][e] /\ x # u
          BY <4>1, RefAt, RefAtNext
        <4>3. (x = a <=> e = L1(v)) /\ (x = b <=> e = L0(v))
          BY <4>1
        <4> QED BY <2>8, <4>2, <4>3
      <3>2. CASE x = u
        <4>1. Ref'[x] = pte'[q][v].pa
          BY <3>2, RefAtNext
        <4> QED BY <2>6, <2>15, <3>2, <4>1, Values
      <3>3. CASE x # u /\ ~ \E e \in Dir : x = <<"dir", q, e>>
        <4>1. x # a /\ x # b
          BY <3>3, <2>4, Directories
        <4>2. Ref'[x] = Ref[x]
          <5>1. \A w \in UserVA : x = <<"user", q, w>> => w # v
            BY <3>3
          <5>2. \A w \in UserVA : x = <<"user", q, w>> => pte'[q][w] = pte[q][w]
            BY <2>8, <5>1, Addresses
          <5>3. \/ Ref'[x] = Ref[x]
                \/ \E e \in Dir : x = <<"dir", q, e>>
                \/ \E w \in UserVA : /\ x = <<"user", q, w>>
                                     /\ Ref'[x] = pte'[q][w].pa /\ Ref[x] = pte[q][w].pa
            BY <2>8, RefTable
          <5> QED BY <3>3, <5>2, <5>3
        <4> QED BY <3>3, <4>1, <4>2
      <3> QED BY <3>1, <3>2, <3>3
    <2>17. new[u] = mem
      BY <2>4, <2>6
    <2> HIDE DEF new, one, u, a, b, g, h, mem, F
    <2>18. Accounted(Ref', free', Kernel)
      <3>1. CASE h # NULL
        <4>1. \A x \in Loc : Ref'[x] = new[x]
          BY <2>16, <3>1
        <4> QED BY <2>7, <2>9, <3>1, <4>1, PagesKept
      <3>2. CASE h = NULL
        <4>1. \A x \in {u} : Ref'[x] = NULL
          BY <2>4, <2>16, <3>2
        <4>2. \A x \in Loc \ {u} : Ref'[x] = new[x]
          BY <2>16
        <4>3. Accounted(Ref', (F \ {g, h}) \cup ({new[x] : x \in {u}} \ {NULL}), Kernel)
          <5>1. {u} \in SUBSET Loc
            BY <2>4
          <5> QED BY <2>7, <4>1, <4>2, <5>1, PagesGiven
        <4>4. {new[x] : x \in {u}} \ {NULL} = {mem}
          BY <2>1, <2>17
        <4> QED BY <2>9, <3>2, <4>3, <4>4
      <3> QED BY <3>1, <3>2
    <2>19. Accounted(Ref, free, Kernel)'
      BY <2>13, <2>18 DEF Accounted
    <2>20. ~MapFails(q, v) =>
             /\ pte'[q][v].pa \in Page /\ pte'[q][v].flags = flags
             /\ pte'[q][v] # NoPte /\ data'[pte'[q][v].pa] = d
      BY <2>1, <2>3, <2>11, <2>15, Values
    <2>21. MapFails(q, v) => pte'[q][v] = NoPte
      BY <2>3, <2>15
    <2>22. \A w \in VA : w # v => pte'[q][w] = pte[q][w]
      BY <2>8
    <2> QED BY <2>8, <2>10, <2>11, <2>14, <2>19, <2>20, <2>21, <2>22
  <1> QED BY <1>1, <1>2

-----------------------------------------------------------------------------
(* kfree() and what is made of it. *)

(* The pages of some places are freed; the others keep their contents. *)
LEMMA GiveBack ==
  ASSUME TypeOK, Accounted(Ref, free, Kernel),
         NEW O, O \subseteq Loc, NEW G, G = {Ref[x] : x \in O} \ {NULL},
         free' = free \cup G, data' = Junked(G),
         \A x \in O : Ref'[x] = NULL,
         \A x \in Loc \ O : Ref'[x] = Ref[x]
  PROVE  /\ free' \subseteq Page /\ data' \in [Page -> Int]
         /\ Accounted(Ref, free, Kernel)'
         /\ \A x \in Loc \ O : Ref[x] # NULL => data'[Ref[x]] = data[Ref[x]]
  <1>1. G \subseteq Page /\ G \cap Kernel = {}
    BY DEF Accounted
  <1>2. \A g \in Page : data'[g] = IF g \in G THEN JUNK ELSE data[g]
    BY DEF Junked
  <1>3. data' \in [Page -> Int]
    <2>1. \A g \in Page : data[g] \in Int
      BY DEF TypeOK
    <2> QED BY <2>1, Values DEF Junked
  <1>4. Kernel' = Kernel
    BY <1>1, <1>2, Values DEF Kernel
  <1>5. Accounted(Ref', free \cup G, Kernel)
    <2>1. O \in SUBSET Loc
      OBVIOUS
    <2> QED BY <2>1, PagesGiven
  <1>6. Accounted(Ref, free, Kernel)'
    BY <1>4, <1>5 DEF Accounted
  <1>7. ASSUME NEW x \in Loc \ O, Ref[x] # NULL PROVE data'[Ref[x]] = data[Ref[x]]
    <2>1. Ref[x] \in Page /\ Ref[x] \notin G
      BY <1>7 DEF Accounted
    <2> QED BY <1>2, <2>1
  <1>8. free' \subseteq Page
    BY <1>1 DEF TypeOK
  <1> QED BY <1>3, <1>6, <1>7, <1>8

(* uvmunmap() of pages of the program. *)
LEMMA Unmap ==
  ASSUME TypeOK, Accounted(Ref, free, Kernel),
         NEW q \in Slot, NEW V, V \subseteq UserVA, TableInv(q),
         uvmunmap(q, V), UNCHANGED <<trapframe, usyscall, root, dir>>
  PROVE  /\ free' \subseteq Page /\ data' \in [Page -> Int]
         /\ pte' \in [Slot -> [VA -> [pa : Page \cup {NULL, TEXT}, flags : SUBSET Flags]]]
         /\ Accounted(Ref, free, Kernel)'
         /\ \A r \in Slot : r # q => pte'[r] = pte[r]
         /\ \A v \in VA : pte'[q][v] = IF v \in V THEN NoPte ELSE pte[q][v]
         /\ \A x \in Loc \ {<<"user", q, v>> : v \in V} :
              Ref[x] # NULL => data'[Ref[x]] = data[Ref[x]]
         /\ TableInv(q)'
  <1> DEFINE O == {<<"user", q, v>> : v \in V}
             G == Mapped(q, V)
  <1>1. pte \in [Slot -> [VA -> [pa : Page \cup {NULL, TEXT}, flags : SUBSET Flags]]]
    BY DEF TypeOK
  <1>2. pte' = [pte EXCEPT ![q] = [v \in VA |-> IF v \in V THEN NoPte ELSE pte[q][v]]]
    BY <1>1 DEF uvmunmap
  <1>3. NoPte \in [pa : Page \cup {NULL, TEXT}, flags : SUBSET Flags]
    BY DEF NoPte
  <1>4. pte' \in [Slot -> [VA -> [pa : Page \cup {NULL, TEXT}, flags : SUBSET Flags]]]
    BY <1>1, <1>2, <1>3
  <1>5. \A r \in Slot : r # q => pte'[r] = pte[r]
    BY <1>1, <1>2
  <1>6. \A v \in VA : pte'[q][v] = IF v \in V THEN NoPte ELSE pte[q][v]
    BY <1>1, <1>2
  <1>7. O \subseteq Loc
    BY Places
  <1>8. G = {Ref[x] : x \in O} \ {NULL}
    <2>1. \A v \in V : Ref[<<"user", q, v>>] = pte[q][v].pa
      BY RefAt
    <2> QED BY <2>1 DEF Mapped
  <1>9. \A x \in O : Ref'[x] = NULL
    <2>1. ASSUME NEW v \in V PROVE Ref'[<<"user", q, v>>] = NULL
      <3>1. v \in UserVA /\ v \in VA
        BY Addresses
      <3>2. pte'[q][v] = NoPte
        BY <1>6, <3>1
      <3>3. Ref'[<<"user", q, v>>] = pte'[q][v].pa
        BY <3>1, RefAtNext
      <3> QED BY <3>2, <3>3, Values
    <2> QED BY <2>1
  <1>10. ASSUME NEW x \in Loc \ O PROVE Ref'[x] = Ref[x]
    <2>1. \/ Ref'[x] = Ref[x]
          \/ \E d \in Dir : Ref'[x] = dir'[q][d] /\ Ref[x] = dir[q][d]
          \/ \E v \in UserVA : /\ x = <<"user", q, v>>
                               /\ Ref'[x] = pte'[q][v].pa /\ Ref[x] = pte[q][v].pa
      BY <1>5, RefTable
    <2>2. \A v \in UserVA : x = <<"user", q, v>> => pte'[q][v] = pte[q][v]
      BY <1>6, Addresses
    <2> QED BY <2>1, <2>2
  <1>11. free' = free \cup G /\ data' = Junked(G)
    BY DEF uvmunmap
  <1> HIDE DEF O, G
  <1>12. /\ free' \subseteq Page /\ data' \in [Page -> Int]
         /\ Accounted(Ref, free, Kernel)'
         /\ \A x \in Loc \ O : Ref[x] # NULL => data'[Ref[x]] = data[Ref[x]]
    BY <1>7, <1>8, <1>9, <1>10, <1>11, GiveBack
  <1>13. TableInv(q)'
    BY <1>6, Addresses DEF TableInv
  <1> QED BY <1>4, <1>5, <1>6, <1>12, <1>13 DEF O

(* The places of one slot. *)
OfSlot(q) == {x \in Loc : x[2] = q}

(* Its page-table pages. *)
OfTable(q) == {x \in Loc : x[2] = q /\ x[1] \in {"root", "dir"}}

(* The pages of the table of q. *)
LEMMA TableRefs ==
  ASSUME NEW q \in Slot
  PROVE  TablePages(q) = {Ref[x] : x \in OfTable(q)} \ {NULL}
  <1>1. ASSUME NEW x \in OfTable(q) PROVE Ref[x] \in {root[q]} \cup {dir[q][d] : d \in Dir}
    <2>1. x = <<"root", q, 0>> \/ \E d \in Dir : x = <<"dir", q, d>>
      BY PlaceCases DEF OfTable
    <2>2. CASE x = <<"root", q, 0>>
      BY <2>2, RefAt
    <2>3. CASE \E d \in Dir : x = <<"dir", q, d>>
      <3>1. PICK d \in Dir : x = <<"dir", q, d>>
        BY <2>3
      <3>2. Ref[x] = dir[q][d]
        BY <3>1, RefAt
      <3> QED BY <3>2
    <2> QED BY <2>1, <2>2, <2>3
  <1>2. \E x \in OfTable(q) : root[q] = Ref[x]
    <2>1. <<"root", q, 0>> \in OfTable(q)
      BY Places DEF OfTable
    <2> QED BY <2>1, RefAt
  <1>3. ASSUME NEW d \in Dir PROVE \E x \in OfTable(q) : dir[q][d] = Ref[x]
    <2>1. <<"dir", q, d>> \in OfTable(q)
      BY Places DEF OfTable
    <2> QED BY <2>1, RefAt
  <1> QED BY <1>1, <1>2, <1>3 DEF TablePages

(* freewalk() of a table of which only the PTEs at V are valid. *)
LEMMA TableFreed ==
  ASSUME TypeOK, NEW q \in Slot, NEW V, freewalk(q, V),
         \A v \in VA \ V : pte[q][v] = NoPte
  PROVE  /\ dir' \in [Slot -> [Dir -> Page \cup {NULL}]]
         /\ pte' \in [Slot -> [VA -> [pa : Page \cup {NULL, TEXT}, flags : SUBSET Flags]]]
         /\ root' \in [Slot -> Page \cup {NULL}]
         /\ panicked' = FALSE
         /\ \A r \in Slot : r # q => dir'[r] = dir[r] /\ pte'[r] = pte[r] /\ root'[r] = root[r]
         /\ root'[q] = NULL
         /\ \A d \in Dir : dir'[q][d] = NULL
         /\ \A v \in VA : pte'[q][v] = NoPte
         /\ TableInv(q)'
  <1>1. /\ dir \in [Slot -> [Dir -> Page \cup {NULL}]]
        /\ pte \in [Slot -> [VA -> [pa : Page \cup {NULL, TEXT}, flags : SUBSET Flags]]]
        /\ root \in [Slot -> Page \cup {NULL}]
    BY DEF TypeOK
  <1>2. NoPte \in [pa : Page \cup {NULL, TEXT}, flags : SUBSET Flags]
    BY DEF NoPte
  <1>3. dir' = [dir EXCEPT ![q] = [d \in Dir |-> NULL]]
    BY DEF freewalk
  <1>4. pte' = [pte EXCEPT ![q] = [v \in VA |-> NoPte]]
    BY DEF freewalk
  <1>5. root' = [root EXCEPT ![q] = NULL]
    BY DEF freewalk
  <1>6. panicked' = FALSE
    BY DEF freewalk
  <1>7. dir' \in [Slot -> [Dir -> Page \cup {NULL}]]
    BY <1>1, <1>3
  <1>8. pte' \in [Slot -> [VA -> [pa : Page \cup {NULL, TEXT}, flags : SUBSET Flags]]]
    BY <1>1, <1>2, <1>4
  <1>9. root' \in [Slot -> Page \cup {NULL}]
    BY <1>1, <1>5
  <1>10. \A r \in Slot : r # q => dir'[r] = dir[r] /\ pte'[r] = pte[r] /\ root'[r] = root[r]
    BY <1>1, <1>3, <1>4, <1>5
  <1>11. /\ root'[q] = NULL
         /\ \A d \in Dir : dir'[q][d] = NULL
         /\ \A v \in VA : pte'[q][v] = NoPte
    BY <1>1, <1>3, <1>4, <1>5
  <1>12. TableInv(q)'
    BY <1>11, Directories, Addresses DEF TableInv
  <1> QED BY <1>6, <1>7, <1>8, <1>9, <1>10, <1>11, <1>12

(* A failed proc_pagetable() gives back the pages of its table. *)
LEMMA TableGiven ==
  ASSUME TypeOK, Accounted(Ref, free, Kernel), NEW q \in Slot, NEW V,
         freewalk(q, V), NoUser(q), \A v \in VA \ V : pte[q][v] = NoPte,
         free' = free \cup TablePages(q), data' = Junked(TablePages(q)),
         UNCHANGED <<trapframe, usyscall>>
  PROVE  /\ free' \subseteq Page /\ data' \in [Page -> Int]
         /\ Accounted(Ref, free, Kernel)'
         /\ \A x \in Loc \ OfTable(q) : Ref[x] # NULL => data'[Ref[x]] = data[Ref[x]]
  <1>1. OfTable(q) \subseteq Loc
    BY DEF OfTable
  <1>2. /\ \A r \in Slot : r # q => dir'[r] = dir[r] /\ pte'[r] = pte[r] /\ root'[r] = root[r]
        /\ root'[q] = NULL
        /\ \A d \in Dir : dir'[q][d] = NULL
        /\ \A v \in VA : pte'[q][v] = NoPte
    BY TableFreed
  <1>3. ASSUME NEW x \in OfTable(q) PROVE Ref'[x] = NULL
    <2>1. x = <<"root", q, 0>> \/ \E d \in Dir : x = <<"dir", q, d>>
      BY PlaceCases DEF OfTable
    <2>2. CASE x = <<"root", q, 0>>
      BY <1>2, <2>2, RefAtNext
    <2>3. CASE \E d \in Dir : x = <<"dir", q, d>>
      <3>1. PICK d \in Dir : x = <<"dir", q, d>>
        BY <2>3
      <3>2. Ref'[x] = dir'[q][d]
        BY <3>1, RefAtNext
      <3> QED BY <1>2, <3>2
    <2> QED BY <2>1, <2>2, <2>3
  <1>4. ASSUME NEW x \in Loc \ OfTable(q) PROVE Ref'[x] = Ref[x]
    <2>1. PICK r \in Slot :
           \/ x = <<"trapframe", r, 0>> \/ x = <<"usyscall", r, 0>> \/ x = <<"root", r, 0>>
           \/ \E d \in Dir : x = <<"dir", r, d>>
           \/ \E v \in UserVA : x = <<"user", r, v>>
      BY PlaceCases
    <2>2. CASE x = <<"trapframe", r, 0>>
      <3>1. Ref[x] = trapframe[r] /\ Ref'[x] = trapframe'[r]
        BY <2>2, RefAt, RefAtNext
      <3> QED BY <3>1
    <2>3. CASE x = <<"usyscall", r, 0>>
      <3>1. Ref[x] = usyscall[r] /\ Ref'[x] = usyscall'[r]
        BY <2>3, RefAt, RefAtNext
      <3> QED BY <3>1
    <2>4. CASE x = <<"root", r, 0>>
      <3>1. Ref[x] = root[r] /\ Ref'[x] = root'[r]
        BY <2>4, RefAt, RefAtNext
      <3>2. r # q
        BY <2>4 DEF OfTable
      <3> QED BY <1>2, <3>1, <3>2
    <2>5. CASE \E d \in Dir : x = <<"dir", r, d>>
      <3>1. PICK d \in Dir : x = <<"dir", r, d>>
        BY <2>5
      <3>2. Ref[x] = dir[r][d] /\ Ref'[x] = dir'[r][d]
        BY <3>1, RefAt, RefAtNext
      <3>3. r # q
        BY <3>1 DEF OfTable
      <3> QED BY <1>2, <3>2, <3>3
    <2>6. CASE \E v \in UserVA : x = <<"user", r, v>>
      <3>1. PICK v \in UserVA : x = <<"user", r, v>>
        BY <2>6
      <3>2. Ref[x] = pte[r][v].pa /\ Ref'[x] = pte'[r][v].pa
        BY <3>1, RefAt, RefAtNext
      <3>3. pte'[r][v] = pte[r][v]
        BY <1>2, Addresses DEF NoUser
      <3> QED BY <3>2, <3>3
    <2> QED BY <2>1, <2>2, <2>3, <2>4, <2>5, <2>6
  <1> QED BY <1>1, <1>3, <1>4, TableRefs, GiveBack

(* freeproc() gives back everything that hangs from the slot. *)
LEMMA SlotGiven ==
  ASSUME TypeOK, Accounted(Ref, free, Kernel), ~panicked, NEW q \in Slot, TableInv(q),
         freeproc(q), \A v \in UserVA : pte[q][v] # NoPte => v \in BelowSz(q)
  PROVE  /\ free' \subseteq Page /\ data' \in [Page -> Int]
         /\ dir' \in [Slot -> [Dir -> Page \cup {NULL}]]
         /\ pte' \in [Slot -> [VA -> [pa : Page \cup {NULL, TEXT}, flags : SUBSET Flags]]]
         /\ root' \in [Slot -> Page \cup {NULL}]
         /\ panicked' = FALSE
         /\ Accounted(Ref, free, Kernel)'
         /\ \A r \in Slot : r # q => dir'[r] = dir[r] /\ pte'[r] = pte[r] /\ root'[r] = root[r]
         /\ root'[q] = NULL
         /\ \A x \in Loc \ OfSlot(q) : Ref[x] # NULL => data'[Ref[x]] = data[Ref[x]]
         /\ TableInv(q)'
  <1> DEFINE gone == ({trapframe[q], usyscall[q]} \ {NULL})
                       \cup (IF root[q] = NULL THEN {}
                             ELSE Mapped(q, BelowSz(q) \ Fixed) \cup TablePages(q))
  <1>1. free' = free \cup gone /\ data' = Junked(gone)
    BY DEF freeproc
  <1>2. /\ trapframe' = [trapframe EXCEPT ![q] = NULL]
        /\ usyscall' = [usyscall EXCEPT ![q] = NULL]
        /\ trapframe \in [Slot -> Page \cup {NULL}]
        /\ usyscall \in [Slot -> Page \cup {NULL}]
    BY DEF freeproc, TypeOK
  <1>3. \A v \in VA \ (Fixed \cup BelowSz(q)) : pte[q][v] = NoPte
    BY Addresses
  <1>4. /\ dir' \in [Slot -> [Dir -> Page \cup {NULL}]]
        /\ pte' \in [Slot -> [VA -> [pa : Page \cup {NULL, TEXT}, flags : SUBSET Flags]]]
        /\ root' \in [Slot -> Page \cup {NULL}]
        /\ panicked' = FALSE
        /\ \A r \in Slot : r # q => dir'[r] = dir[r] /\ pte'[r] = pte[r] /\ root'[r] = root[r]
        /\ root'[q] = NULL
        /\ \A d \in Dir : dir'[q][d] = NULL
        /\ \A v \in VA : pte'[q][v] = NoPte
        /\ TableInv(q)'
    <2>1. CASE root[q] = NULL
      <3>1. UNCHANGED <<dir, pte, root, panicked>>
        BY <2>1 DEF freeproc
      <3>2. TableInv(q)'
        BY <3>1 DEF TableInv
      <3>3. (\A d \in Dir : dir[q][d] = NULL) /\ (\A v \in VA : pte[q][v] = NoPte)
        BY <2>1 DEF TableInv
      <3> QED BY <2>1, <3>1, <3>2, <3>3 DEF TypeOK
    <2>2. CASE root[q] # NULL
      <3>1. freewalk(q, Fixed \cup BelowSz(q))
        BY <2>2 DEF freeproc
      <3> QED BY <1>3, <3>1, TableFreed
    <2> QED BY <2>1, <2>2
  <1>5. ASSUME NEW x \in OfSlot(q)
        PROVE  \/ x = <<"trapframe", q, 0>> \/ x = <<"usyscall", q, 0>>
               \/ x \in OfTable(q)
               \/ \E v \in UserVA : x = <<"user", q, v>>
    <2>1. PICK r \in Slot :
           \/ x = <<"trapframe", r, 0>> \/ x = <<"usyscall", r, 0>> \/ x = <<"root", r, 0>>
           \/ \E d \in Dir : x = <<"dir", r, d>>
           \/ \E v \in UserVA : x = <<"user", r, v>>
      BY PlaceCases DEF OfSlot
    <2>2. r = q
      BY <2>1 DEF OfSlot
    <2>3. CASE x = <<"root", q, 0>> \/ \E d \in Dir : x = <<"dir", q, d>>
      BY <2>3 DEF OfTable, OfSlot
    <2> QED BY <2>1, <2>2, <2>3
  <1>6. \A v \in UserVA : v \notin BelowSz(q) \ Fixed => pte[q][v].pa = NULL
    BY Addresses, Values
  <1>7. gone = {Ref[x] : x \in OfSlot(q)} \ {NULL}
    <2>1. ASSUME NEW g \in gone PROVE \E x \in OfSlot(q) : Ref[x] = g /\ g # NULL
      <3>1. CASE g = trapframe[q] /\ g # NULL
        <4>1. <<"trapframe", q, 0>> \in OfSlot(q)
          BY Places DEF OfSlot
        <4> QED BY <3>1, <4>1, RefAt
      <3>2. CASE g = usyscall[q] /\ g # NULL
        <4>1. <<"usyscall", q, 0>> \in OfSlot(q)
          BY Places DEF OfSlot
        <4> QED BY <3>2, <4>1, RefAt
      <3>3. CASE g \in Mapped(q, BelowSz(q) \ Fixed)
        <4>1. PICK v \in BelowSz(q) \ Fixed : g = pte[q][v].pa /\ g # NULL
          BY <3>3 DEF Mapped
        <4>2. v \in UserVA
          BY Addresses DEF BelowSz
        <4>3. <<"user", q, v>> \in OfSlot(q) /\ Ref[<<"user", q, v>>] = g
          BY <4>1, <4>2, Places, RefAt DEF OfSlot
        <4> QED BY <4>1, <4>3
      <3>4. CASE g \in TablePages(q)
        BY <3>4, TableRefs DEF OfTable, OfSlot
      <3>5. g \in TablePages(q) => g # NULL
        BY DEF TablePages
      <3> QED BY <3>1, <3>2, <3>3, <3>4
    <2>2. ASSUME NEW x \in OfSlot(q), Ref[x] # NULL PROVE Ref[x] \in gone
      <3>1. CASE x = <<"trapframe", q, 0>>
        BY <2>2, <3>1, RefAt
      <3>2. CASE x = <<"usyscall", q, 0>>
        BY <2>2, <3>2, RefAt
      <3>3. CASE x \in OfTable(q)
        <4>1. Ref[x] \in TablePages(q)
          BY <2>2, <3>3, TableRefs
        <4>2. root[q] # NULL
          BY <4>1 DEF TableInv, TablePages
        <4> QED BY <4>1, <4>2
      <3>4. CASE \E v \in UserVA : x = <<"user", q, v>>
        <4>1. PICK v \in UserVA : x = <<"user", q, v>>
          BY <3>4
        <4>2. Ref[x] = pte[q][v].pa
          BY <4>1, RefAt
        <4>3. v \in BelowSz(q) \ Fixed
          BY <1>6, <2>2, <4>2
        <4>4. root[q] # NULL
          BY <2>2, <4>2, Addresses, Values DEF TableInv
        <4>5. Ref[x] \in Mapped(q, BelowSz(q) \ Fixed)
          BY <2>2, <4>2, <4>3 DEF Mapped
        <4> QED BY <4>4, <4>5
      <3> QED BY <1>5, <2>2, <3>1, <3>2, <3>3, <3>4
    <2> HIDE DEF gone
    <2> QED BY <2>1, <2>2
  <1> HIDE DEF gone
  <1>8. ASSUME NEW x \in OfSlot(q) PROVE Ref'[x] = NULL
    <2>1. PICK r \in Slot :
           \/ x = <<"trapframe", r, 0>> \/ x = <<"usyscall", r, 0>> \/ x = <<"root", r, 0>>
           \/ \E d \in Dir : x = <<"dir", r, d>>
           \/ \E v \in UserVA : x = <<"user", r, v>>
      BY PlaceCases DEF OfSlot
    <2>2. r = q
      BY <2>1 DEF OfSlot
    <2>3. CASE x = <<"trapframe", q, 0>>
      BY <1>2, <2>3, RefAtNext
    <2>4. CASE x = <<"usyscall", q, 0>>
      BY <1>2, <2>4, RefAtNext
    <2>5. CASE x = <<"root", q, 0>>
      BY <1>4, <2>5, RefAtNext
    <2>6. CASE \E d \in Dir : x = <<"dir", q, d>>
      <3>1. PICK d \in Dir : x = <<"dir", q, d>>
        BY <2>6
      <3>2. Ref'[x] = dir'[q][d]
        BY <3>1, RefAtNext
      <3> QED BY <1>4, <3>2
    <2>7. CASE \E v \in UserVA : x = <<"user", q, v>>
      <3>1. PICK v \in UserVA : x = <<"user", q, v>>
        BY <2>7
      <3>2. Ref'[x] = pte'[q][v].pa
        BY <3>1, RefAtNext
      <3> QED BY <1>4, <3>2, Addresses, Values
    <2> QED BY <2>1, <2>2, <2>3, <2>4, <2>5, <2>6, <2>7
  <1>9. ASSUME NEW x \in Loc \ OfSlot(q) PROVE Ref'[x] = Ref[x]
    <2>1. PICK r \in Slot :
           \/ x = <<"trapframe", r, 0>> \/ x = <<"usyscall", r, 0>> \/ x = <<"root", r, 0>>
           \/ \E d \in Dir : x = <<"dir", r, d>>
           \/ \E v \in UserVA : x = <<"user", r, v>>
      BY PlaceCases
    <2>2. r # q
      BY <2>1 DEF OfSlot
    <2>3. CASE x = <<"trapframe", r, 0>>
      <3>1. Ref[x] = trapframe[r] /\ Ref'[x] = trapframe'[r]
        BY <2>3, RefAt, RefAtNext
      <3> QED BY <1>2, <2>2, <3>1
    <2>4. CASE x = <<"usyscall", r, 0>>
      <3>1. Ref[x] = usyscall[r] /\ Ref'[x] = usyscall'[r]
        BY <2>4, RefAt, RefAtNext
      <3> QED BY <1>2, <2>2, <3>1
    <2>5. CASE x = <<"root", r, 0>>
      <3>1. Ref[x] = root[r] /\ Ref'[x] = root'[r]
        BY <2>5, RefAt, RefAtNext
      <3> QED BY <1>4, <2>2, <3>1
    <2>6. CASE \E d \in Dir : x = <<"dir", r, d>>
      <3>1. PICK d \in Dir : x = <<"dir", r, d>>
        BY <2>6
      <3>2. Ref[x] = dir[r][d] /\ Ref'[x] = dir'[r][d]
        BY <3>1, RefAt, RefAtNext
      <3> QED BY <1>4, <2>2, <3>2
    <2>7. CASE \E v \in UserVA : x = <<"user", r, v>>
      <3>1. PICK v \in UserVA : x = <<"user", r, v>>
        BY <2>7
      <3>2. Ref[x] = pte[r][v].pa /\ Ref'[x] = pte'[r][v].pa
        BY <3>1, RefAt, RefAtNext
      <3> QED BY <1>4, <2>2, <3>2
    <2> QED BY <2>1, <2>3, <2>4, <2>5, <2>6, <2>7
  <1>10. OfSlot(q) \subseteq Loc
    BY DEF OfSlot
  <1>11. /\ free' \subseteq Page /\ data' \in [Page -> Int]
         /\ Accounted(Ref, free, Kernel)'
         /\ \A x \in Loc \ OfSlot(q) : Ref[x] # NULL => data'[Ref[x]] = data[Ref[x]]
    BY <1>1, <1>7, <1>8, <1>9, <1>10, GiveBack
  <1> QED BY <1>4, <1>11

-----------------------------------------------------------------------------
(* What a step does not touch: the slot r, its table included, *)
SameProc(r) ==
  /\ state'[r] = state[r] /\ pid'[r] = pid[r] /\ sz'[r] = sz[r]
  /\ trapframe'[r] = trapframe[r] /\ usyscall'[r] = usyscall[r] /\ root'[r] = root[r]
  /\ dir'[r] = dir[r] /\ pte'[r] = pte[r] /\ lineage'[r] = lineage[r]

(* the thread of r and its locals, *)
SameThread(r) == pc'[r] = pc[r] /\ np'[r] = np[r] /\ i'[r] = i[r] /\ newsz'[r] = newsz[r]

(* and what the pages of r hold. *)
SameData(r) ==
  /\ usyscall[r] # NULL => data'[usyscall[r]] = data[usyscall[r]]
  /\ \A v \in UserVA : pte[r][v] # NoPte => data'[pte[r][v].pa] = data[pte[r][v].pa]

(* The contents of the pages of a slot, by its places. *)
LEMMA KeptData ==
  ASSUME NEW r \in Slot, TableInv(r), NEW O,
         \A x \in Loc \ O : Ref[x] # NULL => data'[Ref[x]] = data[Ref[x]],
         \A x \in O : x[2] # r
  PROVE  SameData(r)
  <1>1. usyscall[r] # NULL => data'[usyscall[r]] = data[usyscall[r]]
    <2>1. <<"usyscall", r, 0>> \in Loc \ O /\ Ref[<<"usyscall", r, 0>>] = usyscall[r]
      BY Places, RefAt
    <2> QED BY <2>1
  <1>2. ASSUME NEW v \in UserVA, pte[r][v] # NoPte
        PROVE  data'[pte[r][v].pa] = data[pte[r][v].pa]
    <2>1. <<"user", r, v>> \in Loc \ O /\ Ref[<<"user", r, v>>] = pte[r][v].pa
      BY Places, RefAt
    <2>2. pte[r][v].pa \in Page /\ pte[r][v].pa # NULL
      BY <1>2, Values DEF TableInv
    <2> QED BY <2>1, <2>2
  <1> QED BY <1>1, <1>2 DEF SameData

(* All the pages that somebody has are left alone. *)
LEMMA AllKept ==
  ASSUME VmInv, \A x \in Loc : Ref[x] # NULL => data'[Ref[x]] = data[Ref[x]]
  PROVE  \A r \in Slot : SameData(r)
  <1>1. ASSUME NEW r \in Slot PROVE SameData(r)
    <2>1. TableInv(r)
      BY DEF VmInv, SlotInv
    <2> DEFINE O == {}
    <2>2. /\ \A x \in Loc \ O : Ref[x] # NULL => data'[Ref[x]] = data[Ref[x]]
          /\ \A x \in O : x[2] # r
      OBVIOUS
    <2> HIDE DEF O
    <2> QED BY <2>1, <2>2, KeptData
  <1> QED BY <1>1

(* A slot that is not touched. *)
LEMMA SlotFrame ==
  ASSUME NEW r \in Slot, SlotInv(r), SameProc(r), SameThread(r), SameData(r)
  PROVE  SlotInv(r)'
  <1> USE DEF SameProc, SameThread
  <1>1. TableInv(r)'
    BY DEF SlotInv, TableInv
  <1>2. FixedTo(r, 3) => FixedTo(r, 3)'
    BY DEF FixedTo, FixedPa
  <1>3. Paged(r) => Paged(r)'
    BY DEF Paged, SameData
  <1>4. HeapInv(r) => HeapInv(r)'
    BY DEF HeapInv, Growing, Top
  <1>5. Readable(r) => Readable(r)'
    BY DEF Readable, SameData
  <1> QED BY <1>1, <1>2, <1>3, <1>4, <1>5 DEF SlotInv, Built

(* A fork() of which neither the parent nor the child is touched. *)
LEMMA ForkFrame ==
  ASSUME NEW p \in Slot, NEW q \in Slot, ForkInv(p, q),
         SameProc(p), SameThread(p), SameData(p), SameProc(q), SameData(q),
         \A r \in Slot : pc'[r] \in ForkPc /\ np'[r] = q => r = p
  PROVE  ForkInv(p, q)'
  <1> USE DEF SameProc, SameThread
  <1>1. \A k : FixedTo(q, k) => FixedTo(q, k)'
    BY DEF FixedTo, FixedPa
  <1>2. Paged(q) => Paged(q)'
    BY DEF Paged, SameData
  <1>3. NoUser(q) => NoUser(q)'
    BY DEF NoUser
  <1>4. Copied(p, q) => Copied(p, q)'
    BY DEF Copied, SameData
  <1>5. FixedTo(q, i[p]) => FixedTo(q, i[p])'
    BY <1>1
  <1> QED BY <1>1, <1>2, <1>3, <1>4, <1>5 DEF ForkInv, Progress, Built

(* A step that only touches the slots in T, none of which somebody else is   *)
(* making a child of, keeps the invariant if it does so for these slots.     *)
LEMMA Assemble ==
  ASSUME VmInv, TypeOK', Accounted(Ref, free, Kernel)', panicked' = FALSE,
         NEW T, T \subseteq Slot,
         \A r \in Slot \ T : SameProc(r) /\ SameThread(r) /\ SameData(r),
         \A r \in Slot \ T : pc[r] \in ForkPc => np[r] \notin T,
         \A r \in T : pc'[r] \in ForkPc => np'[r] \in T,
         \A r \in T : SlotInv(r)' /\ ThreadInv(r)'
  PROVE  VmInv'
  <1>1. ASSUME NEW r \in Slot \ T PROVE SlotInv(r)' /\ ThreadInv(r)'
    <2>1. SlotInv(r) /\ ThreadInv(r)
      BY DEF VmInv
    <2>2. SameProc(r) /\ SameThread(r) /\ SameData(r)
      OBVIOUS
    <2>3. SlotInv(r)'
      BY <2>1, <2>2, SlotFrame
    <2>4. CASE pc[r] \in ForkPc
      <3>1. PICK q \in Slot \ T : q = np[r] /\ ForkInv(r, q)
        BY <2>1, <2>4 DEF ThreadInv, ForkInv
      <3>2. q = np'[r]
        BY <2>2, <3>1 DEF SameThread
      <3>3. ASSUME NEW s \in Slot, pc'[s] \in ForkPc, np'[s] = q PROVE s = r
        <4>1. s \notin T
          BY <3>3
        <4>2. pc[s] \in ForkPc /\ np[s] = q
          BY <3>3, <4>1 DEF SameThread
        <4> QED BY <3>1, <4>2 DEF ForkInv
      <3>4. ForkInv(r, q)'
        BY <2>2, <3>1, <3>3, ForkFrame
      <3>5. ThreadInv(r)'
        BY <2>2, <2>4, <3>2, <3>4 DEF ThreadInv, SameThread, ForkPc
      <3> QED BY <2>3, <3>5
    <2>5. CASE pc[r] \notin ForkPc
      BY <2>1, <2>2, <2>3, <2>5 DEF ThreadInv, SameThread
    <2> QED BY <2>4, <2>5
  <1> QED BY <1>1 DEF VmInv

(* The child of a fork() is USED and its parent runs. *)
LEMMA Forking ==
  ASSUME VmInv, NEW p \in Slot, pc[p] \in ForkPc
  PROVE  /\ state[p] = "RUNNABLE" /\ np[p] \in Slot /\ state[np[p]] = "USED"
         /\ np[p] # p /\ ForkInv(p, np[p])
  <1>1. SlotInv(p) /\ ThreadInv(p)
    BY DEF VmInv
  <1>2. ForkInv(p, np[p]) /\ np[p] \in Slot /\ state[np[p]] = "USED"
    BY <1>1 DEF ThreadInv, ForkInv
  <1>3. state[p] = "RUNNABLE"
    BY <1>1 DEF SlotInv, ForkPc
  <1> QED BY <1>2, <1>3

(* A process that runs, and whose memory a step leaves alone. *)
LEMMA ParentKept ==
  ASSUME NEW p \in Slot, SlotInv(p), state[p] = "RUNNABLE", SameProc(p), SameData(p),
         ~Growing(p), ~Growing(p)', pc'[p] \notin ForkPc => np'[p] = 0
  PROVE  SlotInv(p)'
  <1>1. TableInv(p)'
    BY DEF SlotInv, TableInv, SameProc
  <1>2. Built(p)'
    BY DEF SlotInv, Built, Paged, FixedTo, FixedPa, SameProc, SameData
  <1>3. HeapInv(p)'
    BY DEF SlotInv, HeapInv, Top, SameProc
  <1>4. Readable(p)'
    BY DEF SlotInv, Readable, SameProc, SameData
  <1> QED BY <1>1, <1>2, <1>3, <1>4 DEF SlotInv, SameProc

(* A step of fork() that touches the thread of p and the slot q of its child. *)
LEMMA ForkStep ==
  ASSUME VmInv, NEW p \in Slot, NEW q \in Slot, pc[p] \in ForkPc, np[p] = q,
         TypeOK', Accounted(Ref, free, Kernel)', panicked' = FALSE,
         \A r \in Slot \ {p, q} : SameProc(r) /\ SameThread(r) /\ SameData(r),
         SameProc(p), SameData(p), SameThread(q),
         state'[q] = state[q], pid'[q] = pid[q], sz'[q] = sz[q],
         TableInv(q)', pc'[p] \in ForkPc, np'[p] = q, Progress(p, q)'
  PROVE  VmInv'
  <1>1. /\ state[p] = "RUNNABLE" /\ state[q] = "USED" /\ q # p /\ ForkInv(p, q)
        /\ SlotInv(p) /\ SlotInv(q) /\ ThreadInv(q)
    BY Forking DEF VmInv
  <1>2. pc[q] = "user" /\ np[q] = 0 /\ i[q] = 0 /\ sz[q] = 0 /\ pid[q] <= MaxPid
    BY <1>1 DEF SlotInv, ThreadInv, ForkPc
  <1>3. \A r \in Slot \ {p, q} : pc[r] \in ForkPc => np[r] \notin {p, q}
    BY <1>1, Forking DEF ForkInv
  <1>4. SlotInv(p)'
    <2>1. ~Growing(p) /\ ~Growing(p)'
      BY DEF Growing, ForkPc
    <2> QED BY <1>1, <2>1, ParentKept
  <1>5. SlotInv(q)'
    BY <1>1, <1>2 DEF SlotInv, SameThread
  <1>6. ThreadInv(q)'
    BY <1>2 DEF ThreadInv, SameThread, ForkPc
  <1>7. ForkInv(p, q)'
    <2>1. ASSUME NEW r \in Slot, pc'[r] \in ForkPc, np'[r] = q PROVE r = p
      BY <1>1, <1>2, <1>3, <2>1 DEF SameThread, ForkPc
    <2> QED BY <1>1, <2>1 DEF ForkInv
  <1>8. ThreadInv(p)'
    BY <1>7 DEF ThreadInv, ForkPc
  <1>9. \A r \in {p, q} : pc'[r] \in ForkPc => np'[r] \in {p, q}
    BY <1>2 DEF SameThread, ForkPc
  <1> DEFINE T == {p, q}
  <1>10. \A r \in T : SlotInv(r)' /\ ThreadInv(r)'
    BY <1>4, <1>5, <1>6, <1>8
  <1> HIDE DEF T
  <1>11. T \subseteq Slot /\ (\A r \in Slot \ T : SameProc(r) /\ SameThread(r) /\ SameData(r))
    BY DEF T
  <1>12. \A r \in Slot \ T : pc[r] \in ForkPc => np[r] \notin T
    BY <1>3 DEF T
  <1>13. \A r \in T : pc'[r] \in ForkPc => np'[r] \in T
    BY <1>9 DEF T
  <1> QED BY <1>10, <1>11, <1>12, <1>13, Assemble

(* A step that touches only one slot, which is nobody's child and not in     *)
(* fork().                                                                   *)
LEMMA OwnStep ==
  ASSUME VmInv, NEW p \in Slot, state[p] # "USED", pc'[p] \notin ForkPc,
         TypeOK', Accounted(Ref, free, Kernel)', panicked' = FALSE,
         \A r \in Slot \ {p} : SameProc(r) /\ SameThread(r) /\ SameData(r),
         SlotInv(p)', pc'[p] = "user" => i'[p] = 0
  PROVE  VmInv'
  <1> DEFINE T == {p}
  <1>1. \A r \in Slot \ T : pc[r] \in ForkPc => np[r] \notin T
    BY Forking
  <1>2. \A r \in T : SlotInv(r)' /\ ThreadInv(r)'
    BY DEF ThreadInv
  <1>3. \A r \in T : pc'[r] \in ForkPc => np'[r] \in T
    OBVIOUS
  <1>4. T \subseteq Slot /\ (\A r \in Slot \ T : SameProc(r) /\ SameThread(r) /\ SameData(r))
    OBVIOUS
  <1> HIDE DEF T
  <1> QED BY <1>1, <1>2, <1>3, <1>4, Assemble

-----------------------------------------------------------------------------
(* fork(), step by step. *)

(* kalloc() for a place that had no page. *)
LEMMA OneTaken ==
  ASSUME TypeOK, Accounted(Ref, free, Kernel), NEW o \in Loc, Ref[o] = NULL,
         free' = free \ {kalloc(free)}, Ref'[o] = kalloc(free),
         \A x \in Loc : x # o => Ref'[x] = Ref[x],
         Kernel' = Kernel
  PROVE  free' \subseteq Page /\ Accounted(Ref, free, Kernel)'
  <1>1. free' \subseteq Page
    BY DEF TypeOK
  <1>2. CASE free = {}
    <2>1. free' = free /\ kalloc(free) = NULL
      BY <1>2, KallocFacts
    <2>2. \A x \in Loc : Ref'[x] = Ref[x]
      BY <2>1
    <2>3. Accounted(Ref', free, Kernel)
      BY <2>2, PagesKept
    <2> QED BY <1>1, <2>1, <2>3
  <1>3. CASE free # {}
    <2>1. kalloc(free) \in free
      BY <1>3, KallocFacts
    <2>2. Accounted(Ref', free \ {kalloc(free)}, Kernel)
      BY <2>1, PageTaken
    <2> QED BY <1>1, <2>2
  <1> QED BY <1>2, <1>3

(* Where the references of two states agree. *)
LEMMA RefKept ==
  ASSUME NEW x \in Loc
  PROVE  /\ x[1] = "trapframe" /\ trapframe'[x[2]] = trapframe[x[2]] => Ref'[x] = Ref[x]
         /\ x[1] = "usyscall" /\ usyscall'[x[2]] = usyscall[x[2]] => Ref'[x] = Ref[x]
         /\ x[1] = "root" /\ root'[x[2]] = root[x[2]] => Ref'[x] = Ref[x]
         /\ x[1] = "dir" /\ dir'[x[2]] = dir[x[2]] => Ref'[x] = Ref[x]
         /\ x[1] = "user" /\ pte'[x[2]] = pte[x[2]] => Ref'[x] = Ref[x]
         /\ x[1] \in {"trapframe", "usyscall", "root", "dir", "user"} /\ x[2] \in Slot
         /\ x[1] \in {"trapframe", "usyscall", "root"} => x = <<x[1], x[2], 0>>
  <1>1. x[1] \in {"trapframe", "usyscall", "root", "dir", "user"} /\ x[2] \in Slot
    BY DEF Loc
  <1>2. x[1] \in {"trapframe", "usyscall", "root"} => x = <<x[1], x[2], 0>>
    BY DEF Loc
  <1>3. x[1] = "trapframe" /\ trapframe'[x[2]] = trapframe[x[2]] => Ref'[x] = Ref[x]
    BY DEF Ref
  <1>4. x[1] = "usyscall" /\ usyscall'[x[2]] = usyscall[x[2]] => Ref'[x] = Ref[x]
    BY DEF Ref
  <1>5. x[1] = "root" /\ root'[x[2]] = root[x[2]] => Ref'[x] = Ref[x]
    BY DEF Ref
  <1>6. x[1] = "dir" /\ dir'[x[2]] = dir[x[2]] => Ref'[x] = Ref[x]
    BY DEF Ref
  <1>7. x[1] = "user" /\ pte'[x[2]] = pte[x[2]] => Ref'[x] = Ref[x]
    BY DEF Ref
  <1> QED BY <1>1, <1>2, <1>3, <1>4, <1>5, <1>6, <1>7

(* allocproc() takes a slot that nobody has. *)
LEMMA AllocprocStep ==
  ASSUME VmInv, NEW p \in Slot, NEW q \in Slot, allocproc(p, q)
  PROVE  VmInv'
  <1> DEFINE g == kalloc(free)
             o == <<"trapframe", q, 0>>
  <1>1. /\ ~panicked /\ state[p] = "RUNNABLE" /\ pc[p] = "user" /\ state[q] = "UNUSED" /\ p # q
    BY DEF allocproc, At
  <1>2. /\ pid' = [pid EXCEPT ![q] = nextpid] /\ nextpid <= MaxPid /\ nextpid' = nextpid + 1
        /\ state' = [state EXCEPT ![q] = "USED"]
        /\ trapframe' = [trapframe EXCEPT ![q] = g]
        /\ free' = free \ {g}
        /\ np' = [np EXCEPT ![p] = q]
        /\ pc' = [pc EXCEPT ![p] = IF free = {} THEN "fork_fail" ELSE "usyscall"]
        /\ UNCHANGED <<data, sz, usyscall, root, dir, pte, i, newsz, lineage, panicked>>
    BY DEF allocproc, Goto
  <1>3. TypeOK /\ Accounted(Ref, free, Kernel) /\ SlotInv(p) /\ SlotInv(q) /\ ThreadInv(p) /\ ThreadInv(q)
    BY DEF VmInv
  <1>4. /\ trapframe[q] = NULL /\ usyscall[q] = NULL /\ root[q] = NULL /\ sz[q] = 0
        /\ pc[q] = "user" /\ np[q] = 0 /\ i[q] = 0 /\ i[p] = 0
    BY <1>1, <1>3 DEF SlotInv, ThreadInv, ForkPc
  <1>5. g \in Page \cup {NULL} /\ (free # {} => g # NULL)
    BY <1>3, KallocFacts DEF TypeOK
  <1>6. /\ pid \in [Slot -> Nat] /\ nextpid \in Nat /\ trapframe \in [Slot -> Page \cup {NULL}]
        /\ state \in [Slot -> {"UNUSED", "USED", "RUNNABLE", "ZOMBIE"}]
        /\ np \in [Slot -> Slot \cup {0}] /\ pc \in [Slot -> Pc] /\ free \subseteq Page
    BY <1>3 DEF TypeOK
  <1> HIDE DEF g
  <1>7. TypeOK'
    <2>1. pid' \in [Slot -> Nat] /\ nextpid' \in Nat /\ free' \subseteq Page
      BY <1>2, <1>6
    <2>2. trapframe' \in [Slot -> Page \cup {NULL}]
      BY <1>2, <1>5, <1>6
    <2>3. state' \in [Slot -> {"UNUSED", "USED", "RUNNABLE", "ZOMBIE"}]
      BY <1>2, <1>6
    <2>4. np' \in [Slot -> Slot \cup {0}] /\ pc' \in [Slot -> Pc]
      BY <1>2, <1>6 DEF Pc
    <2> QED BY <1>2, <1>3, <2>1, <2>2, <2>3, <2>4 DEF TypeOK
  <1>8. Accounted(Ref, free, Kernel)'
    <2>1. o \in Loc /\ Ref[o] = NULL /\ Ref'[o] = g
      BY <1>2, <1>4, <1>6, Places, RefAt, RefAtNext
    <2>2. ASSUME NEW x \in Loc, x # o PROVE Ref'[x] = Ref[x]
      BY <1>2, <1>6, <2>2, RefKept
    <2>3. Kernel' = Kernel
      BY <1>2 DEF Kernel
    <2> HIDE DEF o
    <2> QED BY <1>2, <1>3, <2>1, <2>2, <2>3, OneTaken DEF g
  <1>9. \A r \in Slot \ {p, q} : SameProc(r) /\ SameThread(r)
    BY <1>2, <1>6 DEF SameProc, SameThread
  <1>10. \A r \in Slot : SameData(r)
    BY <1>2 DEF SameData
  <1>11. \A r \in Slot \ {p, q} : pc[r] \in ForkPc => np[r] \notin {p, q}
    BY <1>1, Forking
  <1>12. /\ pc'[p] \in {"fork_fail", "usyscall"} /\ np'[p] = q /\ pc'[q] = "user" /\ np'[q] = 0
         /\ i'[p] = 0 /\ i'[q] = 0 /\ state'[q] = "USED" /\ pid'[q] <= MaxPid
         /\ trapframe'[q] = g /\ (pc'[p] = "usyscall" => g # NULL)
         /\ state'[p] = state[p]
    BY <1>1, <1>2, <1>4, <1>5, <1>6
  <1>13. SameProc(p)
    BY <1>1, <1>2, <1>6 DEF SameProc
  <1>14. SlotInv(p)'
    <2>1. ~Growing(p) /\ ~Growing(p)'
      BY <1>1, <1>12 DEF Growing
    <2> QED BY <1>1, <1>3, <1>10, <1>12, <1>13, <2>1, ParentKept DEF ForkPc
  <1>15. (\A v \in VA : pte[q][v] = NoPte) /\ TableInv(q)'
    BY <1>2, <1>3, <1>4 DEF SlotInv, TableInv
  <1>16. SlotInv(q)'
    BY <1>2, <1>4, <1>12, <1>15 DEF SlotInv
  <1>17. ThreadInv(q)'
    BY <1>12 DEF ThreadInv, ForkPc
  <1>18. NoUser(q)'
    BY <1>2, <1>15, Addresses DEF NoUser
  <1>19. Progress(p, q)'
    BY <1>2, <1>4, <1>12, <1>18 DEF Progress
  <1>20. ForkInv(p, q)'
    <2>1. ASSUME NEW r \in Slot, pc'[r] \in ForkPc, np'[r] = q PROVE r = p
      BY <1>9, <1>11, <1>12, <2>1 DEF SameThread, ForkPc
    <2> QED BY <1>12, <1>19, <2>1 DEF ForkInv
  <1>21. ThreadInv(p)'
    BY <1>12, <1>20 DEF ThreadInv
  <1> DEFINE T == {p, q}
  <1>22. T \subseteq Slot /\ (\A r \in Slot \ T : SameProc(r) /\ SameThread(r) /\ SameData(r))
    BY <1>9, <1>10
  <1>23. \A r \in T : SlotInv(r)' /\ ThreadInv(r)'
    BY <1>14, <1>16, <1>17, <1>21
  <1>24. /\ \A r \in Slot \ T : pc[r] \in ForkPc => np[r] \notin T
         /\ \A r \in T : pc'[r] \in ForkPc => np'[r] \in T
    BY <1>11, <1>12 DEF ForkPc
  <1>25. panicked' = FALSE
    BY <1>1, <1>2, <1>3 DEF TypeOK
  <1> HIDE DEF T
  <1> QED BY <1>7, <1>8, <1>22, <1>23, <1>24, <1>25, Assemble

(* allocproc() gets the page of struct usyscall and writes the pid there. *)
LEMMA AllocprocUsyscallStep ==
  ASSUME VmInv, NEW p \in Slot, allocproc_usyscall(p)
  PROVE  VmInv'
  <1>1. ~panicked /\ state[p] = "RUNNABLE" /\ pc[p] = "usyscall" /\ pc[p] \in ForkPc
    BY DEF allocproc_usyscall, At, ForkPc
  <1>2. PICK q \in Slot : q = np[p] /\ state[q] = "USED" /\ q # p /\ ForkInv(p, q)
    BY <1>1, Forking
  <1> DEFINE g == kalloc(free)
             o == <<"usyscall", q, 0>>
  <1>3. /\ usyscall' = [usyscall EXCEPT ![q] = g]
        /\ free' = free \ {g}
        /\ data' = [h \in Page |-> IF h = g THEN pid[q] ELSE data[h]]
        /\ pc' = [pc EXCEPT ![p] = IF free = {} THEN "fork_fail" ELSE "root"]
        /\ UNCHANGED <<nextpid, state, pid, sz, trapframe, root, dir, pte, np, i, newsz,
                       lineage, panicked>>
    BY <1>2 DEF allocproc_usyscall, Goto
  <1>4. TypeOK /\ Accounted(Ref, free, Kernel) /\ SlotInv(p) /\ SlotInv(q)
    BY DEF VmInv
  <1>5. trapframe[q] # NULL /\ usyscall[q] = NULL /\ root[q] = NULL /\ i[p] = 0
    BY <1>1, <1>2 DEF ForkInv, Progress
  <1>6. /\ g \in Page \cup {NULL} /\ (free # {} => g \in free) /\ (free = {} => g = NULL)
        /\ free \subseteq Page
    BY <1>4, KallocFacts DEF TypeOK
  <1>7. /\ pid \in [Slot -> Nat] /\ usyscall \in [Slot -> Page \cup {NULL}]
        /\ pc \in [Slot -> Pc] /\ data \in [Page -> Int]
    BY <1>4 DEF TypeOK
  <1> HIDE DEF g
  <1>8. TypeOK'
    <2>1. usyscall' \in [Slot -> Page \cup {NULL}]
      BY <1>3, <1>6, <1>7
    <2>2. data' \in [Page -> Int]
      BY <1>3, <1>7
    <2>3. pc' \in [Slot -> Pc]
      BY <1>3, <1>7 DEF Pc
    <2> QED BY <1>3, <1>4, <2>1, <2>2, <2>3 DEF TypeOK
  <1>9. \A x \in Loc : Ref[x] # NULL => data'[Ref[x]] = data[Ref[x]]
    <2>1. ASSUME NEW x \in Loc, Ref[x] # NULL PROVE Ref[x] \in Page /\ Ref[x] # g
      BY <1>4, <1>6, <2>1, Values DEF Accounted
    <2> QED BY <1>3, <2>1
  <1>10. Accounted(Ref, free, Kernel)'
    <2>1. o \in Loc /\ Ref[o] = NULL /\ Ref'[o] = g
      BY <1>3, <1>5, <1>7, Places, RefAt, RefAtNext
    <2>2. ASSUME NEW x \in Loc, x # o PROVE Ref'[x] = Ref[x]
      BY <1>3, <1>7, <2>2, RefKept
    <2>3. \A h \in Page : data'[h] = KERNEL <=> data[h] = KERNEL
      <3>1. pid[q] # KERNEL
        BY <1>7, Values
      <3>2. g \in Page => data[g] # KERNEL
        BY <1>4, <1>6, Values DEF Accounted, Kernel
      <3> QED BY <1>3, <3>1, <3>2
    <2>4. Kernel' = Kernel
      BY <2>3 DEF Kernel
    <2> HIDE DEF o
    <2> QED BY <1>3, <1>4, <2>1, <2>2, <2>4, OneTaken DEF g
  <1>11. \A r \in Slot : SameData(r)
    BY <1>9, AllKept
  <1>12. /\ \A r \in Slot \ {p, q} : SameProc(r) /\ SameThread(r)
         /\ SameProc(p) /\ SameThread(q)
    BY <1>2, <1>3, <1>7 DEF SameProc, SameThread
  <1>13. TableInv(q)'
    BY <1>3, <1>4 DEF SlotInv, TableInv
  <1>14. NoUser(q)'
    BY <1>3, <1>4, <1>5, Addresses DEF NoUser, SlotInv, TableInv
  <1>15. /\ pc'[p] \in {"fork_fail", "root"} /\ usyscall'[q] = g
         /\ (pc'[p] = "root" => g \in Page /\ g # NULL /\ data'[g] = pid[q])
    BY <1>3, <1>6, <1>7, Values
  <1>16. pc'[p] = "root" => Paged(q)'
    BY <1>3, <1>5, <1>15 DEF Paged
  <1>17. Progress(p, q)'
    BY <1>3, <1>5, <1>14, <1>15, <1>16 DEF Progress
  <1>18. panicked' = FALSE
    BY <1>1, <1>3, <1>4 DEF TypeOK
  <1>19. pc'[p] \in ForkPc
    BY <1>15 DEF ForkPc
  <1> QED BY <1>1, <1>2, <1>3, <1>8, <1>10, <1>11, <1>12, <1>13, <1>17, <1>18, <1>19, ForkStep

(* uvmcreate() gets the root of the table. *)
LEMMA UvmcreateStep ==
  ASSUME VmInv, NEW p \in Slot, uvmcreate(p)
  PROVE  VmInv'
  <1>1. ~panicked /\ state[p] = "RUNNABLE" /\ pc[p] = "root" /\ pc[p] \in ForkPc
    BY DEF uvmcreate, At, ForkPc
  <1>2. PICK q \in Slot : q = np[p] /\ state[q] = "USED" /\ q # p /\ ForkInv(p, q)
    BY <1>1, Forking
  <1> DEFINE g == kalloc(free)
             o == <<"root", q, 0>>
  <1>3. /\ root' = [root EXCEPT ![q] = g]
        /\ free' = free \ {g}
        /\ pc' = [pc EXCEPT ![p] = IF free = {} THEN "fork_fail" ELSE "map"]
        /\ UNCHANGED <<data, nextpid, state, pid, sz, trapframe, usyscall, dir, pte, np, i,
                       newsz, lineage, panicked>>
    BY <1>2 DEF uvmcreate, Goto
  <1>4. TypeOK /\ Accounted(Ref, free, Kernel) /\ SlotInv(p) /\ SlotInv(q)
    BY DEF VmInv
  <1>5. Paged(q) /\ root[q] = NULL /\ i[p] = 0
    BY <1>1, <1>2 DEF ForkInv, Progress
  <1>6. /\ g \in Page \cup {NULL} /\ (free # {} => g \in free) /\ (free = {} => g = NULL)
        /\ free \subseteq Page
    BY <1>4, KallocFacts DEF TypeOK
  <1>7. root \in [Slot -> Page \cup {NULL}] /\ pc \in [Slot -> Pc]
    BY <1>4 DEF TypeOK
  <1> HIDE DEF g
  <1>8. TypeOK'
    <2>1. root' \in [Slot -> Page \cup {NULL}] /\ pc' \in [Slot -> Pc]
      BY <1>3, <1>6, <1>7 DEF Pc
    <2> QED BY <1>3, <1>4, <2>1 DEF TypeOK
  <1>9. Accounted(Ref, free, Kernel)'
    <2>1. o \in Loc /\ Ref[o] = NULL /\ Ref'[o] = g
      BY <1>3, <1>5, <1>7, Places, RefAt, RefAtNext
    <2>2. ASSUME NEW x \in Loc, x # o PROVE Ref'[x] = Ref[x]
      BY <1>3, <1>7, <2>2, RefKept
    <2>3. Kernel' = Kernel
      BY <1>3 DEF Kernel
    <2> HIDE DEF o
    <2> QED BY <1>3, <1>4, <2>1, <2>2, <2>3, OneTaken DEF g
  <1>10. \A r \in Slot : SameData(r)
    BY <1>3 DEF SameData
  <1>11. /\ \A r \in Slot \ {p, q} : SameProc(r) /\ SameThread(r)
         /\ SameProc(p) /\ SameThread(q)
    BY <1>2, <1>3, <1>7 DEF SameProc, SameThread
  <1>12. \A v \in VA : pte[q][v] = NoPte
    BY <1>4, <1>5 DEF SlotInv, TableInv
  <1>13. TableInv(q)'
    BY <1>3, <1>4, <1>5, <1>12 DEF SlotInv, TableInv
  <1>14. NoUser(q)' /\ FixedTo(q, 0)'
    BY <1>3, <1>12, Addresses DEF NoUser, FixedTo
  <1>15. /\ pc'[p] \in {"fork_fail", "map"} /\ root'[q] = g
         /\ (pc'[p] = "map" => g # NULL)
    BY <1>3, <1>6, <1>7, Values
  <1>16. Paged(q)'
    BY <1>3, <1>5 DEF Paged
  <1>17. FixedTo(q, i[p])'
    BY <1>3, <1>5, <1>14 DEF FixedTo
  <1>18. Progress(p, q)'
    BY <1>3, <1>5, <1>14, <1>15, <1>16, <1>17 DEF Progress
  <1>19. panicked' = FALSE
    BY <1>1, <1>3, <1>4 DEF TypeOK
  <1>20. pc'[p] \in ForkPc
    BY <1>15 DEF ForkPc
  <1> QED BY <1>1, <1>2, <1>3, <1>8, <1>9, <1>10, <1>11, <1>13, <1>18, <1>19, <1>20, ForkStep

(* What proc_pagetable() maps. *)
LEMMA FixedPages ==
  ASSUME TypeOK, NEW q \in Slot, trapframe[q] # NULL, usyscall[q] # NULL, NEW k \in 0..2
  PROVE  /\ FixedVa(k) \in VA \ UserVA
         /\ FixedPa(q, k) \in Page \cup {TEXT}
         /\ FixedFlags(k) \in SUBSET Flags
  <1>1. FixedVa(k) \in VA \ UserVA
    BY Addresses
  <1>2. trapframe[q] \in Page /\ usyscall[q] \in Page
    BY DEF TypeOK
  <1>3. k = 0 \/ k = 1 \/ k = 2
    OBVIOUS
  <1> QED BY <1>1, <1>2, <1>3 DEF FixedPa, FixedFlags, Flags

(* proc_pagetable() maps one more of the fixed pages. *)
LEMMA ProcPagetableStep ==
  ASSUME VmInv, NEW p \in Slot, proc_pagetable(p)
  PROVE  VmInv'
  <1>1. ~panicked /\ state[p] = "RUNNABLE" /\ pc[p] = "map" /\ pc[p] \in ForkPc
    BY DEF proc_pagetable, At, ForkPc
  <1>2. PICK q \in Slot : q = np[p] /\ state[q] = "USED" /\ q # p /\ ForkInv(p, q)
    BY <1>1, Forking
  <1>3. TypeOK /\ Accounted(Ref, free, Kernel) /\ SlotInv(p) /\ SlotInv(q)
    BY DEF VmInv
  <1>4. PICK k \in 0..2 : k = i[p]
    BY <1>1, <1>2 DEF ForkInv, Progress
  <1>5. Paged(q) /\ root[q] # NULL /\ FixedTo(q, k) /\ NoUser(q) /\ TableInv(q)
    BY <1>1, <1>2, <1>3, <1>4 DEF ForkInv, Progress, SlotInv
  <1> DEFINE v == FixedVa(k)
             g == FixedPa(q, k)
             flags == FixedFlags(k)
             ok == walk_l0(q, v, free) # NULL
  <1>6. /\ mappages(q, v, g, flags, free, {})
        /\ IF ~ok THEN pc' = [pc EXCEPT ![p] = "map_undo"] /\ i' = i
           ELSE IF k < 2 THEN i' = [i EXCEPT ![p] = k + 1] /\ pc' = pc
                ELSE i' = [i EXCEPT ![p] = 0] /\ pc' = [pc EXCEPT ![p] = "copy"]
        /\ UNCHANGED <<data, nextpid, state, pid, sz, trapframe, usyscall, root, lineage, np, newsz>>
    BY <1>2, <1>4 DEF proc_pagetable, Goto, proc
  <1>7. v \in VA \ UserVA /\ g \in Page \cup {TEXT} /\ flags \in SUBSET Flags /\ flags \subseteq Flags
    BY <1>3, <1>5, FixedPages DEF Paged
  <1>8. Accounted(Ref, free, Kernel)'
    <2> HIDE DEF v, g, flags
    <2> QED BY <1>3, <1>5, <1>6, <1>7, MapFixed
  <1>9. /\ free' \subseteq Page
        /\ dir' \in [Slot -> [Dir -> Page \cup {NULL}]]
        /\ pte' \in [Slot -> [VA -> [pa : Page \cup {NULL, TEXT}, flags : SUBSET Flags]]]
        /\ \A r \in Slot : r # q => dir'[r] = dir[r] /\ pte'[r] = pte[r]
        /\ \A w \in VA : pte'[q][w] = IF w = v /\ ok THEN [pa |-> g, flags |-> flags]
                                      ELSE pte[q][w]
        /\ TableInv(q)'
    <2>1. free \subseteq Page /\ {} \subseteq Page /\ v \in VA /\ (v \in UserVA => g \in Page)
      BY <1>3, <1>7 DEF TypeOK
    <2> DEFINE mem == {}
    <2>2. mappages(q, v, g, flags, free, mem) /\ mem \subseteq Page
      BY <1>6
    <2>3. root' = root
      BY <1>6
    <2> HIDE DEF v, g, flags, mem
    <2>4. /\ free' \subseteq Page
          /\ dir' \in [Slot -> [Dir -> Page \cup {NULL}]]
          /\ pte' \in [Slot -> [VA -> [pa : Page \cup {NULL, TEXT}, flags : SUBSET Flags]]]
      BY <1>3, <1>5, <1>7, <2>1, <2>2, <2>3, MapTable
    <2>5. \A r \in Slot : r # q => dir'[r] = dir[r] /\ pte'[r] = pte[r]
      BY <1>3, <1>5, <1>7, <2>1, <2>2, <2>3, MapTable
    <2>6. \A w \in VA : pte'[q][w] = IF w = v /\ walk_l0(q, v, free) # NULL
                                     THEN [pa |-> g, flags |-> flags] ELSE pte[q][w]
      <3>1. pte' = IF walk_l0(q, v, free) # NULL
                   THEN [pte EXCEPT ![q][v] = [pa |-> g, flags |-> flags]] ELSE pte
        BY <2>2 DEF mappages
      <3>2. pte \in [Slot -> [VA -> [pa : Page \cup {NULL, TEXT}, flags : SUBSET Flags]]]
        BY <1>3 DEF TypeOK
      <3> QED BY <2>1, <3>1, <3>2
    <2>7. TableInv(q)'
      BY <1>3, <1>5, <1>7, <2>1, <2>2, <2>3, MapTable
    <2> QED BY <2>4, <2>5, <2>6, <2>7
  <1>10. panicked' = FALSE
    <2>1. pte[q][v] = NoPte
      BY <1>5 DEF FixedTo
    <2> QED BY <1>6, <2>1 DEF mappages
  <1>11. pc \in [Slot -> Pc] /\ i \in [Slot -> VA]
    BY <1>3 DEF TypeOK
  <1>12. /\ pc'[p] = IF ~ok THEN "map_undo" ELSE IF k < 2 THEN "map" ELSE "copy"
         /\ i'[p] = IF ~ok THEN k ELSE IF k < 2 THEN k + 1 ELSE 0
         /\ \A r \in Slot \ {p} : pc'[r] = pc[r] /\ i'[r] = i[r]
         /\ pc' \in [Slot -> Pc]
    BY <1>1, <1>4, <1>6, <1>11 DEF Pc
  <1>13. i' \in [Slot -> VA]
    <2>1. 0 \in VA /\ 1 \in VA /\ 2 \in VA
      BY Sizes DEF VA
    <2> QED BY <1>6, <1>11, <2>1
  <1>14. TypeOK'
    BY <1>3, <1>6, <1>9, <1>10, <1>12, <1>13 DEF TypeOK
  <1>15. \A r \in Slot : SameData(r)
    BY <1>6 DEF SameData
  <1>16. /\ \A r \in Slot \ {p, q} : SameProc(r) /\ SameThread(r)
         /\ SameProc(p) /\ SameThread(q)
    BY <1>2, <1>6, <1>9, <1>12 DEF SameProc, SameThread
  <1>17. \A w \in UserVA : pte'[q][w] = NoPte
    BY <1>5, <1>7, <1>9, Addresses DEF NoUser
  <1>18. Paged(q)'
    BY <1>5, <1>6 DEF Paged
  <1>19. ASSUME NEW n \in 0..3, n = IF ok THEN k + 1 ELSE k PROVE FixedTo(q, n)'
    <2>1. ASSUME NEW j \in 0..2
          PROVE pte'[q][FixedVa(j)] = IF j < n THEN [pa |-> FixedPa(q, j)', flags |-> FixedFlags(j)]
                                      ELSE NoPte
      <3>1. FixedPa(q, j)' = FixedPa(q, j)
        BY <1>6 DEF FixedPa
      <3>2. FixedVa(j) \in VA /\ (FixedVa(j) = v <=> j = k)
        BY Addresses, Sizes DEF FixedVa
      <3>3. pte[q][FixedVa(j)] = IF j < k THEN [pa |-> FixedPa(q, j), flags |-> FixedFlags(j)]
                                 ELSE NoPte
        BY <1>5 DEF FixedTo
      <3> HIDE DEF v
      <3>4. CASE j = k
        BY <1>9, <1>19, <3>1, <3>2, <3>3, <3>4
      <3>5. CASE j # k
        BY <1>9, <1>19, <3>1, <3>2, <3>3, <3>5
      <3> QED BY <3>4, <3>5
    <2> QED BY <2>1 DEF FixedTo
  <1>20. Progress(p, q)'
    <2> HIDE DEF v, g, flags, ok
    <2>1. root'[q] # NULL
      BY <1>5, <1>6
    <2>2. CASE ~ok
      <3>1. FixedTo(q, i[p])'
        BY <1>12, <1>19, <2>2 DEF FixedTo
      <3> QED BY <1>12, <1>17, <1>18, <2>1, <2>2, <3>1 DEF Progress, NoUser
    <2>3. CASE ok /\ k < 2
      <3>1. FixedTo(q, i[p])'
        BY <1>12, <1>19, <2>3 DEF FixedTo
      <3> QED BY <1>12, <1>17, <1>18, <2>1, <2>3, <3>1 DEF Progress, NoUser
    <2>4. CASE ok /\ k = 2
      <3>1. FixedTo(q, 3)'
        BY <1>19, <2>4
      <3>2. Built(q)'
        BY <1>18, <2>1, <3>1 DEF Built
      <3>3. i'[p] = 0 /\ pc'[p] = "copy"
        BY <1>12, <2>4
      <3>4. PGROUNDUP(sz'[p]) \in Nat
        BY <1>14, RoundUp DEF TypeOK
      <3>5. Copied(p, q)'
        BY <1>17, <3>3, <3>4, Addresses DEF Copied
      <3> QED BY <3>2, <3>3, <3>5 DEF Progress
    <2> QED BY <2>2, <2>3, <2>4
  <1>21. pc'[p] \in ForkPc
    BY <1>12 DEF ForkPc
  <1> QED BY <1>1, <1>2, <1>6, <1>8, <1>10, <1>14, <1>15, <1>16, <1>9, <1>20, <1>21, ForkStep

(* proc_pagetable() gives up: every PTE it has set is among those it clears. *)
LEMMA ProcPagetableUndoStep ==
  ASSUME VmInv, NEW p \in Slot, proc_pagetable_undo(p)
  PROVE  VmInv'
  <1>1. ~panicked /\ state[p] = "RUNNABLE" /\ pc[p] = "map_undo" /\ pc[p] \in ForkPc
    BY DEF proc_pagetable_undo, At, ForkPc
  <1>2. PICK q \in Slot : q = np[p] /\ state[q] = "USED" /\ q # p /\ ForkInv(p, q)
    BY <1>1, Forking
  <1>3. TypeOK /\ Accounted(Ref, free, Kernel) /\ SlotInv(p) /\ SlotInv(q)
    BY DEF VmInv
  <1>4. PICK k \in 0..2 : k = i[p]
    BY <1>1, <1>2 DEF ForkInv, Progress
  <1>5. Paged(q) /\ root[q] # NULL /\ FixedTo(q, k) /\ NoUser(q) /\ TableInv(q)
    BY <1>1, <1>2, <1>3, <1>4 DEF ForkInv, Progress, SlotInv
  <1> DEFINE V == {FixedVa(j) : j \in 0..(k - 1)}
  <1>6. /\ freewalk(q, V)
        /\ free' = free \cup TablePages(q) /\ data' = Junked(TablePages(q))
        /\ i' = [i EXCEPT ![p] = 0] /\ pc' = [pc EXCEPT ![p] = "fork_fail"]
        /\ UNCHANGED <<nextpid, state, pid, sz, trapframe, usyscall, np, newsz, lineage>>
    BY <1>2, <1>4 DEF proc_pagetable_undo, Goto
  <1>7. \A v \in VA \ V : pte[q][v] = NoPte
    <2>1. ASSUME NEW v \in VA, v \notin V PROVE pte[q][v] = NoPte
      <3>1. CASE v \in UserVA
        BY <1>5, <3>1 DEF NoUser
      <3>2. CASE v \notin UserVA
        <4>1. PICK j \in 0..2 : v = FixedVa(j)
          BY <3>2, Addresses
        <4>2. ~(j < k)
          BY <2>1, <4>1
        <4> QED BY <1>5, <4>1, <4>2 DEF FixedTo
      <3> QED BY <3>1, <3>2
    <2> QED BY <2>1
  <1> HIDE DEF V
  <1>8. /\ dir' \in [Slot -> [Dir -> Page \cup {NULL}]]
        /\ pte' \in [Slot -> [VA -> [pa : Page \cup {NULL, TEXT}, flags : SUBSET Flags]]]
        /\ root' \in [Slot -> Page \cup {NULL}]
        /\ panicked' = FALSE
        /\ \A r \in Slot : r # q => dir'[r] = dir[r] /\ pte'[r] = pte[r] /\ root'[r] = root[r]
        /\ \A v \in VA : pte'[q][v] = NoPte
        /\ TableInv(q)'
    BY <1>3, <1>6, <1>7, TableFreed
  <1>9. /\ free' \subseteq Page /\ data' \in [Page -> Int]
        /\ Accounted(Ref, free, Kernel)'
        /\ \A x \in Loc \ OfTable(q) : Ref[x] # NULL => data'[Ref[x]] = data[Ref[x]]
    BY <1>3, <1>5, <1>6, <1>7, TableGiven
  <1>10. pc \in [Slot -> Pc] /\ i \in [Slot -> VA]
    BY <1>3 DEF TypeOK
  <1>11. pc' \in [Slot -> Pc] /\ i' \in [Slot -> VA]
    BY <1>6, <1>10, Addresses DEF Pc
  <1>12. TypeOK'
    BY <1>3, <1>6, <1>8, <1>9, <1>11 DEF TypeOK
  <1>13. ASSUME NEW r \in Slot \ {q} PROVE SameData(r)
    <2>1. TableInv(r) /\ \A x \in OfTable(q) : x[2] # r
      BY DEF VmInv, SlotInv, OfTable
    <2> QED BY <1>9, <2>1, KeptData
  <1>14. /\ \A r \in Slot \ {p, q} : SameProc(r) /\ SameThread(r)
         /\ SameProc(p) /\ SameThread(q)
    BY <1>2, <1>6, <1>8, <1>10 DEF SameProc, SameThread
  <1>15. pc'[p] = "fork_fail"
    BY <1>6, <1>10
  <1>16. NoUser(q)'
    BY <1>8, Addresses DEF NoUser
  <1>17. Progress(p, q)' /\ pc'[p] \in ForkPc
    BY <1>15, <1>16 DEF Progress, ForkPc
  <1> QED BY <1>1, <1>2, <1>6, <1>8, <1>9, <1>12, <1>13, <1>14, <1>17, ForkStep

(* freeproc() of a slot whose user pages are all below its size. *)
LEMMA FreedSlot ==
  ASSUME VmInv, NEW q \in Slot, freeproc(q), pc'[q] = "user", np'[q] = 0,
         \A v \in UserVA : pte[q][v] # NoPte => v \in BelowSz(q)
  PROVE  /\ free' \subseteq Page /\ data' \in [Page -> Int]
         /\ state' \in [Slot -> {"UNUSED", "USED", "RUNNABLE", "ZOMBIE"}]
         /\ pid' \in [Slot -> Nat]
         /\ sz' \in [Slot -> 0..(WORD - 1)]
         /\ trapframe' \in [Slot -> Page \cup {NULL}]
         /\ usyscall' \in [Slot -> Page \cup {NULL}]
         /\ root' \in [Slot -> Page \cup {NULL}]
         /\ dir' \in [Slot -> [Dir -> Page \cup {NULL}]]
         /\ pte' \in [Slot -> [VA -> [pa : Page \cup {NULL, TEXT}, flags : SUBSET Flags]]]
         /\ lineage' \in [Slot -> SUBSET Nat]
         /\ panicked' = FALSE
         /\ Accounted(Ref, free, Kernel)'
         /\ \A r \in Slot \ {q} : SameProc(r) /\ SameData(r)
         /\ SlotInv(q)'
  <1>1. TypeOK /\ Accounted(Ref, free, Kernel) /\ ~panicked /\ TableInv(q)
    BY DEF VmInv, SlotInv
  <1>2. /\ free' \subseteq Page /\ data' \in [Page -> Int]
        /\ dir' \in [Slot -> [Dir -> Page \cup {NULL}]]
        /\ pte' \in [Slot -> [VA -> [pa : Page \cup {NULL, TEXT}, flags : SUBSET Flags]]]
        /\ root' \in [Slot -> Page \cup {NULL}]
        /\ panicked' = FALSE
        /\ Accounted(Ref, free, Kernel)'
        /\ \A r \in Slot : r # q => dir'[r] = dir[r] /\ pte'[r] = pte[r] /\ root'[r] = root[r]
        /\ root'[q] = NULL
        /\ \A x \in Loc \ OfSlot(q) : Ref[x] # NULL => data'[Ref[x]] = data[Ref[x]]
        /\ TableInv(q)'
    BY <1>1, SlotGiven
  <1>3. /\ trapframe' = [trapframe EXCEPT ![q] = NULL]
        /\ usyscall' = [usyscall EXCEPT ![q] = NULL]
        /\ sz' = [sz EXCEPT ![q] = 0]
        /\ pid' = [pid EXCEPT ![q] = 0]
        /\ state' = [state EXCEPT ![q] = "UNUSED"]
        /\ lineage' = [lineage EXCEPT ![q] = {}]
    BY DEF freeproc
  <1>4. /\ state \in [Slot -> {"UNUSED", "USED", "RUNNABLE", "ZOMBIE"}]
        /\ pid \in [Slot -> Nat]
        /\ sz \in [Slot -> 0..(WORD - 1)]
        /\ trapframe \in [Slot -> Page \cup {NULL}]
        /\ usyscall \in [Slot -> Page \cup {NULL}]
        /\ lineage \in [Slot -> SUBSET Nat]
    BY <1>1 DEF TypeOK
  <1>5. sz' \in [Slot -> 0..(WORD - 1)]
    <2>1. 0 \in 0..(WORD - 1)
      BY Sizes
    <2> QED BY <1>3, <1>4, <2>1
  <1>6. state' \in [Slot -> {"UNUSED", "USED", "RUNNABLE", "ZOMBIE"}] /\ pid' \in [Slot -> Nat]
    BY <1>3, <1>4
  <1>7. trapframe' \in [Slot -> Page \cup {NULL}] /\ usyscall' \in [Slot -> Page \cup {NULL}]
    BY <1>3, <1>4
  <1>8. lineage' \in [Slot -> SUBSET Nat]
    BY <1>3, <1>4
  <1>9. ASSUME NEW r \in Slot \ {q} PROVE SameProc(r)
    BY <1>2, <1>3, <1>4 DEF SameProc
  <1>10. ASSUME NEW r \in Slot \ {q} PROVE SameData(r)
    <2>1. TableInv(r) /\ \A x \in OfSlot(q) : x[2] # r
      BY DEF VmInv, SlotInv, OfSlot
    <2> QED BY <1>2, <2>1, KeptData
  <1>11. SlotInv(q)'
    <2>1. /\ state'[q] = "UNUSED" /\ trapframe'[q] = NULL /\ usyscall'[q] = NULL /\ sz'[q] = 0
          /\ pid'[q] = 0 /\ 0 <= MaxPid
      BY <1>3, <1>4, Sizes
    <2> QED BY <1>2, <2>1 DEF SlotInv
  <1> QED BY <1>2, <1>5, <1>6, <1>7, <1>8, <1>9, <1>10, <1>11

(* The locals of a thread that leaves the kernel. *)
LEMMA Returned ==
  ASSUME TypeOK, NEW p \in Slot, Return(p)
  PROVE  /\ pc'[p] = "user" /\ np'[p] = 0 /\ i'[p] = 0 /\ newsz'[p] = 0
         /\ \A r \in Slot \ {p} : SameThread(r)
         /\ pc' \in [Slot -> Pc] /\ np' \in [Slot -> Slot \cup {0}] /\ i' \in [Slot -> VA]
         /\ newsz' \in [Slot -> 0..(WORD - 1)]
  <1>1. /\ pc \in [Slot -> Pc] /\ np \in [Slot -> Slot \cup {0}] /\ i \in [Slot -> VA]
        /\ newsz \in [Slot -> 0..(WORD - 1)]
    BY DEF TypeOK
  <1>2. /\ pc' = [pc EXCEPT ![p] = "user"] /\ np' = [np EXCEPT ![p] = 0]
        /\ i' = [i EXCEPT ![p] = 0] /\ newsz' = [newsz EXCEPT ![p] = 0]
    BY DEF Return, Goto
  <1>3. 0 \in VA /\ 0 \in 0..(WORD - 1) /\ "user" \in Pc
    BY Sizes DEF VA, Pc
  <1>4. pc' \in [Slot -> Pc] /\ np' \in [Slot -> Slot \cup {0}] /\ i' \in [Slot -> VA]
    BY <1>1, <1>2, <1>3
  <1>5. newsz' \in [Slot -> 0..(WORD - 1)]
    BY <1>1, <1>2, <1>3
  <1> QED BY <1>1, <1>2, <1>4, <1>5 DEF SameThread

(* A failed fork() frees the slot, in whatever state it is. *)
LEMMA KforkFailStep ==
  ASSUME VmInv, NEW p \in Slot, kfork_fail(p)
  PROVE  VmInv'
  <1>1. state[p] = "RUNNABLE" /\ pc[p] = "fork_fail" /\ pc[p] \in ForkPc
    BY DEF kfork_fail, At, ForkPc
  <1>2. PICK q \in Slot : q = np[p] /\ state[q] = "USED" /\ q # p /\ ForkInv(p, q)
    BY <1>1, Forking
  <1>3. TypeOK /\ SlotInv(p) /\ SlotInv(q) /\ ThreadInv(q)
    BY DEF VmInv
  <1>4. freeproc(q) /\ Return(p) /\ nextpid' = nextpid
    BY <1>2 DEF kfork_fail
  <1>5. /\ pc'[p] = "user" /\ np'[p] = 0 /\ i'[p] = 0
        /\ \A r \in Slot \ {p} : SameThread(r)
        /\ pc' \in [Slot -> Pc] /\ np' \in [Slot -> Slot \cup {0}] /\ i' \in [Slot -> VA]
        /\ newsz' \in [Slot -> 0..(WORD - 1)]
    BY <1>3, <1>4, Returned
  <1>6. pc[q] = "user" /\ np[q] = 0 /\ i[q] = 0
    BY <1>2, <1>3 DEF SlotInv, ThreadInv, ForkPc
  <1>7. pc'[q] = "user" /\ np'[q] = 0 /\ i'[q] = 0
    BY <1>2, <1>5, <1>6 DEF SameThread
  <1>8. \A v \in UserVA : pte[q][v] # NoPte => v \in BelowSz(q)
    BY <1>1, <1>2 DEF ForkInv, Progress, NoUser
  <1>9. /\ free' \subseteq Page /\ data' \in [Page -> Int]
        /\ state' \in [Slot -> {"UNUSED", "USED", "RUNNABLE", "ZOMBIE"}]
        /\ pid' \in [Slot -> Nat]
        /\ sz' \in [Slot -> 0..(WORD - 1)]
        /\ trapframe' \in [Slot -> Page \cup {NULL}]
        /\ usyscall' \in [Slot -> Page \cup {NULL}]
        /\ root' \in [Slot -> Page \cup {NULL}]
        /\ dir' \in [Slot -> [Dir -> Page \cup {NULL}]]
        /\ pte' \in [Slot -> [VA -> [pa : Page \cup {NULL, TEXT}, flags : SUBSET Flags]]]
        /\ lineage' \in [Slot -> SUBSET Nat]
        /\ panicked' = FALSE
        /\ Accounted(Ref, free, Kernel)'
        /\ \A r \in Slot \ {q} : SameProc(r) /\ SameData(r)
        /\ SlotInv(q)'
    BY <1>4, <1>7, <1>8, FreedSlot
  <1>10. TypeOK'
    BY <1>3, <1>4, <1>5, <1>9 DEF TypeOK
  <1>11. SlotInv(p)'
    <2>1. ~Growing(p) /\ ~Growing(p)'
      BY <1>1, <1>5 DEF Growing
    <2> QED BY <1>1, <1>2, <1>3, <1>5, <1>9, <2>1, ParentKept
  <1>12. ThreadInv(p)' /\ ThreadInv(q)'
    BY <1>5, <1>7 DEF ThreadInv, ForkPc
  <1> DEFINE T == {p, q}
  <1>13. T \subseteq Slot /\ (\A r \in Slot \ T : SameProc(r) /\ SameThread(r) /\ SameData(r))
    BY <1>5, <1>9
  <1>14. \A r \in T : SlotInv(r)' /\ ThreadInv(r)'
    BY <1>9, <1>11, <1>12
  <1>15. \A r \in Slot \ T : pc[r] \in ForkPc => np[r] \notin T
    BY <1>1, <1>2, Forking DEF ForkInv
  <1>16. \A r \in T : pc'[r] \in ForkPc => np'[r] \in T
    BY <1>5, <1>7 DEF ForkPc
  <1> HIDE DEF T
  <1> QED BY <1>9, <1>10, <1>13, <1>14, <1>15, <1>16, Assemble

(* An address below the size, and the page after it. *)
LEMMA BelowSize ==
  ASSUME NEW s \in Nat, s <= Limit, NEW v \in Nat, v * PGSIZE < s
  PROVE  v \in UserVA /\ v + 1 \in VA /\ v < PGROUNDUP(s) /\ v + 1 <= PGROUNDUP(s)
  <1>1. v \in UserVA
    BY RoundLimit
  <1>2. v < PGROUNDUP(s) /\ PGROUNDUP(s) \in Nat
    BY RoundUp
  <1>3. v + 1 \in VA
    BY <1>1, Sizes DEF UserVA, VA
  <1> QED BY <1>1, <1>2, <1>3

(* The copy of a page has what the page has; a failure leaves the copies of  *)
(* the pages before it.                                                      *)
LEMMA UvmcopyStep ==
  ASSUME VmInv, NEW p \in Slot, uvmcopy(p)
  PROVE  VmInv'
  <1>1. ~panicked /\ state[p] = "RUNNABLE" /\ pc[p] = "copy" /\ pc[p] \in ForkPc
    BY DEF uvmcopy, At, ForkPc
  <1>2. PICK q \in Slot : q = np[p] /\ state[q] = "USED" /\ q # p /\ ForkInv(p, q)
    BY <1>1, Forking
  <1>3. TypeOK /\ Accounted(Ref, free, Kernel) /\ SlotInv(p) /\ SlotInv(q)
    BY DEF VmInv
  <1>4. PICK v \in VA : v = i[p]
    BY <1>3 DEF TypeOK
  <1>5. Built(q) /\ Copied(p, q) /\ TableInv(q) /\ TableInv(p) /\ sz[p] <= Limit /\ sz[p] \in Nat
    BY <1>1, <1>2, <1>3 DEF ForkInv, Progress, SlotInv, HeapInv, TypeOK
  <1>6. /\ v * PGSIZE < sz[p]
        /\ IF pte[p][v] = NoPte
           THEN /\ i' = [i EXCEPT ![p] = v + 1]
                /\ UNCHANGED <<data, free, dir, pte, panicked, pc>>
           ELSE /\ MapPage(q, v, pte[p][v].flags, data[pte[p][v].pa])
                /\ IF MapFails(q, v)
                   THEN pc' = [pc EXCEPT ![p] = "copy_undo"] /\ i' = i
                   ELSE i' = [i EXCEPT ![p] = v + 1] /\ pc' = pc
        /\ UNCHANGED <<nextpid, state, pid, sz, trapframe, usyscall, root, lineage, np, newsz>>
    BY <1>2, <1>4 DEF uvmcopy, Goto, proc, table
  <1>7. v \in UserVA /\ v + 1 \in VA /\ v + 1 <= PGROUNDUP(sz[p]) /\ v \in Nat
    BY <1>5, <1>6, Addresses, BelowSize
  <1>8. pc \in [Slot -> Pc] /\ i \in [Slot -> VA]
    BY <1>3 DEF TypeOK
  <1>9. pte[q][v] = NoPte
    BY <1>4, <1>5, <1>7 DEF Copied
  <1>10. \A w \in UserVA : w < v + 1 <=> w < v \/ w = v
    BY <1>7 DEF UserVA
  <1>11. CASE pte[p][v] = NoPte
    <2>1. i' = [i EXCEPT ![p] = v + 1] /\ UNCHANGED <<data, free, dir, pte, panicked, pc>>
      BY <1>6, <1>11
    <2>2. i' \in [Slot -> VA] /\ i'[p] = v + 1
      BY <1>7, <1>8, <2>1
    <2>3. TypeOK'
      BY <1>3, <1>6, <2>1, <2>2 DEF TypeOK
    <2>4. Ref' = Ref /\ Kernel' = Kernel
      BY <1>6, <2>1 DEF Ref, Kernel
    <2>5. Accounted(Ref, free, Kernel)' /\ panicked' = FALSE
      BY <1>1, <1>3, <2>1, <2>4 DEF TypeOK
    <2>6. \A r \in Slot : SameData(r)
      BY <2>1 DEF SameData
    <2>7. /\ \A r \in Slot \ {p, q} : SameProc(r) /\ SameThread(r)
          /\ SameProc(p) /\ SameThread(q)
      BY <1>2, <1>6, <1>8, <2>1 DEF SameProc, SameThread
    <2>8. TableInv(q)' /\ Built(q)'
      BY <1>5, <1>6, <2>1 DEF TableInv, Built, Paged, FixedTo, FixedPa
    <2>9. Copied(p, q)'
      BY <1>4, <1>5, <1>6, <1>7, <1>9, <1>10, <1>11, <2>1, <2>2 DEF Copied
    <2>10. Progress(p, q)' /\ pc'[p] \in ForkPc /\ np'[p] = q
      BY <1>1, <1>2, <1>6, <2>1, <2>8, <2>9 DEF Progress
    <2> QED BY <1>1, <1>2, <1>6, <2>3, <2>5, <2>6, <2>7, <2>8, <2>10, ForkStep
  <1>12. CASE pte[p][v] # NoPte
    <2> DEFINE flags == pte[p][v].flags
               d == data[pte[p][v].pa]
    <2>1. pte[p][v].pa \in Page /\ flags \in SUBSET Flags
      BY <1>3, <1>5, <1>7, <1>12, Addresses DEF TableInv, TypeOK
    <2>2. d \in Int /\ d # KERNEL
      <3>1. <<"user", p, v>> \in Loc /\ Ref[<<"user", p, v>>] = pte[p][v].pa
        BY <1>7, Places, RefAt
      <3>2. pte[p][v].pa \notin Kernel
        BY <1>3, <3>1 DEF Accounted
      <3> QED BY <1>3, <2>1, <3>2 DEF Kernel, TypeOK
    <2>3. /\ MapPage(q, v, flags, d)
          /\ IF MapFails(q, v)
             THEN pc' = [pc EXCEPT ![p] = "copy_undo"] /\ i' = i
             ELSE i' = [i EXCEPT ![p] = v + 1] /\ pc' = pc
      BY <1>6, <1>12
    <2>4. root[q] # NULL /\ UNCHANGED <<trapframe, usyscall, root>>
      BY <1>5, <1>6 DEF Built
    <2> HIDE DEF flags, d
    <2>5. /\ free' \subseteq Page
          /\ data' \in [Page -> Int]
          /\ dir' \in [Slot -> [Dir -> Page \cup {NULL}]]
          /\ pte' \in [Slot -> [VA -> [pa : Page \cup {NULL, TEXT}, flags : SUBSET Flags]]]
          /\ panicked' = FALSE
      BY <1>1, <1>3, <1>5, <1>7, <1>9, <2>1, <2>2, <2>3, <2>4, MapUser
    <2>6. Accounted(Ref, free, Kernel)' /\ TableInv(q)'
      BY <1>1, <1>3, <1>5, <1>7, <1>9, <2>1, <2>2, <2>3, <2>4, MapUser
    <2>7. /\ \A r \in Slot : r # q => dir'[r] = dir[r] /\ pte'[r] = pte[r]
          /\ \A w \in VA : w # v => pte'[q][w] = pte[q][w]
      BY <1>1, <1>3, <1>5, <1>7, <1>9, <2>1, <2>2, <2>3, <2>4, MapUser
    <2>8. \A x \in Loc : Ref[x] # NULL => data'[Ref[x]] = data[Ref[x]]
      BY <1>1, <1>3, <1>5, <1>7, <1>9, <2>1, <2>2, <2>3, <2>4, MapUser
    <2>9. /\ MapFails(q, v) => pte'[q][v] = NoPte
          /\ ~MapFails(q, v) => /\ pte'[q][v].flags = flags
                                /\ pte'[q][v] # NoPte
                                /\ data'[pte'[q][v].pa] = d
      <3>1. MapFails(q, v) => pte'[q][v] = NoPte
        BY <1>1, <1>3, <1>5, <1>7, <1>9, <2>1, <2>2, <2>3, <2>4, MapUser
      <3>2. ~MapFails(q, v) => pte'[q][v].flags = flags /\ pte'[q][v] # NoPte
        BY <1>1, <1>3, <1>5, <1>7, <1>9, <2>1, <2>2, <2>3, <2>4, MapUser
      <3>3. ~MapFails(q, v) => data'[pte'[q][v].pa] = d
        BY <1>1, <1>3, <1>5, <1>7, <1>9, <2>1, <2>2, <2>3, <2>4, MapUser, ZenonT(60)
      <3> QED BY <3>1, <3>2, <3>3
    <2>10. \A r \in Slot : SameData(r)
      BY <2>8, AllKept
    <2>11. /\ pc'[p] = IF MapFails(q, v) THEN "copy_undo" ELSE "copy"
           /\ i'[p] = IF MapFails(q, v) THEN v ELSE v + 1
           /\ \A r \in Slot \ {p} : pc'[r] = pc[r] /\ i'[r] = i[r]
           /\ pc' \in [Slot -> Pc] /\ i' \in [Slot -> VA]
      BY <1>1, <1>4, <1>7, <1>8, <2>3 DEF Pc
    <2>12. TypeOK'
      BY <1>3, <1>6, <2>5, <2>11 DEF TypeOK
    <2>13. /\ \A r \in Slot \ {p, q} : SameProc(r) /\ SameThread(r)
           /\ SameProc(p) /\ SameThread(q)
      BY <1>2, <1>6, <2>7, <2>11 DEF SameProc, SameThread
    <2>14. Built(q)'
      <3>1. Paged(q)'
        BY <1>5, <1>6, <2>10 DEF Built, Paged, SameData
      <3>2. \A j \in 0..2 : FixedVa(j) \in VA /\ FixedVa(j) # v
        BY <1>7, Addresses
      <3>3. FixedTo(q, 3)'
        BY <1>5, <1>6, <2>7, <3>2 DEF Built, FixedTo, FixedPa
      <3> QED BY <1>5, <1>6, <3>1, <3>3 DEF Built
    <2>15. Copied(p, q)'
      <3>1. i'[p] <= PGROUNDUP(sz'[p])
        BY <1>4, <1>5, <1>6, <1>7, <2>11 DEF Copied
      <3>2. ASSUME NEW w \in UserVA
            PROVE  IF w < i'[p] /\ pte'[p][w] # NoPte
                   THEN /\ pte'[q][w] # NoPte
                        /\ pte'[q][w].flags = pte'[p][w].flags
                        /\ data'[pte'[q][w].pa] = data'[pte'[p][w].pa]
                   ELSE pte'[q][w] = NoPte
        <4>1. pte'[p][w] = pte[p][w] /\ pte'[p][v] = pte[p][v] /\ w \in VA
          BY <1>2, <2>7, Addresses
        <4>2. IF w < v /\ pte[p][w] # NoPte
              THEN /\ pte[q][w] # NoPte
                   /\ pte[q][w].flags = pte[p][w].flags
                   /\ data[pte[q][w].pa] = data[pte[p][w].pa]
              ELSE pte[q][w] = NoPte
          BY <1>4, <1>5 DEF Copied
        <4>3. /\ pte[p][w] # NoPte => data'[pte[p][w].pa] = data[pte[p][w].pa]
              /\ pte[q][w] # NoPte => data'[pte[q][w].pa] = data[pte[q][w].pa]
              /\ data'[pte[p][v].pa] = data[pte[p][v].pa]
          BY <1>7, <1>12, <2>10 DEF SameData
        <4>4. CASE w = v
          <5>1. CASE MapFails(q, v)
            BY <1>7, <2>9, <2>11, <4>4, <5>1
          <5>2. CASE ~MapFails(q, v)
            BY <1>7, <1>12, <2>9, <2>11, <4>1, <4>3, <4>4, <5>2 DEF flags, d
          <5> QED BY <5>1, <5>2
        <4>5. CASE w # v
          <5>1. pte'[q][w] = pte[q][w]
            BY <2>7, <4>1, <4>5
          <5>2. w < i'[p] <=> w < v
            BY <1>10, <2>11, <4>5
          <5> QED BY <4>1, <4>2, <4>3, <5>1, <5>2
        <4> QED BY <4>4, <4>5
      <3> QED BY <3>1, <3>2 DEF Copied
    <2>16. Progress(p, q)' /\ pc'[p] \in ForkPc /\ np'[p] = q
      BY <1>2, <1>6, <2>11, <2>14, <2>15 DEF Progress, ForkPc
    <2> QED BY <1>1, <1>2, <1>6, <2>5, <2>6, <2>10, <2>12, <2>13, <2>16, ForkStep
  <1> QED BY <1>11, <1>12

(* uvmcopy() gives up: it unmaps what it has copied, which is all there is. *)
LEMMA UvmcopyUndoStep ==
  ASSUME VmInv, NEW p \in Slot, uvmcopy_undo(p)
  PROVE  VmInv'
  <1>1. ~panicked /\ state[p] = "RUNNABLE" /\ pc[p] = "copy_undo" /\ pc[p] \in ForkPc
    BY DEF uvmcopy_undo, At, ForkPc
  <1>2. PICK q \in Slot : q = np[p] /\ state[q] = "USED" /\ q # p /\ ForkInv(p, q)
    BY <1>1, Forking
  <1>3. TypeOK /\ Accounted(Ref, free, Kernel) /\ SlotInv(p) /\ SlotInv(q)
    BY DEF VmInv
  <1>4. PICK k \in VA : k = i[p]
    BY <1>3 DEF TypeOK
  <1>5. Built(q) /\ Copied(p, q) /\ TableInv(q) /\ sz[p] <= Limit /\ sz[p] \in Nat
    BY <1>1, <1>2, <1>3 DEF ForkInv, Progress, SlotInv, HeapInv, TypeOK
  <1> DEFINE V == 0..(k - 1)
  <1>6. /\ uvmunmap(q, V)
        /\ i' = [i EXCEPT ![p] = 0] /\ pc' = [pc EXCEPT ![p] = "fork_fail"]
        /\ UNCHANGED <<nextpid, state, pid, sz, trapframe, usyscall, root, lineage, dir, np,
                       newsz, panicked>>
    BY <1>2, <1>4 DEF uvmcopy_undo, Goto, proc
  <1>7. V \subseteq UserVA /\ k \in Nat
    <2>1. k <= PGROUNDUP(sz[p]) /\ PGROUNDUP(sz[p]) <= USYSCALL /\ PGROUNDUP(sz[p]) \in Nat
      BY <1>4, <1>5, RoundLimit DEF Copied
    <2> QED BY <2>1, Sizes, Addresses DEF UserVA
  <1>8. \A v \in UserVA : v \notin V => ~(v < k)
    BY <1>7 DEF UserVA
  <1>9. \A v \in UserVA : v \notin V => pte[q][v] = NoPte
    BY <1>4, <1>5, <1>8 DEF Copied
  <1> HIDE DEF V
  <1> DEFINE O == {<<"user", q, v>> : v \in V}
  <1>10. /\ free' \subseteq Page /\ data' \in [Page -> Int]
         /\ pte' \in [Slot -> [VA -> [pa : Page \cup {NULL, TEXT}, flags : SUBSET Flags]]]
         /\ Accounted(Ref, free, Kernel)'
         /\ TableInv(q)'
    BY <1>3, <1>5, <1>6, <1>7, Unmap
  <1>11. /\ \A r \in Slot : r # q => pte'[r] = pte[r]
         /\ \A v \in VA : pte'[q][v] = IF v \in V THEN NoPte ELSE pte[q][v]
    BY <1>3, <1>5, <1>6, <1>7, Unmap
  <1>12. \A x \in Loc \ O : Ref[x] # NULL => data'[Ref[x]] = data[Ref[x]]
    BY <1>3, <1>5, <1>6, <1>7, Unmap
  <1>13. pc \in [Slot -> Pc] /\ i \in [Slot -> VA]
    BY <1>3 DEF TypeOK
  <1>14. pc' \in [Slot -> Pc] /\ i' \in [Slot -> VA] /\ pc'[p] = "fork_fail"
    BY <1>6, <1>13, Addresses DEF Pc
  <1>15. TypeOK'
    BY <1>3, <1>6, <1>10, <1>14 DEF TypeOK
  <1>16. ASSUME NEW r \in Slot \ {q} PROVE SameData(r)
    <2>1. TableInv(r) /\ \A x \in O : x[2] # r
      BY DEF VmInv, SlotInv
    <2> HIDE DEF O
    <2> QED BY <1>12, <2>1, KeptData
  <1>17. /\ \A r \in Slot \ {p, q} : SameProc(r) /\ SameThread(r)
         /\ SameProc(p) /\ SameThread(q)
    BY <1>2, <1>6, <1>11, <1>13 DEF SameProc, SameThread
  <1>18. NoUser(q)'
    BY <1>9, <1>11, Addresses DEF NoUser
  <1>19. Progress(p, q)' /\ pc'[p] \in ForkPc
    BY <1>14, <1>18 DEF Progress, ForkPc
  <1>20. panicked' = FALSE
    BY <1>1, <1>3, <1>6 DEF TypeOK
  <1> QED BY <1>1, <1>2, <1>6, <1>10, <1>15, <1>16, <1>17, <1>19, <1>20, ForkStep

(* When uvmcopy() has passed the size of the parent, all its pages are below *)
(* the ones that have been copied.                                           *)
LEMMA AllCopied ==
  ASSUME VmInv, NEW p \in Slot, NEW q \in Slot, q = np[p], pc[p] = "copy",
         i[p] * PGSIZE >= sz[p]
  PROVE  \A v \in UserVA :
           IF pte[p][v] # NoPte
           THEN /\ v < PGROUNDUP(sz[p])
                /\ pte[q][v] # NoPte
                /\ pte[q][v].flags = pte[p][v].flags
                /\ data[pte[q][v].pa] = data[pte[p][v].pa]
           ELSE pte[q][v] = NoPte
  <1>1. pc[p] \in ForkPc
    BY DEF ForkPc
  <1>2. state[p] = "RUNNABLE" /\ ForkInv(p, q)
    BY <1>1, Forking
  <1>3. Copied(p, q) /\ HeapInv(p) /\ ~Growing(p)
    BY <1>2 DEF ForkInv, Progress, VmInv, SlotInv, Growing
  <1>4. sz[p] \in Nat /\ i[p] \in Nat
    BY Addresses DEF VmInv, TypeOK
  <1>5. \A v \in UserVA : pte[p][v] # NoPte => v < PGROUNDUP(sz[p])
    BY <1>3 DEF HeapInv, Top
  <1>6. PGROUNDUP(sz[p]) \in Nat /\ ~(i[p] < PGROUNDUP(sz[p]))
    <2>1. ~(i[p] * PGSIZE < sz[p])
      BY <1>4, Sizes
    <2> QED BY <1>4, <2>1, RoundUp
  <1>7. \A v \in UserVA : pte[p][v] # NoPte => v < i[p]
    BY <1>4, <1>5, <1>6 DEF UserVA
  <1> QED BY <1>3, <1>5, <1>7 DEF Copied

(* The child gets the size that its pages were copied up to. *)
LEMMA KforkStep ==
  ASSUME VmInv, NEW p \in Slot, kfork(p)
  PROVE  VmInv'
  <1>1. ~panicked /\ state[p] = "RUNNABLE" /\ pc[p] = "copy" /\ pc[p] \in ForkPc
    BY DEF kfork, At, ForkPc
  <1>2. PICK q \in Slot : q = np[p] /\ state[q] = "USED" /\ q # p /\ ForkInv(p, q)
    BY <1>1, Forking
  <1>3. TypeOK /\ Accounted(Ref, free, Kernel) /\ SlotInv(p) /\ SlotInv(q) /\ ThreadInv(q)
    BY DEF VmInv
  <1>4. /\ i[p] * PGSIZE >= sz[p]
        /\ sz' = [sz EXCEPT ![q] = sz[p]]
        /\ state' = [state EXCEPT ![q] = "RUNNABLE"]
        /\ lineage' = [lineage EXCEPT ![q] = lineage[p] \cup {pid[q]}]
        /\ Return(p)
        /\ UNCHANGED <<data, free, dir, pte, panicked, nextpid, pid, trapframe, usyscall, root>>
    BY <1>2 DEF kfork, table
  <1>5. /\ pc'[p] = "user" /\ np'[p] = 0 /\ i'[p] = 0
        /\ \A r \in Slot \ {p} : SameThread(r)
        /\ pc' \in [Slot -> Pc] /\ np' \in [Slot -> Slot \cup {0}] /\ i' \in [Slot -> VA]
        /\ newsz' \in [Slot -> 0..(WORD - 1)]
    BY <1>3, <1>4, Returned
  <1>6. /\ state \in [Slot -> {"UNUSED", "USED", "RUNNABLE", "ZOMBIE"}]
        /\ sz \in [Slot -> 0..(WORD - 1)] /\ lineage \in [Slot -> SUBSET Nat]
        /\ pid \in [Slot -> Nat]
    BY <1>3 DEF TypeOK
  <1>7. TypeOK'
    <2>1. lineage' \in [Slot -> SUBSET Nat]
      BY <1>4, <1>6
    <2>2. sz' \in [Slot -> 0..(WORD - 1)]
      BY <1>4, <1>6
    <2>3. state' \in [Slot -> {"UNUSED", "USED", "RUNNABLE", "ZOMBIE"}]
      BY <1>4, <1>6
    <2> QED BY <1>3, <1>4, <1>5, <2>1, <2>2, <2>3 DEF TypeOK
  <1>8. Ref' = Ref /\ Kernel' = Kernel
    BY <1>4 DEF Ref, Kernel
  <1>9. Accounted(Ref, free, Kernel)' /\ panicked' = FALSE
    BY <1>1, <1>3, <1>4, <1>8 DEF TypeOK
  <1>10. \A r \in Slot : SameData(r)
    BY <1>4 DEF SameData
  <1>11. \A r \in Slot \ {q} : SameProc(r)
    BY <1>4, <1>6 DEF SameProc
  <1>12. SlotInv(p)'
    <2>1. ~Growing(p) /\ ~Growing(p)'
      BY <1>1, <1>5 DEF Growing
    <2> QED BY <1>1, <1>2, <1>3, <1>5, <1>10, <1>11, <2>1, ParentKept
  <1>13. pc[q] = "user" /\ np[q] = 0 /\ i[q] = 0
    BY <1>2, <1>3 DEF SlotInv, ThreadInv, ForkPc
  <1>14. pc'[q] = "user" /\ np'[q] = 0 /\ i'[q] = 0
    BY <1>2, <1>5, <1>13 DEF SameThread
  <1>15. /\ state'[q] = "RUNNABLE" /\ sz'[q] = sz[p]
         /\ lineage'[q] = lineage[p] \cup {pid[q]} /\ pid'[q] = pid[q]
    BY <1>4, <1>6
  <1>16. SlotInv(q)'
    <2>1. TableInv(q)'
      BY <1>3, <1>4 DEF SlotInv, TableInv
    <2>2. Built(q)'
      BY <1>1, <1>2, <1>4 DEF ForkInv, Progress, Built, Paged, FixedTo, FixedPa
    <2>3. \A v \in UserVA :
            IF pte[p][v] # NoPte
            THEN /\ v < PGROUNDUP(sz[p])
                 /\ pte[q][v] # NoPte
                 /\ pte[q][v].flags = pte[p][v].flags
                 /\ data[pte[q][v].pa] = data[pte[p][v].pa]
            ELSE pte[q][v] = NoPte
      BY <1>1, <1>2, <1>4, AllCopied
    <2>4. ~Growing(q)'
      BY <1>14 DEF Growing
    <2>5. sz[p] <= Limit
      BY <1>1, <1>3 DEF SlotInv, HeapInv
    <2>6. HeapInv(q)'
      BY <1>4, <1>15, <2>3, <2>4, <2>5 DEF HeapInv, Top
    <2>7. Readable(p)
      BY <1>1, <1>3 DEF SlotInv
    <2>8. Readable(q)'
      BY <1>4, <1>15, <2>3, <2>7 DEF Readable
    <2>9. pid'[q] <= MaxPid
      BY <1>3, <1>15 DEF SlotInv
    <2> QED BY <1>14, <1>15, <2>1, <2>2, <2>6, <2>8, <2>9 DEF SlotInv
  <1>17. ThreadInv(p)' /\ ThreadInv(q)'
    BY <1>5, <1>14 DEF ThreadInv, ForkPc
  <1> DEFINE T == {p, q}
  <1>18. T \subseteq Slot /\ (\A r \in Slot \ T : SameProc(r) /\ SameThread(r) /\ SameData(r))
    BY <1>5, <1>10, <1>11
  <1>19. \A r \in T : SlotInv(r)' /\ ThreadInv(r)'
    BY <1>12, <1>16, <1>17
  <1>20. \A r \in Slot \ T : pc[r] \in ForkPc => np[r] \notin T
    BY <1>1, <1>2, Forking DEF ForkInv
  <1>21. \A r \in T : pc'[r] \in ForkPc => np'[r] \in T
    BY <1>5, <1>14 DEF ForkPc
  <1> HIDE DEF T
  <1> QED BY <1>7, <1>9, <1>18, <1>19, <1>20, <1>21, Assemble

-----------------------------------------------------------------------------
(* sbrk(), step by step. *)

(* A process that changes its own memory: what it has to show. *)
LEMMA OwnSlot ==
  ASSUME NEW p \in Slot, SlotInv(p), state[p] = "RUNNABLE",
         state'[p] \in {"RUNNABLE", "ZOMBIE"}, state'[p] = "ZOMBIE" => pc'[p] = "user",
         pid'[p] = pid[p], trapframe'[p] = trapframe[p], usyscall'[p] = usyscall[p],
         root'[p] = root[p], lineage'[p] = lineage[p],
         np'[p] = 0, TableInv(p)', HeapInv(p)', Readable(p)',
         \A k \in 0..2 : pte'[p][FixedVa(k)] = pte[p][FixedVa(k)],
         data'[usyscall[p]] = data[usyscall[p]]
  PROVE  SlotInv(p)'
  <1>1. Built(p)'
    BY DEF SlotInv, Built, Paged, FixedTo, FixedPa
  <1> QED BY <1>1 DEF SlotInv

(* A step that leaves the pages, the tables and the contents alone. *)
LEMMA NothingMoved ==
  ASSUME VmInv, UNCHANGED <<data, table, trapframe, usyscall, root>>
  PROVE  /\ Accounted(Ref, free, Kernel)' /\ panicked' = FALSE
         /\ \A r \in Slot : SameData(r) /\ TableInv(r)'
  <1>1. UNCHANGED <<data, free, dir, pte, panicked, trapframe, usyscall, root>>
    BY DEF table
  <1>2. Ref' = Ref /\ Kernel' = Kernel
    BY <1>1 DEF Ref, Kernel
  <1>3. Accounted(Ref, free, Kernel)' /\ panicked' = FALSE
    BY <1>1, <1>2 DEF VmInv, TypeOK
  <1>4. ASSUME NEW r \in Slot PROVE SameData(r) /\ TableInv(r)'
    BY <1>1 DEF SameData, TableInv, VmInv, SlotInv
  <1> QED BY <1>3, <1>4

(* The size of a process that grows does not wrap: what user programs ask    *)
(* for is less than what is left of a word.                                  *)
LEMMA NoWrap ==
  ASSUME NEW s \in Nat, s <= Limit, NEW n \in SbrkArgs, n >= 0
  PROVE  (s + n) % WORD = s + n /\ s + n \in 0..(WORD - 1) /\ s + n >= s
  <1>1. n \in Nat /\ n <= WORD - MAXVA * PGSIZE
    <2>1. n \in (1 - WORD)..(WORD - MAXVA * PGSIZE)
      BY VmAssumption
    <2>2. WORD - MAXVA * PGSIZE \in Int /\ 1 - WORD \in Int
      BY Sizes
    <2> QED BY <2>1, <2>2
  <1>2. s < MAXVA * PGSIZE /\ MAXVA * PGSIZE \in Nat
    <2>1. USYSCALL * PGSIZE < MAXVA * PGSIZE
      BY Sizes
    <2>2. USYSCALL * PGSIZE \in Nat /\ MAXVA * PGSIZE \in Nat
      BY Sizes
    <2> QED BY <2>1, <2>2 DEF Limit
  <1>3. WORD \in Nat
    BY Sizes
  <1>4. s + n < WORD /\ s + n \in Nat
    BY <1>1, <1>2, <1>3
  <1> QED BY <1>1, <1>3, <1>4

(* uvmalloc() starts at the first page above the size. *)
LEMMA SbrkEagerStep ==
  ASSUME VmInv, NEW p \in Slot, NEW n \in SbrkArgs, sbrk_eager(p, n)
  PROVE  VmInv'
  <1> DEFINE new == (sz[p] + n) % WORD
  <1>1. /\ state[p] = "RUNNABLE" /\ pc[p] = "user" /\ n > 0 /\ new <= Limit
        /\ newsz' = [newsz EXCEPT ![p] = new]
        /\ i' = [i EXCEPT ![p] = PGROUNDUP(sz[p])]
        /\ pc' = [pc EXCEPT ![p] = "grow"]
        /\ UNCHANGED <<data, table, nextpid, state, pid, sz, trapframe, usyscall, root, lineage, np>>
    BY DEF sbrk_eager, User, At, Goto, proc
  <1>2. TypeOK /\ SlotInv(p)
    BY DEF VmInv
  <1>3. sz[p] \in Nat /\ sz[p] <= Limit /\ HeapInv(p) /\ Readable(p) /\ np[p] = 0
    BY <1>1, <1>2 DEF TypeOK, SlotInv, HeapInv, ForkPc
  <1>4. n \in Int
    BY VmAssumption
  <1>5. new = sz[p] + n /\ new \in 0..(WORD - 1) /\ new \in Nat /\ sz[p] <= new
    BY <1>1, <1>3, <1>4, NoWrap
  <1> HIDE DEF new
  <1>6. /\ PGROUNDUP(sz[p]) \in Nat /\ PGROUNDUP(sz[p]) <= PGROUNDUP(new)
        /\ PGROUNDUP(sz[p]) <= USYSCALL
    BY <1>3, <1>5, RoundLimit, RoundOrder
  <1>7. PGROUNDUP(sz[p]) \in VA
    BY <1>6, Sizes DEF VA
  <1>8. /\ pc \in [Slot -> Pc] /\ i \in [Slot -> VA] /\ newsz \in [Slot -> 0..(WORD - 1)]
        /\ "grow" \in Pc
    BY <1>2 DEF TypeOK, Pc
  <1>9. pc' \in [Slot -> Pc] /\ i' \in [Slot -> VA] /\ newsz' \in [Slot -> 0..(WORD - 1)]
    BY <1>1, <1>5, <1>7, <1>8
  <1>10. UNCHANGED <<data, free, dir, pte, panicked>>
    BY <1>1 DEF table
  <1>11. TypeOK'
    BY <1>1, <1>2, <1>9, <1>10 DEF TypeOK
  <1>12. /\ Accounted(Ref, free, Kernel)' /\ panicked' = FALSE
         /\ \A r \in Slot : SameData(r) /\ TableInv(r)'
    BY <1>1, NothingMoved
  <1>13. \A r \in Slot \ {p} : SameProc(r) /\ SameThread(r)
    BY <1>1, <1>8, <1>10 DEF SameProc, SameThread
  <1>14. pc'[p] = "grow" /\ i'[p] = PGROUNDUP(sz[p]) /\ newsz'[p] = new
    BY <1>1, <1>8
  <1>15. Growing(p)' /\ ~Growing(p)
    BY <1>1, <1>14 DEF Growing
  <1>16. HeapInv(p)'
    BY <1>1, <1>3, <1>5, <1>6, <1>10, <1>14, <1>15 DEF HeapInv, Top
  <1>17. Readable(p)'
    BY <1>1, <1>3, <1>10 DEF Readable
  <1>18. SlotInv(p)'
    BY <1>1, <1>2, <1>3, <1>10, <1>12, <1>16, <1>17, OwnSlot
  <1> QED BY <1>1, <1>11, <1>12, <1>13, <1>14, <1>18, OwnStep DEF ForkPc

(* uvmalloc() maps one more page, which holds zeroes. *)
LEMMA UvmallocStep ==
  ASSUME VmInv, NEW p \in Slot, uvmalloc(p)
  PROVE  VmInv'
  <1>1. ~panicked /\ state[p] = "RUNNABLE" /\ pc[p] = "grow"
    BY DEF uvmalloc, At
  <1>2. TypeOK /\ Accounted(Ref, free, Kernel) /\ SlotInv(p)
    BY DEF VmInv
  <1>3. PICK v \in VA : v = i[p]
    BY <1>2 DEF TypeOK
  <1> DEFINE flags == {"R", "W", "U"}
  <1>4. /\ v * PGSIZE < newsz[p]
        /\ MapPage(p, v, flags, 0)
        /\ IF MapFails(p, v)
           THEN pc' = [pc EXCEPT ![p] = "grow_undo"] /\ i' = i
           ELSE i' = [i EXCEPT ![p] = v + 1] /\ pc' = pc
        /\ UNCHANGED <<nextpid, state, pid, sz, trapframe, usyscall, root, lineage, np, newsz>>
    BY <1>3 DEF uvmalloc, Goto, proc
  <1>5. /\ HeapInv(p) /\ Growing(p) /\ Readable(p) /\ Built(p) /\ TableInv(p) /\ np[p] = 0
        /\ newsz[p] \in Nat /\ newsz[p] <= Limit
    BY <1>1, <1>2 DEF SlotInv, HeapInv, Growing, ForkPc, TypeOK
  <1>6. v \in UserVA /\ v + 1 \in VA /\ v + 1 <= PGROUNDUP(newsz[p]) /\ v \in Nat
    BY <1>4, <1>5, Addresses, BelowSize
  <1>7. pte[p][v] = NoPte
    <2>1. ~(v < v)
      BY <1>6
    <2> QED BY <1>3, <1>5, <1>6, <2>1 DEF HeapInv, Top
  <1>8. root[p] # NULL /\ flags \in SUBSET Flags /\ 0 \in Int /\ 0 # KERNEL
    BY <1>5, Values DEF Built, Flags
  <1>9. UNCHANGED <<trapframe, usyscall, root>>
    BY <1>4
  <1> DEFINE d == 0
  <1>10. MapPage(p, v, flags, d) /\ d \in Int /\ d # KERNEL
    BY <1>4, <1>8
  <1> HIDE DEF flags, d
  <1>11. /\ free' \subseteq Page
         /\ data' \in [Page -> Int]
         /\ dir' \in [Slot -> [Dir -> Page \cup {NULL}]]
         /\ pte' \in [Slot -> [VA -> [pa : Page \cup {NULL, TEXT}, flags : SUBSET Flags]]]
         /\ panicked' = FALSE
    BY <1>1, <1>2, <1>5, <1>6, <1>7, <1>8, <1>9, <1>10, MapUser
  <1>12. Accounted(Ref, free, Kernel)' /\ TableInv(p)'
    BY <1>1, <1>2, <1>5, <1>6, <1>7, <1>8, <1>9, <1>10, MapUser
  <1>13. /\ \A r \in Slot : r # p => dir'[r] = dir[r] /\ pte'[r] = pte[r]
         /\ \A w \in VA : w # v => pte'[p][w] = pte[p][w]
    BY <1>1, <1>2, <1>5, <1>6, <1>7, <1>8, <1>9, <1>10, MapUser
  <1>14. \A x \in Loc : Ref[x] # NULL => data'[Ref[x]] = data[Ref[x]]
    BY <1>1, <1>2, <1>5, <1>6, <1>7, <1>8, <1>9, <1>10, MapUser
  <1>15. MapFails(p, v) => pte'[p][v] = NoPte
    BY <1>1, <1>2, <1>5, <1>6, <1>7, <1>8, <1>9, <1>10, MapUser
  <1>16. ~MapFails(p, v) => data'[pte'[p][v].pa] = d
    BY <1>1, <1>2, <1>5, <1>6, <1>7, <1>8, <1>9, <1>10, MapUser, ZenonT(60)
  <1>17. \A r \in Slot : SameData(r)
    BY <1>14, AllKept
  <1>18. pc \in [Slot -> Pc] /\ i \in [Slot -> VA] /\ "grow_undo" \in Pc
    BY <1>2 DEF TypeOK, Pc
  <1>19. /\ pc'[p] = IF MapFails(p, v) THEN "grow_undo" ELSE "grow"
         /\ i'[p] = IF MapFails(p, v) THEN v ELSE v + 1
         /\ \A r \in Slot \ {p} : pc'[r] = pc[r] /\ i'[r] = i[r]
         /\ pc' \in [Slot -> Pc] /\ i' \in [Slot -> VA]
    BY <1>1, <1>3, <1>4, <1>6, <1>18
  <1>20. TypeOK'
    BY <1>2, <1>4, <1>11, <1>19 DEF TypeOK
  <1>21. \A r \in Slot \ {p} : SameProc(r) /\ SameThread(r)
    BY <1>4, <1>13, <1>19 DEF SameProc, SameThread
  <1>22. Growing(p)'
    BY <1>19 DEF Growing
  <1>23. \A w \in UserVA : pte'[p][w] # NoPte => w < i'[p]
    <2>1. ASSUME NEW w \in UserVA, pte'[p][w] # NoPte PROVE w < i'[p]
      <3>1. w \in Nat /\ w \in VA
        BY Addresses
      <3>2. CASE w = v
        BY <1>6, <1>15, <1>19, <2>1, <3>2
      <3>3. CASE w # v
        <4>1. w < v
          BY <1>3, <1>5, <1>13, <2>1, <3>1, <3>3 DEF HeapInv, Top
        <4> QED BY <1>6, <1>19, <3>1, <4>1
      <3> QED BY <3>2, <3>3
    <2> QED BY <2>1
  <1>24. HeapInv(p)'
    <2>1. PGROUNDUP(sz[p]) \in Nat /\ PGROUNDUP(sz[p]) <= v /\ v <= PGROUNDUP(newsz[p])
      BY <1>2, <1>3, <1>5, RoundUp DEF HeapInv, TypeOK
    <2>2. PGROUNDUP(sz[p]) <= i'[p] /\ i'[p] <= PGROUNDUP(newsz[p])
      BY <1>6, <1>19, <2>1
    <2> QED BY <1>4, <1>5, <1>22, <1>23, <2>2 DEF HeapInv, Top
  <1>25. Readable(p)'
    <2>1. ASSUME NEW w \in UserVA, pte'[p][w] # NoPte
          PROVE  data'[pte'[p][w].pa] \in {By(m) : m \in lineage[p]} \cup {0}
      <3>1. CASE w = v
        BY <1>15, <1>16, <2>1, <3>1 DEF d
      <3>2. CASE w # v
        <4>1. pte'[p][w] = pte[p][w]
          BY <1>13, <3>2, Addresses
        <4> QED BY <1>5, <1>17, <2>1, <4>1 DEF Readable, SameData
      <3> QED BY <3>1, <3>2
    <2> QED BY <1>4, <2>1 DEF Readable
  <1>26. \A k \in 0..2 : pte'[p][FixedVa(k)] = pte[p][FixedVa(k)]
    BY <1>6, <1>13, Addresses
  <1>27. data'[usyscall[p]] = data[usyscall[p]]
    BY <1>5, <1>17 DEF Built, Paged, SameData
  <1>28. SlotInv(p)'
    BY <1>1, <1>2, <1>4, <1>5, <1>12, <1>24, <1>25, <1>26, <1>27, OwnSlot
  <1>29. pc'[p] \notin ForkPc /\ pc'[p] # "user"
    BY <1>19 DEF ForkPc
  <1> QED BY <1>1, <1>11, <1>12, <1>17, <1>20, <1>21, <1>28, <1>29, OwnStep

(* Unmapping user pages of the process itself: what is left was there. *)
LEMMA OwnUnmap ==
  ASSUME VmInv, NEW p \in Slot, state[p] = "RUNNABLE", NEW V, V \subseteq UserVA,
         uvmunmap(p, V), UNCHANGED <<trapframe, usyscall, root, dir, lineage>>
  PROVE  /\ free' \subseteq Page /\ data' \in [Page -> Int]
         /\ pte' \in [Slot -> [VA -> [pa : Page \cup {NULL, TEXT}, flags : SUBSET Flags]]]
         /\ Accounted(Ref, free, Kernel)' /\ TableInv(p)' /\ Readable(p)'
         /\ \A r \in Slot \ {p} : pte'[r] = pte[r] /\ SameData(r)
         /\ \A v \in VA : pte'[p][v] = IF v \in V THEN NoPte ELSE pte[p][v]
         /\ \A k \in 0..2 : pte'[p][FixedVa(k)] = pte[p][FixedVa(k)]
         /\ data'[usyscall[p]] = data[usyscall[p]]
  <1>1. TypeOK /\ Accounted(Ref, free, Kernel) /\ TableInv(p) /\ Readable(p) /\ Built(p)
    BY DEF VmInv, SlotInv
  <1> DEFINE O == {<<"user", p, v>> : v \in V}
  <1>2. /\ free' \subseteq Page /\ data' \in [Page -> Int]
        /\ pte' \in [Slot -> [VA -> [pa : Page \cup {NULL, TEXT}, flags : SUBSET Flags]]]
        /\ Accounted(Ref, free, Kernel)' /\ TableInv(p)'
    BY <1>1, Unmap
  <1>3. /\ \A r \in Slot : r # p => pte'[r] = pte[r]
        /\ \A v \in VA : pte'[p][v] = IF v \in V THEN NoPte ELSE pte[p][v]
    BY <1>1, Unmap
  <1>4. \A x \in Loc \ O : Ref[x] # NULL => data'[Ref[x]] = data[Ref[x]]
    BY <1>1, Unmap
  <1>5. ASSUME NEW r \in Slot \ {p} PROVE SameData(r)
    <2>1. TableInv(r) /\ \A x \in O : x[2] # r
      BY DEF VmInv, SlotInv
    <2> HIDE DEF O
    <2> QED BY <1>4, <2>1, KeptData
  <1>6. data'[usyscall[p]] = data[usyscall[p]]
    <2>1. <<"usyscall", p, 0>> \in Loc \ O /\ Ref[<<"usyscall", p, 0>>] = usyscall[p]
      BY Places, RefAt
    <2>2. usyscall[p] # NULL
      BY <1>1 DEF Built, Paged
    <2> QED BY <1>4, <2>1, <2>2
  <1>7. Readable(p)'
    <2>1. ASSUME NEW v \in UserVA, pte'[p][v] # NoPte
          PROVE  data'[pte'[p][v].pa] \in {By(m) : m \in lineage[p]} \cup {0}
      <3>1. v \notin V /\ pte'[p][v] = pte[p][v]
        BY <1>3, <2>1, Addresses
      <3>2. <<"user", p, v>> \in Loc \ O /\ Ref[<<"user", p, v>>] = pte[p][v].pa
        BY <3>1, Places, RefAt
      <3>3. pte[p][v].pa # NULL
        BY <1>1, <2>1, <3>1, Values DEF TableInv
      <3>4. data'[pte[p][v].pa] = data[pte[p][v].pa]
        BY <1>4, <3>2, <3>3
      <3> QED BY <1>1, <2>1, <3>1, <3>4 DEF Readable
    <2> QED BY <2>1 DEF Readable
  <1>8. \A k \in 0..2 : pte'[p][FixedVa(k)] = pte[p][FixedVa(k)]
    BY <1>3, Addresses
  <1> QED BY <1>2, <1>3, <1>5, <1>6, <1>7, <1>8

(* uvmalloc() gives up: uvmdealloc() from where it got to the old size. *)
LEMMA UvmallocUndoStep ==
  ASSUME VmInv, NEW p \in Slot, uvmalloc_undo(p)
  PROVE  VmInv'
  <1>1. ~panicked /\ state[p] = "RUNNABLE" /\ pc[p] = "grow_undo"
    BY DEF uvmalloc_undo, At
  <1>2. TypeOK /\ SlotInv(p)
    BY DEF VmInv
  <1> DEFINE V == PGROUNDUP(sz[p])..(i[p] - 1)
  <1>3. /\ uvmunmap(p, V) /\ Return(p)
        /\ UNCHANGED <<nextpid, state, pid, sz, trapframe, usyscall, root, lineage, dir, panicked>>
    BY DEF uvmalloc_undo, proc
  <1>4. /\ HeapInv(p) /\ Growing(p)
        /\ newsz[p] \in Nat /\ newsz[p] <= Limit /\ sz[p] \in Nat /\ sz[p] <= Limit
        /\ PGROUNDUP(sz[p]) <= i[p] /\ i[p] <= PGROUNDUP(newsz[p])
        /\ i[p] \in Nat
    BY <1>1, <1>2, Addresses DEF SlotInv, HeapInv, Growing, TypeOK
  <1>5. /\ PGROUNDUP(newsz[p]) \in Nat /\ PGROUNDUP(newsz[p]) <= USYSCALL
        /\ PGROUNDUP(sz[p]) \in Nat
    BY <1>4, RoundLimit
  <1>6. V \subseteq UserVA
    BY <1>4, <1>5, Sizes DEF UserVA
  <1>7. \A v \in UserVA : v \notin V /\ v < i[p] => v < PGROUNDUP(sz[p])
    BY <1>4, <1>5 DEF UserVA
  <1> HIDE DEF V
  <1>8. /\ free' \subseteq Page /\ data' \in [Page -> Int]
        /\ pte' \in [Slot -> [VA -> [pa : Page \cup {NULL, TEXT}, flags : SUBSET Flags]]]
        /\ Accounted(Ref, free, Kernel)' /\ TableInv(p)' /\ Readable(p)'
        /\ \A r \in Slot \ {p} : pte'[r] = pte[r] /\ SameData(r)
        /\ \A v \in VA : pte'[p][v] = IF v \in V THEN NoPte ELSE pte[p][v]
        /\ \A k \in 0..2 : pte'[p][FixedVa(k)] = pte[p][FixedVa(k)]
        /\ data'[usyscall[p]] = data[usyscall[p]]
    BY <1>1, <1>3, <1>6, OwnUnmap
  <1>9. /\ pc'[p] = "user" /\ np'[p] = 0 /\ i'[p] = 0
        /\ \A r \in Slot \ {p} : SameThread(r)
        /\ pc' \in [Slot -> Pc] /\ np' \in [Slot -> Slot \cup {0}] /\ i' \in [Slot -> VA]
        /\ newsz' \in [Slot -> 0..(WORD - 1)]
    BY <1>2, <1>3, Returned
  <1>10. TypeOK'
    BY <1>2, <1>3, <1>8, <1>9 DEF TypeOK
  <1>11. \A r \in Slot \ {p} : SameProc(r)
    BY <1>3, <1>8 DEF SameProc
  <1>12. HeapInv(p)'
    <2>1. ~Growing(p)'
      BY <1>9 DEF Growing
    <2>2. \A v \in UserVA : pte'[p][v] # NoPte => v < PGROUNDUP(sz[p])
      BY <1>4, <1>7, <1>8, Addresses DEF HeapInv, Top
    <2> QED BY <1>3, <1>4, <2>1, <2>2 DEF HeapInv, Top
  <1>13. SlotInv(p)'
    BY <1>1, <1>2, <1>3, <1>8, <1>9, <1>12, OwnSlot
  <1>14. panicked' = FALSE /\ pc'[p] \notin ForkPc
    BY <1>1, <1>2, <1>3, <1>9 DEF TypeOK, ForkPc
  <1> QED BY <1>1, <1>8, <1>9, <1>10, <1>11, <1>13, <1>14, OwnStep

(* The new size covers all that uvmalloc() mapped. *)
LEMMA GrowprocStep ==
  ASSUME VmInv, NEW p \in Slot, growproc(p)
  PROVE  VmInv'
  <1>1. ~panicked /\ state[p] = "RUNNABLE" /\ pc[p] = "grow"
    BY DEF growproc, At
  <1>2. TypeOK /\ SlotInv(p)
    BY DEF VmInv
  <1>3. /\ sz' = [sz EXCEPT ![p] = newsz[p]] /\ Return(p)
        /\ UNCHANGED <<data, table, nextpid, state, pid, trapframe, usyscall, root, lineage>>
    BY DEF growproc
  <1>4. UNCHANGED <<free, dir, pte, panicked>>
    BY <1>3 DEF table
  <1>5. /\ HeapInv(p) /\ Growing(p) /\ Readable(p)
        /\ newsz[p] \in 0..(WORD - 1) /\ newsz[p] \in Nat /\ newsz[p] <= Limit
        /\ i[p] <= PGROUNDUP(newsz[p]) /\ i[p] \in Nat
        /\ sz \in [Slot -> 0..(WORD - 1)]
    BY <1>1, <1>2, Addresses DEF SlotInv, HeapInv, Growing, TypeOK
  <1>6. /\ pc'[p] = "user" /\ np'[p] = 0 /\ i'[p] = 0
        /\ \A r \in Slot \ {p} : SameThread(r)
        /\ pc' \in [Slot -> Pc] /\ np' \in [Slot -> Slot \cup {0}] /\ i' \in [Slot -> VA]
        /\ newsz' \in [Slot -> 0..(WORD - 1)]
    BY <1>2, <1>3, Returned
  <1>7. sz' \in [Slot -> 0..(WORD - 1)] /\ sz'[p] = newsz[p]
    BY <1>3, <1>5
  <1>8. TypeOK'
    BY <1>2, <1>3, <1>4, <1>6, <1>7 DEF TypeOK
  <1>9. /\ Accounted(Ref, free, Kernel)' /\ panicked' = FALSE
        /\ \A r \in Slot : SameData(r) /\ TableInv(r)'
    BY <1>3, NothingMoved
  <1>10. \A r \in Slot \ {p} : SameProc(r)
    BY <1>3, <1>4, <1>5 DEF SameProc
  <1>11. HeapInv(p)'
    <2>1. ~Growing(p)'
      BY <1>6 DEF Growing
    <2>2. PGROUNDUP(newsz[p]) \in Nat
      BY <1>5, RoundUp
    <2>3. \A v \in UserVA : pte[p][v] # NoPte => v < PGROUNDUP(newsz[p])
      BY <1>5, <2>2 DEF HeapInv, Top, UserVA
    <2> QED BY <1>4, <1>5, <1>7, <2>1, <2>3 DEF HeapInv, Top
  <1>12. Readable(p)'
    BY <1>3, <1>4, <1>5 DEF Readable
  <1>13. SlotInv(p)'
    BY <1>1, <1>2, <1>3, <1>4, <1>6, <1>9, <1>11, <1>12, OwnSlot
  <1>14. pc'[p] \notin ForkPc
    BY <1>6 DEF ForkPc
  <1> QED BY <1>1, <1>6, <1>8, <1>9, <1>10, <1>13, <1>14, OwnStep

(* A step of a program that moves no page: the size may grow, and the        *)
(* process may end.                                                          *)
LEMMA StillStep ==
  ASSUME VmInv, NEW p \in Slot, state[p] = "RUNNABLE", pc[p] = "user",
         UNCHANGED <<data, table, nextpid, pid, trapframe, usyscall, root, lineage, thread>>,
         state' \in [Slot -> {"UNUSED", "USED", "RUNNABLE", "ZOMBIE"}],
         sz' \in [Slot -> 0..(WORD - 1)],
         \A r \in Slot \ {p} : state'[r] = state[r] /\ sz'[r] = sz[r],
         state'[p] \in {"RUNNABLE", "ZOMBIE"},
         sz[p] <= sz'[p], sz'[p] <= Limit
  PROVE  VmInv'
  <1>1. TypeOK /\ SlotInv(p) /\ ThreadInv(p)
    BY DEF VmInv
  <1>2. UNCHANGED <<free, dir, pte, panicked, pc, np, i, newsz>>
    BY DEF table, thread
  <1>3. TypeOK'
    BY <1>1, <1>2 DEF TypeOK
  <1>4. /\ Accounted(Ref, free, Kernel)' /\ panicked' = FALSE
        /\ \A r \in Slot : SameData(r) /\ TableInv(r)'
    BY NothingMoved
  <1>5. \A r \in Slot \ {p} : SameProc(r) /\ SameThread(r)
    BY <1>2 DEF SameProc, SameThread
  <1>6. HeapInv(p) /\ Readable(p) /\ np[p] = 0 /\ i[p] = 0 /\ sz[p] \in Nat /\ sz'[p] \in Nat
    BY <1>1 DEF SlotInv, ThreadInv, ForkPc, TypeOK
  <1>7. HeapInv(p)'
    <2>1. ~Growing(p) /\ ~Growing(p)'
      BY <1>2 DEF Growing
    <2>2. /\ PGROUNDUP(sz[p]) \in Nat /\ PGROUNDUP(sz'[p]) \in Nat
          /\ PGROUNDUP(sz[p]) <= PGROUNDUP(sz'[p])
      BY <1>6, RoundUp, RoundOrder
    <2>3. \A v \in UserVA : pte'[p][v] # NoPte => v < PGROUNDUP(sz'[p])
      BY <1>2, <1>6, <2>1, <2>2 DEF HeapInv, Top, UserVA
    <2> QED BY <2>1, <2>3 DEF HeapInv, Top
  <1>8. Readable(p)'
    BY <1>2, <1>6 DEF Readable
  <1>9. SlotInv(p)'
    BY <1>1, <1>2, <1>4, <1>6, <1>7, <1>8, OwnSlot
  <1>10. pc'[p] \notin ForkPc /\ i'[p] = 0
    BY <1>2, <1>6 DEF ForkPc
  <1> QED BY <1>3, <1>4, <1>5, <1>9, <1>10, OwnStep

(* The size only moves down to a page that is kept. *)
LEMMA SbrkShrinkStep ==
  ASSUME VmInv, NEW p \in Slot, NEW n \in SbrkArgs, sbrk_shrink(p, n)
  PROVE  VmInv'
  <1> DEFINE new == (sz[p] + n) % WORD
  <1>1. /\ ~panicked /\ state[p] = "RUNNABLE" /\ pc[p] = "user"
        /\ IF new >= sz[p]
           THEN UNCHANGED <<data, free, pte, sz>>
           ELSE /\ uvmunmap(p, PGROUNDUP(new)..(PGROUNDUP(sz[p]) - 1))
                /\ sz' = [sz EXCEPT ![p] = new]
        /\ UNCHANGED <<dir, panicked, nextpid, state, pid, trapframe, usyscall, root,
                       lineage, thread>>
    BY DEF sbrk_shrink, User, At
  <1>2. TypeOK /\ SlotInv(p) /\ ThreadInv(p)
    BY DEF VmInv
  <1>3. /\ sz[p] \in Nat /\ sz[p] <= Limit /\ HeapInv(p) /\ np[p] = 0 /\ i[p] = 0
        /\ sz \in [Slot -> 0..(WORD - 1)]
        /\ state \in [Slot -> {"UNUSED", "USED", "RUNNABLE", "ZOMBIE"}]
    BY <1>1, <1>2 DEF TypeOK, SlotInv, HeapInv, ForkPc, ThreadInv
  <1>4. new \in 0..(WORD - 1) /\ new \in Nat
    <2>1. n \in Int /\ WORD \in Nat /\ WORD > 0
      <3>1. MAXVA * PGSIZE \in Nat
        BY Sizes
      <3> QED BY <3>1, Sizes, VmAssumption
    <2> QED BY <1>3, <2>1
  <1> HIDE DEF new
  <1>5. UNCHANGED <<pc, np, i, newsz>>
    BY <1>1 DEF thread
  <1>6. CASE new >= sz[p]
    <2>1. UNCHANGED <<data, table, nextpid, pid, trapframe, usyscall, root, lineage, thread, state, sz>>
      BY <1>1, <1>6 DEF table
    <2> QED BY <1>1, <1>3, <2>1, StillStep
  <1>7. CASE new < sz[p]
    <2> DEFINE V == PGROUNDUP(new)..(PGROUNDUP(sz[p]) - 1)
    <2>1. uvmunmap(p, V) /\ sz' = [sz EXCEPT ![p] = new]
      BY <1>1, <1>3, <1>4, <1>7
    <2>2. /\ PGROUNDUP(new) \in Nat /\ PGROUNDUP(sz[p]) \in Nat /\ PGROUNDUP(sz[p]) <= USYSCALL
      BY <1>3, <1>4, RoundUp, RoundLimit
    <2>3. V \subseteq UserVA
      BY <2>2, Sizes DEF UserVA
    <2>4. \A v \in UserVA : v \notin V /\ v < PGROUNDUP(sz[p]) => v < PGROUNDUP(new)
      BY <2>2 DEF UserVA
    <2> HIDE DEF V
    <2>5. /\ free' \subseteq Page /\ data' \in [Page -> Int]
          /\ pte' \in [Slot -> [VA -> [pa : Page \cup {NULL, TEXT}, flags : SUBSET Flags]]]
          /\ Accounted(Ref, free, Kernel)' /\ TableInv(p)' /\ Readable(p)'
          /\ \A r \in Slot \ {p} : pte'[r] = pte[r] /\ SameData(r)
          /\ \A v \in VA : pte'[p][v] = IF v \in V THEN NoPte ELSE pte[p][v]
          /\ \A k \in 0..2 : pte'[p][FixedVa(k)] = pte[p][FixedVa(k)]
          /\ data'[usyscall[p]] = data[usyscall[p]]
      BY <1>1, <2>1, <2>3, OwnUnmap
    <2>6. sz' \in [Slot -> 0..(WORD - 1)] /\ sz'[p] = new
      BY <1>3, <1>4, <2>1
    <2>7. TypeOK'
      BY <1>1, <1>2, <1>5, <2>5, <2>6 DEF TypeOK
    <2>8. \A r \in Slot \ {p} : SameProc(r) /\ SameThread(r)
      BY <1>1, <1>3, <1>5, <2>1, <2>5 DEF SameProc, SameThread
    <2>9. HeapInv(p)'
      <3>1. ~Growing(p) /\ ~Growing(p)'
        BY <1>1, <1>5 DEF Growing
      <3>2. \A v \in UserVA : pte'[p][v] # NoPte => v < PGROUNDUP(new)
        BY <1>3, <2>4, <2>5, <3>1, Addresses DEF HeapInv, Top
      <3>3. new <= Limit
        BY <1>3, <1>4, <1>7, Sizes DEF Limit
      <3> QED BY <2>6, <3>1, <3>2, <3>3 DEF HeapInv, Top
    <2>10. SlotInv(p)'
      BY <1>1, <1>2, <1>3, <1>5, <2>5, <2>9, OwnSlot
    <2>11. panicked' = FALSE /\ pc'[p] \notin ForkPc /\ i'[p] = 0
      BY <1>1, <1>2, <1>3, <1>5 DEF TypeOK, ForkPc
    <2> QED BY <1>1, <2>5, <2>7, <2>8, <2>10, <2>11, OwnStep
  <1> QED BY <1>3, <1>4, <1>6, <1>7

(* A lazy sbrk() only moves the size. *)
LEMMA SbrkLazyStep ==
  ASSUME VmInv, NEW p \in Slot, NEW n \in SbrkArgs, sbrk_lazy(p, n)
  PROVE  VmInv'
  <1> DEFINE new == (sz[p] + n) % WORD
  <1>1. /\ state[p] = "RUNNABLE" /\ pc[p] = "user" /\ n >= 0 /\ new >= sz[p] /\ new <= Limit
        /\ sz' = [sz EXCEPT ![p] = new]
        /\ UNCHANGED <<data, table, nextpid, state, pid, trapframe, usyscall, root, lineage, thread>>
    BY DEF sbrk_lazy, User, At
  <1>2. /\ sz[p] \in Nat /\ sz[p] <= Limit
        /\ sz \in [Slot -> 0..(WORD - 1)]
        /\ state \in [Slot -> {"UNUSED", "USED", "RUNNABLE", "ZOMBIE"}]
    BY <1>1 DEF VmInv, TypeOK, SlotInv, HeapInv
  <1>3. new \in 0..(WORD - 1) /\ new \in Nat
    BY <1>1, <1>2, NoWrap
  <1> HIDE DEF new
  <1>4. sz' \in [Slot -> 0..(WORD - 1)] /\ sz'[p] = new /\ \A r \in Slot \ {p} : sz'[r] = sz[r]
    BY <1>1, <1>2, <1>3
  <1>5. sz[p] <= sz'[p] /\ sz'[p] <= Limit
    BY <1>1, <1>2, <1>3, <1>4
  <1> QED BY <1>1, <1>2, <1>4, <1>5, StillStep

-----------------------------------------------------------------------------
(* Page faults, copies, exit() and wait(), step by step. *)

(* vmfault() maps a page below the size of the process, filled with zeroes   *)
(* or with what the kernel then writes for the process.                      *)
LEMMA FaultStep ==
  ASSUME VmInv, NEW p \in Slot, state[p] = "RUNNABLE", pc[p] = "user", NEW v \in VA,
         v * PGSIZE < sz[p], pte[p][v] = NoPte,
         NEW d \in Int, d # KERNEL, d \in {By(m) : m \in lineage[p]} \cup {0},
         MapPage(p, v, {"R", "W", "U"}, d),
         UNCHANGED <<nextpid, pid, sz, trapframe, usyscall, root, lineage, thread>>,
         state' \in [Slot -> {"UNUSED", "USED", "RUNNABLE", "ZOMBIE"}],
         \A r \in Slot \ {p} : state'[r] = state[r],
         state'[p] \in {"RUNNABLE", "ZOMBIE"}
  PROVE  VmInv'
  <1>1. TypeOK /\ Accounted(Ref, free, Kernel) /\ SlotInv(p) /\ ThreadInv(p) /\ ~panicked
    BY DEF VmInv
  <1>2. UNCHANGED <<pc, np, i, newsz>>
    BY DEF thread
  <1>3. /\ HeapInv(p) /\ ~Growing(p) /\ Readable(p) /\ Built(p) /\ TableInv(p) /\ np[p] = 0
        /\ i[p] = 0 /\ sz[p] \in Nat /\ sz[p] <= Limit
    BY <1>1 DEF SlotInv, ThreadInv, HeapInv, Growing, ForkPc, TypeOK
  <1>4. v \in UserVA /\ v < PGROUNDUP(sz[p])
    BY <1>3, Addresses, BelowSize
  <1> DEFINE flags == {"R", "W", "U"}
  <1>5. root[p] # NULL /\ flags \in SUBSET Flags /\ MapPage(p, v, flags, d)
    BY <1>3 DEF Built, Flags
  <1> HIDE DEF flags
  <1>6. UNCHANGED <<trapframe, usyscall, root>>
    OBVIOUS
  <1>7. /\ free' \subseteq Page
        /\ data' \in [Page -> Int]
        /\ dir' \in [Slot -> [Dir -> Page \cup {NULL}]]
        /\ pte' \in [Slot -> [VA -> [pa : Page \cup {NULL, TEXT}, flags : SUBSET Flags]]]
        /\ panicked' = FALSE
    BY <1>1, <1>3, <1>4, <1>5, <1>6, MapUser
  <1>8. Accounted(Ref, free, Kernel)' /\ TableInv(p)'
    BY <1>1, <1>3, <1>4, <1>5, <1>6, MapUser
  <1>9. /\ \A r \in Slot : r # p => dir'[r] = dir[r] /\ pte'[r] = pte[r]
        /\ \A w \in VA : w # v => pte'[p][w] = pte[p][w]
    BY <1>1, <1>3, <1>4, <1>5, <1>6, MapUser
  <1>10. \A x \in Loc : Ref[x] # NULL => data'[Ref[x]] = data[Ref[x]]
    BY <1>1, <1>3, <1>4, <1>5, <1>6, MapUser
  <1>11. MapFails(p, v) => pte'[p][v] = NoPte
    BY <1>1, <1>3, <1>4, <1>5, <1>6, MapUser
  <1>12. ~MapFails(p, v) => data'[pte'[p][v].pa] = d
    BY <1>1, <1>3, <1>4, <1>5, <1>6, MapUser, ZenonT(60)
  <1>13. \A r \in Slot : SameData(r)
    BY <1>10, AllKept
  <1>14. TypeOK'
    BY <1>1, <1>2, <1>7 DEF TypeOK
  <1>15. \A r \in Slot \ {p} : SameProc(r) /\ SameThread(r)
    BY <1>2, <1>9 DEF SameProc, SameThread
  <1>16. HeapInv(p)'
    <2>1. ~Growing(p)'
      BY <1>2 DEF Growing
    <2>2. ASSUME NEW w \in UserVA, pte'[p][w] # NoPte PROVE w < PGROUNDUP(sz[p])
      <3>1. CASE w = v
        BY <1>4, <3>1
      <3>2. CASE w # v
        BY <1>3, <1>9, <2>2, <3>2, Addresses DEF HeapInv, Top
      <3> QED BY <3>1, <3>2
    <2> QED BY <1>3, <2>1, <2>2 DEF HeapInv, Top
  <1>17. Readable(p)'
    <2>1. ASSUME NEW w \in UserVA, pte'[p][w] # NoPte
          PROVE  data'[pte'[p][w].pa] \in {By(m) : m \in lineage[p]} \cup {0}
      <3>1. CASE w = v
        BY <1>11, <1>12, <2>1, <3>1
      <3>2. CASE w # v
        <4>1. pte'[p][w] = pte[p][w]
          BY <1>9, <3>2, Addresses
        <4> QED BY <1>3, <1>13, <2>1, <4>1 DEF Readable, SameData
      <3> QED BY <3>1, <3>2
    <2> QED BY <2>1 DEF Readable
  <1>18. \A k \in 0..2 : pte'[p][FixedVa(k)] = pte[p][FixedVa(k)]
    BY <1>4, <1>9, Addresses
  <1>19. data'[usyscall[p]] = data[usyscall[p]]
    BY <1>3, <1>13 DEF Built, Paged, SameData
  <1>20. SlotInv(p)'
    BY <1>1, <1>2, <1>3, <1>8, <1>16, <1>17, <1>18, <1>19, OwnSlot
  <1>21. pc'[p] \notin ForkPc /\ i'[p] = 0
    BY <1>2, <1>3 DEF ForkPc
  <1> QED BY <1>7, <1>8, <1>13, <1>14, <1>15, <1>20, <1>21, OwnStep

(* What a process may write is a page of its program, never one of the fixed *)
(* pages.                                                                    *)
LEMMA WriteStep ==
  ASSUME VmInv, NEW p \in Slot, state[p] = "RUNNABLE", pc[p] = "user", NEW v \in VA,
         "W" \in pte[p][v].flags, "U" \in pte[p][v].flags,
         data' = [data EXCEPT ![pte[p][v].pa] = By(pid[p])],
         UNCHANGED <<table, nextpid, proc, thread>>
  PROVE  VmInv'
  <1>1. TypeOK /\ Accounted(Ref, free, Kernel) /\ SlotInv(p) /\ ThreadInv(p) /\ ~panicked
    BY DEF VmInv
  <1>2. UNCHANGED <<free, dir, pte, panicked, state, pid, sz, trapframe, usyscall, root, lineage,
                    pc, np, i, newsz>>
    BY DEF table, proc, thread
  <1>3. /\ HeapInv(p) /\ Readable(p) /\ Built(p) /\ TableInv(p) /\ np[p] = 0 /\ i[p] = 0
        /\ pid[p] \in lineage[p] /\ pid[p] <= MaxPid /\ pid[p] \in Nat
    BY <1>1 DEF SlotInv, ThreadInv, ForkPc, TypeOK
  <1>4. v \in UserVA
    <2>1. ASSUME NEW k \in 0..2 PROVE v # FixedVa(k)
      <3>1. pte[p][FixedVa(k)].flags = FixedFlags(k)
        BY <1>3 DEF Built, FixedTo
      <3>2. k = 0 \/ k = 1 \/ k = 2
        OBVIOUS
      <3>3. ~({"W", "U"} \subseteq FixedFlags(k))
        BY <3>2 DEF FixedFlags
      <3> QED BY <3>1, <3>3
    <2> QED BY <2>1, Addresses
  <1> DEFINE o == <<"user", p, v>>
  <1>5. pte[p][v] # NoPte
    BY Values
  <1>6. PICK g \in Page : g = pte[p][v].pa
    BY <1>3, <1>4, <1>5 DEF TableInv
  <1>7. o \in Loc /\ Ref[o] = g /\ g # NULL
    BY <1>4, <1>6, Places, RefAt, Values
  <1>8. By(pid[p]) \in Int /\ By(pid[p]) # KERNEL
    BY <1>3, Values
  <1>9. data' \in [Page -> Int] /\ data'[g] = By(pid[p]) /\ \A h \in Page \ {g} : data'[h] = data[h]
    BY <1>1, <1>6, <1>8 DEF TypeOK
  <1>10. TypeOK'
    BY <1>1, <1>2, <1>9 DEF TypeOK
  <1>11. Kernel' = Kernel
    <2>1. data[g] # KERNEL
      BY <1>1, <1>7 DEF Accounted, Kernel
    <2>2. \A h \in Page : data'[h] = KERNEL <=> data[h] = KERNEL
      BY <1>8, <1>9, <2>1
    <2> QED BY <2>2 DEF Kernel
  <1>12. Ref' = Ref
    BY <1>2 DEF Ref
  <1>13. Accounted(Ref, free, Kernel)' /\ panicked' = FALSE
    BY <1>1, <1>2, <1>11, <1>12
  <1>14. ASSUME NEW x \in Loc \ {o}, Ref[x] # NULL PROVE data'[Ref[x]] = data[Ref[x]]
    <2>1. Ref[x] \in Page /\ Ref[x] # g
      BY <1>1, <1>7, <1>14 DEF Accounted
    <2> QED BY <1>9, <2>1
  <1>15. ASSUME NEW r \in Slot \ {p} PROVE SameData(r)
    <2> DEFINE O == {o}
    <2>1. TableInv(r) /\ (\A x \in O : x[2] # r)
      BY DEF VmInv, SlotInv
    <2>2. \A x \in Loc \ O : Ref[x] # NULL => data'[Ref[x]] = data[Ref[x]]
      BY <1>14
    <2> HIDE DEF O
    <2> QED BY <2>1, <2>2, KeptData
  <1>16. \A r \in Slot \ {p} : SameProc(r) /\ SameThread(r)
    BY <1>2 DEF SameProc, SameThread
  <1>17. Readable(p)'
    <2>1. ASSUME NEW w \in UserVA, pte[p][w] # NoPte
          PROVE  data'[pte[p][w].pa] \in {By(m) : m \in lineage[p]} \cup {0}
      <3>1. CASE w = v
        BY <1>3, <1>6, <1>9, <3>1
      <3>2. CASE w # v
        <4>1. <<"user", p, w>> \in Loc \ {o} /\ Ref[<<"user", p, w>>] = pte[p][w].pa
          BY <3>2, Places, RefAt
        <4>2. pte[p][w].pa # NULL
          BY <1>3, <2>1, Values DEF TableInv
        <4>3. data'[pte[p][w].pa] = data[pte[p][w].pa]
          BY <1>14, <4>1, <4>2
        <4> QED BY <1>3, <2>1, <4>3 DEF Readable
      <3> QED BY <3>1, <3>2
    <2> QED BY <1>2, <2>1 DEF Readable
  <1>18. data'[usyscall[p]] = data[usyscall[p]]
    <2>1. <<"usyscall", p, 0>> \in Loc \ {o} /\ Ref[<<"usyscall", p, 0>>] = usyscall[p]
      BY Places, RefAt
    <2>2. usyscall[p] # NULL
      BY <1>3 DEF Built, Paged
    <2> QED BY <1>14, <2>1, <2>2
  <1>19. HeapInv(p)' /\ TableInv(p)'
    BY <1>2, <1>3 DEF HeapInv, Top, Growing, TableInv
  <1>20. SlotInv(p)'
    BY <1>1, <1>2, <1>3, <1>17, <1>18, <1>19, OwnSlot
  <1>21. pc'[p] \notin ForkPc /\ i'[p] = 0
    BY <1>2, <1>3 DEF ForkPc
  <1> QED BY <1>10, <1>13, <1>15, <1>16, <1>20, <1>21, OwnStep

(* A fault, or an access by the kernel, at an address of the program: a page *)
(* is mapped there, or nothing happens.                                      *)
LEMMA MayFault ==
  ASSUME VmInv, NEW p \in Slot, state[p] = "RUNNABLE", pc[p] = "user", NEW v \in VA,
         NEW d, d = 0 \/ d = By(pid[p]),
         IF v * PGSIZE >= sz[p] \/ pte[p][v] # NoPte
         THEN UNCHANGED <<data, table>>
         ELSE MapPage(p, v, {"R", "W", "U"}, d),
         UNCHANGED <<nextpid, pid, sz, trapframe, usyscall, root, lineage, thread>>,
         state' \in [Slot -> {"UNUSED", "USED", "RUNNABLE", "ZOMBIE"}],
         \A r \in Slot \ {p} : state'[r] = state[r],
         state'[p] \in {"RUNNABLE", "ZOMBIE"}
  PROVE  VmInv'
  <1>1. TypeOK /\ SlotInv(p)
    BY DEF VmInv
  <1>2. /\ pid[p] \in lineage[p] /\ pid[p] <= MaxPid /\ pid[p] \in Nat
        /\ sz \in [Slot -> 0..(WORD - 1)] /\ sz[p] \in Nat /\ sz[p] <= Limit
    BY <1>1 DEF SlotInv, TypeOK, HeapInv
  <1>3. d \in Int /\ d # KERNEL /\ d \in {By(m) : m \in lineage[p]} \cup {0}
    BY <1>2, Values
  <1>4. CASE v * PGSIZE >= sz[p] \/ pte[p][v] # NoPte
    <2>1. UNCHANGED <<data, table>>
      BY <1>4
    <2>2. sz[p] <= sz'[p] /\ sz'[p] <= Limit
      BY <1>2
    <2> QED BY <1>2, <2>1, <2>2, StillStep
  <1>5. CASE ~(v * PGSIZE >= sz[p] \/ pte[p][v] # NoPte)
    <2>1. MapPage(p, v, {"R", "W", "U"}, d) /\ pte[p][v] = NoPte
      BY <1>5
    <2>2. v * PGSIZE < sz[p]
      BY <1>2, <1>5, Sizes, Addresses
    <2> QED BY <1>3, <2>1, <2>2, FaultStep
  <1> QED BY <1>4, <1>5

(* A store by the program. *)
LEMMA StoreStep ==
  ASSUME VmInv, NEW p \in Slot, NEW v \in VA, store(p, v)
  PROVE  VmInv'
BY WriteStep DEF store, User, At, CanWrite

(* A page fault maps a page or ends the process. *)
LEMMA UsertrapStep ==
  ASSUME VmInv, NEW p \in Slot, NEW v \in VA, NEW write \in BOOLEAN, usertrap(p, v, write)
  PROVE  VmInv'
  <1>1. state[p] = "RUNNABLE" /\ pc[p] = "user"
    BY DEF usertrap, User, At
  <1>2. /\ IF v * PGSIZE >= sz[p] \/ pte[p][v] # NoPte
           THEN UNCHANGED <<data, table>>
           ELSE MapPage(p, v, {"R", "W", "U"}, 0)
        /\ UNCHANGED <<nextpid, pid, sz, trapframe, usyscall, root, lineage, thread>>
    BY DEF usertrap, vmfault
  <1>3. PICK s \in {"RUNNABLE", "ZOMBIE"} : state' = [state EXCEPT ![p] = s]
    BY <1>1 DEF usertrap
  <1>4. state \in [Slot -> {"UNUSED", "USED", "RUNNABLE", "ZOMBIE"}]
    BY DEF VmInv, TypeOK
  <1>5. /\ state' \in [Slot -> {"UNUSED", "USED", "RUNNABLE", "ZOMBIE"}]
        /\ \A r \in Slot \ {p} : state'[r] = state[r]
        /\ state'[p] \in {"RUNNABLE", "ZOMBIE"}
    BY <1>3, <1>4
  <1> QED BY <1>1, <1>2, <1>5, MayFault

(* copyout() writes a page of the program that may be written, or maps one. *)
LEMMA SysCopyoutStep ==
  ASSUME VmInv, NEW p \in Slot, NEW v \in VA, sys_copyout(p, v)
  PROVE  VmInv'
  <1>1. /\ state[p] = "RUNNABLE" /\ pc[p] = "user" /\ copyout(p, v)
        /\ UNCHANGED <<nextpid, proc, thread>>
    BY DEF sys_copyout, User, At
  <1>2. UNCHANGED <<nextpid, state, pid, sz, trapframe, usyscall, root, lineage, thread>>
    BY <1>1 DEF proc
  <1>3. /\ state \in [Slot -> {"UNUSED", "USED", "RUNNABLE", "ZOMBIE"}]
        /\ sz \in [Slot -> 0..(WORD - 1)] /\ sz[p] \in Nat /\ sz[p] <= Limit
    BY <1>1 DEF VmInv, TypeOK, SlotInv, HeapInv
  <1>4. CASE walkaddr(p, v) # NULL /\ CopyoutFails(p, v)
    <2>1. UNCHANGED <<data, table>>
      BY <1>1, <1>4 DEF copyout
    <2> QED BY <1>1, <1>2, <1>3, <2>1, StillStep
  <1>5. CASE walkaddr(p, v) # NULL /\ ~CopyoutFails(p, v)
    <2>1. data' = [data EXCEPT ![pte[p][v].pa] = By(pid[p])] /\ UNCHANGED table
      BY <1>1, <1>5 DEF copyout
    <2>2. "W" \in pte[p][v].flags /\ "U" \in pte[p][v].flags
      BY <1>5 DEF walkaddr, CopyoutFails
    <2> QED BY <1>1, <2>1, <2>2, WriteStep
  <1>6. CASE walkaddr(p, v) = NULL
    <2>1. IF v * PGSIZE >= sz[p] \/ pte[p][v] # NoPte
          THEN UNCHANGED <<data, table>>
          ELSE MapPage(p, v, {"R", "W", "U"}, By(pid[p]))
      BY <1>1, <1>6 DEF copyout
    <2> QED BY <1>1, <1>2, <1>3, <2>1, MayFault
  <1> QED BY <1>4, <1>5, <1>6

(* copyin() may map a page. *)
LEMMA CopyinStep ==
  ASSUME VmInv, NEW p \in Slot, NEW v \in VA, copyin(p, v)
  PROVE  VmInv'
  <1>1. /\ state[p] = "RUNNABLE" /\ pc[p] = "user"
        /\ IF walkaddr(p, v) = NULL THEN vmfault(p, v) ELSE UNCHANGED <<data, table>>
        /\ UNCHANGED <<nextpid, proc, thread>>
    BY DEF copyin, User, At
  <1>2. UNCHANGED <<nextpid, state, pid, sz, trapframe, usyscall, root, lineage, thread>>
    BY <1>1 DEF proc
  <1>3. /\ state \in [Slot -> {"UNUSED", "USED", "RUNNABLE", "ZOMBIE"}]
        /\ sz \in [Slot -> 0..(WORD - 1)] /\ sz[p] \in Nat /\ sz[p] <= Limit
    BY <1>1 DEF VmInv, TypeOK, SlotInv, HeapInv
  <1>4. CASE walkaddr(p, v) # NULL
    <2>1. UNCHANGED <<data, table>>
      BY <1>1, <1>4
    <2> QED BY <1>1, <1>2, <1>3, <2>1, StillStep
  <1>5. CASE walkaddr(p, v) = NULL
    <2>1. IF v * PGSIZE >= sz[p] \/ pte[p][v] # NoPte
          THEN UNCHANGED <<data, table>>
          ELSE MapPage(p, v, {"R", "W", "U"}, 0)
      BY <1>1, <1>5 DEF vmfault
    <2> QED BY <1>1, <1>2, <1>3, <2>1, MayFault
  <1> QED BY <1>4, <1>5

(* exit() keeps the memory for wait(). *)
LEMMA KexitStep ==
  ASSUME VmInv, NEW p \in Slot, kexit(p)
  PROVE  VmInv'
  <1>1. /\ state[p] = "RUNNABLE" /\ pc[p] = "user"
        /\ state' = [state EXCEPT ![p] = "ZOMBIE"]
        /\ UNCHANGED <<data, table, nextpid, pid, sz, trapframe, usyscall, root, lineage, thread>>
    BY DEF kexit, User, At
  <1>2. /\ state \in [Slot -> {"UNUSED", "USED", "RUNNABLE", "ZOMBIE"}]
        /\ sz \in [Slot -> 0..(WORD - 1)] /\ sz[p] \in Nat /\ sz[p] <= Limit
    BY <1>1 DEF VmInv, TypeOK, SlotInv, HeapInv
  <1>3. /\ state' \in [Slot -> {"UNUSED", "USED", "RUNNABLE", "ZOMBIE"}]
        /\ \A r \in Slot \ {p} : state'[r] = state[r]
        /\ state'[p] = "ZOMBIE"
    BY <1>1, <1>2
  <1> QED BY <1>1, <1>2, <1>3, StillStep

(* wait() frees a zombie; all its pages are below its size. *)
LEMMA KwaitStep ==
  ASSUME VmInv, NEW p \in Slot, NEW q \in Slot, kwait(p, q)
  PROVE  VmInv'
  <1>1. /\ state[p] = "RUNNABLE" /\ pc[p] = "user"
        /\ IF state[q] = "ZOMBIE" THEN freeproc(q) ELSE UNCHANGED <<data, table, proc>>
        /\ UNCHANGED <<nextpid, pc, np, i, newsz>>
    BY DEF kwait, At, thread
  <1>2. TypeOK /\ SlotInv(q) /\ ThreadInv(q)
    BY DEF VmInv
  <1>3. CASE state[q] # "ZOMBIE"
    <2>1. UNCHANGED <<data, table, nextpid, state, pid, sz, trapframe, usyscall, root, lineage, thread>>
      BY <1>1, <1>3 DEF proc, thread
    <2>2. /\ state \in [Slot -> {"UNUSED", "USED", "RUNNABLE", "ZOMBIE"}]
          /\ sz \in [Slot -> 0..(WORD - 1)] /\ sz[p] \in Nat /\ sz[p] <= Limit
      BY <1>1 DEF VmInv, TypeOK, SlotInv, HeapInv
    <2> QED BY <1>1, <2>1, <2>2, StillStep
  <1>4. CASE state[q] = "ZOMBIE"
    <2>1. freeproc(q)
      BY <1>1, <1>4
    <2>2. pc[q] = "user" /\ np[q] = 0 /\ i[q] = 0 /\ HeapInv(q) /\ ~Growing(q)
      BY <1>2, <1>4 DEF SlotInv, ThreadInv, ForkPc, Growing
    <2>3. \A v \in UserVA : pte[q][v] # NoPte => v \in BelowSz(q)
      BY <2>2, Addresses DEF HeapInv, Top, BelowSz
    <2>4. pc'[q] = "user" /\ np'[q] = 0 /\ i'[q] = 0
      BY <1>1, <2>2
    <2>5. /\ free' \subseteq Page /\ data' \in [Page -> Int]
          /\ state' \in [Slot -> {"UNUSED", "USED", "RUNNABLE", "ZOMBIE"}]
          /\ pid' \in [Slot -> Nat]
          /\ sz' \in [Slot -> 0..(WORD - 1)]
          /\ trapframe' \in [Slot -> Page \cup {NULL}]
          /\ usyscall' \in [Slot -> Page \cup {NULL}]
          /\ root' \in [Slot -> Page \cup {NULL}]
          /\ dir' \in [Slot -> [Dir -> Page \cup {NULL}]]
          /\ pte' \in [Slot -> [VA -> [pa : Page \cup {NULL, TEXT}, flags : SUBSET Flags]]]
          /\ lineage' \in [Slot -> SUBSET Nat]
          /\ panicked' = FALSE
          /\ Accounted(Ref, free, Kernel)'
          /\ \A r \in Slot \ {q} : SameProc(r) /\ SameData(r)
          /\ SlotInv(q)'
      BY <2>1, <2>3, <2>4, FreedSlot
    <2>6. TypeOK'
      BY <1>1, <1>2, <2>5 DEF TypeOK
    <2>7. \A r \in Slot \ {q} : SameThread(r)
      BY <1>1 DEF SameThread
    <2>8. state[q] # "USED" /\ pc'[q] \notin ForkPc
      BY <1>4, <2>4 DEF ForkPc
    <2> QED BY <2>4, <2>5, <2>6, <2>7, <2>8, OwnStep
  <1> QED BY <1>3, <1>4

-----------------------------------------------------------------------------
(* The state when init has been loaded. *)

(* The tables of init for the lowest and for the highest address. *)
LEMMA InitTables ==
  /\ L1(0) # L1(TRAMPOLINE) /\ L0(0) # L0(TRAMPOLINE)
  /\ L1(0) \in Dir /\ L0(0) \in Dir /\ L1(TRAMPOLINE) \in Dir /\ L0(TRAMPOLINE) \in Dir
  /\ L1(0) # L0(0) /\ L1(0) # L0(TRAMPOLINE)
  /\ L1(TRAMPOLINE) # L0(0) /\ L1(TRAMPOLINE) # L0(TRAMPOLINE)
  <1>1. 0 \in VA /\ TRAMPOLINE \in VA /\ TRAMPOLINE \in Nat
    BY Sizes, Addresses DEF VA
  <1>2. ASSUME NEW P \in Nat \ {0}, P <= TRAMPOLINE PROVE 0 \div P # TRAMPOLINE \div P
    <2>1. /\ 0 \div P \in Nat /\ (0 \div P) * P <= 0
          /\ TRAMPOLINE \div P \in Nat /\ TRAMPOLINE < (TRAMPOLINE \div P) * P + P
      BY <1>1, DivBounds
    <2>2. CASE TRAMPOLINE \div P = 0
      BY <1>1, <1>2, <2>1, <2>2
    <2>3. CASE TRAMPOLINE \div P # 0
      <3>1. ASSUME NEW a \in Nat, a # 0 PROVE a * P > 0
        BY <3>1
      <3> QED BY <2>1, <2>3, <3>1
    <2> QED BY <2>2, <2>3
  <1>3. /\ FAN \in Nat \ {0} /\ FAN * FAN \in Nat \ {0}
        /\ FAN <= TRAMPOLINE /\ FAN * FAN <= TRAMPOLINE
    <2>1. FAN \in Nat /\ FAN >= 3 /\ MAXVA \in Nat /\ MAXVA > FAN * FAN /\ TRAMPOLINE = MAXVA - 1
      BY Sizes
    <2>2. FAN * FAN \in Nat /\ FAN * FAN >= FAN
      BY <2>1
    <2> QED BY <2>1, <2>2
  <1>4. L1(0) # L1(TRAMPOLINE) /\ L0(0) # L0(TRAMPOLINE)
    BY <1>2, <1>3 DEF L1, L0
  <1> QED BY <1>1, <1>4, Directories

(* The places of the pages of init. *)
Home ==
  [k \in 1..9 |->
     CASE k = 1 -> <<"trapframe", initproc, 0>> [] k = 2 -> <<"usyscall", initproc, 0>>
       [] k = 3 -> <<"root", initproc, 0>>
       [] k = 4 -> <<"dir", initproc, L1(TRAMPOLINE)>>
       [] k = 5 -> <<"dir", initproc, L0(TRAMPOLINE)>>
       [] k = 6 -> <<"dir", initproc, L1(0)>> [] k = 7 -> <<"dir", initproc, L0(0)>>
       [] k = 8 -> <<"user", initproc, 0>> [] k = 9 -> <<"user", initproc, 1>>]

(* init's tables, one entry at a time. *)
LEMMA InitValues ==
  ASSUME Init
  PROVE  /\ initproc \in Slot
         /\ dir[initproc][L1(TRAMPOLINE)] = 4 /\ dir[initproc][L0(TRAMPOLINE)] = 5
         /\ dir[initproc][L1(0)] = 6 /\ dir[initproc][L0(0)] = 7
         /\ \A d \in Dir : d \notin {L1(TRAMPOLINE), L0(TRAMPOLINE), L1(0), L0(0)} =>
              dir[initproc][d] = NULL
         /\ pte[initproc][TRAMPOLINE] = [pa |-> TEXT, flags |-> {"R", "X"}]
         /\ pte[initproc][TRAPFRAME] = [pa |-> 1, flags |-> {"R", "W"}]
         /\ pte[initproc][USYSCALL] = [pa |-> 2, flags |-> {"R", "U"}]
         /\ pte[initproc][0] = [pa |-> 8, flags |-> {"R", "X", "U"}]
         /\ pte[initproc][1] = [pa |-> 9, flags |-> {"R", "W"}]
         /\ \A v \in UserVA \ {0, 1} : pte[initproc][v] = NoPte
         /\ \A q \in Slot \ {initproc} :
              /\ \A d \in Dir : dir[q][d] = NULL
              /\ \A v \in VA : pte[q][v] = NoPte
  <1>1. initproc \in Slot
    BY Sizes DEF initproc, Slot
  <1>2. dir = [q \in Slot |-> [d \in Dir |->
              CASE q = initproc /\ d = L1(TRAMPOLINE) -> 4
                [] q = initproc /\ d = L0(TRAMPOLINE) -> 5
                [] q = initproc /\ d = L1(0) -> 6
                [] q = initproc /\ d = L0(0) -> 7
                [] OTHER -> NULL]]
    BY DEF Init
  <1>3. pte = [q \in Slot |-> [v \in VA |->
              CASE q = initproc /\ v = TRAMPOLINE -> [pa |-> TEXT, flags |-> {"R", "X"}]
                [] q = initproc /\ v = TRAPFRAME -> [pa |-> 1, flags |-> {"R", "W"}]
                [] q = initproc /\ v = USYSCALL -> [pa |-> 2, flags |-> {"R", "U"}]
                [] q = initproc /\ v = 0 -> [pa |-> 8, flags |-> {"R", "X", "U"}]
                [] q = initproc /\ v = 1 -> [pa |-> 9, flags |-> {"R", "W"}]
                [] OTHER -> NoPte]]
    BY DEF Init
  <1>4. /\ dir[initproc][L1(TRAMPOLINE)] = 4 /\ dir[initproc][L0(TRAMPOLINE)] = 5
        /\ dir[initproc][L1(0)] = 6 /\ dir[initproc][L0(0)] = 7
    BY <1>1, <1>2, InitTables
  <1>5. \A d \in Dir : d \notin {L1(TRAMPOLINE), L0(TRAMPOLINE), L1(0), L0(0)} =>
          dir[initproc][d] = NULL
    BY <1>1, <1>2
  <1>6. /\ TRAMPOLINE \in VA /\ TRAPFRAME \in VA /\ USYSCALL \in VA /\ 0 \in VA /\ 1 \in VA
        /\ TRAMPOLINE # TRAPFRAME /\ TRAMPOLINE # USYSCALL /\ TRAPFRAME # USYSCALL
        /\ TRAMPOLINE \notin UserVA /\ TRAPFRAME \notin UserVA /\ USYSCALL \notin UserVA
        /\ 0 \in UserVA /\ 1 \in UserVA
    BY Sizes DEF VA, UserVA
  <1>7. /\ pte[initproc][TRAMPOLINE] = [pa |-> TEXT, flags |-> {"R", "X"}]
        /\ pte[initproc][TRAPFRAME] = [pa |-> 1, flags |-> {"R", "W"}]
        /\ pte[initproc][USYSCALL] = [pa |-> 2, flags |-> {"R", "U"}]
    BY <1>1, <1>3, <1>6
  <1>8. pte[initproc][0] = [pa |-> 8, flags |-> {"R", "X", "U"}]
    BY <1>1, <1>3, <1>6
  <1>9. pte[initproc][1] = [pa |-> 9, flags |-> {"R", "W"}]
    BY <1>1, <1>3, <1>6
  <1>10. \A v \in UserVA \ {0, 1} : pte[initproc][v] = NoPte
    BY <1>1, <1>3, <1>6, Addresses
  <1>11. ASSUME NEW q \in Slot \ {initproc}
         PROVE  /\ \A d \in Dir : dir[q][d] = NULL
                /\ \A v \in VA : pte[q][v] = NoPte
    BY <1>2, <1>3
  <1> QED BY <1>1, <1>4, <1>5, <1>7, <1>8, <1>9, <1>10, <1>11

(* Each page is in its place. *)
LEMMA InitHomes ==
  ASSUME Init
  PROVE  /\ \A k \in 1..9 : Home[k] \in Loc /\ Ref[Home[k]] = k
         /\ \A x \in Loc : Ref[x] = NULL \/ (Ref[x] \in 1..9 /\ x = Home[Ref[x]])
  <1>init. initproc \in Slot
    BY InitValues
  <1>dirs. /\ dir[initproc][L1(TRAMPOLINE)] = 4 /\ dir[initproc][L0(TRAMPOLINE)] = 5
        /\ dir[initproc][L1(0)] = 6 /\ dir[initproc][L0(0)] = 7
    BY InitValues
  <1>ptes. pte[initproc][0].pa = 8 /\ pte[initproc][1].pa = 9
    BY InitValues
  <1>low. 0 \in UserVA /\ 1 \in UserVA
    BY Addresses
  <1>1. trapframe[initproc] = 1 /\ usyscall[initproc] = 2 /\ root[initproc] = 3
    BY <1>init DEF Init
  <1>2. ASSUME NEW k \in 1..9 PROVE Home[k] \in Loc /\ Ref[Home[k]] = k
    <2>1. CASE k = 1
      <3>1. Home[k] = <<"trapframe", initproc, 0>>
        BY <2>1 DEF Home
      <3> QED BY <1>1, <1>init, <2>1, <3>1, Places, RefAt
    <2>2. CASE k = 2
      <3>1. Home[k] = <<"usyscall", initproc, 0>>
        BY <2>2 DEF Home
      <3> QED BY <1>1, <1>init, <2>2, <3>1, Places, RefAt
    <2>3. CASE k = 3
      <3>1. Home[k] = <<"root", initproc, 0>>
        BY <2>3 DEF Home
      <3> QED BY <1>1, <1>init, <2>3, <3>1, Places, RefAt
    <2>4. CASE k = 4
      <3>1. Home[k] = <<"dir", initproc, L1(TRAMPOLINE)>>
        BY <2>4 DEF Home
      <3>2. L1(TRAMPOLINE) \in Dir
        BY InitTables
      <3>3. Home[k] \in Loc
        BY <1>init, <3>1, <3>2, Places
      <3>4. Ref[<<"dir", initproc, L1(TRAMPOLINE)>>] = dir[initproc][L1(TRAMPOLINE)]
        BY <1>init, <3>2, RefAt
      <3> QED BY <1>dirs, <2>4, <3>1, <3>3, <3>4
    <2>5. CASE k = 5
      <3>1. Home[k] = <<"dir", initproc, L0(TRAMPOLINE)>>
        BY <2>5 DEF Home
      <3>2. L0(TRAMPOLINE) \in Dir
        BY InitTables
      <3>3. Home[k] \in Loc
        BY <1>init, <3>1, <3>2, Places
      <3>4. Ref[<<"dir", initproc, L0(TRAMPOLINE)>>] = dir[initproc][L0(TRAMPOLINE)]
        BY <1>init, <3>2, RefAt
      <3> QED BY <1>dirs, <2>5, <3>1, <3>3, <3>4
    <2>6. CASE k = 6
      <3>1. Home[k] = <<"dir", initproc, L1(0)>>
        BY <2>6 DEF Home
      <3>2. L1(0) \in Dir
        BY InitTables
      <3>3. Home[k] \in Loc
        BY <1>init, <3>1, <3>2, Places
      <3>4. Ref[<<"dir", initproc, L1(0)>>] = dir[initproc][L1(0)]
        BY <1>init, <3>2, RefAt
      <3> QED BY <1>dirs, <2>6, <3>1, <3>3, <3>4
    <2>7. CASE k = 7
      <3>1. Home[k] = <<"dir", initproc, L0(0)>>
        BY <2>7 DEF Home
      <3>2. L0(0) \in Dir
        BY InitTables
      <3>3. Home[k] \in Loc
        BY <1>init, <3>1, <3>2, Places
      <3>4. Ref[<<"dir", initproc, L0(0)>>] = dir[initproc][L0(0)]
        BY <1>init, <3>2, RefAt
      <3> QED BY <1>dirs, <2>7, <3>1, <3>3, <3>4
    <2>8. CASE k = 8
      <3>1. Home[k] = <<"user", initproc, 0>>
        BY <2>8 DEF Home
      <3>2. Home[k] \in Loc
        BY <1>low, <1>init, <3>1, Places
      <3>3. Ref[<<"user", initproc, 0>>] = pte[initproc][0].pa
        BY <1>low, <1>init, RefAt
      <3> QED BY <1>ptes, <2>8, <3>1, <3>2, <3>3
    <2>9. CASE k = 9
      <3>1. Home[k] = <<"user", initproc, 1>>
        BY <2>9 DEF Home
      <3>2. Home[k] \in Loc
        BY <1>low, <1>init, <3>1, Places
      <3>3. Ref[<<"user", initproc, 1>>] = pte[initproc][1].pa
        BY <1>low, <1>init, RefAt
      <3> QED BY <1>ptes, <2>9, <3>1, <3>2, <3>3
    <2> QED BY <2>1, <2>2, <2>3, <2>4, <2>5, <2>6, <2>7, <2>8, <2>9
  <1>3. ASSUME NEW x \in Loc, x \notin {Home[k] : k \in 1..9} PROVE Ref[x] = NULL
    <2>homes. /\ Home[1] = <<"trapframe", initproc, 0>> /\ Home[2] = <<"usyscall", initproc, 0>>
          /\ Home[3] = <<"root", initproc, 0>>
          /\ Home[4] = <<"dir", initproc, L1(TRAMPOLINE)>>
          /\ Home[5] = <<"dir", initproc, L0(TRAMPOLINE)>>
          /\ Home[6] = <<"dir", initproc, L1(0)>> /\ Home[7] = <<"dir", initproc, L0(0)>>
          /\ Home[8] = <<"user", initproc, 0>> /\ Home[9] = <<"user", initproc, 1>>
      BY DEF Home
    <2>1. PICK q \in Slot :
           \/ x = <<"trapframe", q, 0>> \/ x = <<"usyscall", q, 0>> \/ x = <<"root", q, 0>>
           \/ \E d \in Dir : x = <<"dir", q, d>>
           \/ \E v \in UserVA : x = <<"user", q, v>>
      BY PlaceCases
    <2>2. CASE x \in {<<"trapframe", q, 0>>, <<"usyscall", q, 0>>, <<"root", q, 0>>}
      <3>1. q # initproc
        BY <1>3, <2>homes, <2>2
      <3>2. trapframe[q] = NULL /\ usyscall[q] = NULL /\ root[q] = NULL
        BY <3>1 DEF Init
      <3> QED BY <2>2, <3>2, RefAt
    <2>3. CASE \E d \in Dir : x = <<"dir", q, d>>
      <3>1. PICK d \in Dir : x = <<"dir", q, d>>
        BY <2>3
      <3>2. Ref[x] = dir[q][d]
        BY <3>1, RefAt
      <3>3. q = initproc => d \notin {L1(TRAMPOLINE), L0(TRAMPOLINE), L1(0), L0(0)}
        BY <1>3, <2>homes, <3>1
      <3> QED BY <3>2, <3>3, InitValues
    <2>4. CASE \E v \in UserVA : x = <<"user", q, v>>
      <3>1. PICK v \in UserVA : x = <<"user", q, v>>
        BY <2>4
      <3>2. Ref[x] = pte[q][v].pa
        BY <3>1, RefAt
      <3>3. q = initproc => v \in UserVA \ {0, 1}
        BY <1>3, <2>homes, <3>1
      <3>4. pte[q][v] = NoPte
        BY <3>3, Addresses, InitValues
      <3> QED BY <3>2, <3>4, Values
    <2> QED BY <2>1, <2>2, <2>3, <2>4
  <1> QED BY <1>2, <1>3

(* The invariant holds when init has been loaded. *)
LEMMA InitInv ==
  ASSUME Init
  PROVE  VmInv
  <1>1. PICK held \in HeldPages :
          /\ free = 10..(NPAGES - held)
          /\ data = [g \in Page |-> CASE g = 2 -> 1
                                      [] g \in {8, 9} -> By(1)
                                      [] g > NPAGES - held -> KERNEL
                                      [] OTHER -> JUNK]
    BY DEF Init
  <1>2. held \in Nat /\ NPAGES - held >= 9 /\ NPAGES - held <= NPAGES /\ NPAGES \in Nat
    BY VmAssumption, Sizes
  <1>3. 1..9 \subseteq Page
    BY Sizes DEF Page
  <1>4. /\ data[2] = 1 /\ data[8] = By(1) /\ data[9] = By(1)
        /\ \A g \in Page : g > NPAGES - held <=> data[g] = KERNEL
    <2>1. 1 # KERNEL /\ By(1) # KERNEL /\ JUNK # KERNEL
      BY Values, Sizes
    <2>2. \A g \in Page : g \in Nat
      BY DEF Page
    <2>3. ~(2 > NPAGES - held) /\ ~(8 > NPAGES - held) /\ ~(9 > NPAGES - held)
      BY <1>2
    <2>4. 2 \in Page /\ 8 \in Page /\ 9 \in Page
      BY <1>3
    <2>5. data[2] = 1
      <3>1. data[2] = CASE 2 = 2 -> 1 [] 2 \in {8, 9} -> By(1) [] 2 > NPAGES - held -> KERNEL
                        [] OTHER -> JUNK
        BY <1>1, <2>4
      <3> QED BY <2>3, <3>1
    <2>6. data[8] = By(1) /\ data[9] = By(1)
      <3>1. ASSUME NEW g \in {8, 9} PROVE data[g] = By(1)
        <4>1. data[g] = CASE g = 2 -> 1 [] g \in {8, 9} -> By(1) [] g > NPAGES - held -> KERNEL
                          [] OTHER -> JUNK
          BY <1>1, <2>4
        <4>2. g # 2 /\ ~(g > NPAGES - held)
          BY <2>3
        <4> QED BY <4>1, <4>2
      <3> QED BY <3>1
    <2>7. ASSUME NEW g \in Page PROVE g > NPAGES - held <=> data[g] = KERNEL
      <3>1. CASE g = 2
        BY <2>1, <2>3, <2>5, <3>1
      <3>2. CASE g \in {8, 9}
        BY <2>1, <2>3, <2>6, <3>2
      <3>3. CASE g \notin {2, 8, 9}
        BY <1>1, <2>1, <3>3
      <3> QED BY <3>1, <3>2, <3>3
    <2> QED BY <2>5, <2>6, <2>7
  <1>5. /\ initproc \in Slot
        /\ nextpid = 2
        /\ state = [q \in Slot |-> IF q = initproc THEN "RUNNABLE" ELSE "UNUSED"]
        /\ pid = [q \in Slot |-> IF q = initproc THEN 1 ELSE 0]
        /\ sz = [q \in Slot |-> IF q = initproc THEN 2 * PGSIZE ELSE 0]
        /\ trapframe = [q \in Slot |-> IF q = initproc THEN 1 ELSE NULL]
        /\ usyscall = [q \in Slot |-> IF q = initproc THEN 2 ELSE NULL]
        /\ root = [q \in Slot |-> IF q = initproc THEN 3 ELSE NULL]
        /\ pc = [q \in Slot |-> "user"]
        /\ np = [q \in Slot |-> 0]
        /\ i = [q \in Slot |-> 0]
        /\ newsz = [q \in Slot |-> 0]
        /\ lineage = [q \in Slot |-> IF q = initproc THEN {1} ELSE {}]
        /\ panicked = FALSE
    BY InitValues DEF Init
  <1>6. 2 * PGSIZE \in 0..(WORD - 1) /\ 2 * PGSIZE <= Limit /\ 2 * PGSIZE \in Nat /\ 0 \in 0..(WORD - 1)
    <2>1. 2 * PGSIZE <= USYSCALL * PGSIZE /\ USYSCALL * PGSIZE <= 2 * MAXVA * PGSIZE
      BY Sizes
    <2>2. 2 * PGSIZE \in Nat /\ USYSCALL * PGSIZE \in Nat /\ 2 * MAXVA * PGSIZE \in Nat
      BY Sizes
    <2> QED BY <2>1, <2>2, Sizes DEF Limit
  <1>7. TypeOK
    <2>1. free \subseteq Page
      BY <1>1, <1>2 DEF Page
    <2>2. data \in [Page -> Int]
      <3>1. 1 \in Int /\ By(1) \in Int /\ KERNEL \in Int /\ JUNK \in Int
        BY Values
      <3> QED BY <1>1, <3>1
    <2>3. dir \in [Slot -> [Dir -> Page \cup {NULL}]]
      <3>1. 4 \in Page /\ 5 \in Page /\ 6 \in Page /\ 7 \in Page
        BY <1>3
      <3>2. dir = [q \in Slot |-> [d \in Dir |->
                    CASE q = initproc /\ d = L1(TRAMPOLINE) -> 4
                      [] q = initproc /\ d = L0(TRAMPOLINE) -> 5
                      [] q = initproc /\ d = L1(0) -> 6
                      [] q = initproc /\ d = L0(0) -> 7
                      [] OTHER -> NULL]]
        BY DEF Init
      <3> QED BY <3>1, <3>2
    <2>4. pte \in [Slot -> [VA -> [pa : Page \cup {NULL, TEXT}, flags : SUBSET Flags]]]
      <3> DEFINE E == [pa : Page \cup {NULL, TEXT}, flags : SUBSET Flags]
      <3>1. /\ [pa |-> TEXT, flags |-> {"R", "X"}] \in E
            /\ [pa |-> 1, flags |-> {"R", "W"}] \in E
            /\ [pa |-> 2, flags |-> {"R", "U"}] \in E
            /\ [pa |-> 8, flags |-> {"R", "X", "U"}] \in E
            /\ [pa |-> 9, flags |-> {"R", "W"}] \in E
            /\ NoPte \in E
        BY <1>3 DEF Flags, NoPte
      <3>2. pte = [q \in Slot |-> [v \in VA |->
              CASE q = initproc /\ v = TRAMPOLINE -> [pa |-> TEXT, flags |-> {"R", "X"}]
                [] q = initproc /\ v = TRAPFRAME -> [pa |-> 1, flags |-> {"R", "W"}]
                [] q = initproc /\ v = USYSCALL -> [pa |-> 2, flags |-> {"R", "U"}]
                [] q = initproc /\ v = 0 -> [pa |-> 8, flags |-> {"R", "X", "U"}]
                [] q = initproc /\ v = 1 -> [pa |-> 9, flags |-> {"R", "W"}]
                [] OTHER -> NoPte]]
        BY DEF Init
      <3>3. ASSUME NEW q \in Slot, NEW v \in VA PROVE pte[q][v] \in E
        <4> HIDE DEF E
        <4>1. pte[q][v] =
              CASE q = initproc /\ v = TRAMPOLINE -> [pa |-> TEXT, flags |-> {"R", "X"}]
                [] q = initproc /\ v = TRAPFRAME -> [pa |-> 1, flags |-> {"R", "W"}]
                [] q = initproc /\ v = USYSCALL -> [pa |-> 2, flags |-> {"R", "U"}]
                [] q = initproc /\ v = 0 -> [pa |-> 8, flags |-> {"R", "X", "U"}]
                [] q = initproc /\ v = 1 -> [pa |-> 9, flags |-> {"R", "W"}]
                [] OTHER -> NoPte
          BY <3>2
        <4> QED BY <3>1, <4>1
      <3> HIDE DEF E
      <3>4. pte \in [Slot -> [VA -> E]]
        BY <3>2, <3>3
      <3> QED BY <3>4 DEF E
    <2>5. sz \in [Slot -> 0..(WORD - 1)] /\ newsz \in [Slot -> 0..(WORD - 1)]
      BY <1>5, <1>6
    <2>6. /\ trapframe \in [Slot -> Page \cup {NULL}] /\ usyscall \in [Slot -> Page \cup {NULL}]
          /\ root \in [Slot -> Page \cup {NULL}]
      BY <1>3, <1>5
    <2>7. pc \in [Slot -> Pc] /\ np \in [Slot -> Slot \cup {0}] /\ i \in [Slot -> VA]
      BY <1>5, Addresses DEF Pc
    <2>8. pid \in [Slot -> Nat] /\ lineage \in [Slot -> SUBSET Nat] /\ nextpid \in Nat
      BY <1>5
    <2>9. state \in [Slot -> {"UNUSED", "USED", "RUNNABLE", "ZOMBIE"}] /\ panicked \in BOOLEAN
      BY <1>5
    <2> QED BY <2>1, <2>2, <2>3, <2>4, <2>5, <2>6, <2>7, <2>8, <2>9 DEF TypeOK
  <1>8. Accounted(Ref, free, Kernel)
    <2>1. /\ \A k \in 1..9 : Home[k] \in Loc /\ Ref[Home[k]] = k
          /\ \A x \in Loc : Ref[x] = NULL \/ (Ref[x] \in 1..9 /\ x = Home[Ref[x]])
      BY InitHomes
    <2>2. Kernel = {g \in Page : g > NPAGES - held}
      BY <1>4 DEF Kernel
    <2>3. free \subseteq Page /\ Kernel \subseteq Page /\ free \cap Kernel = {}
      BY <1>1, <1>2, <1>7, <2>2 DEF TypeOK, Page
    <2>4. ASSUME NEW k \in 1..9 PROVE k \in Page /\ k \notin free /\ k \notin Kernel
      BY <1>1, <1>2, <1>3, <2>2
    <2>5. ASSUME NEW x \in Loc
          PROVE  Ref[x] \in Page \cup {NULL} /\ Ref[x] \notin free /\ Ref[x] \notin Kernel
      BY <2>1, <2>3, <2>4, Values
    <2>6. ASSUME NEW x \in Loc, NEW y \in Loc, Ref[x] = Ref[y], Ref[x] # NULL PROVE x = y
      BY <2>1, <2>6
    <2>7. ASSUME NEW g \in Page PROVE g \in free \/ g \in Kernel \/ \E x \in Loc : Ref[x] = g
      <3>1. g \in 1..9 \/ g \in 10..(NPAGES - held) \/ g > NPAGES - held
        BY <1>2 DEF Page
      <3> QED BY <1>1, <2>1, <2>2, <3>1
    <2> QED BY <2>3, <2>5, <2>6, <2>7 DEF Accounted
  <1>9. ASSUME NEW q \in Slot \ {initproc} PROVE SlotInv(q)
    <2>1. (\A d \in Dir : dir[q][d] = NULL) /\ (\A v \in VA : pte[q][v] = NoPte)
      BY InitValues
    <2>2. TableInv(q)
      BY <2>1, Directories, Addresses DEF TableInv
    <2> QED BY <1>5, <2>2, Sizes DEF SlotInv
  <1>10. SlotInv(initproc)
    <2> DEFINE q == initproc
    <2>1. /\ state[q] = "RUNNABLE" /\ pid[q] = 1 /\ sz[q] = 2 * PGSIZE /\ trapframe[q] = 1
          /\ usyscall[q] = 2 /\ root[q] = 3 /\ pc[q] = "user" /\ np[q] = 0 /\ lineage[q] = {1}
      BY <1>5
    <2>2. ASSUME NEW v \in UserVA, pte[q][v] # NoPte
          PROVE  (v = 0 /\ pte[q][v].pa = 8) \/ (v = 1 /\ pte[q][v].pa = 9)
      BY <2>2, InitValues
    <2>3. TableInv(q)
      <3>1. ASSUME NEW v \in VA, dir[q][L0(v)] # NULL PROVE dir[q][L1(v)] # NULL
        <4>1. L0(v) \in Dir /\ L0(v) # L1(0) /\ L0(v) # L1(TRAMPOLINE)
              /\ 0 \in VA /\ TRAMPOLINE \in VA
          BY Directories, Addresses, Sizes DEF VA
        <4>2. L0(v) = L0(0) \/ L0(v) = L0(TRAMPOLINE)
          BY <3>1, <4>1, InitValues
        <4>3. L1(v) = L1(0) \/ L1(v) = L1(TRAMPOLINE)
          BY <4>1, <4>2, Directories
        <4> QED BY <4>3, InitValues, Values
      <3>2. \A v \in UserVA : pte[q][v] # NoPte => pte[q][v].pa \in Page
        BY <1>3, <2>2
      <3>3. root[q] # NULL
        BY <2>1, Values
      <3> QED BY <3>1, <3>2, <3>3 DEF TableInv
    <2>4. Built(q)
      <3>1. Paged(q) /\ root[q] # NULL
        BY <1>4, <2>1, Values DEF Paged
      <3>2. /\ pte[q][FixedVa(0)] = [pa |-> FixedPa(q, 0), flags |-> FixedFlags(0)]
            /\ pte[q][FixedVa(1)] = [pa |-> FixedPa(q, 1), flags |-> FixedFlags(1)]
            /\ pte[q][FixedVa(2)] = [pa |-> FixedPa(q, 2), flags |-> FixedFlags(2)]
        BY <2>1, InitValues, Addresses DEF FixedPa, FixedFlags
      <3>3. FixedTo(q, 3)
        <4>1. \A j \in 0..2 : j < 3 /\ (j = 0 \/ j = 1 \/ j = 2)
          OBVIOUS
        <4> QED BY <3>2, <4>1 DEF FixedTo
      <3> QED BY <3>1, <3>3 DEF Built
    <2>5. ~Growing(q)
      BY <2>1 DEF Growing
    <2>6. 0 < PGROUNDUP(2 * PGSIZE) /\ 1 < PGROUNDUP(2 * PGSIZE)
      <3>1. 0 * PGSIZE < 2 * PGSIZE /\ 1 * PGSIZE < 2 * PGSIZE
        BY Sizes
      <3> QED BY <1>6, <3>1, RoundUp
    <2>7. HeapInv(q)
      BY <1>6, <2>1, <2>2, <2>5, <2>6 DEF HeapInv, Top
    <2>8. Readable(q)
      BY <1>4, <2>1, <2>2 DEF Readable
    <2> QED BY <2>1, <2>3, <2>4, <2>7, <2>8, Sizes DEF SlotInv
  <1>11. \A q \in Slot : ThreadInv(q)
    BY <1>5 DEF ThreadInv, ForkPc
  <1> QED BY <1>5, <1>7, <1>8, <1>9, <1>10, <1>11 DEF VmInv

-----------------------------------------------------------------------------
(* Every step keeps the invariant: one step per action. *)
LEMMA StepInv ==
  ASSUME VmInv, [Next]_vars
  PROVE  VmInv'
  <1>1. ASSUME NEW p \in Slot, Fork(p) PROVE VmInv'
    <2>1. ASSUME NEW q \in Slot, allocproc(p, q) PROVE VmInv'
      BY <2>1, AllocprocStep
    <2>2. CASE allocproc_usyscall(p)
      BY <2>2, AllocprocUsyscallStep
    <2>3. CASE uvmcreate(p)
      BY <2>3, UvmcreateStep
    <2>4. CASE proc_pagetable(p)
      BY <2>4, ProcPagetableStep
    <2>5. CASE proc_pagetable_undo(p)
      BY <2>5, ProcPagetableUndoStep
    <2>6. CASE kfork_fail(p)
      BY <2>6, KforkFailStep
    <2>7. CASE uvmcopy(p)
      BY <2>7, UvmcopyStep
    <2>8. CASE uvmcopy_undo(p)
      BY <2>8, UvmcopyUndoStep
    <2>9. CASE kfork(p)
      BY <2>9, KforkStep
    <2> QED BY <1>1, <2>1, <2>2, <2>3, <2>4, <2>5, <2>6, <2>7, <2>8, <2>9 DEF Fork
  <1>2. ASSUME NEW p \in Slot, Sbrk(p) PROVE VmInv'
    <2>1. ASSUME NEW n \in SbrkArgs, sbrk_eager(p, n) PROVE VmInv'
      BY <2>1, SbrkEagerStep
    <2>2. ASSUME NEW n \in SbrkArgs, sbrk_shrink(p, n) PROVE VmInv'
      BY <2>2, SbrkShrinkStep
    <2>3. ASSUME NEW n \in SbrkArgs, sbrk_lazy(p, n) PROVE VmInv'
      BY <2>3, SbrkLazyStep
    <2>4. CASE uvmalloc(p)
      BY <2>4, UvmallocStep
    <2>5. CASE uvmalloc_undo(p)
      BY <2>5, UvmallocUndoStep
    <2>6. CASE growproc(p)
      BY <2>6, GrowprocStep
    <2> QED BY <1>2, <2>1, <2>2, <2>3, <2>4, <2>5, <2>6 DEF Sbrk
  <1>3. ASSUME NEW p \in Slot, Touch(p) PROVE VmInv'
    <2>1. PICK v \in TouchedVa :
            \/ store(p, v) \/ sys_copyout(p, v) \/ copyin(p, v)
            \/ \E write \in BOOLEAN : usertrap(p, v, write)
      BY <1>3 DEF Touch
    <2>2. v \in VA
      BY VmAssumption DEF VA
    <2>3. CASE store(p, v)
      BY <2>2, <2>3, StoreStep
    <2>4. CASE sys_copyout(p, v)
      BY <2>2, <2>4, SysCopyoutStep
    <2>5. CASE copyin(p, v)
      BY <2>2, <2>5, CopyinStep
    <2>6. ASSUME NEW write \in BOOLEAN, usertrap(p, v, write) PROVE VmInv'
      BY <2>2, <2>6, UsertrapStep
    <2> QED BY <2>1, <2>3, <2>4, <2>5, <2>6
  <1>4. ASSUME NEW p \in Slot, kexit(p) PROVE VmInv'
    BY <1>4, KexitStep
  <1>5. ASSUME NEW p \in Slot, NEW q \in Slot, kwait(p, q) PROVE VmInv'
    BY <1>5, KwaitStep
  <1>6. CASE UNCHANGED vars
    <2>1. UNCHANGED <<free, data, nextpid, state, pid, sz, trapframe, usyscall, root, dir,
                      pte, pc, np, i, newsz, lineage, panicked>>
      BY <1>6 DEF vars
    <2>2. TypeOK' /\ panicked' = FALSE
      BY <2>1 DEF VmInv, TypeOK
    <2>3. Ref' = Ref /\ Kernel' = Kernel
      BY <2>1 DEF Ref, Kernel
    <2>4. Accounted(Ref, free, Kernel)'
      BY <2>1, <2>3 DEF VmInv
    <2> DEFINE T == {}
    <2>5. \A r \in Slot \ T : SameProc(r) /\ SameThread(r) /\ SameData(r)
      BY <2>1 DEF SameProc, SameThread, SameData
    <2>6. T \subseteq Slot /\ \A r \in T : FALSE
      OBVIOUS
    <2> HIDE DEF T
    <2> QED BY <2>2, <2>4, <2>5, <2>6, Assemble
  <1> QED BY <1>1, <1>2, <1>3, <1>4, <1>5, <1>6 DEF Next

(* The invariant: where every page is, and how far each fork() and each      *)
(* sbrk() has got, for every number of processes and pages, every layout and *)
(* every amount of memory that the kernel holds.                             *)
THEOREM VmSafety == Spec => []VmInv
  <1>1. Init => VmInv
    BY InitInv
  <1>2. VmInv /\ [Next]_vars => VmInv'
    BY StepInv
  <1> QED BY <1>1, <1>2, PTL DEF Spec

(* The variables keep their types: no size leaves the range of a word, and   *)
(* no loop of fork() or sbrk() leaves the address space.                     *)
THEOREM TypeCorrect == Spec => []TypeOK
  <1>1. VmInv => TypeOK
    BY DEF VmInv
  <1> QED BY <1>1, VmSafety, PTL

(* mappages() never meets a valid PTE and freewalk() never meets a leaf,     *)
(* whichever allocation failed on the way.                                   *)
THEOREM NeverPanics == Spec => []NoPanic
  <1>1. VmInv => NoPanic
    BY DEF VmInv, NoPanic
  <1> QED BY <1>1, VmSafety, PTL

(* A process has no PTE at or above its size, so that freeproc() finds all   *)
(* its pages.                                                                *)
THEOREM BelowItsSize == Spec => []MappedBelowSz
  <1>1. ASSUME VmInv, NEW q \in Slot, state[q] \in {"RUNNABLE", "ZOMBIE"},
               pc[q] \notin {"grow", "grow_undo"}
        PROVE  /\ sz[q] <= USYSCALL * PGSIZE
               /\ \A v \in UserVA : pte[q][v] # NoPte => v < PGROUNDUP(sz[q])
    <2>1. HeapInv(q) /\ ~Growing(q)
      BY <1>1 DEF VmInv, SlotInv, Growing
    <2> QED BY <2>1 DEF HeapInv, Top, Limit
  <1>2. VmInv => MappedBelowSz
    BY <1>1 DEF MappedBelowSz
  <1> QED BY <1>2, VmSafety, PTL

(* A process reads its own pid at USYSCALL: nothing that it or another       *)
(* process does changes the page or what it holds.                           *)
THEOREM OwnPidAtUsyscall == Spec => []UsyscallTrue
  <1>1. ASSUME VmInv, NEW q \in Slot, state[q] \in {"RUNNABLE", "ZOMBIE"}
        PROVE  /\ pte[q][USYSCALL] = [pa |-> usyscall[q], flags |-> {"R", "U"}]
               /\ data[usyscall[q]] = pid[q]
    <2>1. Paged(q) /\ FixedTo(q, 3)
      BY <1>1 DEF VmInv, SlotInv, Built
    <2>2. pte[q][FixedVa(2)] = [pa |-> FixedPa(q, 2), flags |-> FixedFlags(2)]
      BY <2>1 DEF FixedTo
    <2>3. FixedPa(q, 2) = usyscall[q] /\ FixedFlags(2) = {"R", "U"} /\ FixedVa(2) = USYSCALL
      BY Addresses DEF FixedPa, FixedFlags
    <2> QED BY <2>1, <2>2, <2>3 DEF Paged
  <1>2. VmInv => UsyscallTrue
    BY <1>1 DEF UsyscallTrue
  <1> QED BY <1>2, VmSafety, PTL

(* What a program can read was zero, or written for itself or for an         *)
(* ancestor: a page that comes from the free list is cleared, or overwritten *)
(* with the page of the parent, before it is mapped.                         *)
THEOREM OwnDataOnly == Spec => []NoForeignData
  <1>1. VmInv => NoForeignData
    BY DEF VmInv, SlotInv, Readable, NoForeignData
  <1> QED BY <1>1, VmSafety, PTL

-----------------------------------------------------------------------------
(* Every page has one owner. *)

(* A place, as one of the owners of PagesAccounted. *)
Owner(x) ==
  CASE x[1] \in {"trapframe", "usyscall", "root"} -> <<x[1], x[2]>>
    [] x[1] = "dir"  -> <<"dir", <<x[2], x[3]>>>>
    [] x[1] = "user" -> <<"user", <<x[2], x[3]>>>>

(* The owners of a page are the kernel and the places that refer to it. *)
LEMMA OwnersArePlaces ==
  ASSUME NEW g \in Page, NEW e
  PROVE  e \in Owners(g) <=>
           \/ e = <<"kernel", KERNEL>> /\ g \in Kernel
           \/ \E x \in Loc : Ref[x] = g /\ e = Owner(x)
  <1>1. ASSUME e \in Owners(g)
        PROVE  \/ e = <<"kernel", KERNEL>> /\ g \in Kernel
               \/ \E x \in Loc : Ref[x] = g /\ e = Owner(x)
    <2>1. CASE e \in {<<"kernel", d>> : d \in {KERNEL} \cap {data[g]}}
      BY <2>1 DEF Kernel
    <2>2. CASE e \in {<<"trapframe", q>> : q \in {r \in Slot : trapframe[r] = g}}
      <3>1. PICK q \in Slot : e = <<"trapframe", q>> /\ trapframe[q] = g
        BY <2>2
      <3>2. /\ <<"trapframe", q, 0>> \in Loc /\ Ref[<<"trapframe", q, 0>>] = g
            /\ Owner(<<"trapframe", q, 0>>) = <<"trapframe", q>>
        BY <3>1, Places, RefAt DEF Owner
      <3> QED BY <3>1, <3>2
    <2>3. CASE e \in {<<"usyscall", q>> : q \in {r \in Slot : usyscall[r] = g}}
      <3>1. PICK q \in Slot : e = <<"usyscall", q>> /\ usyscall[q] = g
        BY <2>3
      <3>2. /\ <<"usyscall", q, 0>> \in Loc /\ Ref[<<"usyscall", q, 0>>] = g
            /\ Owner(<<"usyscall", q, 0>>) = <<"usyscall", q>>
        BY <3>1, Places, RefAt DEF Owner
      <3> QED BY <3>1, <3>2
    <2>4. CASE e \in {<<"root", q>> : q \in {r \in Slot : root[r] = g}}
      <3>1. PICK q \in Slot : e = <<"root", q>> /\ root[q] = g
        BY <2>4
      <3>2. /\ <<"root", q, 0>> \in Loc /\ Ref[<<"root", q, 0>>] = g
            /\ Owner(<<"root", q, 0>>) = <<"root", q>>
        BY <3>1, Places, RefAt DEF Owner
      <3> QED BY <3>1, <3>2
    <2>5. CASE e \in {<<"dir", o>> : o \in {o \in Slot \X Dir : dir[o[1]][o[2]] = g}}
      <3>1. PICK o \in Slot \X Dir : e = <<"dir", o>> /\ dir[o[1]][o[2]] = g
        BY <2>5
      <3>2. PICK q \in Slot, d \in Dir : o = <<q, d>>
        OBVIOUS
      <3>3. <<"dir", q, d>> \in Loc /\ Ref[<<"dir", q, d>>] = dir[q][d]
        BY Places, RefAt
      <3>4. Owner(<<"dir", q, d>>) = <<"dir", <<q, d>>>>
        BY DEF Owner
      <3> QED BY <3>1, <3>2, <3>3, <3>4
    <2>6. CASE e \in {<<"user", o>> : o \in {o \in Slot \X UserVA : pte[o[1]][o[2]].pa = g}}
      <3>1. PICK o \in Slot \X UserVA : e = <<"user", o>> /\ pte[o[1]][o[2]].pa = g
        BY <2>6
      <3>2. PICK q \in Slot, v \in UserVA : o = <<q, v>>
        OBVIOUS
      <3>3. <<"user", q, v>> \in Loc /\ Ref[<<"user", q, v>>] = pte[q][v].pa
        BY Places, RefAt
      <3>4. Owner(<<"user", q, v>>) = <<"user", <<q, v>>>>
        BY DEF Owner
      <3> QED BY <3>1, <3>2, <3>3, <3>4
    <2> QED BY <1>1, <2>1, <2>2, <2>3, <2>4, <2>5, <2>6 DEF Owners
  <1>2. ASSUME e = <<"kernel", KERNEL>>, g \in Kernel PROVE e \in Owners(g)
    BY <1>2 DEF Kernel, Owners
  <1>3. ASSUME NEW x \in Loc, Ref[x] = g, e = Owner(x) PROVE e \in Owners(g)
    <2>1. PICK q \in Slot :
           \/ x = <<"trapframe", q, 0>> \/ x = <<"usyscall", q, 0>> \/ x = <<"root", q, 0>>
           \/ \E d \in Dir : x = <<"dir", q, d>>
           \/ \E v \in UserVA : x = <<"user", q, v>>
      BY PlaceCases
    <2>2. CASE x = <<"trapframe", q, 0>>
      <3>1. e = <<"trapframe", q>> /\ trapframe[q] = g
        BY <1>3, <2>2, RefAt DEF Owner
      <3> QED BY <3>1 DEF Owners
    <2>3. CASE x = <<"usyscall", q, 0>>
      <3>1. e = <<"usyscall", q>> /\ usyscall[q] = g
        BY <1>3, <2>3, RefAt DEF Owner
      <3> QED BY <3>1 DEF Owners
    <2>4. CASE x = <<"root", q, 0>>
      <3>1. e = <<"root", q>> /\ root[q] = g
        BY <1>3, <2>4, RefAt DEF Owner
      <3> QED BY <3>1 DEF Owners
    <2>5. CASE \E d \in Dir : x = <<"dir", q, d>>
      <3>1. PICK d \in Dir : x = <<"dir", q, d>>
        BY <2>5
      <3>2. e = <<"dir", <<q, d>>>> /\ dir[q][d] = g
        BY <1>3, <3>1, RefAt DEF Owner
      <3>3. PICK o \in Slot \X Dir : o = <<q, d>>
        OBVIOUS
      <3>4. e \in {<<"dir", u>> : u \in {u \in Slot \X Dir : dir[u[1]][u[2]] = g}}
        BY <3>2, <3>3
      <3> QED BY <3>4 DEF Owners
    <2>6. CASE \E v \in UserVA : x = <<"user", q, v>>
      <3>1. PICK v \in UserVA : x = <<"user", q, v>>
        BY <2>6
      <3>2. e = <<"user", <<q, v>>>> /\ pte[q][v].pa = g
        BY <1>3, <3>1, RefAt DEF Owner
      <3>3. PICK o \in Slot \X UserVA : o = <<q, v>>
        OBVIOUS
      <3>4. e \in {<<"user", u>> : u \in {u \in Slot \X UserVA : pte[u[1]][u[2]].pa = g}}
        BY <3>2, <3>3
      <3> QED BY <3>4 DEF Owners
    <2> QED BY <2>1, <2>2, <2>3, <2>4, <2>5, <2>6
  <1> QED BY <1>1, <1>2, <1>3

(* No page is lost, freed twice or used twice, however many allocations      *)
(* failed on the way: a page is on the free list or has exactly one owner.   *)
THEOREM NoPageLost == Spec => []PagesAccounted
  <1>1. ASSUME VmInv, NEW g \in Page
        PROVE  Cardinality(Owners(g)) = IF g \in free THEN 0 ELSE 1
    <2>1. Accounted(Ref, free, Kernel)
      BY <1>1 DEF VmInv
    <2>2. g # NULL
      BY Values
    <2>3. CASE g \in free
      <3>1. g \notin Kernel /\ \A x \in Loc : Ref[x] # g
        BY <2>1, <2>3 DEF Accounted
      <3>2. Owners(g) = {}
        BY <3>1, OwnersArePlaces
      <3> QED BY <2>3, <3>2, FS_EmptySet
    <2>4. CASE g \in Kernel
      <3>1. g \notin free /\ \A x \in Loc : Ref[x] # g
        BY <2>1, <2>4 DEF Accounted
      <3> DEFINE e == <<"kernel", KERNEL>>
      <3>2. \A o : o \in Owners(g) <=> o = e
        BY <2>4, <3>1, OwnersArePlaces
      <3> HIDE DEF e
      <3>3. Owners(g) = {e}
        BY <3>2
      <3> QED BY <3>1, <3>3, FS_Singleton
    <2>5. CASE g \notin free /\ g \notin Kernel
      <3>1. PICK x \in Loc : Ref[x] = g
        BY <2>1, <2>5 DEF Accounted
      <3>2. \A y \in Loc : Ref[y] = g => y = x
        BY <2>1, <2>2, <3>1 DEF Accounted
      <3>3. \A o : o \in Owners(g) <=> o = Owner(x)
        BY <2>5, <3>1, <3>2, OwnersArePlaces
      <3>4. Owners(g) = {Owner(x)}
        BY <3>3
      <3> QED BY <2>5, <3>4, FS_Singleton
    <2> QED BY <2>3, <2>4, <2>5
  <1>2. VmInv => PagesAccounted
    BY <1>1 DEF PagesAccounted
  <1> QED BY <1>2, VmSafety, PTL

-----------------------------------------------------------------------------
(* What a child starts with. *)

(* Only kfork() lets a child run. *)
LEMMA OnlyKfork ==
  ASSUME TypeOK, Next, NEW q \in Slot, state[q] = "USED", state'[q] = "RUNNABLE"
  PROVE  \E r \in Slot : kfork(r) /\ np[r] = q
  <1>1. state \in [Slot -> {"UNUSED", "USED", "RUNNABLE", "ZOMBIE"}]
    BY DEF TypeOK
  <1>2. state' # state
    OBVIOUS
  <1>3. \A r \in Slot : \A s \in {"UNUSED", "USED", "ZOMBIE"} : state' # [state EXCEPT ![r] = s]
    BY <1>1
  <1>4. ASSUME NEW p \in Slot, Fork(p) PROVE kfork(p) /\ np[p] = q
    <2>1. ASSUME NEW r \in Slot, allocproc(p, r) PROVE FALSE
      BY <1>3, <2>1 DEF allocproc
    <2>2. ~allocproc_usyscall(p) /\ ~uvmcreate(p)
      BY <1>2 DEF allocproc_usyscall, uvmcreate
    <2>3. ~proc_pagetable(p) /\ ~proc_pagetable_undo(p)
      BY <1>2 DEF proc_pagetable, proc_pagetable_undo, proc
    <2>4. ~uvmcopy(p) /\ ~uvmcopy_undo(p)
      BY <1>2 DEF uvmcopy, uvmcopy_undo, proc
    <2>5. ~kfork_fail(p)
      <3>1. SUFFICES ASSUME kfork_fail(p) PROVE FALSE
        OBVIOUS
      <3>2. state' = [state EXCEPT ![np[p]] = "UNUSED"]
        BY <3>1 DEF kfork_fail, freeproc
      <3> QED BY <1>1, <3>2
    <2>6. kfork(p)
      BY <1>4, <2>1, <2>2, <2>3, <2>4, <2>5 DEF Fork
    <2>7. state' = [state EXCEPT ![np[p]] = "RUNNABLE"]
      BY <2>6 DEF kfork
    <2> QED BY <1>1, <2>6, <2>7
  <1>5. ASSUME NEW p \in Slot, Sbrk(p) PROVE FALSE
    <2>1. ASSUME NEW n \in SbrkArgs PROVE ~sbrk_eager(p, n) /\ ~sbrk_shrink(p, n) /\ ~sbrk_lazy(p, n)
      BY <1>2 DEF sbrk_eager, sbrk_shrink, sbrk_lazy, proc
    <2>2. ~uvmalloc(p) /\ ~uvmalloc_undo(p) /\ ~growproc(p)
      BY <1>2 DEF uvmalloc, uvmalloc_undo, growproc, proc
    <2> QED BY <1>5, <2>1, <2>2 DEF Sbrk
  <1>6. ASSUME NEW p \in Slot, Touch(p) PROVE FALSE
    <2>1. PICK v \in TouchedVa :
            \/ store(p, v) \/ sys_copyout(p, v) \/ copyin(p, v)
            \/ \E write \in BOOLEAN : usertrap(p, v, write)
      BY <1>6 DEF Touch
    <2>2. ~store(p, v) /\ ~sys_copyout(p, v) /\ ~copyin(p, v)
      BY <1>2 DEF store, sys_copyout, copyin, proc
    <2>3. ASSUME NEW write \in BOOLEAN, usertrap(p, v, write) PROVE FALSE
      <3>1. state' = [state EXCEPT ![p] = IF VmfaultFails(p, v) THEN "ZOMBIE" ELSE state[p]]
        BY <2>3 DEF usertrap
      <3> QED BY <1>1, <3>1
    <2> QED BY <2>1, <2>2, <2>3
  <1>7. ASSUME NEW p \in Slot, kexit(p) PROVE FALSE
    BY <1>3, <1>7 DEF kexit
  <1>8. ASSUME NEW p \in Slot, NEW r \in Slot, kwait(p, r) PROVE FALSE
    BY <1>2, <1>3, <1>8 DEF kwait, freeproc, proc
  <1> QED BY <1>4, <1>5, <1>6, <1>7, <1>8 DEF Next

(* A child starts with the size, the permissions and the contents of its     *)
(* parent, in pages of its own, whatever its parent had allocated lazily and *)
(* whatever other processes did while the pages were copied.                 *)
THEOREM ChildIsACopy == Spec => ForkCopies
  <1>1. ASSUME VmInv, Next PROVE Forked
    <2> SUFFICES ASSUME NEW p \in Slot, NEW q \in Slot,
                        state[q] = "USED", state'[q] = "RUNNABLE", np[p] = q
                 PROVE  /\ sz'[q] = sz[p]
                        /\ \A v \in UserVA :
                             /\ pte[q][v].flags = pte[p][v].flags
                             /\ pte[p][v] # NoPte =>
                                  /\ data[pte[q][v].pa] = data[pte[p][v].pa]
                                  /\ pte[q][v].pa # pte[p][v].pa
      BY DEF Forked
    <2>1. TypeOK /\ Accounted(Ref, free, Kernel) /\ SlotInv(p)
      BY <1>1 DEF VmInv
    <2>2. PICK r \in Slot : kfork(r) /\ np[r] = q
      BY <1>1, <2>1, OnlyKfork
    <2>3. pc[r] \in ForkPc /\ pc[r] = "copy"
      BY <2>2 DEF kfork, At, ForkPc
    <2>4. pc[p] \in ForkPc
      BY <2>1 DEF SlotInv, Slot
    <2>5. p = r
      <3>1. ForkInv(r, q)
        BY <1>1, <2>2, <2>3, Forking
      <3> QED BY <2>4, <3>1 DEF ForkInv
    <2>6. p # q
      BY <1>1, <2>4, Forking
    <2>7. sz' = [sz EXCEPT ![q] = sz[p]] /\ i[p] * PGSIZE >= sz[p]
      BY <2>2, <2>5 DEF kfork
    <2>8. \A v \in UserVA :
            IF pte[p][v] # NoPte
            THEN /\ v < PGROUNDUP(sz[p])
                 /\ pte[q][v] # NoPte
                 /\ pte[q][v].flags = pte[p][v].flags
                 /\ data[pte[q][v].pa] = data[pte[p][v].pa]
            ELSE pte[q][v] = NoPte
      BY <1>1, <2>3, <2>5, <2>7, AllCopied
    <2>9. ASSUME NEW v \in UserVA, pte[p][v] # NoPte PROVE pte[q][v].pa # pte[p][v].pa
      <3> DEFINE x == <<"user", p, v>>
                 y == <<"user", q, v>>
      <3>1. x \in Loc /\ y \in Loc /\ Ref[x] = pte[p][v].pa /\ Ref[y] = pte[q][v].pa
        BY Places, RefAt
      <3>2. x # y
        BY <2>6
      <3>3. pte[p][v].pa # NULL
        BY <2>1, <2>9, Values DEF SlotInv, TableInv
      <3> HIDE DEF x, y
      <3> QED BY <2>1, <3>1, <3>2, <3>3 DEF Accounted
    <2>10. sz'[q] = sz[p]
      BY <2>1, <2>7 DEF TypeOK
    <2> QED BY <2>8, <2>9, <2>10
  <1>2. VmInv /\ [Next]_vars => [Forked]_vars
    BY <1>1
  <1> QED BY <1>2, VmSafety, PTL DEF Spec, ForkCopies
=============================================================================
