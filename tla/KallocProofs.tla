---------------------------- MODULE KallocProofs ----------------------------
(***************************************************************************)
(* The theorems about the page allocator, for every number of pages and of *)
(* CPUs: the free list loses no page and hands none out twice, and with    *)
(* its lock it implements the set of free pages (FreePages).               *)
(***************************************************************************)
EXTENDS Kalloc, FiniteSetTheorems, WellFoundedInduction, TLAPS

-----------------------------------------------------------------------------
(* Lists that are linked through their pages. *)

(* Pages, and what is none. *)
LEMMA PageFacts ==
  /\ NPAGES \in Nat \ {0} /\ NULL = 0 /\ NULL \notin Page /\ JUNK \notin Page
  /\ \A g \in Page : g \in Nat
BY KallocAssumption DEF Page, NULL, JUNK

(* A set of pages is finite. *)
LEMMA PageSets ==
  ASSUME NEW S \in SUBSET Page
  PROVE  IsFiniteSet(S) /\ Cardinality(S) \in Nat
  <1>1. IsFiniteSet(1..NPAGES)
    BY FS_Interval, PageFacts
  <1>2. IsFiniteSet(S)
    BY <1>1, FS_Subset DEF Page
  <1> QED BY <1>2, FS_CardinalityType

(* The pages of a list are closed under its links, and every other closed    *)
(* set holds them.                                                           *)
LEMMA ReachClosed ==
  ASSUME NEW link, NEW h
  PROVE  /\ Reach(link, h) \in SUBSET Page
         /\ ClosedSet(link, h, Reach(link, h))
         /\ \A S \in SUBSET Page : ClosedSet(link, h, S) => Reach(link, h) \subseteq S
BY DEF Reach, ClosedSet

(* The end of a list reaches nothing. *)
LEMMA ReachNull ==
  ASSUME NEW link
  PROVE  Reach(link, NULL) = {}
  <1>1. ClosedSet(link, NULL, {})
    BY PageFacts DEF ClosedSet
  <1> QED BY <1>1 DEF Reach

(* A list is its first page and the list that follows it. *)
LEMMA ReachCons ==
  ASSUME NEW link, NEW h \in Page
  PROVE  Reach(link, h) = {h} \cup Reach(link, link[h])
  <1> DEFINE T == Reach(link, link[h])
  <1>1. ClosedSet(link, link[h], T) /\ T \in SUBSET Page
    BY ReachClosed
  <1>2. ClosedSet(link, h, {h} \cup T) /\ {h} \cup T \in SUBSET Page
    BY <1>1 DEF ClosedSet
  <1>3. Reach(link, h) \subseteq {h} \cup T
    BY <1>2, ReachClosed
  <1>4. ClosedSet(link, h, Reach(link, h)) /\ Reach(link, h) \in SUBSET Page
    BY ReachClosed
  <1>5. h \in Reach(link, h)
    BY <1>4 DEF ClosedSet
  <1>6. ClosedSet(link, link[h], Reach(link, h))
    BY <1>4, <1>5 DEF ClosedSet
  <1>7. T \subseteq Reach(link, h)
    BY <1>4, <1>6, ReachClosed
  <1> QED BY <1>3, <1>5, <1>7

(* What follows a page of a list is part of the list. *)
LEMMA ReachPart ==
  ASSUME NEW link, NEW h, NEW g \in Reach(link, h)
  PROVE  Reach(link, link[g]) \subseteq Reach(link, h)
  <1>1. ClosedSet(link, h, Reach(link, h)) /\ Reach(link, h) \in SUBSET Page
    BY ReachClosed
  <1>2. ClosedSet(link, link[g], Reach(link, h))
    BY <1>1 DEF ClosedSet
  <1> QED BY <1>1, <1>2, ReachClosed

(* The link of a page that is not on a list does not matter to it. *)
LEMMA ReachFrame ==
  ASSUME NEW link, NEW other, NEW x, NEW h, x \notin Reach(link, h),
         \A g \in Page : g # x => other[g] = link[g]
  PROVE  Reach(other, h) = Reach(link, h)
  <1>1. ClosedSet(link, h, Reach(link, h)) /\ Reach(link, h) \in SUBSET Page
    BY ReachClosed
  <1>2. ClosedSet(other, h, Reach(link, h))
    BY <1>1 DEF ClosedSet
  <1>3. Reach(other, h) \subseteq Reach(link, h)
    BY <1>1, <1>2, ReachClosed
  <1>4. ClosedSet(other, h, Reach(other, h)) /\ Reach(other, h) \in SUBSET Page
    BY ReachClosed
  <1>5. ClosedSet(link, h, Reach(other, h))
    BY <1>3, <1>4 DEF ClosedSet
  <1> QED BY <1>3, <1>4, <1>5, ReachClosed

(* A list that comes back to no page and has no junk. *)
Proper(link, L) == \A g \in L : link[g] # JUNK /\ g \notin Reach(link, link[g])

(* It stays so when the link of a page that is not on it changes. *)
LEMMA ProperFrame ==
  ASSUME NEW link, NEW other, NEW x, NEW h, x \notin Reach(link, h),
         \A g \in Page : g # x => other[g] = link[g],
         Proper(link, Reach(link, h))
  PROVE  Proper(other, Reach(other, h))
  <1>1. Reach(other, h) = Reach(link, h)
    BY ReachFrame
  <1>2. ASSUME NEW g \in Reach(link, h)
        PROVE  other[g] # JUNK /\ g \notin Reach(other, other[g])
    <2>1. other[g] = link[g] /\ g \in Page
      BY <1>2, ReachClosed
    <2>2. x \notin Reach(link, link[g])
      BY <1>2, ReachPart
    <2>3. Reach(other, link[g]) = Reach(link, link[g])
      BY <2>2, ReachFrame
    <2> QED BY <1>2, <2>1, <2>3 DEF Proper
  <1> QED BY <1>1, <1>2 DEF Proper

(* The list that kinit() builds holds every page. *)
LEMMA InitialList ==
  ASSUME NEW link, link = [g \in Page |-> g - 1]
  PROVE  Reach(link, NPAGES) = Page /\ Proper(link, Page)
  <1>1. ASSUME NEW S \in SUBSET Page, ClosedSet(link, NPAGES, S), Page \ S # {}
        PROVE  FALSE
    <2> DEFINE D == {NPAGES - g : g \in Page \ S}
    <2>1. D \subseteq Nat /\ D # {}
      BY <1>1, PageFacts DEF Page
    <2>2. PICK d \in D : \A e \in D : ~(<<e, d>> \in OpToRel(<, Nat))
      BY <2>1, NatLessThanWellFounded, WFMin
    <2>3. \A e \in D : ~(e < d)
      BY <2>1, <2>2 DEF OpToRel
    <2>4. PICK g \in Page \ S : d = NPAGES - g
      OBVIOUS
    <2>5. g # NPAGES
      BY <1>1, PageFacts DEF ClosedSet, Page
    <2>6. g + 1 \in Page /\ link[g + 1] = g
      BY <2>5, PageFacts DEF Page
    <2>7. g + 1 \notin S
      BY <1>1, <2>6 DEF ClosedSet
    <2>8. NPAGES - (g + 1) \in D
      BY <2>6, <2>7
    <2>9. NPAGES - (g + 1) < d
      BY <2>4, PageFacts
    <2> HIDE DEF D
    <2> QED BY <2>3, <2>8, <2>9
  <1>2. Reach(link, NPAGES) = Page
    BY <1>1 DEF Reach
  <1>3. ASSUME NEW g \in Page PROVE link[g] # JUNK /\ g \notin Reach(link, link[g])
    <2> DEFINE S == {x \in Page : x < g}
    <2>1. link[g] = g - 1
      OBVIOUS
    <2>2. ClosedSet(link, g - 1, S)
      BY PageFacts DEF ClosedSet, Page
    <2>3. Reach(link, g - 1) \subseteq S
      BY <2>2, ReachClosed
    <2> QED BY <2>1, <2>3, PageFacts DEF JUNK
  <1> QED BY <1>2, <1>3 DEF Proper

-----------------------------------------------------------------------------
(* What is true between any two steps. *)

(* Where a CPU is between acquire() and release(). *)
Holding == {"free_link", "free_head", "alloc_read", "alloc_head", "count_read",
            "count_walk"}

(* Only one CPU is between acquire(&kmem.lock) and release(&kmem.lock). *)
LockInv ==
  /\ \A c \in CPUs : pc[c] \in Holding => lock
  /\ \A c, d \in CPUs : pc[c] \in Holding /\ pc[d] \in Holding => c = d

(* The pages of a CPU: the ones it was given and the one it is giving back. *)
Mine(c) == held[c] \cup InKfree(c)

(* Every page is in one place. *)
Places ==
  /\ \A c \in CPUs : pc[c] \in {"free_lock", "free_link", "free_head"} =>
       r[c] \in Page /\ r[c] \notin held[c]
  /\ \A g \in Page : g \in OnList \/ \E c \in CPUs : g \in Mine(c)
  /\ \A c \in CPUs : Mine(c) \cap OnList = {}
  /\ \A c, d \in CPUs : c # d => Mine(c) \cap Mine(d) = {}

(* What the CPU inside the critical section has read. *)
Locals ==
  \A c \in CPUs :
    /\ pc[c] = "free_head" => next[r[c]] = freelist
    /\ pc[c] = "alloc_head" => r[c] = freelist
    /\ pc[c] # "count_walk" => freemem[c] = 0
    /\ pc[c] = "count_walk" =>
         /\ r[c] \in OnList \cup {NULL}
         /\ freemem[c] + Cardinality(Reach(next, r[c])) = Cardinality(OnList)

(* The inductive invariant. *)
ListInv == TypeOK /\ LockInv /\ Places /\ Proper(next, OnList) /\ Locals

(* OnList, with its first page. *)
LEMMA ListFacts ==
  ASSUME TypeOK
  PROVE  /\ OnList \in SUBSET Page
         /\ freelist \in Page => freelist \in OnList
         /\ freelist \notin Page => freelist = NULL /\ OnList = {}
         /\ \A h \in OnList : Reach(next, h) \subseteq OnList
  <1>1. OnList \in SUBSET Page /\ ClosedSet(next, freelist, OnList)
    BY ReachClosed DEF OnList
  <1>2. freelist \notin Page => freelist = NULL /\ OnList = {}
    BY ReachNull DEF TypeOK, OnList
  <1>3. ASSUME NEW h \in OnList PROVE Reach(next, h) \subseteq OnList
    BY <1>1, <1>3, ReachPart, ReachCons DEF OnList
  <1> QED BY <1>1, <1>2, <1>3 DEF ClosedSet

(* A step that leaves the list, the places and the counting of pages alone.  *)
QuietAt(c) ==
  /\ held'[c] = held[c]
  /\ InKfree(c)' = InKfree(c)
  /\ pc'[c] \in {"free_lock", "free_link", "free_head"} =>
       pc[c] \in {"free_lock", "free_link", "free_head"} /\ r'[c] = r[c]

(* Such a step keeps every page in its place. *)
LEMMA PlacesQuiet ==
  ASSUME Places, UNCHANGED OnList, \A c \in CPUs : QuietAt(c)
  PROVE  Places'
  <1>1. \A c \in CPUs : Mine(c)' = Mine(c)
    BY DEF Mine, QuietAt
  <1> QED BY <1>1 DEF Places, QuietAt

-----------------------------------------------------------------------------
(* How each operation changes the list. *)

(* kfree() fills a page that is not on the list. *)
LEMMA JunkFilled ==
  ASSUME ListInv, NEW c \in CPUs, NEW g \in Page, kfree(c, g)
  PROVE  /\ g \notin OnList
         /\ \A h \in Page : h # g => next'[h] = next[h]
         /\ OnList' = OnList /\ Proper(next', OnList')
  <1>1. g \notin OnList
    BY DEF kfree, ListInv, Places, Mine
  <1>2. \A h \in Page : h # g => next'[h] = next[h]
    BY DEF kfree, ListInv, TypeOK
  <1>3. freelist' = freelist
    BY DEF kfree
  <1>4. Reach(next', freelist) = Reach(next, freelist)
    BY <1>1, <1>2, ReachFrame DEF OnList
  <1>5. Proper(next', Reach(next', freelist))
    BY <1>1, <1>2, ProperFrame DEF OnList, ListInv
  <1> QED BY <1>1, <1>2, <1>3, <1>4, <1>5 DEF OnList

(* kfree() links its page to the list, which does not see it yet. *)
LEMMA PageLinked ==
  ASSUME ListInv, NEW c \in CPUs, kfree_link(c)
  PROVE  /\ r[c] \in Page /\ next'[r[c]] = freelist
         /\ OnList' = OnList /\ Proper(next', OnList')
  <1>1. r[c] \in Page /\ r[c] \notin OnList
    BY DEF kfree_link, ListInv, Places, Mine, InKfree
  <1>2. \A h \in Page : h # r[c] => next'[h] = next[h]
    BY <1>1 DEF kfree_link, ListInv, TypeOK
  <1>3. freelist' = freelist /\ next'[r[c]] = freelist
    BY <1>1 DEF kfree_link, ListInv, TypeOK
  <1>4. Reach(next', freelist) = Reach(next, freelist)
    BY <1>1, <1>2, ReachFrame DEF OnList
  <1>5. Proper(next', Reach(next', freelist))
    BY <1>1, <1>2, ProperFrame DEF OnList, ListInv
  <1> QED BY <1>1, <1>3, <1>4, <1>5 DEF OnList

(* The page becomes the head of the list. *)
LEMMA PageFreed ==
  ASSUME ListInv, NEW c \in CPUs, kfree_head(c)
  PROVE  /\ r[c] \in Page /\ r[c] \notin OnList /\ r[c] \notin held[c]
         /\ OnList' = OnList \cup {r[c]} /\ Proper(next', OnList')
  <1>1. r[c] \in Page /\ r[c] \notin OnList /\ r[c] \notin held[c]
    BY DEF kfree_head, ListInv, Places, Mine, InKfree
  <1>2. next[r[c]] = freelist /\ freelist' = r[c] /\ next' = next
    BY DEF kfree_head, ListInv, Locals
  <1>3. Reach(next, r[c]) = {r[c]} \cup OnList
    BY <1>1, <1>2, ReachCons DEF OnList
  <1>4. OnList' = OnList \cup {r[c]}
    BY <1>2, <1>3 DEF OnList
  <1>5. freelist # JUNK
    BY PageFacts DEF ListInv, TypeOK, NULL, JUNK
  <1>6. Proper(next, OnList \cup {r[c]})
    BY <1>1, <1>2, <1>5 DEF Proper, ListInv, OnList
  <1> QED BY <1>1, <1>2, <1>4, <1>6

(* kalloc() takes the head off the list. *)
LEMMA PageTaken ==
  ASSUME ListInv, NEW c \in CPUs, kalloc_head(c), r[c] # NULL
  PROVE  /\ r[c] \in OnList /\ next[r[c]] \in Page \cup {NULL}
         /\ OnList' = OnList \ {r[c]} /\ Proper(next', OnList')
  <1> DEFINE T == Reach(next, next[r[c]])
  <1>1. r[c] = freelist /\ r[c] \in Page
    BY DEF kalloc_head, ListInv, Locals, TypeOK
  <1>2. OnList = {r[c]} \cup T
    BY <1>1, ReachCons DEF OnList
  <1>3. r[c] \notin T /\ next[r[c]] \in Page \cup {NULL}
    BY <1>1, <1>2 DEF ListInv, Proper, TypeOK
  <1>4. freelist' = next[r[c]] /\ \A h \in Page : h # r[c] => next'[h] = next[h]
    BY <1>1 DEF kalloc_head, ListInv, TypeOK
  <1>5. Proper(next, T)
    BY <1>2 DEF ListInv, Proper
  <1>6. Reach(next', next[r[c]]) = T /\ Proper(next', Reach(next', next[r[c]]))
    BY <1>3, <1>4, <1>5, ReachFrame, ProperFrame
  <1> HIDE DEF T
  <1>7. OnList' = T
    BY <1>4, <1>6 DEF OnList
  <1> QED BY <1>2, <1>3, <1>4, <1>6, <1>7 DEF OnList

(* get_free_memory() goes from one page of the list to the next. *)
LEMMA PageCounted ==
  ASSUME ListInv, NEW c \in CPUs, count_walk(c), r[c] # NULL
  PROVE  /\ next[r[c]] \in OnList \cup {NULL}
         /\ Cardinality(Reach(next, r[c])) = Cardinality(Reach(next, next[r[c]])) + 1
  <1>1. r[c] \in OnList /\ OnList \in SUBSET Page
    BY ListFacts DEF count_walk, ListInv, Locals
  <1>2. Reach(next, r[c]) = {r[c]} \cup Reach(next, next[r[c]])
    BY <1>1, ReachCons
  <1>3. r[c] \notin Reach(next, next[r[c]]) /\ next[r[c]] \in Page \cup {NULL}
    BY <1>1 DEF ListInv, Proper, TypeOK
  <1>4. next[r[c]] \in OnList \cup {NULL}
    BY <1>1, <1>3, ReachClosed DEF OnList, ClosedSet
  <1>5. IsFiniteSet(Reach(next, next[r[c]]))
    BY ReachClosed, PageSets
  <1> QED BY <1>2, <1>3, <1>4, <1>5, FS_AddElement

-----------------------------------------------------------------------------
(* Every step keeps the types. *)
LEMMA TypeStep ==
  ASSUME ListInv, [Next]_vars
  PROVE  TypeOK'
  <1>0. TypeOK
    BY DEF ListInv
  <1> USE <1>0 DEF TypeOK, Pc
  <1>1. ASSUME NEW c \in CPUs, NEW g \in Page, kfree(c, g) PROVE TypeOK'
    BY <1>1 DEF kfree, Goto
  <1>2. ASSUME NEW c \in CPUs, kfree_acquire(c) PROVE TypeOK'
    BY <1>2 DEF kfree_acquire, acquire, Goto
  <1>3. ASSUME NEW c \in CPUs, kfree_link(c) PROVE TypeOK'
    BY <1>3, PageLinked DEF kfree_link, Goto
  <1>4. ASSUME NEW c \in CPUs, kfree_head(c) PROVE TypeOK'
    BY <1>4, PageFreed DEF kfree_head, Goto
  <1>5. ASSUME NEW c \in CPUs, kalloc(c) PROVE TypeOK'
    BY <1>5 DEF kalloc, Goto
  <1>6. ASSUME NEW c \in CPUs, kalloc_acquire(c) PROVE TypeOK'
    BY <1>6 DEF kalloc_acquire, acquire, Goto
  <1>7. ASSUME NEW c \in CPUs, kalloc_read(c) PROVE TypeOK'
    BY <1>7 DEF kalloc_read, Goto
  <1>8. ASSUME NEW c \in CPUs, kalloc_head(c) PROVE TypeOK'
    <2>1. r[c] \in Nat
      BY PageFacts
    <2>2. /\ ret' \in [CPUs -> Nat] /\ lock' \in BOOLEAN /\ pc' \in [CPUs -> Pc]
          /\ r' \in [CPUs -> Page \cup {NULL}] /\ freemem' \in [CPUs -> Nat]
      BY <1>8, <2>1 DEF kalloc_head, Goto
    <2>3. CASE r[c] = NULL
      BY <1>8, <2>2, <2>3 DEF kalloc_head
    <2>4. CASE r[c] # NULL
      <3>1. next[r[c]] \in Page \cup {NULL} /\ r[c] \in Page
        BY <1>8, <2>4, PageTaken
      <3> QED BY <1>8, <2>2, <2>4, <3>1 DEF kalloc_head
    <2> QED BY <2>3, <2>4
  <1>9. ASSUME NEW c \in CPUs, get_free_memory(c) PROVE TypeOK'
    BY <1>9 DEF get_free_memory, Goto
  <1>10. ASSUME NEW c \in CPUs, count_acquire(c) PROVE TypeOK'
    BY <1>10 DEF count_acquire, acquire, Goto
  <1>11. ASSUME NEW c \in CPUs, count_read(c) PROVE TypeOK'
    BY <1>11 DEF count_read, Goto
  <1>12. ASSUME NEW c \in CPUs, count_walk(c) PROVE TypeOK'
    <2>1. CASE r[c] = NULL
      <3>1. /\ ret' = [ret EXCEPT ![c] = freemem[c]] /\ lock' = FALSE
            /\ freemem' = [freemem EXCEPT ![c] = 0] /\ pc' = [pc EXCEPT ![c] = "idle"]
            /\ UNCHANGED <<freelist, next, held, r>>
        BY <1>12, <2>1, Zenon DEF count_walk, Goto
      <3> QED BY <3>1
    <2>2. CASE r[c] # NULL
      <3>1. next[r[c]] \in Page \cup {NULL}
        BY <1>12, <2>2, PageCounted, ListFacts
      <3> QED BY <1>12, <2>2, <3>1 DEF count_walk
    <2> QED BY <2>1, <2>2
  <1>13. CASE UNCHANGED vars
    BY <1>13 DEF vars
  <1> QED
    BY <1>1, <1>2, <1>3, <1>4, <1>5, <1>6, <1>7, <1>8, <1>9, <1>10, <1>11, <1>12,
       <1>13
      DEF Next, Step

(* Every step keeps the critical section to one CPU. *)
LEMMA LockStep ==
  ASSUME ListInv, [Next]_vars
  PROVE  LockInv'
  <1> USE DEF ListInv, TypeOK, LockInv, Holding
  <1>1. ASSUME NEW c \in CPUs, NEW g \in Page, kfree(c, g) PROVE LockInv'
    BY <1>1 DEF kfree, Goto
  <1>2. ASSUME NEW c \in CPUs, kfree_acquire(c) PROVE LockInv'
    BY <1>2 DEF kfree_acquire, acquire, Goto
  <1>3. ASSUME NEW c \in CPUs, kfree_link(c) PROVE LockInv'
    BY <1>3 DEF kfree_link, Goto
  <1>4. ASSUME NEW c \in CPUs, kfree_head(c) PROVE LockInv'
    BY <1>4 DEF kfree_head, Goto
  <1>5. ASSUME NEW c \in CPUs, kalloc(c) PROVE LockInv'
    BY <1>5 DEF kalloc, Goto
  <1>6. ASSUME NEW c \in CPUs, kalloc_acquire(c) PROVE LockInv'
    BY <1>6 DEF kalloc_acquire, acquire, Goto
  <1>7. ASSUME NEW c \in CPUs, kalloc_read(c) PROVE LockInv'
    BY <1>7 DEF kalloc_read, Goto
  <1>8. ASSUME NEW c \in CPUs, kalloc_head(c) PROVE LockInv'
    BY <1>8 DEF kalloc_head, Goto
  <1>9. ASSUME NEW c \in CPUs, get_free_memory(c) PROVE LockInv'
    BY <1>9 DEF get_free_memory, Goto
  <1>10. ASSUME NEW c \in CPUs, count_acquire(c) PROVE LockInv'
    BY <1>10 DEF count_acquire, acquire, Goto
  <1>11. ASSUME NEW c \in CPUs, count_read(c) PROVE LockInv'
    BY <1>11 DEF count_read, Goto
  <1>12. ASSUME NEW c \in CPUs, count_walk(c) PROVE LockInv'
    BY <1>12 DEF count_walk, Goto
  <1>13. CASE UNCHANGED vars
    BY <1>13 DEF vars
  <1> QED
    BY <1>1, <1>2, <1>3, <1>4, <1>5, <1>6, <1>7, <1>8, <1>9, <1>10, <1>11, <1>12,
       <1>13
      DEF Next, Step

-----------------------------------------------------------------------------
(* Every step keeps the list proper and every page in its place. *)
LEMMA PlacesStep ==
  ASSUME ListInv, [Next]_vars
  PROVE  Places' /\ Proper(next', OnList')
  <1>0. TypeOK /\ Places /\ Proper(next, OnList)
    BY DEF ListInv
  <1>1. ASSUME NEW c \in CPUs, NEW g \in Page, kfree(c, g) PROVE Places' /\ Proper(next', OnList')
    <2>1. OnList' = OnList /\ Proper(next', OnList')
      BY <1>1, JunkFilled
    <2>2. \A d \in CPUs : d # c => held'[d] = held[d] /\ pc'[d] = pc[d] /\ r'[d] = r[d]
      BY <1>0, <1>1 DEF kfree, Goto, TypeOK
    <2>3. /\ pc[c] = "idle" /\ pc'[c] = "free_lock" /\ r'[c] = g
          /\ g \in held[c] /\ held'[c] = held[c] \ {g}
      BY <1>0, <1>1 DEF kfree, Goto, TypeOK
    <2>4. \A d \in CPUs : Mine(d)' = Mine(d)
      BY <2>2, <2>3 DEF Mine, InKfree
    <2> QED BY <1>0, <2>1, <2>2, <2>3, <2>4 DEF Places
  <1>2. ASSUME NEW c \in CPUs, kfree_acquire(c) PROVE Places' /\ Proper(next', OnList')
    <2>1. OnList' = OnList /\ next' = next
      BY <1>2 DEF kfree_acquire, OnList
    <2>2. \A d \in CPUs : QuietAt(d)
      BY <1>0, <1>2 DEF kfree_acquire, acquire, Goto, TypeOK, QuietAt, InKfree
    <2> QED BY <1>0, <2>1, <2>2, PlacesQuiet
  <1>3. ASSUME NEW c \in CPUs, kfree_link(c) PROVE Places' /\ Proper(next', OnList')
    <2>1. OnList' = OnList /\ Proper(next', OnList')
      BY <1>3, PageLinked
    <2>2. \A d \in CPUs : QuietAt(d)
      BY <1>0, <1>3 DEF kfree_link, Goto, TypeOK, QuietAt, InKfree
    <2> QED BY <1>0, <2>1, <2>2, PlacesQuiet
  <1>4. ASSUME NEW c \in CPUs, kfree_head(c) PROVE Places' /\ Proper(next', OnList')
    <2>1. /\ r[c] \in Page /\ r[c] \notin OnList /\ r[c] \notin held[c]
          /\ OnList' = OnList \cup {r[c]} /\ Proper(next', OnList')
      BY <1>4, PageFreed
    <2>2. \A d \in CPUs : d # c => pc'[d] = pc[d] /\ r'[d] = r[d]
      BY <1>0, <1>4 DEF kfree_head, Goto, TypeOK
    <2>3. pc[c] = "free_head" /\ pc'[c] = "idle" /\ held' = held
      BY <1>0, <1>4 DEF kfree_head, Goto, TypeOK
    <2>4. \A d \in CPUs : d # c => Mine(d)' = Mine(d)
      BY <2>2, <2>3 DEF Mine, InKfree
    <2>5. Mine(c) = held[c] \cup {r[c]} /\ Mine(c)' = held[c]
      BY <2>3 DEF Mine, InKfree
    <2> QED BY <1>0, <2>1, <2>2, <2>3, <2>4, <2>5 DEF Places
  <1>5. ASSUME NEW c \in CPUs, kalloc(c) PROVE Places' /\ Proper(next', OnList')
    <2>1. OnList' = OnList /\ next' = next
      BY <1>5 DEF kalloc, OnList
    <2>2. \A d \in CPUs : QuietAt(d)
      BY <1>0, <1>5 DEF kalloc, Goto, TypeOK, QuietAt, InKfree
    <2> QED BY <1>0, <2>1, <2>2, PlacesQuiet
  <1>6. ASSUME NEW c \in CPUs, kalloc_acquire(c) PROVE Places' /\ Proper(next', OnList')
    <2>1. OnList' = OnList /\ next' = next
      BY <1>6 DEF kalloc_acquire, OnList
    <2>2. \A d \in CPUs : QuietAt(d)
      BY <1>0, <1>6 DEF kalloc_acquire, acquire, Goto, TypeOK, QuietAt, InKfree
    <2> QED BY <1>0, <2>1, <2>2, PlacesQuiet
  <1>7. ASSUME NEW c \in CPUs, kalloc_read(c) PROVE Places' /\ Proper(next', OnList')
    <2>1. OnList' = OnList /\ next' = next
      BY <1>7 DEF kalloc_read, OnList
    <2>2. \A d \in CPUs : QuietAt(d)
      BY <1>0, <1>7 DEF kalloc_read, Goto, TypeOK, QuietAt, InKfree
    <2> QED BY <1>0, <2>1, <2>2, PlacesQuiet
  <1>8. ASSUME NEW c \in CPUs, kalloc_head(c) PROVE Places' /\ Proper(next', OnList')
    <2>1. CASE r[c] = NULL
      <3>1. OnList' = OnList /\ next' = next
        BY <1>8, <2>1 DEF kalloc_head, OnList
      <3>2. \A d \in CPUs : QuietAt(d)
        BY <1>0, <1>8, <2>1 DEF kalloc_head, Goto, TypeOK, QuietAt, InKfree
      <3> QED BY <1>0, <3>1, <3>2, PlacesQuiet
    <2>2. CASE r[c] # NULL
      <3>1. /\ r[c] \in OnList /\ OnList' = OnList \ {r[c]}
            /\ Proper(next', OnList')
        BY <1>8, <2>2, PageTaken
      <3>2. \A d \in CPUs : d # c => held'[d] = held[d] /\ pc'[d] = pc[d] /\ r'[d] = r[d]
        BY <1>0, <1>8, <2>2 DEF kalloc_head, Goto, TypeOK
      <3>3. pc[c] = "alloc_head" /\ pc'[c] = "idle" /\ held'[c] = held[c] \cup {r[c]}
        BY <1>0, <1>8, <2>2 DEF kalloc_head, Goto, TypeOK
      <3>4. \A d \in CPUs : d # c => Mine(d)' = Mine(d)
        BY <3>2 DEF Mine, InKfree
      <3>5. Mine(c) = held[c] /\ Mine(c)' = held[c] \cup {r[c]}
        BY <3>3 DEF Mine, InKfree
      <3> QED BY <1>0, <3>1, <3>2, <3>3, <3>4, <3>5 DEF Places
    <2> QED BY <2>1, <2>2
  <1>9. ASSUME NEW c \in CPUs, get_free_memory(c) PROVE Places' /\ Proper(next', OnList')
    <2>1. OnList' = OnList /\ next' = next
      BY <1>9 DEF get_free_memory, OnList
    <2>2. \A d \in CPUs : QuietAt(d)
      BY <1>0, <1>9 DEF get_free_memory, Goto, TypeOK, QuietAt, InKfree
    <2> QED BY <1>0, <2>1, <2>2, PlacesQuiet
  <1>10. ASSUME NEW c \in CPUs, count_acquire(c) PROVE Places' /\ Proper(next', OnList')
    <2>1. OnList' = OnList /\ next' = next
      BY <1>10 DEF count_acquire, OnList
    <2>2. \A d \in CPUs : QuietAt(d)
      BY <1>0, <1>10 DEF count_acquire, acquire, Goto, TypeOK, QuietAt, InKfree
    <2> QED BY <1>0, <2>1, <2>2, PlacesQuiet
  <1>11. ASSUME NEW c \in CPUs, count_read(c) PROVE Places' /\ Proper(next', OnList')
    <2>1. OnList' = OnList /\ next' = next
      BY <1>11 DEF count_read, OnList
    <2>2. \A d \in CPUs : QuietAt(d)
      BY <1>0, <1>11 DEF count_read, Goto, TypeOK, QuietAt, InKfree
    <2> QED BY <1>0, <2>1, <2>2, PlacesQuiet
  <1>12. ASSUME NEW c \in CPUs, count_walk(c) PROVE Places' /\ Proper(next', OnList')
    <2>1. OnList' = OnList /\ next' = next
      BY <1>12 DEF count_walk, OnList
    <2>2. \A d \in CPUs : QuietAt(d)
      BY <1>0, <1>12 DEF count_walk, Goto, TypeOK, QuietAt, InKfree
    <2> QED BY <1>0, <2>1, <2>2, PlacesQuiet
  <1>13. CASE UNCHANGED vars
    BY <1>0, <1>13, PlacesQuiet DEF vars, OnList, QuietAt, InKfree
  <1> QED
    BY <1>1, <1>2, <1>3, <1>4, <1>5, <1>6, <1>7, <1>8, <1>9, <1>10, <1>11, <1>12,
       <1>13
      DEF Next, Step

(* A step keeps what the other CPUs have read: none of them has the lock, or *)
(* the page that changes is not on the list and not theirs.                  *)
LEMMA LocalsOther ==
  ASSUME Locals, LockInv, NEW c \in CPUs, pc[c] \in Holding,
         NEW d \in CPUs, d # c,
         pc'[d] = pc[d], freemem'[d] = freemem[d]
  PROVE  /\ pc'[d] \notin Holding
         /\ pc'[d] # "count_walk" => freemem'[d] = 0
BY DEF Locals, LockInv

(* Every step keeps what is known of the locals. *)
LEMMA LocalsStep ==
  ASSUME ListInv, [Next]_vars
  PROVE  Locals'
  <1>0. TypeOK /\ Places /\ Locals /\ LockInv
    BY DEF ListInv
  <1>1. ASSUME NEW c \in CPUs, NEW g \in Page, kfree(c, g) PROVE Locals'
    <2>1. /\ g \notin OnList /\ OnList' = OnList
          /\ \A h \in Page : h # g => next'[h] = next[h]
      BY <1>1, JunkFilled
    <2>2. /\ pc[c] = "idle" /\ pc'[c] = "free_lock" /\ g \in Mine(c)
          /\ UNCHANGED <<freelist, freemem>>
      BY <1>0, <1>1 DEF kfree, Goto, TypeOK, Mine
    <2>3. ASSUME NEW d \in CPUs, d # c
          PROVE  /\ pc'[d] = pc[d] /\ r'[d] = r[d]
                 /\ pc[d] = "free_head" => next'[r[d]] = next[r[d]]
                 /\ r[d] \in OnList \cup {NULL} => Reach(next', r[d]) = Reach(next, r[d])
      <3>1. pc'[d] = pc[d] /\ r'[d] = r[d]
        BY <1>0, <1>1, <2>3 DEF kfree, Goto, TypeOK
      <3>2. pc[d] = "free_head" => r[d] \in Page /\ r[d] \in Mine(d)
        BY <1>0 DEF Places, Mine, InKfree
      <3>3. pc[d] = "free_head" => r[d] # g
        BY <1>0, <2>2, <2>3, <3>2 DEF Places
      <3>4. r[d] \in OnList \cup {NULL} => g \notin Reach(next, r[d])
        BY <1>0, <2>1, ListFacts, ReachNull
      <3>5. r[d] \in OnList \cup {NULL} => Reach(next', r[d]) = Reach(next, r[d])
        BY <2>1, <3>4, ReachFrame
      <3> QED BY <2>1, <3>1, <3>2, <3>3, <3>5
    <2> QED BY <1>0, <2>1, <2>2, <2>3 DEF Locals
  <1>2. ASSUME NEW c \in CPUs, kfree_acquire(c) PROVE Locals'
    <2>1. UNCHANGED <<freelist, next, r, freemem, OnList>>
      BY <1>2 DEF kfree_acquire, OnList
    <2>2. \A d \in CPUs : pc'[d] \in {"free_head", "alloc_head", "count_walk"} => pc'[d] = pc[d]
      BY <1>0, <1>2 DEF kfree_acquire, acquire, Goto, TypeOK
    <2>3. \A d \in CPUs : pc[d] = "count_walk" => pc'[d] = pc[d]
      BY <1>0, <1>2 DEF kfree_acquire, acquire, Goto, TypeOK
    <2> QED BY <1>0, <2>1, <2>2, <2>3 DEF Locals
  <1>3. ASSUME NEW c \in CPUs, kfree_link(c) PROVE Locals'
    <2>1. next'[r[c]] = freelist
      BY <1>3, PageLinked
    <2>2. \A d \in CPUs : d # c => pc'[d] = pc[d] /\ freemem'[d] = freemem[d]
      BY <1>0, <1>3 DEF kfree_link, Goto, TypeOK
    <2>3. /\ pc[c] \in Holding /\ pc'[c] = "free_head" /\ freemem[c] = 0
          /\ UNCHANGED <<freelist, r, freemem>>
      BY <1>0, <1>3 DEF kfree_link, Goto, TypeOK, Locals, Holding
    <2>4. \A d \in CPUs : d # c => pc'[d] \notin Holding /\ freemem'[d] = 0
      BY <1>0, <2>2, <2>3, LocalsOther DEF Holding
    <2> QED BY <2>1, <2>3, <2>4 DEF Locals, Holding
  <1>4. ASSUME NEW c \in CPUs, kfree_head(c) PROVE Locals'
    <2>1. \A d \in CPUs : d # c => pc'[d] = pc[d] /\ freemem'[d] = freemem[d]
      BY <1>0, <1>4 DEF kfree_head, Goto, TypeOK
    <2>2. pc[c] \in Holding /\ pc'[c] = "idle" /\ freemem'[c] = 0
      BY <1>0, <1>4 DEF kfree_head, Goto, TypeOK, Locals, Holding
    <2>3. \A d \in CPUs : d # c => pc'[d] \notin Holding /\ freemem'[d] = 0
      BY <1>0, <2>1, <2>2, LocalsOther DEF Holding
    <2> QED BY <2>2, <2>3 DEF Locals, Holding
  <1>5. ASSUME NEW c \in CPUs, kalloc(c) PROVE Locals'
    <2>1. UNCHANGED <<freelist, next, r, freemem, OnList>>
      BY <1>5 DEF kalloc, OnList
    <2>2. \A d \in CPUs : pc'[d] \in {"free_head", "alloc_head", "count_walk"} => pc'[d] = pc[d]
      BY <1>0, <1>5 DEF kalloc, Goto, TypeOK
    <2>3. \A d \in CPUs : pc[d] = "count_walk" => pc'[d] = pc[d]
      BY <1>0, <1>5 DEF kalloc, Goto, TypeOK
    <2> QED BY <1>0, <2>1, <2>2, <2>3 DEF Locals
  <1>6. ASSUME NEW c \in CPUs, kalloc_acquire(c) PROVE Locals'
    <2>1. UNCHANGED <<freelist, next, r, freemem, OnList>>
      BY <1>6 DEF kalloc_acquire, OnList
    <2>2. \A d \in CPUs : pc'[d] \in {"free_head", "alloc_head", "count_walk"} => pc'[d] = pc[d]
      BY <1>0, <1>6 DEF kalloc_acquire, acquire, Goto, TypeOK
    <2>3. \A d \in CPUs : pc[d] = "count_walk" => pc'[d] = pc[d]
      BY <1>0, <1>6 DEF kalloc_acquire, acquire, Goto, TypeOK
    <2> QED BY <1>0, <2>1, <2>2, <2>3 DEF Locals
  <1>7. ASSUME NEW c \in CPUs, kalloc_read(c) PROVE Locals'
    <2>1. \A d \in CPUs : d # c => pc'[d] = pc[d] /\ freemem'[d] = freemem[d]
      BY <1>0, <1>7 DEF kalloc_read, Goto, TypeOK
    <2>2. /\ pc[c] \in Holding /\ pc'[c] = "alloc_head" /\ freemem'[c] = 0
          /\ r'[c] = freelist /\ UNCHANGED <<freelist, next>>
      BY <1>0, <1>7 DEF kalloc_read, Goto, TypeOK, Locals, Holding
    <2>3. \A d \in CPUs : d # c => pc'[d] \notin Holding /\ freemem'[d] = 0
      BY <1>0, <2>1, <2>2, LocalsOther DEF Holding
    <2> QED BY <2>2, <2>3 DEF Locals, Holding
  <1>8. ASSUME NEW c \in CPUs, kalloc_head(c) PROVE Locals'
    <2>1. \A d \in CPUs : d # c => pc'[d] = pc[d] /\ freemem'[d] = freemem[d]
      BY <1>0, <1>8 DEF kalloc_head, Goto, TypeOK
    <2>2. pc[c] \in Holding /\ pc'[c] = "idle" /\ freemem'[c] = 0
      BY <1>0, <1>8 DEF kalloc_head, Goto, TypeOK, Locals, Holding
    <2>3. \A d \in CPUs : d # c => pc'[d] \notin Holding /\ freemem'[d] = 0
      BY <1>0, <2>1, <2>2, LocalsOther DEF Holding
    <2> QED BY <2>2, <2>3 DEF Locals, Holding
  <1>9. ASSUME NEW c \in CPUs, get_free_memory(c) PROVE Locals'
    <2>1. UNCHANGED <<freelist, next, r, freemem, OnList>>
      BY <1>9 DEF get_free_memory, OnList
    <2>2. \A d \in CPUs : pc'[d] \in {"free_head", "alloc_head", "count_walk"} => pc'[d] = pc[d]
      BY <1>0, <1>9 DEF get_free_memory, Goto, TypeOK
    <2>3. \A d \in CPUs : pc[d] = "count_walk" => pc'[d] = pc[d]
      BY <1>0, <1>9 DEF get_free_memory, Goto, TypeOK
    <2> QED BY <1>0, <2>1, <2>2, <2>3 DEF Locals
  <1>10. ASSUME NEW c \in CPUs, count_acquire(c) PROVE Locals'
    <2>1. UNCHANGED <<freelist, next, r, freemem, OnList>>
      BY <1>10 DEF count_acquire, OnList
    <2>2. \A d \in CPUs : pc'[d] \in {"free_head", "alloc_head", "count_walk"} => pc'[d] = pc[d]
      BY <1>0, <1>10 DEF count_acquire, acquire, Goto, TypeOK
    <2>3. \A d \in CPUs : pc[d] = "count_walk" => pc'[d] = pc[d]
      BY <1>0, <1>10 DEF count_acquire, acquire, Goto, TypeOK
    <2> QED BY <1>0, <2>1, <2>2, <2>3 DEF Locals
  <1>11. ASSUME NEW c \in CPUs, count_read(c) PROVE Locals'
    <2>1. \A d \in CPUs : d # c => pc'[d] = pc[d] /\ freemem'[d] = freemem[d]
      BY <1>0, <1>11 DEF count_read, Goto, TypeOK
    <2>2. /\ pc[c] \in Holding /\ pc'[c] = "count_walk" /\ freemem'[c] = 0
          /\ r'[c] = freelist /\ UNCHANGED <<freelist, next>>
      BY <1>0, <1>11 DEF count_read, Goto, TypeOK, Locals, Holding
    <2>3. \A d \in CPUs : d # c => pc'[d] \notin Holding /\ freemem'[d] = 0
      BY <1>0, <2>1, <2>2, LocalsOther DEF Holding
    <2>4. freelist \in OnList \cup {NULL} /\ Cardinality(OnList) \in Nat
      BY <1>0, ListFacts, PageSets
    <2>5. OnList' = OnList /\ Reach(next', r'[c]) = OnList
      BY <2>2 DEF OnList
    <2>6. freemem'[c] + Cardinality(OnList) = Cardinality(OnList)
      BY <2>2, <2>4
    <2> QED BY <2>2, <2>3, <2>4, <2>5, <2>6 DEF Locals, Holding
  <1>12. ASSUME NEW c \in CPUs, count_walk(c) PROVE Locals'
    <2>1. \A d \in CPUs : d # c => pc'[d] = pc[d] /\ freemem'[d] = freemem[d]
      BY <1>0, <1>12 DEF count_walk, Goto, TypeOK
    <2>2. pc[c] = "count_walk" /\ pc[c] \in Holding /\ next' = next /\ OnList' = OnList
      BY <1>12 DEF count_walk, Holding, OnList
    <2>3. \A d \in CPUs : d # c => pc'[d] \notin Holding /\ freemem'[d] = 0
      BY <1>0, <2>1, <2>2, LocalsOther DEF Holding
    <2>4. CASE r[c] = NULL
      <3>1. pc'[c] = "idle" /\ freemem'[c] = 0
        BY <1>0, <1>12, <2>4 DEF count_walk, Goto, TypeOK
      <3> QED BY <2>3, <3>1 DEF Locals, Holding
    <2>5. CASE r[c] # NULL
      <3>1. /\ pc'[c] = "count_walk" /\ r'[c] = next[r[c]]
            /\ freemem'[c] = freemem[c] + 1 /\ freemem[c] \in Nat
        BY <1>0, <1>12, <2>2, <2>5 DEF count_walk, TypeOK
      <3>2. /\ next[r[c]] \in OnList \cup {NULL}
            /\ Cardinality(Reach(next, r[c])) = Cardinality(Reach(next, next[r[c]])) + 1
        BY <1>12, <2>5, PageCounted
      <3>3. freemem[c] + Cardinality(Reach(next, r[c])) = Cardinality(OnList)
        BY <1>0, <2>2 DEF Locals
      <3>4. Cardinality(Reach(next, next[r[c]])) \in Nat
        BY ReachClosed, PageSets
      <3>5. freemem'[c] + Cardinality(Reach(next, next[r[c]])) = Cardinality(OnList)
        BY <3>1, <3>2, <3>3, <3>4
      <3> QED BY <2>2, <2>3, <3>1, <3>2, <3>5 DEF Locals, Holding
    <2> QED BY <2>4, <2>5
  <1>13. CASE UNCHANGED vars
    BY <1>0, <1>13 DEF vars, Locals, OnList
  <1> QED
    BY <1>1, <1>2, <1>3, <1>4, <1>5, <1>6, <1>7, <1>8, <1>9, <1>10, <1>11, <1>12,
       <1>13
      DEF Next, Step

(* ListInv holds in every reachable state. *)
LEMMA ListSafety == Spec => []ListInv
  <1>1. Init => ListInv
    <2> SUFFICES ASSUME Init PROVE ListInv
      OBVIOUS
    <2>1. OnList = Page /\ Proper(next, Page)
      BY InitialList DEF Init, OnList
    <2>2. TypeOK
      <3>1. freelist \in Page /\ next \in [Page -> Page \cup {NULL, JUNK}]
        BY PageFacts DEF Init, Page, NULL
      <3>2. lock \in BOOLEAN
        BY DEF Init
      <3> QED BY <3>1, <3>2 DEF Init, TypeOK, Pc, NULL
    <2>3. LockInv /\ Locals
      BY DEF Init, LockInv, Locals, Holding
    <2>4. Places
      BY <2>1 DEF Init, Places, Mine, InKfree
    <2> QED BY <2>1, <2>2, <2>3, <2>4 DEF ListInv
  <1>2. ListInv /\ [Next]_vars => ListInv'
    <2> SUFFICES ASSUME ListInv, [Next]_vars PROVE ListInv'
      OBVIOUS
    <2>1. TypeOK' /\ LockInv' /\ Locals' /\ Places' /\ Proper(next', OnList')
      BY TypeStep, LockStep, LocalsStep, PlacesStep
    <2> QED BY <2>1 DEF ListInv, Proper
  <1> QED BY <1>1, <1>2, PTL DEF Spec

(* The free list that kalloc() and kfree() leave behind comes back to no     *)
(* page and goes through no junk; each page is on it or with one caller:     *)
(* nothing is lost and nothing handed out twice.                             *)
THEOREM ListsSound == Spec => []ListSound
  <1>1. ListInv => ListSound
    <2> SUFFICES ASSUME ListInv PROVE ListSound
      OBVIOUS
    <2>1. \A g \in OnList : next[g] # JUNK /\ g \notin Reach(next, next[g])
      BY DEF ListInv, Proper
    <2>2. \A c \in CPUs : Mine(c) \subseteq Page
      BY DEF ListInv, TypeOK, Places, Mine, InKfree
    <2>3. OnList \subseteq Page
      BY ListFacts DEF ListInv
    <2>4. Page = OnList \cup UNION {Mine(c) : c \in CPUs}
      BY <2>2, <2>3 DEF ListInv, Places
    <2>5. \A c, d \in CPUs : Mine(c) \cap OnList = {} /\ (c # d => Mine(c) \cap Mine(d) = {})
      BY DEF ListInv, Places
    <2> QED BY <2>1, <2>4, <2>5 DEF ListSound, ListInv, Mine
  <1> QED BY <1>1, ListSafety, PTL

-----------------------------------------------------------------------------
(* The set of free pages. *)

(* What the callers see: a page is theirs until kfree() has linked it. *)
Owned == [c \in CPUs |-> Mine(c)]

(* A step that changes neither the list nor what callers have or were told   *)
(* is no step of FreePages.                                                  *)
LEMMA FreeQuiet ==
  ASSUME UNCHANGED <<OnList, ret>>, \A d \in CPUs : Mine(d)' = Mine(d)
  PROVE  UNCHANGED Abstract!vars
BY DEF Abstract!vars, Mine

(* Every step of the list is a step of FreePages, or none. *)
LEMMA FreeStep ==
  ASSUME ListInv, [Next]_vars
  PROVE  [Abstract!Next]_(Abstract!vars)
  <1> DEFINE Goal == [Abstract!Next]_(Abstract!vars)
  <1>0. TypeOK /\ Places /\ Locals
    BY DEF ListInv
  <1>a. ASSUME UNCHANGED <<OnList, ret>>, \A d \in CPUs : Mine(d)' = Mine(d)
        PROVE  Goal
    BY <1>a, FreeQuiet
  <1> SUFFICES Goal
    OBVIOUS
  <1> HIDE DEF Goal
  <1>1. ASSUME NEW c \in CPUs, NEW g \in Page, kfree(c, g) PROVE Goal
    <2>1. OnList' = OnList
      BY <1>1, JunkFilled
    <2>2. \A d \in CPUs : Mine(d)' = Mine(d)
      BY <1>0, <1>1 DEF kfree, Goto, TypeOK, Mine, InKfree
    <2> QED BY <1>a, <1>1, <2>1, <2>2 DEF kfree
  <1>2. ASSUME NEW c \in CPUs, kfree_acquire(c) PROVE Goal
    <2>1. OnList' = OnList
      BY <1>2 DEF kfree_acquire, OnList
    <2>2. \A d \in CPUs : Mine(d)' = Mine(d)
      BY <1>0, <1>2 DEF kfree_acquire, acquire, Goto, TypeOK, Mine, InKfree
    <2> QED BY <1>a, <1>2, <2>1, <2>2 DEF kfree_acquire
  <1>3. ASSUME NEW c \in CPUs, kfree_link(c) PROVE Goal
    <2>1. OnList' = OnList
      BY <1>3, PageLinked
    <2>2. \A d \in CPUs : Mine(d)' = Mine(d)
      BY <1>0, <1>3 DEF kfree_link, Goto, TypeOK, Mine, InKfree
    <2> QED BY <1>a, <1>3, <2>1, <2>2 DEF kfree_link
  <1>4. ASSUME NEW c \in CPUs, kfree_head(c) PROVE Goal
    <2>1. /\ r[c] \in Page /\ r[c] \notin OnList /\ r[c] \notin held[c]
          /\ OnList' = OnList \cup {r[c]}
      BY <1>4, PageFreed
    <2>2. \A d \in CPUs : d # c => pc'[d] = pc[d] /\ r'[d] = r[d]
      BY <1>0, <1>4 DEF kfree_head, Goto, TypeOK
    <2>3. pc[c] = "free_head" /\ pc'[c] = "idle" /\ held' = held /\ ret' = ret
      BY <1>0, <1>4 DEF kfree_head, Goto, TypeOK
    <2>4. \A d \in CPUs : d # c => Mine(d)' = Mine(d)
      BY <2>2, <2>3 DEF Mine, InKfree
    <2>5. r[c] \in Mine(c) /\ Mine(c)' = Mine(c) \ {r[c]}
      BY <2>1, <2>3 DEF Mine, InKfree
    <2>6. Owned' = [Owned EXCEPT ![c] = @ \ {r[c]}] /\ r[c] \in Owned[c]
      BY <2>4, <2>5 DEF Owned
    <2>7. Abstract!Free(c)
      BY <2>1, <2>3, <2>6 DEF Abstract!Free, Owned, Mine
    <2> QED BY <2>7 DEF Goal, Abstract!Next
  <1>5. ASSUME NEW c \in CPUs, kalloc(c) PROVE Goal
    <2>1. OnList' = OnList
      BY <1>5 DEF kalloc, OnList
    <2>2. \A d \in CPUs : Mine(d)' = Mine(d)
      BY <1>0, <1>5 DEF kalloc, Goto, TypeOK, Mine, InKfree
    <2> QED BY <1>a, <1>5, <2>1, <2>2 DEF kalloc
  <1>6. ASSUME NEW c \in CPUs, kalloc_acquire(c) PROVE Goal
    <2>1. OnList' = OnList
      BY <1>6 DEF kalloc_acquire, OnList
    <2>2. \A d \in CPUs : Mine(d)' = Mine(d)
      BY <1>0, <1>6 DEF kalloc_acquire, acquire, Goto, TypeOK, Mine, InKfree
    <2> QED BY <1>a, <1>6, <2>1, <2>2 DEF kalloc_acquire
  <1>7. ASSUME NEW c \in CPUs, kalloc_read(c) PROVE Goal
    <2>1. OnList' = OnList
      BY <1>7 DEF kalloc_read, OnList
    <2>2. \A d \in CPUs : Mine(d)' = Mine(d)
      BY <1>0, <1>7 DEF kalloc_read, Goto, TypeOK, Mine, InKfree
    <2> QED BY <1>a, <1>7, <2>1, <2>2 DEF kalloc_read
  <1>8. ASSUME NEW c \in CPUs, kalloc_head(c) PROVE Goal
    <2>1. CASE r[c] = NULL
      <3>1. OnList = {}
        BY <1>0, <1>8, <2>1, ListFacts, PageFacts DEF kalloc_head, Locals
      <3>2. OnList' = OnList /\ ret' = [ret EXCEPT ![c] = NULL]
        BY <1>8, <2>1 DEF kalloc_head, OnList
      <3>3. \A d \in CPUs : Mine(d)' = Mine(d)
        BY <1>0, <1>8, <2>1 DEF kalloc_head, Goto, TypeOK, Mine, InKfree
      <3>4. Owned' = Owned
        BY <3>3 DEF Owned
      <3>5. Abstract!AllocFails(c)
        BY <3>1, <3>2, <3>4 DEF Abstract!AllocFails, Owned, Mine
      <3> QED BY <3>5 DEF Goal, Abstract!Next
    <2>2. CASE r[c] # NULL
      <3>1. r[c] \in OnList /\ OnList' = OnList \ {r[c]}
        BY <1>8, <2>2, PageTaken
      <3>2. \A d \in CPUs : d # c => held'[d] = held[d] /\ pc'[d] = pc[d] /\ r'[d] = r[d]
        BY <1>0, <1>8, <2>2 DEF kalloc_head, Goto, TypeOK
      <3>3. /\ pc[c] = "alloc_head" /\ pc'[c] = "idle"
            /\ held'[c] = held[c] \cup {r[c]} /\ ret' = [ret EXCEPT ![c] = r[c]]
        BY <1>0, <1>8, <2>2 DEF kalloc_head, Goto, TypeOK
      <3>4. \A d \in CPUs : d # c => Mine(d)' = Mine(d)
        BY <3>2 DEF Mine, InKfree
      <3>5. Mine(c)' = Mine(c) \cup {r[c]}
        BY <3>3 DEF Mine, InKfree
      <3>6. Owned' = [Owned EXCEPT ![c] = @ \cup {r[c]}]
        BY <3>4, <3>5 DEF Owned
      <3>7. Abstract!Alloc(c)
        BY <3>1, <3>3, <3>6 DEF Abstract!Alloc, Owned, Mine
      <3> QED BY <3>7 DEF Goal, Abstract!Next
    <2> QED BY <2>1, <2>2
  <1>9. ASSUME NEW c \in CPUs, get_free_memory(c) PROVE Goal
    <2>1. OnList' = OnList
      BY <1>9 DEF get_free_memory, OnList
    <2>2. \A d \in CPUs : Mine(d)' = Mine(d)
      BY <1>0, <1>9 DEF get_free_memory, Goto, TypeOK, Mine, InKfree
    <2> QED BY <1>a, <1>9, <2>1, <2>2 DEF get_free_memory
  <1>10. ASSUME NEW c \in CPUs, count_acquire(c) PROVE Goal
    <2>1. OnList' = OnList
      BY <1>10 DEF count_acquire, OnList
    <2>2. \A d \in CPUs : Mine(d)' = Mine(d)
      BY <1>0, <1>10 DEF count_acquire, acquire, Goto, TypeOK, Mine, InKfree
    <2> QED BY <1>a, <1>10, <2>1, <2>2 DEF count_acquire
  <1>11. ASSUME NEW c \in CPUs, count_read(c) PROVE Goal
    <2>1. OnList' = OnList
      BY <1>11 DEF count_read, OnList
    <2>2. \A d \in CPUs : Mine(d)' = Mine(d)
      BY <1>0, <1>11 DEF count_read, Goto, TypeOK, Mine, InKfree
    <2> QED BY <1>a, <1>11, <2>1, <2>2 DEF count_read
  <1>12. ASSUME NEW c \in CPUs, count_walk(c) PROVE Goal
    <2>1. OnList' = OnList
      BY <1>12 DEF count_walk, OnList
    <2>2. \A d \in CPUs : Mine(d)' = Mine(d)
      BY <1>0, <1>12 DEF count_walk, Goto, TypeOK, Mine, InKfree
    <2>3. CASE r[c] = NULL
      <3>1. freemem[c] + Cardinality(Reach(next, NULL)) = Cardinality(OnList)
        BY <1>0, <1>12, <2>3 DEF count_walk, Locals
      <3>2. freemem[c] = Cardinality(OnList)
        <4>1. Cardinality(Reach(next, NULL)) = 0
          BY ReachNull, FS_EmptySet
        <4>2. freemem[c] \in Nat
          BY <1>0 DEF TypeOK
        <4>3. Cardinality(OnList) \in Nat
          BY <1>0, ListFacts, PageSets
        <4> QED BY <3>1, <4>1, <4>2, <4>3
      <3>3. ret' = [ret EXCEPT ![c] = Cardinality(OnList)]
        <4>1. ret' = [ret EXCEPT ![c] = freemem[c]]
          BY <1>12, <2>3, Zenon DEF count_walk
        <4> QED BY <4>1, <3>2
      <3>4. Owned' = Owned
        BY <2>2 DEF Owned
      <3>5. Abstract!Count(c)
        BY <2>1, <3>3, <3>4
        DEF Abstract!Count, Abstract!Cardinality, Cardinality, Owned, Mine
      <3> QED BY <3>5 DEF Goal, Abstract!Next
    <2>4. CASE r[c] # NULL
      <3>1. ret' = ret
        BY <1>12, <2>4, Zenon DEF count_walk
      <3> QED BY <1>a, <2>1, <2>2, <3>1
    <2> QED BY <2>3, <2>4
  <1>13. CASE UNCHANGED vars
    BY <1>a, <1>13 DEF vars, OnList, Mine, InKfree
  <1> QED
    BY <1>1, <1>2, <1>3, <1>4, <1>5, <1>6, <1>7, <1>8, <1>9, <1>10, <1>11, <1>12,
       <1>13
      DEF Next, Step

(* The list with its lock implements the set of free pages: kalloc() fails   *)
(* only when no page is free, and get_free_memory() is exact at an instant   *)
(* of its call, although kfree() and kalloc() run on the other CPUs.         *)
THEOREM ListImplementsFreePages == Spec => ImplementsFreePages
  <1>1. Init => Abstract!Init
    <2> SUFFICES ASSUME Init PROVE Abstract!Init
      OBVIOUS
    <2>1. OnList = Page
      BY InitialList DEF Init, OnList
    <2> QED BY <2>1 DEF Init, Abstract!Init, InKfree
  <1>2. ListInv /\ [Next]_vars => [Abstract!Next]_(Abstract!vars)
    BY FreeStep
  <1> QED
    BY <1>1, <1>2, ListSafety, PTL DEF Spec, ImplementsFreePages, Abstract!Spec
=============================================================================
