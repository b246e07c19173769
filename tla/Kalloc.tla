------------------------------- MODULE Kalloc -------------------------------
(***************************************************************************)
(* The physical page allocator (Proyecto2/kernel/kalloc.c): a list of free *)
(* pages linked through the pages themselves, protected by kmem.lock.  The *)
(* code on each CPU calls kalloc(), kfree() and get_free_memory().         *)
(*                                                                         *)
(* A step is one access to kmem or to the link of a page; the last access  *)
(* of a critical section includes the release(&kmem.lock) and the return.  *)
(***************************************************************************)
EXTENDS Integers, FiniteSets

CONSTANTS
  NPAGES,    \* pages between end and PHYSTOP
  CPUs

ASSUME KallocAssumption == NPAGES \in Nat \ {0}

Page == 1..NPAGES
NULL == 0
JUNK == -1          \* memset() has overwritten the link

VARIABLES
  lock,       \* kmem.lock is held
  freelist,   \* kmem.freelist
  next,       \* r->next of each page
  held,       \* the pages that each CPU got and has not passed to kfree()
  pc,
  r,          \* the local r of each CPU
  freemem,    \* the local of get_free_memory(), in pages
  ret         \* the last value that a call returned

vars == <<lock, freelist, next, held, pc, r, freemem, ret>>

Pc == {"idle", "free_lock", "free_link", "free_head", "alloc_lock", "alloc_read",
       "alloc_head", "count_lock", "count_read", "count_walk"}

(* kinit(): freerange() frees the pages in ascending order. *)
Init ==
  /\ lock = FALSE
  /\ freelist = NPAGES
  /\ next = [g \in Page |-> g - 1]
  /\ held = [c \in CPUs |-> {}]
  /\ pc = [c \in CPUs |-> "idle"]
  /\ r = [c \in CPUs |-> NULL]
  /\ freemem = [c \in CPUs |-> 0]
  /\ ret = [c \in CPUs |-> NULL]

Goto(c, l) == pc' = [pc EXCEPT ![c] = l]

(* acquire(&kmem.lock) *)
acquire(c, from, to) ==
  /\ pc[c] = from
  /\ ~lock
  /\ lock' = TRUE
  /\ Goto(c, to)

-----------------------------------------------------------------------------
(* kfree(g): the page is filled with junk before the lock is taken. *)
kfree(c, g) ==
  /\ pc[c] = "idle"
  /\ g \in held[c]
  /\ held' = [held EXCEPT ![c] = @ \ {g}]
  /\ next' = [next EXCEPT ![g] = JUNK]
  /\ r' = [r EXCEPT ![c] = g]
  /\ Goto(c, "free_lock")
  /\ UNCHANGED <<lock, freelist, freemem, ret>>

\* Mutant: no acquire() in kfree().
kfree_acquire_none(c) ==
  /\ pc[c] = "free_lock"
  /\ Goto(c, "free_link")
  /\ UNCHANGED <<lock, freelist, next, held, r, freemem, ret>>

kfree_acquire(c) ==
  /\ acquire(c, "free_lock", "free_link")
  /\ UNCHANGED <<freelist, next, held, r, freemem, ret>>

(* r->next = kmem.freelist; *)
kfree_link(c) ==
  /\ pc[c] = "free_link"
  /\ next' = [next EXCEPT ![r[c]] = freelist]
  /\ Goto(c, "free_head")
  /\ UNCHANGED <<lock, freelist, held, r, freemem, ret>>

(* kmem.freelist = r; release(&kmem.lock); *)
kfree_head(c) ==
  /\ pc[c] = "free_head"
  /\ freelist' = r[c]
  /\ lock' = FALSE
  /\ r' = [r EXCEPT ![c] = NULL]
  /\ Goto(c, "idle")
  /\ UNCHANGED <<next, held, freemem, ret>>

-----------------------------------------------------------------------------
kalloc(c) ==
  /\ pc[c] = "idle"
  /\ Goto(c, "alloc_lock")
  /\ UNCHANGED <<lock, freelist, next, held, r, freemem, ret>>

kalloc_acquire(c) ==
  /\ acquire(c, "alloc_lock", "alloc_read")
  /\ UNCHANGED <<freelist, next, held, r, freemem, ret>>

\* Mutant: the lock is released between the read of the list and its update.
kalloc_read_unlocks(c) ==
  /\ pc[c] = "alloc_read"
  /\ r' = [r EXCEPT ![c] = freelist]
  /\ lock' = FALSE
  /\ Goto(c, "alloc_head")
  /\ UNCHANGED <<freelist, next, held, freemem, ret>>

(* r = kmem.freelist; *)
kalloc_read(c) ==
  /\ pc[c] = "alloc_read"
  /\ r' = [r EXCEPT ![c] = freelist]
  /\ Goto(c, "alloc_head")
  /\ UNCHANGED <<lock, freelist, next, held, freemem, ret>>

(* if (r) kmem.freelist = r->next; release(&kmem.lock); and the page is      *)
(* filled with junk.                                                         *)
kalloc_head(c) ==
  /\ pc[c] = "alloc_head"
  /\ IF r[c] = NULL
     THEN UNCHANGED <<freelist, next, held>>
     ELSE /\ freelist' = next[r[c]]
          /\ next' = [next EXCEPT ![r[c]] = JUNK]
          /\ held' = [held EXCEPT ![c] = @ \cup {r[c]}]
  /\ ret' = [ret EXCEPT ![c] = r[c]]
  /\ lock' = FALSE
  /\ r' = [r EXCEPT ![c] = NULL]
  /\ Goto(c, "idle")
  /\ UNCHANGED freemem

-----------------------------------------------------------------------------
get_free_memory(c) ==
  /\ pc[c] = "idle"
  /\ Goto(c, "count_lock")
  /\ UNCHANGED <<lock, freelist, next, held, r, freemem, ret>>

count_acquire(c) ==
  /\ acquire(c, "count_lock", "count_read")
  /\ UNCHANGED <<freelist, next, held, r, freemem, ret>>

(* r = kmem.freelist; *)
count_read(c) ==
  /\ pc[c] = "count_read"
  /\ r' = [r EXCEPT ![c] = freelist]
  /\ Goto(c, "count_walk")
  /\ UNCHANGED <<lock, freelist, next, held, freemem, ret>>

(* while(r){ freemem += PGSIZE; r = r->next; } *)
count_walk(c) ==
  /\ pc[c] = "count_walk"
  /\ IF r[c] # NULL
     THEN /\ freemem' = [freemem EXCEPT ![c] = @ + 1]
          /\ r' = [r EXCEPT ![c] = next[r[c]]]
          /\ UNCHANGED <<pc, lock, ret>>
     ELSE /\ ret' = [ret EXCEPT ![c] = freemem[c]]
          /\ freemem' = [freemem EXCEPT ![c] = 0]
          /\ lock' = FALSE
          /\ Goto(c, "idle")
          /\ UNCHANGED r
  /\ UNCHANGED <<freelist, next, held>>

-----------------------------------------------------------------------------
Step(c) ==
  \/ kfree_acquire(c) \/ kfree_link(c) \/ kfree_head(c)
  \/ kalloc_acquire(c) \/ kalloc_read(c) \/ kalloc_head(c)
  \/ count_acquire(c) \/ count_read(c) \/ count_walk(c)

Next ==
  \E c \in CPUs :
    \/ Step(c) \/ kalloc(c) \/ get_free_memory(c)
    \/ \E g \in Page : kfree(c, g)

Spec == Init /\ [][Next]_vars

-----------------------------------------------------------------------------
(* Properties. *)

TypeOK ==
  /\ lock \in BOOLEAN
  /\ freelist \in Page \cup {NULL}
  /\ next \in [Page -> Page \cup {NULL, JUNK}]
  /\ held \in [CPUs -> SUBSET Page]
  /\ pc \in [CPUs -> Pc]
  /\ r \in [CPUs -> Page \cup {NULL}]
  /\ freemem \in [CPUs -> Nat]
  /\ ret \in [CPUs -> Nat]

(* The pages that the links lead to from h on: every set of pages that has h *)
(* and with a page also the one it links to holds them all.                  *)
ClosedSet(link, h, S) ==
  /\ h \in Page => h \in S
  /\ \A x \in S : link[x] \in Page => link[x] \in S

Reach(link, h) == {g \in Page : \A S \in SUBSET Page : ClosedSet(link, h, S) => g \in S}

OnList == Reach(next, freelist)

(* The page that a CPU has in its hands inside kfree(). *)
InKfree(c) == IF pc[c] \in {"free_lock", "free_link", "free_head"} THEN {r[c]} ELSE {}

(* The list that kalloc() and kfree() leave behind comes back to no page and  *)
(* goes through none that was filled with junk, and with the pages that       *)
(* callers hold makes up all the memory, each page in one place: nothing is   *)
(* lost or handed out twice.                                                  *)
ListSound ==
  /\ TypeOK
  /\ ~lock =>
       /\ \A g \in OnList : next[g] # JUNK /\ g \notin Reach(next, next[g])
       /\ Page = OnList \cup UNION {held[c] \cup InKfree(c) : c \in CPUs}
       /\ \A c, d \in CPUs :
            /\ (held[c] \cup InKfree(c)) \cap OnList = {}
            /\ c # d => (held[c] \cup InKfree(c)) \cap (held[d] \cup InKfree(d)) = {}

(* The list with its lock implements the set of free pages: kalloc() fails   *)
(* only when no page is free, and get_free_memory() is exact at an instant   *)
(* between its call and its return.                                          *)
Abstract == INSTANCE FreePages WITH
  free <- OnList,
  held <- [c \in CPUs |-> held[c] \cup InKfree(c)],
  ret  <- ret

ImplementsFreePages == Abstract!Spec
=============================================================================
