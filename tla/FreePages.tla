----------------------------- MODULE FreePages -----------------------------
(***************************************************************************)
(* What the physical page allocator promises its callers: a set of free    *)
(* pages from which kalloc() takes one if there is any, to which kfree()   *)
(* gives one back, and whose size get_free_memory() reports, each in one   *)
(* indivisible step.                                                       *)
(***************************************************************************)
EXTENDS Naturals, FiniteSets

CONSTANTS Page, CPUs, NULL

VARIABLES
  free,     \* the free pages
  held,     \* the pages that the code on each CPU got and has not freed
  ret       \* what the last kalloc() or get_free_memory() of each CPU returned

vars == <<free, held, ret>>

Init ==
  /\ free = Page
  /\ held = [c \in CPUs |-> {}]
  /\ ret = [c \in CPUs |-> NULL]

Alloc(c) ==
  /\ free # {}
  /\ \E g \in free :
       /\ free' = free \ {g}
       /\ held' = [held EXCEPT ![c] = @ \cup {g}]
       /\ ret' = [ret EXCEPT ![c] = g]

AllocFails(c) ==
  /\ free = {}
  /\ ret' = [ret EXCEPT ![c] = NULL]
  /\ UNCHANGED <<free, held>>

Free(c) ==
  \E g \in held[c] :
    /\ free' = free \cup {g}
    /\ held' = [held EXCEPT ![c] = @ \ {g}]
    /\ UNCHANGED ret

Count(c) ==
  /\ ret' = [ret EXCEPT ![c] = Cardinality(free)]
  /\ UNCHANGED <<free, held>>

Next == \E c \in CPUs : Alloc(c) \/ AllocFails(c) \/ Free(c) \/ Count(c)

Spec == Init /\ [][Next]_vars
=============================================================================
