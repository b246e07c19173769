------------------------------ MODULE Vmprint ------------------------------
(***************************************************************************)
(* The vmprint() system call of Proyecto3 on the page tables that Vm       *)
(* builds.  Vm keeps a table by the addresses that its pages cover; here   *)
(* it is what vmprint_nivel() reads: pages full of PTEs, found through the *)
(* PTEs of the level above.                                                *)
(*                                                                         *)
(* A process prints its own table, which nobody else changes, so the       *)
(* listing is a function of the state in which the call starts.            *)
(***************************************************************************)
EXTENDS Vm, Sequences

LOCAL INSTANCE SequencesExt

Index == 0..(FAN - 1)

PTE_V(e) == e.pa # NULL

(* The PTE that walk() leaves for a page-table page: no flag but PTE_V. *)
Pointer(q, d) == IF d \in Dir THEN [pa |-> dir[q][d], flags |-> {}] ELSE NoPte
Leaf(q, v)    == IF v \in VA THEN pte[q][v] ELSE NoPte

(* The page-table page at physical address g. *)
TableAt(q, g) ==
  IF g = root[q] THEN [k \in Index |-> Pointer(q, <<1, k>>)]
  ELSE LET d == CHOOSE d \in Dir : dir[q][d] = g IN
       [k \in Index |-> IF d[1] = 1 THEN Pointer(q, <<0, d[2] * FAN + k>>)
                                    ELSE Leaf(q, d[2] * FAN + k)]

(* The addresses that one PTE of a level covers: 1 << 9 * level, in pages. *)
Covers(level) == CASE level = 0 -> 1 [] level = 1 -> FAN [] level = 2 -> FAN * FAN

\* Mutant: every level is shifted like the leaves.
Start_leaf(va, level, k) == va + k

(* vaini *)
Start(va, level, k) == va + k * Covers(level)

(* The lines for the table at g of a level, whose range starts at va: one    *)
(* for each valid PTE, followed by those of the table it points to.          *)
vmprint_nivel(q) ==
  LET Level[level \in 0..2, g \in Page, va \in Int] ==
        FlattenSeq([k \in 1..FAN |->
          LET e     == TableAt(q, g)[k - 1]
              vaini == Start(va, level, k - 1)
          IN IF ~PTE_V(e) THEN <<>>
             ELSE <<[depth |-> 3 - level, va |-> vaini, pte |-> e]>> \o
                  (IF level > 0 /\ e.flags \cap {"R", "W", "X"} = {}
                   THEN Level[level - 1, e.pa, vaini] ELSE <<>>)])
  IN Level

vmprint(q) == vmprint_nivel(q)[2, root[q], 0]

-----------------------------------------------------------------------------
(* The listing of a process: its lines of three levels are exactly its       *)
(* mappings, by rising address, lazy pages and holes left out; before each   *)
(* come the lines of the two tables it is in; and the tables are all the     *)
(* page-table pages of the process, also those that lost their last mapping  *)
(* or were left by a mappages() that failed, so that freewalk(), which goes  *)
(* the same way, frees them all.                                             *)
VmprintExact ==
  \A q \in Slot : state[q] \in {"RUNNABLE", "ZOMBIE"} =>
    LET out      == vmprint(q)
        lines(d) == {k \in DOMAIN out : out[k].depth = d}
        within(j, k) == /\ out[j].va <= out[k].va
                        /\ out[k].va < out[j].va + Covers(3 - out[j].depth)
    IN /\ {<<out[k].va, out[k].pte>> : k \in lines(3)} =
            {<<v, pte[q][v]>> : v \in {w \in VA : pte[q][w] # NoPte}}
       /\ \A d \in 1..3 : \A j, k \in lines(d) : j < k => out[j].va < out[k].va
       /\ \A k \in lines(2) : \E j \in lines(1) : j < k /\ within(j, k)
       /\ \A k \in lines(3) : \E j \in lines(2) : j < k /\ within(j, k)
       /\ {root[q]} \cup {out[k].pte.pa : k \in lines(1) \cup lines(2)} = TablePages(q)
=============================================================================
