------------------------------ MODULE MCKalloc ------------------------------
(***************************************************************************)
(* Instances of Kalloc for TLC.                                            *)
(***************************************************************************)
EXTENDS Kalloc

CONSTANTS c1, c2

TwoCpus == {c1, c2}
=============================================================================
