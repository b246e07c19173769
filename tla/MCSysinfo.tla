----------------------------- MODULE MCSysinfo -----------------------------
(* Model values for the runs of Sysinfo. *)
EXTENDS Sysinfo, TLC

CONSTANTS c1, c2

TwoCpus == {c1, c2}

CpuSymmetry == Permutations(TwoCpus)
=============================================================================
