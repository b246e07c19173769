-------------------------------- MODULE MCVm --------------------------------
(***************************************************************************)
(* Instances of Vm for TLC.                                                *)
(***************************************************************************)
EXTENDS Vmprint

Increments == {-5, 5}
=============================================================================
