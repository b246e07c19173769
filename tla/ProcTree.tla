------------------------------ MODULE ProcTree ------------------------------
(***************************************************************************)
(* The process table implements the tree of processes (Tree).              *)
(*                                                                         *)
(* fork() takes effect when kfork() makes the child RUNNABLE, wait() when  *)
(* kwait() frees the zombie, and exit() when kexit() gets wait_lock: until *)
(* it is a ZOMBIE nobody else can look at the parents.                     *)
(***************************************************************************)
EXTENDS ProcInv

(* p is in kexit() and has wait_lock. *)
Exiting(p) == pc[p] \in {"x_rep", "x_repw", "x_wake", "x_zomb"}

TreeSt == [q \in Slot |->
  IF Exiting(q) \/ state[q] = "ZOMBIE" THEN "zombie"
  ELSE IF state[q] \in Alive THEN "live" ELSE "none"]

TreePar == [q \in Slot |->
  IF TreeSt[q] = "none" \/ parent[q] = NoProc THEN NoProc
  ELSE IF Exiting(parent[q]) THEN initproc ELSE parent[q]]

TreeStatus == [q \in Slot |->
  IF Exiting(q) THEN arg[q] ELSE IF state[q] = "ZOMBIE" THEN xstate[q] ELSE 0]

Abstract == INSTANCE Tree
  WITH Node <- Slot, Root <- initproc, None <- NoProc, Status <- {1, -1},
       st <- TreeSt, par <- TreePar, status <- TreeStatus

(* Fork, exit and wait look atomic to every program: kexit() gives its       *)
(* children to init one slot at a time and kfork() and kwait() lock in       *)
(* pieces, and yet every step of the table is one step of the tree or none.  *)
ImplementsTree == Abstract!TreeSpec
=============================================================================
