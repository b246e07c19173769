-------------------------------- MODULE Tree --------------------------------
(***************************************************************************)
(* What fork, exit and wait promise to programs: a tree of processes that  *)
(* changes in single steps.  A child has a status from the moment it exits *)
(* and keeps it until its parent waits for it; the children of a process   *)
(* that exits belong to the first process from that same moment on.        *)
(*                                                                         *)
(* ProcTree shows that the locks and loops of Proc implement it.           *)
(***************************************************************************)
CONSTANTS
  Node,        \* the processes that there can be
  Root, None,  \* the first process, and no process
  Status       \* what a process can exit with

VARIABLES
  st,      \* "none", "live" or "zombie"
  par,     \* the parent, None of the first process
  status   \* the exit status, 0 until there is one

tvars == <<st, par, status>>

TreeInit ==
  /\ st = [n \in Node |-> IF n = Root THEN "live" ELSE "none"]
  /\ par = [n \in Node |-> None]
  /\ status = [n \in Node |-> 0]

Fork(p, c) ==
  /\ st[p] = "live" /\ st[c] = "none"
  /\ st' = [st EXCEPT ![c] = "live"]
  /\ par' = [par EXCEPT ![c] = p]
  /\ UNCHANGED status

(* The first process does not exit. *)
Exit(p, s) ==
  /\ st[p] = "live" /\ p # Root
  /\ st' = [st EXCEPT ![p] = "zombie"]
  /\ status' = [status EXCEPT ![p] = s]
  /\ par' = [n \in Node |-> IF par[n] = p THEN Root ELSE par[n]]

Wait(p, c) ==
  /\ st[p] = "live" /\ st[c] = "zombie" /\ par[c] = p
  /\ st' = [st EXCEPT ![c] = "none"]
  /\ par' = [par EXCEPT ![c] = None]
  /\ status' = [status EXCEPT ![c] = 0]

(* Every operation changes st. *)
TreeNext ==
  /\ st' # st
  /\ \E p \in Node :
       \/ \E c \in Node : Fork(p, c) \/ Wait(p, c)
       \/ \E s \in Status : Exit(p, s)

TreeSpec == TreeInit /\ [][TreeNext]_tvars
=============================================================================
