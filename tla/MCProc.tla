------------------------------- MODULE MCProc -------------------------------
(***************************************************************************)
(* Instances of Proc for TLC.                                              *)
(***************************************************************************)
EXTENDS ProcTree, TLC

CONSTANTS c1, c2

OneCpu  == {c1}
TwoCpus == {c1, c2}
Pauses == {-1, 1}
CpuSymmetry == Permutations({c1, c2})
-----------------------------------------------------------------------------
(* The programs of the liveness run, by pid.  Init starts a shell and waits   *)
(* for ever; the shell forks, waits and pauses; its child kills it, and then  *)
(* belongs to init.  The shell and its child may end by a fault at any time.  *)
Programs(p) ==
  \/ pid[p] = 1 /\ (sys_wait(p, 0) \/ (nextpid = 2 /\ sys_fork(p)))
  \/ /\ pid[p] = 2
     /\ \/ sys_fork(p) \/ sys_wait(p, 0)
        \/ \E n \in PauseArgs : sys_pause(p, n)
  \/ pid[p] = 3 /\ \E n \in KillTargets : sys_kill(p, n)

(* Next, with User(p) restricted to these programs. *)
LiveNext ==
  \/ \E p \in Slot : Programs(p) \/ setkilled(p) \/ Step(p) \/ yield(p)
  \/ \E p \in Slot, c \in CPUs : scheduler(c, p)
  \/ Clock

LiveSpec == Init /\ [][LiveNext]_vars /\ Fairness
=============================================================================
