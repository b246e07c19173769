------------------------------ MODULE ProcInv ------------------------------
(***************************************************************************)
(* The inductive invariant of Proc: what is true between any two steps of  *)
(* any two threads, strong enough that each step preserves it by itself.   *)
(* ProcProofs proves that it is inductive.                                 *)
(***************************************************************************)
EXTENDS Proc

(* What the state of a slot says about its thread.  A pc of "dead" in an     *)
(* UNUSED slot is what the last owner left behind.                           *)
StatePc ==
  \A p \in Slot :
    /\ state[p] = "UNUSED" => pc[p] \in {"user", "dead"}
    /\ state[p] = "USED" => pc[p] = "user"
    /\ state[p] = "SLEEPING" => pc[p] \in {"w_lock", "p_lock"}
    /\ state[p] = "ZOMBIE" => pc[p] = "dead"
    /\ pc[p] = "dead" => state[p] \in {"ZOMBIE", "UNUSED"}

(* Between the two halves of kfork() the new slot is USED, and no two        *)
(* threads are creating the same one.                                        *)
Embryo ==
  /\ \A p \in Slot : pc[p] \in {"f_link", "f_run"} => state[pp[p]] = "USED"
  /\ \A p, q \in Slot :
       p # q /\ pc[p] \in {"f_link", "f_run"} /\ pc[q] \in {"f_link", "f_run"}
         => pp[p] # pp[q]

(* init is never in kexit(). *)
InitLives == state[initproc] \in Alive /\ pc[initproc] \notin ExitPc

ControlInv == LockDiscipline /\ StatePc /\ Embryo /\ InitLives

(* A loop over proc[] that has not started, or has ended, is at slot 1. *)
Counters ==
  \A p \in Slot :
    /\ pc[p] \notin {"f_scan", "f_link", "f_run", "k_scan", "w_scan", "x_rep", "x_repw"}
         => pp[p] = 1
    /\ pc[p] \notin {"x_repw", "x_wake"} => wp[p] = 1

-----------------------------------------------------------------------------
(* Parents, and how far reparent() has got. *)
ParentLink ==
  \A q \in Slot : parent[q] # NoProc =>
    state[parent[q]] \in Alive /\ state[q] # "UNUSED"

HasParent ==
  /\ \A q \in Slot : q # initproc /\ state[q] \in Alive \cup {"ZOMBIE"}
       => parent[q] # NoProc
  /\ \A p \in Slot : pc[p] = "f_run" => parent[pp[p]] # NoProc

OrphanScan ==
  \A p, q \in Slot : parent[q] = p =>
    /\ pc[p] = "x_rep" => pp[p] <= q
    /\ pc[p] = "x_repw" => pp[p] < q
    /\ pc[p] \notin {"x_wake", "x_zomb"}

ParentInv == ParentLink /\ HasParent /\ OrphanScan

-----------------------------------------------------------------------------
(* Wakeups. *)

(* A thread on its way to sleep in kwait() is registered on its own channel, *)
(* or a wakeup came.                                                         *)
WaitChannel ==
  \A p \in Slot :
    /\ pc[p] = "w_sleep" => chan[p] \in {NoProc, p}
    /\ state[p] = "SLEEPING" /\ pc[p] = "w_lock" => chan[p] = p

(* p sleeps in kwait(), or will unless somebody wakes it up first. *)
Blocked(p) ==
  \/ pc[p] = "w_sleep" /\ chan[p] = p
  \/ pc[p] = "w_lock" /\ state[p] = "SLEEPING"

(* What the scan of kwait() has seen is still so. *)
WaitScan ==
  \A p \in Slot :
    /\ pc[p] = "w_scan" =>
         /\ \A q \in Slot : parent[q] = p /\ q < pp[p] => havekids[p] /\ state[q] # "ZOMBIE"
         /\ havekids[p] => \E q \in Slot : parent[q] = p
    /\ pc[p] \in {"w_chk", "w_prep"} =>
         /\ \A q \in Slot : parent[q] = p => havekids[p] /\ state[q] # "ZOMBIE"
         /\ havekids[p] => \E q \in Slot : parent[q] = p

(* How far the wakeup() of kexit() has got. *)
ExitWakes ==
  \A p \in Slot : parent[p] \in Slot /\ Blocked(parent[p]) =>
    /\ pc[p] = "x_wake" => wp[p] <= parent[p]
    /\ pc[p] # "x_zomb"

(* A process that is blocked in kwait() has no zombie child, unless it is    *)
(* init and reparent() is about to wake it.                                  *)
BlockedHasNoZombie ==
  \A p, q \in Slot : Blocked(p) /\ ZombieChild(p, q) =>
    p = initproc /\ \E r \in Slot : pc[r] = "x_repw" /\ wp[r] <= initproc

WakeupInv == WaitChannel /\ WaitScan /\ ExitWakes /\ BlockedHasNoZombie

-----------------------------------------------------------------------------
(* Families: who is whose child while kfork(), kexit() and kwait() run. *)

(* A slot that is USED and has a parent is the one that its parent is        *)
(* creating.                                                                 *)
EmbryoParent ==
  /\ \A p \in Slot : pc[p] = "f_run" => parent[pp[p]] = p
  /\ \A q \in Slot : state[q] = "USED" /\ parent[q] # NoProc =>
       pc[parent[q]] = "f_run" /\ pp[parent[q]] = q

ExitStatus == \A p \in Slot : pc[p] \in ExitPc => arg[p] \in {1, -1}

WaitsForChild ==
  \A p \in Slot :
    /\ pc[p] = "w_prep" => havekids[p]
    /\ Blocked(p) => \E q \in Slot : parent[q] = p

FamilyInv == EmbryoParent /\ ExitStatus /\ WaitsForChild

-----------------------------------------------------------------------------
(* Ticks. *)

(* p sleeps in pause(), or will unless the clock wakes it up first. *)
Pausing(p) ==
  \/ pc[p] = "p_sleep" /\ chan[p] = TICKS
  \/ pc[p] = "p_lock" /\ state[p] = "SLEEPING"

(* Whoever pauses has ticks left, or the clock interrupt has not reached its *)
(* slot yet.                                                                 *)
TickInv ==
  \A p \in Slot :
    /\ pc[p] = "p_prep" => left[p] > 0
    /\ pc[p] = "p_sleep" => chan[p] \in {0, TICKS}
    /\ pc[p] = "p_lock" /\ state[p] = "SLEEPING" => chan[p] = TICKS
    /\ Pausing(p) => left[p] > 0 \/ (tick # 0 /\ tick <= p)

-----------------------------------------------------------------------------
(* Slots and pids.  A kkill() in progress never looks for pid 0. *)
PidInv ==
  /\ FreshSlot
  /\ \A p \in Slot : pc[p] = "k_scan" => arg[p] # 0
  /\ \A q \in Slot : state[q] # "UNUSED" => pid[q] # 0
  /\ \A q \in Slot : pid[q] < nextpid
  /\ PidUnique

(* Nobody killed init, and a kkill() in progress looks for a pid it was given. *)
PanicInv ==
  /\ ~panicked
  /\ ~killed[initproc]
  /\ pid[initproc] = 1
  /\ \A p \in Slot : pc[p] = "k_scan" => arg[p] \in KillTargets

(* Only the targets of kill() are killed, and only they are looked for. *)
KillInv ==
  /\ OnlyTargetsKilled
  /\ \A p \in Slot : pc[p] = "k_scan" => arg[p] \in KillTargets

IndInv == TypeOK /\ ControlInv /\ Counters /\ ParentInv /\ WakeupInv
          /\ FamilyInv /\ TickInv /\ OneCpuEach /\ PidInv /\ PanicInv /\ KillInv
=============================================================================
