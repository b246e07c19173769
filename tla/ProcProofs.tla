----------------------------- MODULE ProcProofs -----------------------------
(***************************************************************************)
(* The theorems about Proc, for every number of slots and of CPUs and every *)
(* workload.  TypeOK is inductive by itself.  The safety properties come   *)
(* from SafeInv, the conjunction of the parts of IndInv (module ProcInv)   *)
(* that hold whatever user programs do; PidInv and PanicInv, each under its *)
(* own assumption, are inductive relative to it.  Every induction step is  *)
(* one lemma with one step per action; a "quiet" lemma covers the actions  *)
(* that do not touch what an invariant is about.                           *)
(* The part after that is about CPUs, ticks and kills, the last one about  *)
(* families: whoever sleeps in kwait() has a child that will wake it, and  *)
(* the process table implements the tree of processes (Tree) under the     *)
(* mapping of ProcTree.                                                    *)
(***************************************************************************)
EXTENDS ProcTree, TLAPS

(* The slots of proc[]: init's is one of them, the null pointer is none, and *)
(* a loop that is not at the last slot can go on to the next.                *)
LEMMA SlotFacts ==
  /\ 1 \in Slot /\ initproc \in Slot /\ NoProc = 0 /\ NoProc \notin Slot
  /\ \A q \in Slot : q \in Nat /\ (q < NPROC => q + 1 \in Slot)
BY ProcAssumption DEF Slot, initproc, NoProc

(* proc[] is numbered from 1 to NPROC, init being the first. *)
LEMMA SlotOrder ==
  /\ NPROC \in Nat /\ initproc = 1
  /\ \A q \in Slot : q \in Nat /\ 1 <= q /\ q <= NPROC
BY ProcAssumption DEF Slot, initproc

(* The arguments that user programs pass to kill() and pause() are integers. *)
LEMMA InputFacts ==
  (\A n \in KillTargets : n \in Int) /\ (\A n \in PauseArgs : n \in Int)
BY ProcAssumption

(* The names that the actions assign to p->state and to pc are states and    *)
(* program points.                                                           *)
LEMMA Names ==
  /\ {"UNUSED", "USED", "SLEEPING", "RUNNABLE", "RUNNING", "ZOMBIE"} \subseteq ProcState
  /\ {"user", "dead", "k_scan", "f_scan", "f_link", "f_run", "x_lock", "x_rep",
      "x_repw", "x_wake", "x_zomb", "w_lock", "w_scan", "w_chk", "w_prep",
      "w_sleep", "p_start", "p_lock", "p_chk", "p_prep", "p_sleep"} \subseteq Pc
BY DEF ProcState, Pc, ForkPc, ExitPc, WaitPc, PausePc

(* One iteration of wakeup() keeps the types of p->state and p->chan. *)
LEMMA WakeupType ==
  ASSUME TypeOK, NEW q \in Slot, NEW ch, wakeup(q, ch)
  PROVE  state' \in [Slot -> ProcState] /\ chan' \in [Slot -> Slot \cup {NoProc, TICKS}]
BY SlotFacts, Names DEF TypeOK, wakeup

(* sched() keeps the types of p->state, c->proc and panicked. *)
LEMMA SchedType ==
  ASSUME TypeOK, NEW p \in Slot, NEW s \in ProcState, sched(p, s)
  PROVE  /\ state' \in [Slot -> ProcState]
         /\ cpu' \in [CPUs -> Slot \cup {NoProc}]
         /\ panicked' \in BOOLEAN
BY DEF TypeOK, sched

(* freeproc() keeps the types of the fields it clears. *)
LEMMA FreeprocType ==
  ASSUME TypeOK, NEW q \in Slot, freeproc(q)
  PROVE  /\ state' \in [Slot -> ProcState]
         /\ chan' \in [Slot -> Slot \cup {NoProc, TICKS}]
         /\ killed' \in [Slot -> BOOLEAN]
         /\ xstate' \in [Slot -> Int]
         /\ pid' \in [Slot -> Nat]
BY SlotFacts, Names DEF TypeOK, freeproc

(* The types of the program point and the locals of every kernel thread. *)
LocalsType ==
  /\ pc \in [Slot -> Pc]
  /\ pp \in [Slot -> Slot]
  /\ wp \in [Slot -> Slot]
  /\ arg \in [Slot -> Int]
  /\ havekids \in [Slot -> BOOLEAN]

(* Leaving the kernel keeps the types of the locals. *)
LEMMA ReturnType ==
  ASSUME TypeOK, NEW p \in Slot, Return(p) PROVE LocalsType'
BY SlotFacts, Names DEF TypeOK, Return, Goto, LocalsType

(* Entering a system call keeps the types of the locals. *)
LEMMA CallType ==
  ASSUME TypeOK, NEW p \in Slot, NEW l \in Pc, NEW n \in Int, Call(p, l, n)
  PROVE  LocalsType'
BY DEF TypeOK, Call, Goto, LocalsType

(* A step inside a system call keeps the types of the locals. *)
LEMMA GotoType ==
  ASSUME TypeOK, NEW p \in Slot, NEW l \in Pc, Goto(p, l), UNCHANGED locals
  PROVE  LocalsType'
BY DEF TypeOK, Goto, LocalsType, locals

(* The end of a loop iteration stays inside proc[]: pp is never past the     *)
(* last slot.                                                                *)
LEMMA NextSlotType ==
  ASSUME TypeOK, NEW p \in Slot, NEW l \in Pc, NextSlot(p, l)
  PROVE  pc' \in [Slot -> Pc] /\ pp' \in [Slot -> Slot]
  <1>1. CASE pp[p] < NPROC
    BY <1>1, SlotFacts DEF TypeOK, NextSlot
  <1>2. CASE ~(pp[p] < NPROC)
    BY <1>2, SlotFacts DEF TypeOK, NextSlot, Goto
  <1> QED BY <1>1, <1>2

-----------------------------------------------------------------------------
(* Type correctness. *)

(* Every step of every action keeps the types. *)
LEMMA TypeStep == TypeOK /\ [Next]_vars => TypeOK'
PROOF
  <1> SUFFICES ASSUME TypeOK, [Next]_vars PROVE TypeOK'
    OBVIOUS
  <1>1. ASSUME NEW p \in Slot, sys_fork(p) PROVE TypeOK'
    BY <1>1, CallType, Names, 0 \in Int DEF sys_fork, locks, TypeOK, LocalsType
  <1>2. ASSUME NEW p \in Slot, allocproc_skip(p) PROVE TypeOK'
    BY <1>2, NextSlotType, Names DEF allocproc_skip, locks, TypeOK
  <1>3. ASSUME NEW p \in Slot, allocproc(p) PROVE TypeOK'
    BY <1>3, Names DEF allocproc, locals, locks, TypeOK
  <1>4. ASSUME NEW p \in Slot, allocproc_fail(p) PROVE TypeOK'
    BY <1>4, FreeprocType, ReturnType
      DEF allocproc_fail, locks, TypeOK, LocalsType
  <1>5. ASSUME NEW p \in Slot, kfork_parent(p) PROVE TypeOK'
    BY <1>5, GotoType, Names DEF kfork_parent, locks, TypeOK, LocalsType
  <1>6. ASSUME NEW p \in Slot, kfork_runnable(p) PROVE TypeOK'
    BY <1>6, ReturnType, Names DEF kfork_runnable, locks, TypeOK, LocalsType
  <1>7. ASSUME NEW p \in Slot, sys_exit(p) PROVE TypeOK'
    <2>1. LocalsType' /\ panicked' \in BOOLEAN
      <3>1. CASE p = initproc
        BY <1>7, <3>1 DEF sys_exit, kexit, locals, TypeOK, LocalsType
      <3>2. CASE p # initproc
        BY <1>7, <3>2, CallType, Names, 1 \in Int DEF sys_exit, kexit, TypeOK
      <3> QED BY <3>1, <3>2
    <2> QED BY <1>7, <2>1 DEF sys_exit, locks, TypeOK, LocalsType
  <1>8. ASSUME NEW p \in Slot, usertrap_killed(p) PROVE TypeOK'
    <2>1. LocalsType' /\ panicked' \in BOOLEAN
      <3>1. CASE p = initproc
        BY <1>8, <3>1 DEF usertrap_killed, kexit, locals, TypeOK, LocalsType
      <3>2. CASE p # initproc
        BY <1>8, <3>2, CallType, Names, -1 \in Int
          DEF usertrap_killed, kexit, TypeOK
      <3> QED BY <3>1, <3>2
    <2> QED BY <1>8, <2>1 DEF usertrap_killed, locks, TypeOK, LocalsType
  <1>9. ASSUME NEW p \in Slot, kexit_acquire(p) PROVE TypeOK'
    BY <1>9, GotoType, Names DEF kexit_acquire, TypeOK, LocalsType
  <1>10. ASSUME NEW p \in Slot, reparent(p) PROVE TypeOK'
    <2>1. LocalsType' /\ parent' \in [Slot -> Slot \cup {NoProc}]
      <3>1. CASE parent[pp[p]] = p
        BY <1>10, <3>1, SlotFacts, Names DEF reparent, Goto, TypeOK, LocalsType
      <3>2. CASE parent[pp[p]] # p
        BY <1>10, <3>2, NextSlotType, Names DEF reparent, TypeOK, LocalsType
      <3> QED BY <3>1, <3>2
    <2> QED BY <1>10, <2>1 DEF reparent, locks, TypeOK, LocalsType
  <1>11. ASSUME NEW p \in Slot, reparent_wakeup(p) PROVE TypeOK'
    <2>1. wp[p] \in Slot
      BY DEF TypeOK
    <2>2. state' \in [Slot -> ProcState] /\ chan' \in [Slot -> Slot \cup {NoProc, TICKS}]
      BY <1>11, <2>1, WakeupType DEF reparent_wakeup
    <2>3. LocalsType'
      BY <1>11, SlotFacts, Names
        DEF reparent_wakeup, Goto, locals, TypeOK, LocalsType
    <2> QED BY <1>11, <2>2, <2>3 DEF reparent_wakeup, locks, TypeOK, LocalsType
  <1>12. ASSUME NEW p \in Slot, kexit_wakeup(p) PROVE TypeOK'
    <2>1. wp[p] \in Slot
      BY DEF TypeOK
    <2>2. state' \in [Slot -> ProcState] /\ chan' \in [Slot -> Slot \cup {NoProc, TICKS}]
      BY <1>12, <2>1, WakeupType DEF kexit_wakeup
    <2>3. LocalsType'
      BY <1>12, SlotFacts, Names
        DEF kexit_wakeup, Goto, locals, TypeOK, LocalsType
    <2> QED BY <1>12, <2>2, <2>3 DEF kexit_wakeup, locks, TypeOK, LocalsType
  <1>13. ASSUME NEW p \in Slot, kexit_zombie(p) PROVE TypeOK'
    <2>1. /\ state' \in [Slot -> ProcState] /\ panicked' \in BOOLEAN
          /\ cpu' \in [CPUs -> Slot \cup {NoProc}]
      BY <1>13, SchedType, Names DEF kexit_zombie
    <2>2. LocalsType'
      BY <1>13, SlotFacts, Names DEF kexit_zombie, Goto, TypeOK, LocalsType
    <2> QED BY <1>13, <2>1, <2>2 DEF kexit_zombie, TypeOK, LocalsType
  <1>14. ASSUME NEW p \in Slot, NEW a \in {0, 1}, sys_wait(p, a) PROVE TypeOK'
    BY <1>14, CallType, Names DEF sys_wait, locks, TypeOK, LocalsType
  <1>15. ASSUME NEW p \in Slot, kwait_acquire(p) PROVE TypeOK'
    BY <1>15, Names DEF kwait_acquire, Goto, TypeOK
  <1>16. ASSUME NEW p \in Slot, kwait_scan(p) PROVE TypeOK'
    BY <1>16, NextSlotType, Names DEF kwait_scan, locks, TypeOK
  <1>17. ASSUME NEW p \in Slot, kwait_reap(p) PROVE TypeOK'
    BY <1>17, FreeprocType, ReturnType DEF kwait_reap, TypeOK, LocalsType
  <1>18. ASSUME NEW p \in Slot, kwait_copyout_fail(p) PROVE TypeOK'
    BY <1>18, ReturnType DEF kwait_copyout_fail, TypeOK, LocalsType
  <1>19. ASSUME NEW p \in Slot, kwait_check(p) PROVE TypeOK'
    <2>1. LocalsType' /\ wait_lock' \in Slot \cup {NoProc}
      BY <1>19, ReturnType, GotoType, Names DEF kwait_check, locals, TypeOK
    <2> QED BY <1>19, <2>1 DEF kwait_check, TypeOK, LocalsType
  <1>20. ASSUME NEW p \in Slot, kwait_prepare(p) PROVE TypeOK'
    BY <1>20, GotoType, Names
      DEF kwait_prepare, sleep_prepare, TypeOK, LocalsType
  <1>21. ASSUME NEW p \in Slot, kwait_sleep(p) PROVE TypeOK'
    <2>1. /\ state' \in [Slot -> ProcState] /\ panicked' \in BOOLEAN
          /\ cpu' \in [CPUs -> Slot \cup {NoProc}]
      BY <1>21, SchedType, Names DEF kwait_sleep, sleep, TypeOK
    <2> QED BY <1>21, <2>1, GotoType, Names
      DEF kwait_sleep, locks, TypeOK, LocalsType
  <1>22. ASSUME NEW p \in Slot, NEW n \in KillTargets, sys_kill(p, n) PROVE TypeOK'
    <2>1. LocalsType'
      BY <1>22, CallType, InputFacts, Names
        DEF sys_kill, locals, TypeOK, LocalsType
    <2> QED BY <1>22, <2>1 DEF sys_kill, locks, TypeOK, LocalsType
  <1>23. ASSUME NEW p \in Slot, kkill(p) PROVE TypeOK'
    <2>1. CASE pid[pp[p]] = arg[p]
      BY <1>23, <2>1, ReturnType, Names DEF kkill, locks, TypeOK, LocalsType
    <2>2. CASE pid[pp[p]] # arg[p]
      <3>1. LocalsType'
        BY <1>23, <2>2, ReturnType, SlotFacts DEF kkill, TypeOK, LocalsType
      <3> QED BY <1>23, <2>2, <3>1 DEF kkill, locks, TypeOK, LocalsType
    <2> QED BY <2>1, <2>2
  <1>24. ASSUME NEW p \in Slot, setkilled(p) PROVE TypeOK'
    BY <1>24 DEF setkilled, locals, locks, TypeOK
  <1>25. ASSUME NEW p \in Slot, NEW n \in PauseArgs, sys_pause(p, n) PROVE TypeOK'
    BY <1>25, CallType, InputFacts, Names
      DEF sys_pause, locks, TypeOK, LocalsType
  <1>26. ASSUME NEW p \in Slot, pause_start(p) PROVE TypeOK'
    BY <1>26, GotoType, Names DEF pause_start, TypeOK, LocalsType
  <1>27. ASSUME NEW p \in Slot, pause_check(p) PROVE TypeOK'
    <2>1. /\ LocalsType' /\ left' \in [Slot -> Nat]
          /\ tickslock' \in Slot \cup {NoProc, CLOCK}
      BY <1>27, ReturnType, GotoType, Names DEF pause_check, locals, TypeOK
    <2> QED BY <1>27, <2>1 DEF pause_check, TypeOK, LocalsType
  <1>28. ASSUME NEW p \in Slot, pause_prepare(p) PROVE TypeOK'
    BY <1>28, GotoType, Names
      DEF pause_prepare, sleep_prepare, TypeOK, LocalsType
  <1>29. ASSUME NEW p \in Slot, pause_sleep(p) PROVE TypeOK'
    <2>1. /\ state' \in [Slot -> ProcState] /\ panicked' \in BOOLEAN
          /\ cpu' \in [CPUs -> Slot \cup {NoProc}]
      BY <1>29, SchedType, Names DEF pause_sleep, sleep, TypeOK
    <2> QED BY <1>29, <2>1, GotoType, Names
      DEF pause_sleep, locks, TypeOK, LocalsType
  <1>30. ASSUME NEW p \in Slot, pause_acquire(p) PROVE TypeOK'
    BY <1>30, GotoType, Names DEF pause_acquire, TypeOK, LocalsType
  <1>31. ASSUME NEW p \in Slot, yield(p) PROVE TypeOK'
    BY <1>31, SchedType, Names DEF yield, locals, locks, TypeOK
  <1>32. ASSUME NEW p \in Slot, NEW c \in CPUs, scheduler(c, p) PROVE TypeOK'
    BY <1>32, Names DEF scheduler, locals, locks, TypeOK
  <1>33. ASSUME clockintr PROVE TypeOK'
    BY <1>33, SlotFacts DEF clockintr, locals, TypeOK
  <1>34. ASSUME clockintr_wakeup PROVE TypeOK'
    <2>1. tick \in Slot
      BY <1>34 DEF clockintr_wakeup, TypeOK
    <2> QED BY <1>34, <2>1, WakeupType, SlotFacts
      DEF clockintr_wakeup, locals, TypeOK
  <1>35. CASE UNCHANGED vars
    BY <1>35 DEF vars, TypeOK
  <1> QED
    BY <1>1, <1>2, <1>3, <1>4, <1>5, <1>6, <1>7, <1>8, <1>9, <1>10, <1>11,
       <1>12, <1>13, <1>14, <1>15, <1>16, <1>17, <1>18, <1>19, <1>20, <1>21,
       <1>22, <1>23, <1>24, <1>25, <1>26, <1>27, <1>28, <1>29, <1>30, <1>31,
       <1>32, <1>33, <1>34, <1>35
    DEF Next, User, Step, Acquire, Advance, Clock

(* The state that procinit() and userinit() leave is typed. *)
LEMMA TypeInit == Init => TypeOK
  <1>1. ASSUME Init
        PROVE  /\ state \in [Slot -> ProcState] /\ pid \in [Slot -> Nat]
               /\ xstate \in [Slot -> Int] /\ nextpid \in Nat
    BY <1>1, Names DEF Init
  <1>2. ASSUME Init PROVE chan \in [Slot -> Slot \cup {NoProc, TICKS}]
    BY <1>2 DEF Init, NoProc
  <1>3. ASSUME Init
        PROVE  /\ parent \in [Slot -> Slot \cup {NoProc}]
               /\ cpu \in [CPUs -> Slot \cup {NoProc}]
               /\ wait_lock \in Slot \cup {NoProc}
               /\ tickslock \in Slot \cup {NoProc, CLOCK}
    BY <1>3 DEF Init
  <1>4. ASSUME Init
        PROVE  /\ killed \in [Slot -> BOOLEAN] /\ havekids \in [Slot -> BOOLEAN]
               /\ panicked \in BOOLEAN
    BY <1>4 DEF Init
  <1>5. ASSUME Init
        PROVE  /\ pc \in [Slot -> Pc] /\ pp \in [Slot -> Slot] /\ wp \in [Slot -> Slot]
               /\ arg \in [Slot -> Int] /\ left \in [Slot -> Nat]
               /\ tick \in Slot \cup {0}
    BY <1>5, SlotFacts, Names DEF Init
  <1> QED BY <1>1, <1>2, <1>3, <1>4, <1>5 DEF TypeOK

(* Type correctness, for every number of slots and CPUs: in particular every *)
(* loop over proc[] stays in the table and every parent pointer and channel  *)
(* is a slot of it.                                                          *)
THEOREM TypeCorrect == Spec => []TypeOK
BY TypeInit, TypeStep, PTL DEF Spec

-----------------------------------------------------------------------------
(* Locks and control. *)

(* The null pointer, &ticks and the clock are none of the processes. *)
LEMMA SlotDistinct ==
  /\ initproc \in Slot /\ NoProc \notin Slot /\ CLOCK \notin Slot
  /\ CLOCK # NoProc
BY ProcAssumption DEF Slot, initproc, NoProc, CLOCK

(* Embryo is kept by a step after which the forking threads were already     *)
(* forking, at the same slot, and the slots they fill are still USED.        *)
LEMMA EmbryoKept ==
  ASSUME TypeOK, Embryo,
         \A x \in Slot : pc'[x] \in {"f_link", "f_run"} =>
           pc[x] \in {"f_link", "f_run"} /\ pp'[x] = pp[x],
         \A x \in Slot : state[x] = "USED" => state'[x] = "USED"
  PROVE  Embryo'
BY DEF TypeOK, Embryo

(* Every step keeps the lock discipline and what p->state says of the        *)
(* thread: no critical section is entered twice, left without release() or   *)
(* carried into sched().                                                     *)
LEMMA ControlStep ==
  ASSUME TypeOK, TypeOK', ControlInv, [Next]_vars
  PROVE  ControlInv'
  <1>1. ASSUME NEW p \in Slot, sys_fork(p) PROVE ControlInv'
    BY <1>1, SlotDistinct
    DEF sys_fork, Call, Goto, locals, locks, TypeOK, At, ControlInv,
        LockDiscipline, StatePc, Embryo, InitLives, HoldsWait, HoldsTicks,
        Alive, ExitPc
  <1>2. ASSUME NEW p \in Slot, allocproc_skip(p) PROVE ControlInv'
    <2>1. LockDiscipline'
      BY <1>2, SlotDistinct
        DEF allocproc_skip, NextSlot, Goto, locals, locks, TypeOK, At,
            ControlInv, LockDiscipline, StatePc, Embryo, HoldsWait, HoldsTicks
    <2>2. StatePc'
      BY <1>2, SlotDistinct
        DEF allocproc_skip, NextSlot, Goto, locals, locks, TypeOK, At,
            ControlInv, StatePc, Embryo, LockDiscipline
    <2>3. Embryo'
      <3>1. \A x \in Slot : pc'[x] \in {"f_link", "f_run"} =>
              pc[x] \in {"f_link", "f_run"} /\ pp'[x] = pp[x]
        BY <1>2 DEF allocproc_skip, NextSlot, Goto, locals, At, TypeOK
      <3>2. \A x \in Slot : state[x] = "USED" => state'[x] = "USED"
        BY <1>2 DEF allocproc_skip, TypeOK
      <3> QED BY <3>1, <3>2, EmbryoKept DEF ControlInv
    <2>4. InitLives'
      BY <1>2, SlotDistinct
        DEF allocproc_skip, NextSlot, Goto, locals, locks, TypeOK, At,
            ControlInv, InitLives, StatePc, Alive, ExitPc
    <2> QED BY <2>1, <2>2, <2>3, <2>4 DEF ControlInv
  <1>3. ASSUME NEW p \in Slot, allocproc(p) PROVE ControlInv'
    <2>1. LockDiscipline'
      BY <1>3, SlotDistinct
        DEF allocproc, locals, locks, TypeOK, At, ControlInv, LockDiscipline,
            StatePc, Embryo, HoldsWait, HoldsTicks
    <2>2. StatePc'
      BY <1>3, SlotDistinct
        DEF allocproc, locals, locks, TypeOK, At, ControlInv, StatePc, Embryo,
            LockDiscipline
    <2>3. Embryo'
      BY <1>3, SlotDistinct
        DEF allocproc, locals, locks, TypeOK, At, ControlInv, Embryo, StatePc
    <2>4. InitLives'
      BY <1>3, SlotDistinct
        DEF allocproc, locals, locks, TypeOK, At, ControlInv, InitLives,
            StatePc, Alive, ExitPc
    <2> QED BY <2>1, <2>2, <2>3, <2>4 DEF ControlInv
  <1>4. ASSUME NEW p \in Slot, allocproc_fail(p) PROVE ControlInv'
    BY <1>4, SlotDistinct
    DEF allocproc_fail, freeproc, Return, Goto, locals, locks, TypeOK, At,
        ControlInv, LockDiscipline, StatePc, Embryo, InitLives, HoldsWait,
        HoldsTicks, Alive, ExitPc
  <1>5. ASSUME NEW p \in Slot, kfork_parent(p) PROVE ControlInv'
    BY <1>5, SlotDistinct
    DEF kfork_parent, Goto, locals, locks, TypeOK, At, ControlInv,
        LockDiscipline, StatePc, Embryo, InitLives, HoldsWait, HoldsTicks,
        Alive, ExitPc
  <1>6. ASSUME NEW p \in Slot, kfork_runnable(p) PROVE ControlInv'
    BY <1>6, SlotDistinct
    DEF kfork_runnable, Return, Goto, locals, locks, TypeOK, At, ControlInv,
        LockDiscipline, StatePc, Embryo, InitLives, HoldsWait, HoldsTicks,
        Alive, ExitPc
  <1>7. ASSUME NEW p \in Slot, sys_exit(p) PROVE ControlInv'
    BY <1>7, SlotDistinct
    DEF sys_exit, kexit, Call, Goto, locals, locks, TypeOK, At, ControlInv,
        LockDiscipline, StatePc, Embryo, InitLives, HoldsWait, HoldsTicks,
        Alive, ExitPc
  <1>8. ASSUME NEW p \in Slot, usertrap_killed(p) PROVE ControlInv'
    <2>1. LockDiscipline'
      BY <1>8, SlotDistinct
        DEF usertrap_killed, kexit, Call, Goto, locals, locks, TypeOK, At,
            ControlInv, LockDiscipline, StatePc, Embryo, HoldsWait, HoldsTicks
    <2>2. StatePc'
      BY <1>8, SlotDistinct
        DEF usertrap_killed, kexit, Call, Goto, locals, locks, TypeOK, At,
            ControlInv, StatePc, Embryo, LockDiscipline
    <2>3. Embryo'
      <3>1. \A x \in Slot : pc'[x] \in {"f_link", "f_run"} =>
              pc[x] \in {"f_link", "f_run"}
        BY <1>8 DEF usertrap_killed, kexit, Call, Goto, locals, TypeOK
      <3>2. UNCHANGED <<pp, state>>
        BY <1>8 DEF usertrap_killed, kexit, Call, locals
      <3> QED BY <3>1, <3>2, EmbryoKept DEF ControlInv
    <2>4. InitLives'
      BY <1>8, SlotDistinct
        DEF usertrap_killed, kexit, Call, Goto, locals, locks, TypeOK, At,
            ControlInv, InitLives, StatePc, Alive, ExitPc
    <2> QED BY <2>1, <2>2, <2>3, <2>4 DEF ControlInv
  <1>9. ASSUME NEW p \in Slot, kexit_acquire(p) PROVE ControlInv'
    BY <1>9, SlotDistinct
    DEF kexit_acquire, Goto, locals, locks, TypeOK, At, ControlInv,
        LockDiscipline, StatePc, Embryo, InitLives, HoldsWait, HoldsTicks,
        Alive, ExitPc
  <1>10. ASSUME NEW p \in Slot, reparent(p) PROVE ControlInv'
    <2>1. LockDiscipline'
      BY <1>10, SlotDistinct
        DEF reparent, NextSlot, Goto, locals, locks, TypeOK, At, ControlInv,
            LockDiscipline, StatePc, Embryo, HoldsWait, HoldsTicks
    <2>2. StatePc'
      BY <1>10, SlotDistinct
        DEF reparent, NextSlot, Goto, locals, locks, TypeOK, At, ControlInv,
            StatePc, Embryo, LockDiscipline
    <2>3. Embryo'
      <3>1. \A x \in Slot : pc'[x] \in {"f_link", "f_run"} =>
              pc[x] \in {"f_link", "f_run"} /\ pp'[x] = pp[x]
        <4>1. CASE parent[pp[p]] = p
          BY <1>10, <4>1 DEF reparent, NextSlot, Goto, locals, At, TypeOK
        <4>2. CASE ~(parent[pp[p]] = p)
          BY <1>10, <4>2 DEF reparent, NextSlot, Goto, locals, At, TypeOK
        <4> QED BY <4>1, <4>2
      <3>2. \A x \in Slot : state[x] = "USED" => state'[x] = "USED"
        BY <1>10 DEF reparent, TypeOK
      <3> QED BY <3>1, <3>2, EmbryoKept DEF ControlInv
    <2>4. InitLives'
      BY <1>10, SlotDistinct
        DEF reparent, NextSlot, Goto, locals, locks, TypeOK, At, ControlInv,
            InitLives, StatePc, Alive, ExitPc
    <2> QED BY <2>1, <2>2, <2>3, <2>4 DEF ControlInv
  <1>11. ASSUME NEW p \in Slot, reparent_wakeup(p) PROVE ControlInv'
    <2>1. LockDiscipline'
      BY <1>11, SlotDistinct
        DEF reparent_wakeup, wakeup, Goto, locals, locks, TypeOK, At,
            ControlInv, LockDiscipline, StatePc, Embryo, HoldsWait, HoldsTicks
    <2>2. StatePc'
      BY <1>11, SlotDistinct
        DEF reparent_wakeup, wakeup, Goto, locals, locks, TypeOK, At,
            ControlInv, StatePc, Embryo, LockDiscipline
    <2>3. Embryo'
      <3>1. \A x \in Slot : pc'[x] \in {"f_link", "f_run"} =>
              pc[x] \in {"f_link", "f_run"} /\ pp'[x] = pp[x]
        <4>1. CASE wp[p] < NPROC
          BY <1>11, <4>1 DEF reparent_wakeup, Goto, locals, At, TypeOK
        <4>2. CASE ~(wp[p] < NPROC)
          BY <1>11, <4>2 DEF reparent_wakeup, Goto, locals, At, TypeOK
        <4> QED BY <4>1, <4>2
      <3>2. \A x \in Slot : state[x] = "USED" => state'[x] = "USED"
        BY <1>11 DEF reparent_wakeup, wakeup, TypeOK
      <3> QED BY <3>1, <3>2, EmbryoKept DEF ControlInv
    <2>4. InitLives'
      BY <1>11, SlotDistinct
        DEF reparent_wakeup, wakeup, Goto, locals, locks, TypeOK, At,
            ControlInv, InitLives, StatePc, Alive, ExitPc
    <2> QED BY <2>1, <2>2, <2>3, <2>4 DEF ControlInv
  <1>12. ASSUME NEW p \in Slot, kexit_wakeup(p) PROVE ControlInv'
    <2>1. LockDiscipline'
      BY <1>12, SlotDistinct
        DEF kexit_wakeup, wakeup, Goto, locks, TypeOK, At, ControlInv,
            LockDiscipline, HoldsWait, HoldsTicks
    <2>2. StatePc'
      BY <1>12
        DEF kexit_wakeup, wakeup, Goto, locks, TypeOK, At, ControlInv, StatePc
    <2>3. Embryo'
      <3>1. \A x \in Slot : pc'[x] \in {"f_link", "f_run"} =>
              pc[x] \in {"f_link", "f_run"} /\ pp'[x] = pp[x]
        BY <1>12 DEF kexit_wakeup, Goto, TypeOK
      <3>2. \A x \in Slot : state[x] = "USED" => state'[x] = "USED"
        BY <1>12 DEF kexit_wakeup, wakeup, TypeOK
      <3> QED BY <3>1, <3>2, EmbryoKept DEF ControlInv
    <2>4. InitLives'
      BY <1>12, SlotDistinct
        DEF kexit_wakeup, wakeup, Goto, locks, TypeOK, At, ControlInv,
            InitLives, Alive, ExitPc
    <2> QED BY <2>1, <2>2, <2>3, <2>4 DEF ControlInv
  <1>13. ASSUME NEW p \in Slot, kexit_zombie(p) PROVE ControlInv'
    BY <1>13, SlotDistinct
    DEF kexit_zombie, sched, Goto, locals, locks, TypeOK, At, ControlInv,
        LockDiscipline, StatePc, Embryo, InitLives, HoldsWait, HoldsTicks,
        Alive, ExitPc
  <1>14. ASSUME NEW p \in Slot, NEW a \in {0, 1}, sys_wait(p, a) PROVE ControlInv'
    BY <1>14, SlotDistinct
    DEF sys_wait, Call, Goto, locals, locks, TypeOK, At, ControlInv,
        LockDiscipline, StatePc, Embryo, InitLives, HoldsWait, HoldsTicks,
        Alive, ExitPc
  <1>15. ASSUME NEW p \in Slot, kwait_acquire(p) PROVE ControlInv'
    BY <1>15, SlotDistinct
    DEF kwait_acquire, Goto, locals, locks, TypeOK, At, ControlInv,
        LockDiscipline, StatePc, Embryo, InitLives, HoldsWait, HoldsTicks,
        Alive, ExitPc
  <1>16. ASSUME NEW p \in Slot, kwait_scan(p) PROVE ControlInv'
    <2>1. LockDiscipline'
      BY <1>16, SlotDistinct
        DEF kwait_scan, NextSlot, Goto, locals, locks, TypeOK, At, ControlInv,
            LockDiscipline, StatePc, Embryo, HoldsWait, HoldsTicks
    <2>2. StatePc'
      BY <1>16, SlotDistinct
        DEF kwait_scan, NextSlot, Goto, locals, locks, TypeOK, At, ControlInv,
            StatePc, Embryo, LockDiscipline
    <2>3. Embryo'
      <3>1. \A x \in Slot : pc'[x] \in {"f_link", "f_run"} =>
              pc[x] \in {"f_link", "f_run"} /\ pp'[x] = pp[x]
        BY <1>16 DEF kwait_scan, NextSlot, Goto, locals, At, TypeOK
      <3>2. \A x \in Slot : state[x] = "USED" => state'[x] = "USED"
        BY <1>16 DEF kwait_scan, TypeOK
      <3> QED BY <3>1, <3>2, EmbryoKept DEF ControlInv
    <2>4. InitLives'
      BY <1>16, SlotDistinct
        DEF kwait_scan, NextSlot, Goto, locals, locks, TypeOK, At, ControlInv,
            InitLives, StatePc, Alive, ExitPc
    <2> QED BY <2>1, <2>2, <2>3, <2>4 DEF ControlInv
  <1>17. ASSUME NEW p \in Slot, kwait_reap(p) PROVE ControlInv'
    BY <1>17, SlotDistinct
    DEF kwait_reap, freeproc, Return, Goto, locals, locks, TypeOK, At,
        ControlInv, LockDiscipline, StatePc, Embryo, InitLives, HoldsWait,
        HoldsTicks, Alive, ExitPc
  <1>18. ASSUME NEW p \in Slot, kwait_copyout_fail(p) PROVE ControlInv'
    BY <1>18, SlotDistinct
    DEF kwait_copyout_fail, Return, Goto, locals, locks, TypeOK, At, ControlInv,
        LockDiscipline, StatePc, Embryo, InitLives, HoldsWait, HoldsTicks,
        Alive, ExitPc
  <1>19. ASSUME NEW p \in Slot, kwait_check(p) PROVE ControlInv'
    <2>1. LockDiscipline'
      <3>1. CASE ~havekids[p] \/ killed[p]
        BY <1>19, <3>1, SlotDistinct
        DEF kwait_check, Return, Goto, At, TypeOK, ControlInv, LockDiscipline,
            HoldsWait, HoldsTicks
      <3>2. CASE ~(~havekids[p] \/ killed[p])
        BY <1>19, <3>2, SlotDistinct
        DEF kwait_check, Goto, At, TypeOK, ControlInv, LockDiscipline,
            HoldsWait, HoldsTicks
      <3> QED BY <3>1, <3>2
    <2>2. StatePc'
      BY <1>19, SlotDistinct
        DEF kwait_check, Return, Goto, locals, locks, TypeOK, At, ControlInv,
            StatePc, Embryo, LockDiscipline
    <2>3. Embryo'
      <3>1. \A x \in Slot : pc'[x] \in {"f_link", "f_run"} =>
              pc[x] \in {"f_link", "f_run"} /\ pp'[x] = pp[x]
        <4>1. CASE ~havekids[p] \/ killed[p]
          BY <1>19, <4>1 DEF kwait_check, Return, Goto, locals, At, TypeOK
        <4>2. CASE ~(~havekids[p] \/ killed[p])
          BY <1>19, <4>2 DEF kwait_check, Return, Goto, locals, At, TypeOK
        <4> QED BY <4>1, <4>2
      <3>2. \A x \in Slot : state[x] = "USED" => state'[x] = "USED"
        BY <1>19 DEF kwait_check, TypeOK
      <3> QED BY <3>1, <3>2, EmbryoKept DEF ControlInv
    <2>4. InitLives'
      BY <1>19, SlotDistinct
        DEF kwait_check, Return, Goto, locals, locks, TypeOK, At, ControlInv,
            InitLives, StatePc, Alive, ExitPc
    <2> QED BY <2>1, <2>2, <2>3, <2>4 DEF ControlInv
  <1>20. ASSUME NEW p \in Slot, kwait_prepare(p) PROVE ControlInv'
    BY <1>20, SlotDistinct
    DEF kwait_prepare, sleep_prepare, Goto, locals, locks, TypeOK, At,
        ControlInv, LockDiscipline, StatePc, Embryo, InitLives, HoldsWait,
        HoldsTicks, Alive, ExitPc
  <1>21. ASSUME NEW p \in Slot, kwait_sleep(p) PROVE ControlInv'
    BY <1>21, SlotDistinct
    DEF kwait_sleep, sleep, sched, Goto, locals, locks, TypeOK, At, ControlInv,
        LockDiscipline, StatePc, Embryo, InitLives, HoldsWait, HoldsTicks,
        Alive, ExitPc
  <1>22. ASSUME NEW p \in Slot, NEW n \in KillTargets, sys_kill(p, n)
         PROVE ControlInv'
    <2>1. LockDiscipline'
      BY <1>22, SlotDistinct
        DEF sys_kill, Call, Goto, locals, locks, TypeOK, At, ControlInv,
            LockDiscipline, HoldsWait, HoldsTicks
    <2>2. StatePc'
      BY <1>22, SlotDistinct
        DEF sys_kill, Call, Goto, locals, locks, TypeOK, At, ControlInv, StatePc
    <2>3. Embryo'
      BY <1>22, SlotDistinct
        DEF sys_kill, Call, Goto, locals, locks, TypeOK, At, ControlInv, Embryo
    <2>4. InitLives'
      BY <1>22, SlotDistinct
        DEF sys_kill, Call, Goto, locals, locks, TypeOK, At, ControlInv,
            InitLives, Alive, ExitPc
    <2> QED BY <2>1, <2>2, <2>3, <2>4 DEF ControlInv
  <1>23. ASSUME NEW p \in Slot, kkill(p) PROVE ControlInv'
    <2>1. LockDiscipline'
      BY <1>23, SlotDistinct
        DEF kkill, Return, Goto, locals, locks, TypeOK, At, ControlInv,
            LockDiscipline, StatePc, Embryo, HoldsWait, HoldsTicks
    <2>2. StatePc'
      BY <1>23, SlotDistinct
        DEF kkill, Return, Goto, locals, locks, TypeOK, At, ControlInv, StatePc,
            Embryo, LockDiscipline
    <2>3. Embryo'
      <3>1. \A x \in Slot : pc'[x] \in {"f_link", "f_run"} =>
              pc[x] \in {"f_link", "f_run"} /\ pp'[x] = pp[x]
        <4>1. CASE pid[pp[p]] = arg[p]
          BY <1>23, <4>1 DEF kkill, Return, Goto, locals, At, TypeOK
        <4>2. CASE ~(pid[pp[p]] = arg[p])
          BY <1>23, <4>2 DEF kkill, Return, Goto, locals, At, TypeOK
        <4> QED BY <4>1, <4>2
      <3>2. \A x \in Slot : state[x] = "USED" => state'[x] = "USED"
        BY <1>23 DEF kkill, TypeOK
      <3> QED BY <3>1, <3>2, EmbryoKept DEF ControlInv
    <2>4. InitLives'
      BY <1>23, SlotDistinct
        DEF kkill, Return, Goto, locals, locks, TypeOK, At, ControlInv,
            InitLives, StatePc, Alive, ExitPc
    <2> QED BY <2>1, <2>2, <2>3, <2>4 DEF ControlInv
  <1>24. ASSUME NEW p \in Slot, setkilled(p) PROVE ControlInv'
    BY <1>24, SlotDistinct
    DEF setkilled, locals, locks, TypeOK, At, ControlInv, LockDiscipline,
        StatePc, Embryo, InitLives, HoldsWait, HoldsTicks, Alive, ExitPc
  <1>25. ASSUME NEW p \in Slot, NEW n \in PauseArgs, sys_pause(p, n) PROVE ControlInv'
    BY <1>25, SlotDistinct
    DEF sys_pause, Call, Goto, locals, locks, TypeOK, At, ControlInv,
        LockDiscipline, StatePc, Embryo, InitLives, HoldsWait, HoldsTicks,
        Alive, ExitPc
  <1>26. ASSUME NEW p \in Slot, pause_start(p) PROVE ControlInv'
    BY <1>26, SlotDistinct
    DEF pause_start, Goto, locals, locks, TypeOK, At, ControlInv,
        LockDiscipline, StatePc, Embryo, InitLives, HoldsWait, HoldsTicks,
        Alive, ExitPc
  <1>27. ASSUME NEW p \in Slot, pause_check(p) PROVE ControlInv'
    <2>1. LockDiscipline'
      <3>1. tickslock = p /\ tick = 0
        BY <1>27, SlotDistinct
          DEF pause_check, At, TypeOK, ControlInv, LockDiscipline, HoldsTicks
      <3>2. CASE left[p] = 0 \/ killed[p]
        <4>1. /\ tickslock' = NoProc /\ pc' = [pc EXCEPT ![p] = "user"]
              /\ UNCHANGED <<state, wait_lock, tick>>
          BY <1>27, <3>2 DEF pause_check, Return, Goto
        <4> QED BY <1>27, <3>1, <4>1, SlotDistinct
          DEF pause_check, At, TypeOK, ControlInv, LockDiscipline, HoldsWait,
              HoldsTicks
      <3>3. CASE ~(left[p] = 0 \/ killed[p])
        BY <1>27, <3>3, SlotDistinct
        DEF pause_check, Goto, At, TypeOK, ControlInv, LockDiscipline,
            HoldsWait, HoldsTicks
      <3> QED BY <3>2, <3>3
    <2>2. StatePc'
      BY <1>27, SlotDistinct
        DEF pause_check, Return, Goto, locals, locks, TypeOK, At, ControlInv,
            StatePc, Embryo, LockDiscipline
    <2>3. Embryo'
      <3>1. \A x \in Slot : pc'[x] \in {"f_link", "f_run"} =>
              pc[x] \in {"f_link", "f_run"} /\ pp'[x] = pp[x]
        <4>1. CASE left[p] = 0 \/ killed[p]
          BY <1>27, <4>1 DEF pause_check, Return, Goto, locals, At, TypeOK
        <4>2. CASE ~(left[p] = 0 \/ killed[p])
          BY <1>27, <4>2 DEF pause_check, Return, Goto, locals, At, TypeOK
        <4> QED BY <4>1, <4>2
      <3>2. \A x \in Slot : state[x] = "USED" => state'[x] = "USED"
        BY <1>27 DEF pause_check, TypeOK
      <3> QED BY <3>1, <3>2, EmbryoKept DEF ControlInv
    <2>4. InitLives'
      BY <1>27, SlotDistinct
        DEF pause_check, Return, Goto, locals, locks, TypeOK, At, ControlInv,
            InitLives, StatePc, Alive, ExitPc
    <2> QED BY <2>1, <2>2, <2>3, <2>4 DEF ControlInv
  <1>28. ASSUME NEW p \in Slot, pause_prepare(p) PROVE ControlInv'
    BY <1>28, SlotDistinct
    DEF pause_prepare, sleep_prepare, Goto, locals, locks, TypeOK, At,
        ControlInv, LockDiscipline, StatePc, Embryo, InitLives, HoldsWait,
        HoldsTicks, Alive, ExitPc
  <1>29. ASSUME NEW p \in Slot, pause_sleep(p) PROVE ControlInv'
    BY <1>29, SlotDistinct
    DEF pause_sleep, sleep, sched, Goto, locals, locks, TypeOK, At, ControlInv,
        LockDiscipline, StatePc, Embryo, InitLives, HoldsWait, HoldsTicks,
        Alive, ExitPc
  <1>30. ASSUME NEW p \in Slot, pause_acquire(p) PROVE ControlInv'
    BY <1>30, SlotDistinct
    DEF pause_acquire, Goto, locals, locks, TypeOK, At, ControlInv,
        LockDiscipline, StatePc, Embryo, InitLives, HoldsWait, HoldsTicks,
        Alive, ExitPc
  <1>31. ASSUME NEW p \in Slot, yield(p) PROVE ControlInv'
    <2>1. LockDiscipline'
      BY <1>31, SlotDistinct
        DEF yield, sched, locals, locks, TypeOK, At, ControlInv, LockDiscipline,
            StatePc, Embryo, HoldsWait, HoldsTicks
    <2>2. StatePc'
      <3>1. state' = [state EXCEPT ![p] = "RUNNABLE"]
        BY <1>31 DEF yield, sched, locks
      <3> QED BY <1>31, <3>1 DEF yield, TypeOK, ControlInv, StatePc
    <2>3. Embryo'
      BY <1>31, SlotDistinct
        DEF yield, sched, locals, locks, TypeOK, At, ControlInv, Embryo, StatePc
    <2>4. InitLives'
      BY <1>31, SlotDistinct
        DEF yield, sched, locals, locks, TypeOK, At, ControlInv, InitLives,
            StatePc, Alive, ExitPc
    <2> QED BY <2>1, <2>2, <2>3, <2>4 DEF ControlInv
  <1>32. ASSUME NEW p \in Slot, NEW c \in CPUs, scheduler(c, p) PROVE ControlInv'
    BY <1>32, SlotDistinct
    DEF scheduler, locals, locks, TypeOK, At, ControlInv, LockDiscipline,
        StatePc, Embryo, InitLives, HoldsWait, HoldsTicks, Alive, ExitPc
  <1>33. ASSUME clockintr PROVE ControlInv'
    BY <1>33, SlotDistinct
    DEF clockintr, locals, locks, TypeOK, At, ControlInv, LockDiscipline,
        StatePc, Embryo, InitLives, HoldsWait, HoldsTicks, Alive, ExitPc
  <1>34. ASSUME clockintr_wakeup PROVE ControlInv'
    <2>1. LockDiscipline'
      <3>1. tickslock = CLOCK /\ (tick' # 0 <=> tickslock' = CLOCK) /\ tickslock' \notin Slot
        BY <1>34, SlotDistinct, SlotFacts
          DEF clockintr_wakeup, TypeOK, ControlInv, LockDiscipline
      <3>2. \A x \in Slot : state[x] = "RUNNING" => state'[x] = "RUNNING"
        BY <1>34 DEF clockintr_wakeup, wakeup, TypeOK
      <3> QED BY <1>34, <3>1, <3>2, SlotDistinct
        DEF clockintr_wakeup, TypeOK, ControlInv, LockDiscipline
    <2>2. StatePc'
      BY <1>34, SlotDistinct
        DEF clockintr_wakeup, wakeup, locals, locks, TypeOK, At, ControlInv,
            StatePc, Embryo, LockDiscipline
    <2>3. Embryo'
      BY <1>34, SlotDistinct
        DEF clockintr_wakeup, wakeup, locals, locks, TypeOK, At, ControlInv,
            Embryo, StatePc
    <2>4. InitLives'
      BY <1>34, SlotDistinct
        DEF clockintr_wakeup, wakeup, locals, locks, TypeOK, At, ControlInv,
            InitLives, StatePc, Alive, ExitPc
    <2> QED BY <2>1, <2>2, <2>3, <2>4 DEF ControlInv
  <1>35. CASE UNCHANGED vars
    BY <1>35
      DEF vars, TypeOK, At, ControlInv, LockDiscipline, StatePc, Embryo,
          InitLives, HoldsWait, HoldsTicks, Alive, ExitPc
  <1> QED
    BY <1>1, <1>2, <1>3, <1>4, <1>5, <1>6, <1>7, <1>8, <1>9, <1>10, <1>11,
       <1>12, <1>13, <1>14, <1>15, <1>16, <1>17, <1>18, <1>19, <1>20, <1>21,
       <1>22, <1>23, <1>24, <1>25, <1>26, <1>27, <1>28, <1>29, <1>30, <1>31,
       <1>32, <1>33, <1>34, <1>35
    DEF Next, User, Step, Acquire, Advance, Clock

(* Every loop over proc[] starts at its first slot. *)
LEMMA CountersStep ==
  ASSUME TypeOK, TypeOK', ControlInv, Counters, [Next]_vars
  PROVE  Counters'
  <1>1. ASSUME NEW p \in Slot, sys_fork(p) PROVE Counters'
    BY <1>1, SlotFacts
    DEF sys_fork, Call, Goto, locals, locks, TypeOK, At, ControlInv, StatePc,
        Counters
  <1>2. ASSUME NEW p \in Slot, allocproc_skip(p) PROVE Counters'
    BY <1>2, SlotFacts
    DEF allocproc_skip, NextSlot, Goto, locals, locks, TypeOK, At, ControlInv,
        StatePc, Counters
  <1>3. ASSUME NEW p \in Slot, allocproc(p) PROVE Counters'
    BY <1>3, SlotFacts
    DEF allocproc, locals, locks, TypeOK, At, ControlInv, StatePc, Counters
  <1>4. ASSUME NEW p \in Slot, allocproc_fail(p) PROVE Counters'
    BY <1>4, SlotFacts
    DEF allocproc_fail, freeproc, Return, Goto, locals, locks, TypeOK, At,
        ControlInv, StatePc, Counters
  <1>5. ASSUME NEW p \in Slot, kfork_parent(p) PROVE Counters'
    BY <1>5, SlotFacts
    DEF kfork_parent, Goto, locals, locks, TypeOK, At, ControlInv, StatePc,
        Counters
  <1>6. ASSUME NEW p \in Slot, kfork_runnable(p) PROVE Counters'
    BY <1>6, SlotFacts
    DEF kfork_runnable, Return, Goto, locals, locks, TypeOK, At, ControlInv,
        StatePc, Counters
  <1>7. ASSUME NEW p \in Slot, sys_exit(p) PROVE Counters'
    BY <1>7, SlotFacts
    DEF sys_exit, kexit, Call, Goto, locals, locks, TypeOK, At, ControlInv,
        StatePc, Counters
  <1>8. ASSUME NEW p \in Slot, usertrap_killed(p) PROVE Counters'
    BY <1>8, SlotFacts
    DEF usertrap_killed, kexit, Call, Goto, locals, locks, TypeOK, At,
        ControlInv, StatePc, Counters
  <1>9. ASSUME NEW p \in Slot, kexit_acquire(p) PROVE Counters'
    BY <1>9, SlotFacts
    DEF kexit_acquire, Goto, locals, locks, TypeOK, At, ControlInv, StatePc,
        Counters
  <1>10. ASSUME NEW p \in Slot, reparent(p) PROVE Counters'
    BY <1>10, SlotFacts
    DEF reparent, NextSlot, Goto, locals, locks, TypeOK, At, ControlInv,
        StatePc, Counters
  <1>11. ASSUME NEW p \in Slot, reparent_wakeup(p) PROVE Counters'
    BY <1>11, SlotFacts
    DEF reparent_wakeup, wakeup, Goto, locals, locks, TypeOK, At, ControlInv,
        StatePc, Counters
  <1>12. ASSUME NEW p \in Slot, kexit_wakeup(p) PROVE Counters'
    BY <1>12, SlotFacts
    DEF kexit_wakeup, wakeup, Goto, locals, locks, TypeOK, At, ControlInv,
        StatePc, Counters
  <1>13. ASSUME NEW p \in Slot, kexit_zombie(p) PROVE Counters'
    BY <1>13, SlotFacts
    DEF kexit_zombie, sched, Goto, locals, locks, TypeOK, At, ControlInv,
        StatePc, Counters
  <1>14. ASSUME NEW p \in Slot, NEW a \in {0, 1}, sys_wait(p, a) PROVE Counters'
    BY <1>14, SlotFacts
    DEF sys_wait, Call, Goto, locals, locks, TypeOK, At, ControlInv, StatePc,
        Counters
  <1>15. ASSUME NEW p \in Slot, kwait_acquire(p) PROVE Counters'
    BY <1>15, SlotFacts
    DEF kwait_acquire, Goto, locals, locks, TypeOK, At, ControlInv, StatePc,
        Counters
  <1>16. ASSUME NEW p \in Slot, kwait_scan(p) PROVE Counters'
    BY <1>16, SlotFacts
    DEF kwait_scan, NextSlot, Goto, locals, locks, TypeOK, At, ControlInv,
        StatePc, Counters
  <1>17. ASSUME NEW p \in Slot, kwait_reap(p) PROVE Counters'
    BY <1>17, SlotFacts
    DEF kwait_reap, freeproc, Return, Goto, locals, locks, TypeOK, At,
        ControlInv, StatePc, Counters
  <1>18. ASSUME NEW p \in Slot, kwait_copyout_fail(p) PROVE Counters'
    BY <1>18, SlotFacts
    DEF kwait_copyout_fail, Return, Goto, locals, locks, TypeOK, At, ControlInv,
        StatePc, Counters
  <1>19. ASSUME NEW p \in Slot, kwait_check(p) PROVE Counters'
    BY <1>19, SlotFacts
    DEF kwait_check, Return, Goto, locals, locks, TypeOK, At, ControlInv,
        StatePc, Counters
  <1>20. ASSUME NEW p \in Slot, kwait_prepare(p) PROVE Counters'
    BY <1>20, SlotFacts
    DEF kwait_prepare, sleep_prepare, Goto, locals, locks, TypeOK, At,
        ControlInv, StatePc, Counters
  <1>21. ASSUME NEW p \in Slot, kwait_sleep(p) PROVE Counters'
    BY <1>21, SlotFacts
    DEF kwait_sleep, sleep, sched, Goto, locals, locks, TypeOK, At, ControlInv,
        StatePc, Counters
  <1>22. ASSUME NEW p \in Slot, NEW n \in KillTargets, sys_kill(p, n) PROVE Counters'
    BY <1>22, SlotFacts
    DEF sys_kill, Call, Goto, locals, locks, TypeOK, At, ControlInv, StatePc,
        Counters
  <1>23. ASSUME NEW p \in Slot, kkill(p) PROVE Counters'
    BY <1>23, SlotFacts
    DEF kkill, Return, Goto, locals, locks, TypeOK, At, ControlInv, StatePc,
        Counters
  <1>24. ASSUME NEW p \in Slot, setkilled(p) PROVE Counters'
    BY <1>24, SlotFacts
    DEF setkilled, locals, locks, TypeOK, At, ControlInv, StatePc, Counters
  <1>25. ASSUME NEW p \in Slot, NEW n \in PauseArgs, sys_pause(p, n) PROVE Counters'
    BY <1>25, SlotFacts
    DEF sys_pause, Call, Goto, locals, locks, TypeOK, At, ControlInv, StatePc,
        Counters
  <1>26. ASSUME NEW p \in Slot, pause_start(p) PROVE Counters'
    BY <1>26, SlotFacts
    DEF pause_start, Goto, locals, locks, TypeOK, At, ControlInv, StatePc,
        Counters
  <1>27. ASSUME NEW p \in Slot, pause_check(p) PROVE Counters'
    BY <1>27, SlotFacts
    DEF pause_check, Return, Goto, locals, locks, TypeOK, At, ControlInv,
        StatePc, Counters
  <1>28. ASSUME NEW p \in Slot, pause_prepare(p) PROVE Counters'
    BY <1>28, SlotFacts
    DEF pause_prepare, sleep_prepare, Goto, locals, locks, TypeOK, At,
        ControlInv, StatePc, Counters
  <1>29. ASSUME NEW p \in Slot, pause_sleep(p) PROVE Counters'
    BY <1>29, SlotFacts
    DEF pause_sleep, sleep, sched, Goto, locals, locks, TypeOK, At, ControlInv,
        StatePc, Counters
  <1>30. ASSUME NEW p \in Slot, pause_acquire(p) PROVE Counters'
    BY <1>30, SlotFacts
    DEF pause_acquire, Goto, locals, locks, TypeOK, At, ControlInv, StatePc,
        Counters
  <1>31. ASSUME NEW p \in Slot, yield(p) PROVE Counters'
    BY <1>31, SlotFacts
    DEF yield, sched, locals, locks, TypeOK, At, ControlInv, StatePc, Counters
  <1>32. ASSUME NEW p \in Slot, NEW c \in CPUs, scheduler(c, p) PROVE Counters'
    BY <1>32, SlotFacts
    DEF scheduler, locals, locks, TypeOK, At, ControlInv, StatePc, Counters
  <1>33. ASSUME clockintr PROVE Counters'
    BY <1>33, SlotFacts
    DEF clockintr, locals, locks, TypeOK, At, ControlInv, StatePc, Counters
  <1>34. ASSUME clockintr_wakeup PROVE Counters'
    BY <1>34, SlotFacts
    DEF clockintr_wakeup, wakeup, locals, locks, TypeOK, At, ControlInv,
        StatePc, Counters
  <1>35. CASE UNCHANGED vars
    BY <1>35 DEF vars, TypeOK, At, ControlInv, StatePc, Counters
  <1> QED
    BY <1>1, <1>2, <1>3, <1>4, <1>5, <1>6, <1>7, <1>8, <1>9, <1>10, <1>11,
       <1>12, <1>13, <1>14, <1>15, <1>16, <1>17, <1>18, <1>19, <1>20, <1>21,
       <1>22, <1>23, <1>24, <1>25, <1>26, <1>27, <1>28, <1>29, <1>30, <1>31,
       <1>32, <1>33, <1>34, <1>35
    DEF Next, User, Step, Acquire, Advance, Clock

-----------------------------------------------------------------------------
(* Parents. *)

(* The facts on parents are kept by a step that changes no parent, starts no *)
(* process, ends none, and takes no thread forward in reparent().            *)
LEMMA ParentQuiet ==
  ASSUME TypeOK, TypeOK', ParentInv, UNCHANGED parent,
         \A x \in Slot : state'[x] = state[x] \/ (state[x] \in Alive /\ state'[x] \in Alive),
         \A x \in Slot : pc'[x] \in {"f_run", "x_rep", "x_repw", "x_wake", "x_zomb"} =>
           pc'[x] = pc[x] /\ pp'[x] = pp[x]
  PROVE  ParentInv'
  <1>1. ParentLink'
    <2> SUFFICES ASSUME NEW x \in Slot, parent'[x] # NoProc
                 PROVE  state'[parent'[x]] \in Alive /\ state'[x] # "UNUSED"
      BY DEF ParentLink
    <2>1. parent[x] \in Slot /\ state[parent[x]] \in Alive /\ state[x] # "UNUSED"
      BY DEF ParentInv, ParentLink, TypeOK
    <2> QED BY <2>1 DEF Alive
  <1>2. HasParent'
    BY DEF ParentInv, HasParent, TypeOK, Alive
  <1>3. OrphanScan'
    BY DEF ParentInv, OrphanScan, TypeOK
  <1> QED BY <1>1, <1>2, <1>3 DEF ParentInv

(* Every step keeps the facts on parents: kfork() sets the parent before the *)
(* child is RUNNABLE, and reparent() has passed every slot before its        *)
(* process is a zombie.                                                      *)
LEMMA ParentStep ==
  ASSUME TypeOK, TypeOK', ControlInv, ControlInv', ParentInv, Counters, [Next]_vars
  PROVE  ParentInv'
  <1>1. ASSUME NEW p \in Slot, sys_fork(p) PROVE ParentInv'
    BY <1>1, SlotFacts
    DEF sys_fork, Call, Goto, locals, locks, TypeOK, At, ControlInv,
        LockDiscipline, StatePc, Embryo, InitLives, HoldsWait, Alive, ExitPc,
        ParentInv, ParentLink, HasParent, OrphanScan
  <1>2. ASSUME NEW p \in Slot, allocproc_skip(p) PROVE ParentInv'
    <2>1. \A x \in Slot : state'[x] = state[x] \/ (state[x] \in Alive /\ state'[x] \in Alive)
      BY <1>2 DEF allocproc_skip, At, TypeOK, Alive
    <2>2. \A x \in Slot : pc'[x] \in {"f_run", "x_rep", "x_repw", "x_wake", "x_zomb"} =>
            pc'[x] = pc[x] /\ pp'[x] = pp[x]
      BY <1>2 DEF allocproc_skip, NextSlot, Goto, At, TypeOK
    <2> QED BY <1>2, <2>1, <2>2, ParentQuiet DEF allocproc_skip
  <1>3. ASSUME NEW p \in Slot, allocproc(p) PROVE ParentInv'
    BY <1>3, SlotFacts
    DEF allocproc, locals, locks, TypeOK, At, ControlInv, LockDiscipline,
        StatePc, Embryo, InitLives, HoldsWait, Alive, ExitPc, ParentInv,
        ParentLink, HasParent, OrphanScan
  <1>4. ASSUME NEW p \in Slot, allocproc_fail(p) PROVE ParentInv'
    BY <1>4, SlotFacts
    DEF allocproc_fail, freeproc, Return, Goto, locals, locks, TypeOK, At,
        ControlInv, LockDiscipline, StatePc, Embryo, InitLives, HoldsWait,
        Alive, ExitPc, ParentInv, ParentLink, HasParent, OrphanScan
  <1>5. ASSUME NEW p \in Slot, kfork_parent(p) PROVE ParentInv'
    BY <1>5, SlotFacts
    DEF kfork_parent, Goto, locals, locks, TypeOK, At, ControlInv,
        LockDiscipline, StatePc, Embryo, InitLives, HoldsWait, Alive, ExitPc,
        ParentInv, ParentLink, HasParent, OrphanScan
  <1>6. ASSUME NEW p \in Slot, kfork_runnable(p) PROVE ParentInv'
    BY <1>6, SlotFacts
    DEF kfork_runnable, Return, Goto, locals, locks, TypeOK, At, ControlInv,
        LockDiscipline, StatePc, Embryo, InitLives, HoldsWait, Alive, ExitPc,
        ParentInv, ParentLink, HasParent, OrphanScan
  <1>7. ASSUME NEW p \in Slot, sys_exit(p) PROVE ParentInv'
    BY <1>7, SlotFacts
    DEF sys_exit, kexit, Call, Goto, locals, locks, TypeOK, At, ControlInv,
        LockDiscipline, StatePc, Embryo, InitLives, HoldsWait, Alive, ExitPc,
        ParentInv, ParentLink, HasParent, OrphanScan
  <1>8. ASSUME NEW p \in Slot, usertrap_killed(p) PROVE ParentInv'
    BY <1>8, SlotFacts
    DEF usertrap_killed, kexit, Call, Goto, locals, locks, TypeOK, At,
        ControlInv, LockDiscipline, StatePc, Embryo, InitLives, HoldsWait,
        Alive, ExitPc, ParentInv, ParentLink, HasParent, OrphanScan
  <1>9. ASSUME NEW p \in Slot, kexit_acquire(p) PROVE ParentInv'
    <2>1. ParentLink'
      BY <1>9 DEF kexit_acquire, TypeOK, At, ParentInv, ParentLink
    <2>2. HasParent'
      BY <1>9 DEF kexit_acquire, Goto, locals, TypeOK, At, ParentInv, HasParent
    <2>3. OrphanScan'
      <3>1. pp[p] = 1
        BY <1>9 DEF kexit_acquire, TypeOK, At, ParentInv, Counters
      <3> QED BY <1>9, <3>1, SlotFacts
        DEF kexit_acquire, Goto, locals, TypeOK, At, ParentInv, OrphanScan
    <2> QED BY <2>1, <2>2, <2>3 DEF ParentInv
  <1>10. ASSUME NEW p \in Slot, reparent(p) PROVE ParentInv'
    <2>1. p # initproc /\ wait_lock = p
      BY <1>10
        DEF reparent, At, TypeOK, ControlInv, InitLives, LockDiscipline,
            HoldsWait, ExitPc
    <2>2. ParentLink'
      BY <1>10, <2>1, SlotFacts
        DEF reparent, TypeOK, At, ParentInv, ControlInv, InitLives, ParentLink
    <2>3. HasParent'
      <3>1. /\ UNCHANGED state /\ \A x \in Slot : pc'[x] = "f_run" => pc[x] = "f_run"
            /\ \A x \in Slot : pc'[x] = "f_run" => pp'[x] = pp[x]
        BY <1>10 DEF reparent, NextSlot, Goto, TypeOK, At
      <3>2. \A x \in Slot : parent[x] # NoProc => parent'[x] # NoProc
        BY <1>10, SlotFacts DEF reparent, TypeOK
      <3> QED BY <3>1, <3>2 DEF TypeOK, ParentInv, HasParent
    <2>4. OrphanScan'
      <3> SUFFICES ASSUME NEW x \in Slot, NEW y \in Slot, parent'[y] = x
                   PROVE  /\ pc'[x] = "x_rep" => pp'[x] <= y
                          /\ pc'[x] = "x_repw" => pp'[x] < y
                          /\ pc'[x] \notin {"x_wake", "x_zomb"}
        BY DEF OrphanScan
      <3>1. CASE parent[pp[p]] = p
        <4>1. /\ parent' = [parent EXCEPT ![pp[p]] = initproc]
              /\ pc' = [pc EXCEPT ![p] = "x_repw"] /\ UNCHANGED pp
          BY <1>10, <3>1 DEF reparent, Goto
        <4>2. CASE x = p
          <5>1. y # pp[p] /\ parent[y] = p /\ pc[p] = "x_rep"
            BY <1>10, <2>1, <4>1, <4>2 DEF TypeOK, reparent, At
          <5>2. pp[p] <= y
            BY <5>1 DEF ParentInv, OrphanScan
          <5>3. pp[p] < y
            <6>1. pp[p] \in Nat /\ y \in Nat
              BY SlotOrder DEF TypeOK
            <6> QED BY <5>1, <5>2, <6>1
          <5>4. pc'[p] = "x_repw" /\ pp'[p] = pp[p]
            BY <4>1 DEF TypeOK
          <5> QED BY <4>2, <5>3, <5>4
        <4>3. CASE x = initproc
          BY <2>1, <4>1, <4>3 DEF TypeOK, ControlInv, InitLives, ExitPc
        <4>4. CASE x # p /\ x # initproc
          BY <4>1, <4>4 DEF TypeOK, ParentInv, OrphanScan
        <4> QED BY <4>2, <4>3, <4>4
      <3>2. CASE parent[pp[p]] # p
        <4>1. UNCHANGED parent /\ NextSlot(p, "x_wake") /\ pc[p] = "x_rep"
          BY <1>10, <3>2 DEF reparent, At
        <4>2. CASE x # p
          BY <4>1, <4>2 DEF NextSlot, Goto, TypeOK, ParentInv, OrphanScan
        <4>3. CASE x = p
          <5>1. pp[p] <= y /\ pp[p] # y
            BY <4>1, <4>3, <3>2 DEF ParentInv, OrphanScan
          <5>2. pp[p] \in Nat /\ y \in Nat /\ y <= NPROC /\ NPROC \in Nat
            BY SlotOrder DEF TypeOK
          <5>3. pp[p] < NPROC
            BY <5>1, <5>2
          <5>4. pc'[p] = "x_rep" /\ pp'[p] = pp[p] + 1
            BY <4>1, <5>3 DEF NextSlot, TypeOK
          <5> QED BY <4>3, <5>1, <5>2, <5>4
        <4> QED BY <4>2, <4>3
      <3> QED BY <3>1, <3>2
    <2> QED BY <2>2, <2>3, <2>4 DEF ParentInv
  <1>11. ASSUME NEW p \in Slot, reparent_wakeup(p) PROVE ParentInv'
    <2>1. \A x \in Slot : state'[x] = state[x] \/ (state[x] \in Alive /\ state'[x] \in Alive)
      BY <1>11 DEF reparent_wakeup, wakeup, TypeOK, Alive
    <2>2. ParentLink'
      BY <1>11, <2>1
        DEF reparent_wakeup, TypeOK, At, ParentInv, ParentLink, Alive
    <2>3. HasParent'
      BY <1>11, <2>1
        DEF reparent_wakeup, Goto, TypeOK, At, ParentInv, HasParent, Alive
    <2>4. OrphanScan'
      <3> SUFFICES ASSUME NEW x \in Slot, NEW y \in Slot, parent'[y] = x
                   PROVE  /\ pc'[x] = "x_rep" => pp'[x] <= y
                          /\ pc'[x] = "x_repw" => pp'[x] < y
                          /\ pc'[x] \notin {"x_wake", "x_zomb"}
        BY DEF OrphanScan
      <3>1. UNCHANGED parent /\ pc[p] = "x_repw"
        BY <1>11 DEF reparent_wakeup, At
      <3>2. CASE x # p
        BY <1>11, <3>1, <3>2
          DEF reparent_wakeup, Goto, TypeOK, ParentInv, OrphanScan
      <3>3. CASE x = p
        <4>1. pp[p] < y
          BY <3>1, <3>3 DEF ParentInv, OrphanScan
        <4> QED BY <1>11, <3>1, <3>3, <4>1, SlotOrder
          DEF reparent_wakeup, Goto, TypeOK
      <3> QED BY <3>2, <3>3
    <2> QED BY <2>2, <2>3, <2>4 DEF ParentInv
  <1>12. ASSUME NEW p \in Slot, kexit_wakeup(p) PROVE ParentInv'
    BY <1>12, SlotFacts
    DEF kexit_wakeup, wakeup, Goto, locals, locks, TypeOK, At, ControlInv,
        LockDiscipline, StatePc, Embryo, InitLives, HoldsWait, Alive, ExitPc,
        ParentInv, ParentLink, HasParent, OrphanScan
  <1>13. ASSUME NEW p \in Slot, kexit_zombie(p) PROVE ParentInv'
    <2>1. p # initproc /\ tickslock # p
      BY <1>13
        DEF kexit_zombie, At, TypeOK, ControlInv, InitLives, LockDiscipline,
            HoldsTicks, ExitPc
    <2>2. state' = [state EXCEPT ![p] = "ZOMBIE"]
      BY <1>13, <2>1, SlotFacts DEF kexit_zombie, sched
    <2>3. ParentLink'
      BY <1>13, <2>2
        DEF kexit_zombie, TypeOK, At, ParentInv, ParentLink, OrphanScan, Alive
    <2>4. HasParent'
      BY <1>13, <2>2
        DEF kexit_zombie, Goto, TypeOK, At, ParentInv, HasParent, Alive
    <2>5. OrphanScan'
      BY <1>13 DEF kexit_zombie, Goto, TypeOK, At, ParentInv, OrphanScan
    <2> QED BY <2>3, <2>4, <2>5 DEF ParentInv
  <1>14. ASSUME NEW p \in Slot, NEW a \in {0, 1}, sys_wait(p, a) PROVE ParentInv'
    BY <1>14, SlotFacts
    DEF sys_wait, Call, Goto, locals, locks, TypeOK, At, ControlInv,
        LockDiscipline, StatePc, Embryo, InitLives, HoldsWait, Alive, ExitPc,
        ParentInv, ParentLink, HasParent, OrphanScan
  <1>15. ASSUME NEW p \in Slot, kwait_acquire(p) PROVE ParentInv'
    BY <1>15, SlotFacts
    DEF kwait_acquire, Goto, locals, locks, TypeOK, At, ControlInv,
        LockDiscipline, StatePc, Embryo, InitLives, HoldsWait, Alive, ExitPc,
        ParentInv, ParentLink, HasParent, OrphanScan
  <1>16. ASSUME NEW p \in Slot, kwait_scan(p) PROVE ParentInv'
    <2>1. \A x \in Slot : state'[x] = state[x] \/ (state[x] \in Alive /\ state'[x] \in Alive)
      BY <1>16 DEF kwait_scan, At, TypeOK, Alive
    <2>2. \A x \in Slot : pc'[x] \in {"f_run", "x_rep", "x_repw", "x_wake", "x_zomb"} =>
            pc'[x] = pc[x] /\ pp'[x] = pp[x]
      BY <1>16 DEF kwait_scan, NextSlot, Goto, At, TypeOK
    <2> QED BY <1>16, <2>1, <2>2, ParentQuiet DEF kwait_scan
  <1>17. ASSUME NEW p \in Slot, kwait_reap(p) PROVE ParentInv'
    BY <1>17, SlotFacts
    DEF kwait_reap, freeproc, Return, Goto, locals, locks, TypeOK, At,
        ControlInv, LockDiscipline, StatePc, Embryo, InitLives, HoldsWait,
        Alive, ExitPc, ParentInv, ParentLink, HasParent, OrphanScan
  <1>18. ASSUME NEW p \in Slot, kwait_copyout_fail(p) PROVE ParentInv'
    BY <1>18, SlotFacts
    DEF kwait_copyout_fail, Return, Goto, locals, locks, TypeOK, At, ControlInv,
        LockDiscipline, StatePc, Embryo, InitLives, HoldsWait, Alive, ExitPc,
        ParentInv, ParentLink, HasParent, OrphanScan
  <1>19. ASSUME NEW p \in Slot, kwait_check(p) PROVE ParentInv'
    BY <1>19, SlotFacts
    DEF kwait_check, Return, Goto, locals, locks, TypeOK, At, ControlInv,
        LockDiscipline, StatePc, Embryo, InitLives, HoldsWait, Alive, ExitPc,
        ParentInv, ParentLink, HasParent, OrphanScan
  <1>20. ASSUME NEW p \in Slot, kwait_prepare(p) PROVE ParentInv'
    BY <1>20, SlotFacts
    DEF kwait_prepare, sleep_prepare, Goto, locals, locks, TypeOK, At,
        ControlInv, LockDiscipline, StatePc, Embryo, InitLives, HoldsWait,
        Alive, ExitPc, ParentInv, ParentLink, HasParent, OrphanScan
  <1>21. ASSUME NEW p \in Slot, kwait_sleep(p) PROVE ParentInv'
    <2>1. \A x \in Slot : state'[x] = state[x] \/ (state[x] \in Alive /\ state'[x] \in Alive)
      BY <1>21 DEF kwait_sleep, sleep, sched, At, TypeOK, Alive
    <2>2. \A x \in Slot : pc'[x] \in {"f_run", "x_rep", "x_repw", "x_wake", "x_zomb"} =>
            pc'[x] = pc[x] /\ pp'[x] = pp[x]
      BY <1>21 DEF kwait_sleep, Goto, locals, At, TypeOK
    <2> QED BY <1>21, <2>1, <2>2, ParentQuiet DEF kwait_sleep
  <1>22. ASSUME NEW p \in Slot, NEW n \in KillTargets, sys_kill(p, n) PROVE ParentInv'
    BY <1>22, SlotFacts
    DEF sys_kill, Call, Goto, locals, locks, TypeOK, At, ControlInv,
        LockDiscipline, StatePc, Embryo, InitLives, HoldsWait, Alive, ExitPc,
        ParentInv, ParentLink, HasParent, OrphanScan
  <1>23. ASSUME NEW p \in Slot, kkill(p) PROVE ParentInv'
    <2>1. \A x \in Slot : state'[x] = state[x] \/ (state[x] \in Alive /\ state'[x] \in Alive)
      BY <1>23 DEF kkill, At, TypeOK, Alive
    <2>2. \A x \in Slot : pc'[x] \in {"f_run", "x_rep", "x_repw", "x_wake", "x_zomb"} =>
            pc'[x] = pc[x] /\ pp'[x] = pp[x]
      <3>1. CASE pid[pp[p]] = arg[p]
        BY <1>23, <3>1 DEF kkill, Return, Goto, locals, At, TypeOK
      <3>2. CASE ~(pid[pp[p]] = arg[p])
        BY <1>23, <3>2 DEF kkill, Return, Goto, locals, At, TypeOK
      <3> QED BY <3>1, <3>2
    <2> QED BY <1>23, <2>1, <2>2, ParentQuiet DEF kkill
  <1>24. ASSUME NEW p \in Slot, setkilled(p) PROVE ParentInv'
    BY <1>24, SlotFacts
    DEF setkilled, locals, locks, TypeOK, At, ControlInv, LockDiscipline,
        StatePc, Embryo, InitLives, HoldsWait, Alive, ExitPc, ParentInv,
        ParentLink, HasParent, OrphanScan
  <1>25. ASSUME NEW p \in Slot, NEW n \in PauseArgs, sys_pause(p, n) PROVE ParentInv'
    BY <1>25, SlotFacts
    DEF sys_pause, Call, Goto, locals, locks, TypeOK, At, ControlInv,
        LockDiscipline, StatePc, Embryo, InitLives, HoldsWait, Alive, ExitPc,
        ParentInv, ParentLink, HasParent, OrphanScan
  <1>26. ASSUME NEW p \in Slot, pause_start(p) PROVE ParentInv'
    BY <1>26, SlotFacts
    DEF pause_start, Goto, locals, locks, TypeOK, At, ControlInv,
        LockDiscipline, StatePc, Embryo, InitLives, HoldsWait, Alive, ExitPc,
        ParentInv, ParentLink, HasParent, OrphanScan
  <1>27. ASSUME NEW p \in Slot, pause_check(p) PROVE ParentInv'
    <2>1. \A x \in Slot : state'[x] = state[x] \/ (state[x] \in Alive /\ state'[x] \in Alive)
      BY <1>27 DEF pause_check, At, TypeOK, Alive
    <2>2. \A x \in Slot : pc'[x] \in {"f_run", "x_rep", "x_repw", "x_wake", "x_zomb"} =>
            pc'[x] = pc[x] /\ pp'[x] = pp[x]
      <3>1. CASE left[p] = 0 \/ killed[p]
        BY <1>27, <3>1 DEF pause_check, Return, Goto, locals, At, TypeOK
      <3>2. CASE ~(left[p] = 0 \/ killed[p])
        BY <1>27, <3>2 DEF pause_check, Return, Goto, locals, At, TypeOK
      <3> QED BY <3>1, <3>2
    <2> QED BY <1>27, <2>1, <2>2, ParentQuiet DEF pause_check
  <1>28. ASSUME NEW p \in Slot, pause_prepare(p) PROVE ParentInv'
    BY <1>28, SlotFacts
    DEF pause_prepare, sleep_prepare, Goto, locals, locks, TypeOK, At,
        ControlInv, LockDiscipline, StatePc, Embryo, InitLives, HoldsWait,
        Alive, ExitPc, ParentInv, ParentLink, HasParent, OrphanScan
  <1>29. ASSUME NEW p \in Slot, pause_sleep(p) PROVE ParentInv'
    <2>1. \A x \in Slot : state'[x] = state[x] \/ (state[x] \in Alive /\ state'[x] \in Alive)
      BY <1>29 DEF pause_sleep, sleep, sched, At, TypeOK, Alive
    <2>2. \A x \in Slot : pc'[x] \in {"f_run", "x_rep", "x_repw", "x_wake", "x_zomb"} =>
            pc'[x] = pc[x] /\ pp'[x] = pp[x]
      BY <1>29 DEF pause_sleep, Goto, locals, At, TypeOK
    <2> QED BY <1>29, <2>1, <2>2, ParentQuiet DEF pause_sleep
  <1>30. ASSUME NEW p \in Slot, pause_acquire(p) PROVE ParentInv'
    BY <1>30, SlotFacts
    DEF pause_acquire, Goto, locals, locks, TypeOK, At, ControlInv,
        LockDiscipline, StatePc, Embryo, InitLives, HoldsWait, Alive, ExitPc,
        ParentInv, ParentLink, HasParent, OrphanScan
  <1>31. ASSUME NEW p \in Slot, yield(p) PROVE ParentInv'
    <2>1. \A x \in Slot : state'[x] = state[x] \/ (state[x] \in Alive /\ state'[x] \in Alive)
      BY <1>31 DEF yield, sched, At, TypeOK, Alive
    <2>2. \A x \in Slot : pc'[x] \in {"f_run", "x_rep", "x_repw", "x_wake", "x_zomb"} =>
            pc'[x] = pc[x] /\ pp'[x] = pp[x]
      BY <1>31 DEF yield, locals, At, TypeOK
    <2> QED BY <1>31, <2>1, <2>2, ParentQuiet DEF yield
  <1>32. ASSUME NEW p \in Slot, NEW c \in CPUs, scheduler(c, p) PROVE ParentInv'
    BY <1>32, SlotFacts
    DEF scheduler, locals, locks, TypeOK, At, ControlInv, LockDiscipline,
        StatePc, Embryo, InitLives, HoldsWait, Alive, ExitPc, ParentInv,
        ParentLink, HasParent, OrphanScan
  <1>33. ASSUME clockintr PROVE ParentInv'
    BY <1>33, SlotFacts
    DEF clockintr, locals, locks, TypeOK, At, ControlInv, LockDiscipline,
        StatePc, Embryo, InitLives, HoldsWait, Alive, ExitPc, ParentInv,
        ParentLink, HasParent, OrphanScan
  <1>34. ASSUME clockintr_wakeup PROVE ParentInv'
    BY <1>34, SlotFacts
    DEF clockintr_wakeup, wakeup, locals, locks, TypeOK, At, ControlInv,
        LockDiscipline, StatePc, Embryo, InitLives, HoldsWait, Alive, ExitPc,
        ParentInv, ParentLink, HasParent, OrphanScan
  <1>35. CASE UNCHANGED vars
    BY <1>35
      DEF vars, TypeOK, At, ControlInv, LockDiscipline, StatePc, Embryo,
          InitLives, HoldsWait, Alive, ExitPc, ParentInv, ParentLink, HasParent,
          OrphanScan
  <1> QED
    BY <1>1, <1>2, <1>3, <1>4, <1>5, <1>6, <1>7, <1>8, <1>9, <1>10, <1>11,
       <1>12, <1>13, <1>14, <1>15, <1>16, <1>17, <1>18, <1>19, <1>20, <1>21,
       <1>22, <1>23, <1>24, <1>25, <1>26, <1>27, <1>28, <1>29, <1>30, <1>31,
       <1>32, <1>33, <1>34, <1>35
    DEF Next, User, Step, Acquire, Advance, Clock

-----------------------------------------------------------------------------
(* Wakeups. *)

(* Two threads inside wait_lock critical sections are the same thread. *)
LEMMA OneHolder ==
  ASSUME TypeOK, ControlInv, NEW p \in Slot, pc[p] \in HoldsWait
  PROVE  \A x \in Slot : pc[x] \in HoldsWait => x = p
BY DEF ControlInv, LockDiscipline

(* When wait_lock is free nobody is in a critical section of it. *)
LEMMA NoHolder ==
  ASSUME TypeOK, ControlInv, wait_lock = NoProc
  PROVE  \A x \in Slot : pc[x] \notin HoldsWait
BY SlotFacts DEF ControlInv, LockDiscipline

(* Thread x is at the same point with the same locals, or is in none of the  *)
(* places that the facts on wakeups are about.                               *)
QuietPc(x) ==
  pc'[x] \in {"w_scan", "w_chk", "w_prep", "w_sleep", "x_repw", "x_wake", "x_zomb"}
    => /\ pc'[x] = pc[x] /\ pp'[x] = pp[x] /\ wp'[x] = wp[x]
       /\ havekids'[x] = havekids[x]

(* Process x has not become blocked in kwait(), nor a zombie. *)
QuietSleep(x) ==
  /\ pc'[x] = "w_sleep" => chan'[x] = chan[x]
  /\ pc'[x] = "w_lock" /\ state'[x] = "SLEEPING" =>
       pc[x] = "w_lock" /\ state[x] = "SLEEPING" /\ chan'[x] = chan[x]

(* The facts on wakeups are kept by a step that leaves every parent alone    *)
(* and is quiet for every process.                                           *)
LEMMA WakeupQuiet ==
  ASSUME TypeOK, TypeOK', WakeupInv, UNCHANGED parent,
         \A x \in Slot : state'[x] = "ZOMBIE" <=> state[x] = "ZOMBIE",
         \A x \in Slot : QuietPc(x) /\ QuietSleep(x),
         \A x \in Slot : pc[x] = "x_repw" => pc'[x] = "x_repw"
  PROVE  WakeupInv'
  <1>1. \A x \in Slot : Blocked(x)' => Blocked(x)
    BY DEF QuietPc, QuietSleep, Blocked
  <1>2. WaitChannel'
    BY DEF WakeupInv, WaitChannel, QuietPc, QuietSleep
  <1>3. WaitScan'
    BY DEF WakeupInv, WaitScan, QuietPc
  <1>4. ExitWakes'
    BY <1>1 DEF WakeupInv, ExitWakes, QuietPc
  <1>5. BlockedHasNoZombie'
    <2> SUFFICES ASSUME NEW x \in Slot, NEW y \in Slot, Blocked(x)', ZombieChild(x, y)'
                 PROVE  x = initproc /\ \E r \in Slot : pc'[r] = "x_repw" /\ wp'[r] <= initproc
      BY DEF BlockedHasNoZombie
    <2>1. Blocked(x) /\ ZombieChild(x, y)
      BY <1>1 DEF ZombieChild
    <2>2. x = initproc /\ \E r \in Slot : pc[r] = "x_repw" /\ wp[r] <= initproc
      BY <2>1 DEF WakeupInv, BlockedHasNoZombie
    <2> QED BY <2>2 DEF QuietPc
  <1> QED BY <1>2, <1>3, <1>4, <1>5 DEF WakeupInv

(* Every step keeps the facts on wakeups: between the scan of kwait() and    *)
(* its sleep no child can become a zombie unseen, because sleep_prepare()    *)
(* registers the channel before wait_lock is released and wakeup() clears    *)
(* it.                                                                       *)
LEMMA WakeupStep ==
  ASSUME TypeOK, TypeOK', ControlInv, Counters, WakeupInv, [Next]_vars
  PROVE  WakeupInv'
  <1>1. ASSUME NEW p \in Slot, sys_fork(p) PROVE WakeupInv'
    <2>1. UNCHANGED parent /\ \A x \in Slot : state'[x] = "ZOMBIE" <=> state[x] = "ZOMBIE"
      BY <1>1 DEF sys_fork, Call, Goto, locals, At, TypeOK
    <2>2. \A x \in Slot : QuietPc(x) /\ QuietSleep(x)
      BY <1>1
        DEF sys_fork, Call, Goto, locals, At, TypeOK, ControlInv, StatePc,
            Embryo, QuietPc, QuietSleep
    <2>3. \A x \in Slot : pc[x] = "x_repw" => pc'[x] = "x_repw"
      BY <1>1 DEF sys_fork, Call, Goto, locals, At, TypeOK, ControlInv, StatePc
    <2> QED BY <2>1, <2>2, <2>3, WakeupQuiet
  <1>2. ASSUME NEW p \in Slot, allocproc_skip(p) PROVE WakeupInv'
    <2>1. UNCHANGED parent /\ \A x \in Slot : state'[x] = "ZOMBIE" <=> state[x] = "ZOMBIE"
      BY <1>2 DEF allocproc_skip, NextSlot, Goto, locals, At, TypeOK
    <2>2. \A x \in Slot : QuietPc(x) /\ QuietSleep(x)
      BY <1>2
        DEF allocproc_skip, NextSlot, Goto, locals, At, TypeOK, ControlInv,
            StatePc, Embryo, QuietPc, QuietSleep
    <2>3. \A x \in Slot : pc[x] = "x_repw" => pc'[x] = "x_repw"
      BY <1>2
        DEF allocproc_skip, NextSlot, Goto, locals, At, TypeOK, ControlInv,
            StatePc
    <2> QED BY <2>1, <2>2, <2>3, WakeupQuiet
  <1>3. ASSUME NEW p \in Slot, allocproc(p) PROVE WakeupInv'
    <2>1. UNCHANGED parent /\ \A x \in Slot : state'[x] = "ZOMBIE" <=> state[x] = "ZOMBIE"
      BY <1>3 DEF allocproc, locals, At, TypeOK
    <2>2. \A x \in Slot : QuietPc(x) /\ QuietSleep(x)
      BY <1>3
        DEF allocproc, locals, At, TypeOK, ControlInv, StatePc, Embryo, QuietPc,
            QuietSleep
    <2>3. \A x \in Slot : pc[x] = "x_repw" => pc'[x] = "x_repw"
      BY <1>3 DEF allocproc, locals, At, TypeOK, ControlInv, StatePc
    <2> QED BY <2>1, <2>2, <2>3, WakeupQuiet
  <1>4. ASSUME NEW p \in Slot, allocproc_fail(p) PROVE WakeupInv'
    <2>1. UNCHANGED parent /\ \A x \in Slot : state'[x] = "ZOMBIE" <=> state[x] = "ZOMBIE"
      BY <1>4 DEF allocproc_fail, freeproc, Return, Goto, locals, At, TypeOK
    <2>2. \A x \in Slot : QuietPc(x) /\ QuietSleep(x)
      BY <1>4
        DEF allocproc_fail, freeproc, Return, Goto, locals, At, TypeOK,
            ControlInv, StatePc, Embryo, QuietPc, QuietSleep
    <2>3. \A x \in Slot : pc[x] = "x_repw" => pc'[x] = "x_repw"
      BY <1>4
        DEF allocproc_fail, freeproc, Return, Goto, locals, At, TypeOK,
            ControlInv, StatePc
    <2> QED BY <2>1, <2>2, <2>3, WakeupQuiet
  <1>5. ASSUME NEW p \in Slot, kfork_parent(p) PROVE WakeupInv'
    <2>1. \A x \in Slot : pc[x] \notin HoldsWait
      BY <1>5, NoHolder DEF kfork_parent
    <2>2. /\ pc' = [pc EXCEPT ![p] = "f_run"] /\ parent' = [parent EXCEPT ![pp[p]] = p]
          /\ UNCHANGED <<state, chan, wp>> /\ state[pp[p]] = "USED"
      BY <1>5 DEF kfork_parent, Goto, At, locals, ControlInv, Embryo
    <2>3. \A x \in Slot : Blocked(x)' => Blocked(x)
      BY <2>2 DEF Blocked, TypeOK
    <2>4. WaitChannel'
      BY <2>2 DEF WaitChannel, WakeupInv, TypeOK
    <2>5. WaitScan'
      BY <2>1, <2>2 DEF WaitScan, HoldsWait, TypeOK
    <2>6. ExitWakes'
      BY <2>1, <2>2 DEF ExitWakes, HoldsWait, TypeOK
    <2>7. BlockedHasNoZombie'
      <3>1. \A x, y \in Slot : ZombieChild(x, y)' => ZombieChild(x, y)
        BY <2>2 DEF ZombieChild, TypeOK
      <3>2. \A x, y \in Slot : ~(Blocked(x) /\ ZombieChild(x, y))
        BY <2>1 DEF WakeupInv, BlockedHasNoZombie, HoldsWait
      <3> QED BY <2>3, <3>1, <3>2 DEF BlockedHasNoZombie
    <2> QED BY <2>4, <2>5, <2>6, <2>7 DEF WakeupInv
  <1>6. ASSUME NEW p \in Slot, kfork_runnable(p) PROVE WakeupInv'
    <2>1. state[pp[p]] = "USED"
      BY <1>6 DEF kfork_runnable, At, ControlInv, Embryo
    <2>2. UNCHANGED parent /\ \A x \in Slot : state'[x] = "ZOMBIE" <=> state[x] = "ZOMBIE"
      BY <1>6, <2>1 DEF kfork_runnable, TypeOK
    <2>3. \A x \in Slot : QuietPc(x) /\ QuietSleep(x)
      BY <1>6 DEF kfork_runnable, Return, Goto, At, TypeOK, QuietPc, QuietSleep
    <2>4. \A x \in Slot : pc[x] = "x_repw" => pc'[x] = "x_repw"
      BY <1>6 DEF kfork_runnable, Return, Goto, At, TypeOK
    <2> QED BY <2>2, <2>3, <2>4, WakeupQuiet
  <1>7. ASSUME NEW p \in Slot, sys_exit(p) PROVE WakeupInv'
    <2>1. UNCHANGED parent /\ \A x \in Slot : state'[x] = "ZOMBIE" <=> state[x] = "ZOMBIE"
      BY <1>7 DEF sys_exit, kexit, Call, Goto, locals, At, TypeOK
    <2>2. \A x \in Slot : QuietPc(x) /\ QuietSleep(x)
      BY <1>7
        DEF sys_exit, kexit, Call, Goto, locals, At, TypeOK, ControlInv,
            StatePc, Embryo, QuietPc, QuietSleep
    <2>3. \A x \in Slot : pc[x] = "x_repw" => pc'[x] = "x_repw"
      BY <1>7
        DEF sys_exit, kexit, Call, Goto, locals, At, TypeOK, ControlInv, StatePc
    <2> QED BY <2>1, <2>2, <2>3, WakeupQuiet
  <1>8. ASSUME NEW p \in Slot, usertrap_killed(p) PROVE WakeupInv'
    <2>1. UNCHANGED parent /\ \A x \in Slot : state'[x] = "ZOMBIE" <=> state[x] = "ZOMBIE"
      BY <1>8 DEF usertrap_killed, kexit, Call, Goto, locals, At, TypeOK
    <2>2. \A x \in Slot : QuietPc(x) /\ QuietSleep(x)
      BY <1>8
        DEF usertrap_killed, kexit, Call, Goto, locals, At, TypeOK, ControlInv,
            StatePc, Embryo, QuietPc, QuietSleep
    <2>3. \A x \in Slot : pc[x] = "x_repw" => pc'[x] = "x_repw"
      BY <1>8
        DEF usertrap_killed, kexit, Call, Goto, locals, At, TypeOK, ControlInv,
            StatePc
    <2> QED BY <2>1, <2>2, <2>3, WakeupQuiet
  <1>9. ASSUME NEW p \in Slot, kexit_acquire(p) PROVE WakeupInv'
    <2>1. UNCHANGED parent /\ \A x \in Slot : state'[x] = "ZOMBIE" <=> state[x] = "ZOMBIE"
      BY <1>9 DEF kexit_acquire, Goto, locals, At, TypeOK
    <2>2. \A x \in Slot : QuietPc(x) /\ QuietSleep(x)
      BY <1>9
        DEF kexit_acquire, Goto, locals, At, TypeOK, ControlInv, StatePc,
            Embryo, QuietPc, QuietSleep
    <2>3. \A x \in Slot : pc[x] = "x_repw" => pc'[x] = "x_repw"
      BY <1>9 DEF kexit_acquire, Goto, locals, At, TypeOK, ControlInv, StatePc
    <2> QED BY <2>1, <2>2, <2>3, WakeupQuiet
  <1>10. ASSUME NEW p \in Slot, reparent(p) PROVE WakeupInv'
    <2>1. \A x \in Slot : pc[x] \in HoldsWait => x = p
      BY <1>10, OneHolder DEF reparent, At, HoldsWait
    <2>2. /\ UNCHANGED <<state, chan, wp>> /\ pc[p] = "x_rep" /\ wp[p] = 1
          /\ \A x \in Slot : x # p => pc'[x] = pc[x]
          /\ pc'[p] \in {"x_rep", "x_repw", "x_wake"}
      BY <1>10 DEF reparent, NextSlot, Goto, At, TypeOK, Counters
    <2>3. \A x \in Slot : Blocked(x)' => Blocked(x)
      BY <2>2 DEF Blocked, TypeOK
    <2>4. WaitChannel'
      BY <2>2 DEF WaitChannel, WakeupInv, TypeOK
    <2>5. WaitScan'
      BY <2>1, <2>2 DEF WaitScan, HoldsWait
    <2>6. ExitWakes'
      BY <2>1, <2>2, SlotOrder DEF ExitWakes, HoldsWait
    <2>7. BlockedHasNoZombie'
      <3> SUFFICES ASSUME NEW x \in Slot, NEW y \in Slot, Blocked(x)', ZombieChild(x, y)'
                   PROVE  x = initproc /\ \E r \in Slot : pc'[r] = "x_repw" /\ wp'[r] <= initproc
        BY DEF BlockedHasNoZombie
      <3>1. ~ZombieChild(x, y)
        BY <2>1, <2>2, <2>3 DEF WakeupInv, BlockedHasNoZombie, HoldsWait
      <3>2. parent'[y] = x /\ parent[y] # x
        BY <2>2, <3>1 DEF ZombieChild
      <3>3. x = initproc /\ pc'[p] = "x_repw"
        BY <1>10, <3>2 DEF reparent, Goto, TypeOK
      <3> QED BY <2>2, <3>3, SlotOrder
    <2> QED BY <2>4, <2>5, <2>6, <2>7 DEF WakeupInv
  <1>11. ASSUME NEW p \in Slot, reparent_wakeup(p) PROVE WakeupInv'
    <2>1. \A x \in Slot : pc[x] \in HoldsWait => x = p
      BY <1>11, OneHolder DEF reparent_wakeup, At, HoldsWait
    <2>2. /\ UNCHANGED parent /\ pc[p] = "x_repw" /\ wp[p] \in Slot
          /\ \A x \in Slot : x # p => pc'[x] = pc[x] /\ wp'[x] = wp[x]
          /\ pc'[p] \in {"x_rep", "x_repw", "x_wake"}
          /\ pc'[p] = "x_wake" => wp'[p] = 1
      BY <1>11 DEF reparent_wakeup, Goto, At, TypeOK
    <2>3. \A x \in Slot : /\ state'[x] = "SLEEPING" => state[x] = "SLEEPING" /\ chan'[x] = chan[x]
                          /\ chan'[x] = chan[x] \/ chan'[x] = NoProc
                          /\ state'[x] = "ZOMBIE" <=> state[x] = "ZOMBIE"
      BY <1>11, SlotFacts DEF reparent_wakeup, wakeup, TypeOK
    <2>4. \A x \in Slot : Blocked(x)' => Blocked(x)
      BY <2>2, <2>3, SlotFacts DEF Blocked
    <2>5. WaitChannel'
      BY <2>2, <2>3 DEF WaitChannel, WakeupInv
    <2>6. WaitScan'
      BY <2>1, <2>2 DEF WaitScan, HoldsWait
    <2>7. ExitWakes'
      BY <2>1, <2>2, SlotOrder DEF ExitWakes, HoldsWait
    <2>8. BlockedHasNoZombie'
      <3> SUFFICES ASSUME NEW x \in Slot, NEW y \in Slot, Blocked(x)', ZombieChild(x, y)'
                   PROVE  FALSE
        BY DEF BlockedHasNoZombie
      <3>1. Blocked(x) /\ ZombieChild(x, y)
        BY <2>2, <2>3, <2>4 DEF ZombieChild
      <3>2. x = initproc /\ \E r \in Slot : pc[r] = "x_repw" /\ wp[r] <= initproc
        BY <3>1 DEF WakeupInv, BlockedHasNoZombie
      <3>3. x = initproc /\ wp[p] <= initproc
        BY <2>1, <3>2 DEF HoldsWait
      <3>4. wp[p] = initproc
        <4>1. wp[p] \in Nat /\ 1 <= wp[p] /\ initproc = 1
          BY <2>2, SlotOrder
        <4> QED BY <3>3, <4>1
      <3>5. chan[initproc] = initproc
        BY <3>1, <3>3 DEF Blocked, WakeupInv, WaitChannel
      <3>6. chan'[initproc] = NoProc /\ state'[initproc] # "SLEEPING"
        BY <1>11, <3>4, <3>5, SlotFacts DEF reparent_wakeup, wakeup, TypeOK
      <3> QED BY <3>3, <3>6, SlotFacts DEF Blocked
    <2> QED BY <2>5, <2>6, <2>7, <2>8 DEF WakeupInv
  <1>12. ASSUME NEW p \in Slot, kexit_wakeup(p) PROVE WakeupInv'
    <2>1. \A x \in Slot : pc[x] \in HoldsWait => x = p
      BY <1>12, OneHolder DEF kexit_wakeup, At, HoldsWait
    <2>2. /\ UNCHANGED parent /\ pc[p] = "x_wake" /\ wp[p] \in Slot
          /\ \A x \in Slot : x # p => pc'[x] = pc[x] /\ wp'[x] = wp[x]
          /\ pc'[p] \in {"x_wake", "x_zomb"}
      BY <1>12 DEF kexit_wakeup, Goto, At, TypeOK
    <2>3. \A x \in Slot : /\ state'[x] = "SLEEPING" => state[x] = "SLEEPING" /\ chan'[x] = chan[x]
                          /\ chan'[x] = chan[x] \/ chan'[x] = NoProc
                          /\ state'[x] = "ZOMBIE" <=> state[x] = "ZOMBIE"
      BY <1>12, SlotFacts DEF kexit_wakeup, wakeup, TypeOK
    <2>4. \A x \in Slot : Blocked(x)' => Blocked(x)
      BY <2>2, <2>3, SlotFacts DEF Blocked
    <2>5. WaitChannel'
      BY <2>2, <2>3 DEF WaitChannel, WakeupInv
    <2>6. WaitScan'
      BY <2>1, <2>2 DEF WaitScan, HoldsWait
    <2>7. ExitWakes'
      <3> SUFFICES ASSUME NEW x \in Slot, parent'[x] \in Slot, Blocked(parent[x])'
                   PROVE  (pc'[x] = "x_wake" => wp'[x] <= parent'[x]) /\ pc'[x] # "x_zomb"
        BY <2>2 DEF ExitWakes
      <3>1. CASE x # p
        BY <2>1, <2>2, <3>1 DEF HoldsWait
      <3>2. CASE x = p
        <4>1. parent[p] \in Slot /\ Blocked(parent[p]) /\ wp[p] <= parent[p]
          BY <2>2, <2>4, <3>2 DEF WakeupInv, ExitWakes
        <4>2. wp[p] # parent[p]
          <5> SUFFICES ASSUME wp[p] = parent[p] PROVE FALSE
            OBVIOUS
          <5>1. chan[parent[p]] = parent[p]
            BY <4>1 DEF Blocked, WakeupInv, WaitChannel
          <5>2. chan'[parent[p]] = NoProc /\ state'[parent[p]] # "SLEEPING"
            BY <1>12, <4>1, <5>1, SlotFacts DEF kexit_wakeup, wakeup, TypeOK
          <5> QED BY <2>2, <3>2, <4>1, <5>2, SlotFacts DEF Blocked
        <4>3. /\ wp[p] \in Nat /\ parent[p] \in Nat /\ parent[p] <= NPROC /\ NPROC \in Nat
          BY <2>2, <4>1, SlotOrder
        <4>4. wp[p] < NPROC /\ wp[p] + 1 <= parent[p]
          BY <4>1, <4>2, <4>3
        <4>5. pc'[p] = "x_wake" /\ wp'[p] = wp[p] + 1
          BY <1>12, <4>4 DEF kexit_wakeup, At, TypeOK
        <4> QED BY <2>2, <3>2, <4>4, <4>5
      <3> QED BY <3>1, <3>2
    <2>8. BlockedHasNoZombie'
      <3>1. \A x, y \in Slot : ~(Blocked(x) /\ ZombieChild(x, y))
        BY <2>1, <2>2 DEF WakeupInv, BlockedHasNoZombie, HoldsWait
      <3> QED BY <2>2, <2>3, <2>4, <3>1 DEF BlockedHasNoZombie, ZombieChild
    <2> QED BY <2>5, <2>6, <2>7, <2>8 DEF WakeupInv
  <1>13. ASSUME NEW p \in Slot, kexit_zombie(p) PROVE WakeupInv'
    <2>1. \A x \in Slot : pc[x] \in HoldsWait => x = p
      BY <1>13, OneHolder DEF kexit_zombie, At, HoldsWait
    <2>2. tickslock # p
      BY <1>13 DEF kexit_zombie, At, ControlInv, LockDiscipline, HoldsTicks
    <2>3. /\ UNCHANGED <<chan, parent, wp>> /\ pc[p] = "x_zomb"
          /\ pc' = [pc EXCEPT ![p] = "dead"]
          /\ state' = [state EXCEPT ![p] = "ZOMBIE"]
      BY <1>13, <2>2, SlotFacts DEF kexit_zombie, sched, Goto, At
    <2>4. \A x \in Slot : Blocked(x)' => Blocked(x)
      BY <2>3 DEF Blocked, TypeOK
    <2>5. WaitChannel'
      BY <2>3 DEF WaitChannel, WakeupInv, TypeOK
    <2>6. WaitScan'
      BY <2>1, <2>3 DEF WaitScan, HoldsWait, TypeOK
    <2>7. ExitWakes'
      BY <2>1, <2>3 DEF ExitWakes, HoldsWait, TypeOK
    <2>8. BlockedHasNoZombie'
      <3>1. \A x, y \in Slot : ~(Blocked(x) /\ ZombieChild(x, y))
        BY <2>1, <2>3 DEF WakeupInv, BlockedHasNoZombie, HoldsWait
      <3>2. parent[p] \in Slot => ~Blocked(parent[p])
        BY <2>3 DEF WakeupInv, ExitWakes
      <3>3. \A x, y \in Slot : ZombieChild(x, y)' =>
              ZombieChild(x, y) \/ (y = p /\ x = parent[p])
        BY <2>3 DEF ZombieChild, TypeOK
      <3> QED BY <2>4, <3>1, <3>2, <3>3 DEF BlockedHasNoZombie
    <2> QED BY <2>5, <2>6, <2>7, <2>8 DEF WakeupInv
  <1>14. ASSUME NEW p \in Slot, NEW a \in {0, 1}, sys_wait(p, a) PROVE WakeupInv'
    <2>1. UNCHANGED parent /\ \A x \in Slot : state'[x] = "ZOMBIE" <=> state[x] = "ZOMBIE"
      BY <1>14 DEF sys_wait, Call, Goto, locals, At, TypeOK
    <2>2. \A x \in Slot : QuietPc(x) /\ QuietSleep(x)
      BY <1>14
        DEF sys_wait, Call, Goto, locals, At, TypeOK, ControlInv, StatePc,
            Embryo, QuietPc, QuietSleep
    <2>3. \A x \in Slot : pc[x] = "x_repw" => pc'[x] = "x_repw"
      BY <1>14 DEF sys_wait, Call, Goto, locals, At, TypeOK, ControlInv, StatePc
    <2> QED BY <2>1, <2>2, <2>3, WakeupQuiet
  <1>15. ASSUME NEW p \in Slot, kwait_acquire(p) PROVE WakeupInv'
    <2>1. \A x \in Slot : pc[x] \notin HoldsWait
      BY <1>15, NoHolder DEF kwait_acquire
    <2>2. /\ UNCHANGED <<state, chan, parent, pp, wp>> /\ pp[p] = 1 /\ havekids'[p] = FALSE
          /\ pc' = [pc EXCEPT ![p] = "w_scan"]
      BY <1>15 DEF kwait_acquire, Goto, At, TypeOK, Counters
    <2>3. \A x \in Slot : Blocked(x)' => Blocked(x)
      BY <2>2 DEF Blocked, TypeOK
    <2>4. WaitChannel'
      BY <2>2 DEF WaitChannel, WakeupInv, TypeOK
    <2>5. WaitScan'
      <3>1. \A x \in Slot : pc'[x] \in {"w_scan", "w_chk", "w_prep"} =>
              x = p /\ pc'[x] = "w_scan"
        BY <2>1, <2>2 DEF HoldsWait, TypeOK
      <3>2. \A q \in Slot : ~(q < pp'[p])
        BY <2>2, SlotOrder
      <3> QED BY <2>2, <3>1, <3>2 DEF WaitScan
    <2>6. ExitWakes'
      BY <2>1, <2>2 DEF ExitWakes, HoldsWait, TypeOK
    <2>7. BlockedHasNoZombie'
      <3>1. \A x, y \in Slot : ~(Blocked(x) /\ ZombieChild(x, y))
        BY <2>1 DEF WakeupInv, BlockedHasNoZombie, HoldsWait
      <3> QED BY <2>2, <2>3, <3>1 DEF BlockedHasNoZombie, ZombieChild
    <2> QED BY <2>4, <2>5, <2>6, <2>7 DEF WakeupInv
  <1>16. ASSUME NEW p \in Slot, kwait_scan(p) PROVE WakeupInv'
    <2>1. \A x \in Slot : pc[x] \in HoldsWait => x = p
      BY <1>16, OneHolder DEF kwait_scan, At, HoldsWait
    <2>2. /\ UNCHANGED <<state, chan, parent, wp>> /\ pc[p] = "w_scan"
          /\ \A x \in Slot : x # p => pc'[x] = pc[x]
          /\ pc'[p] \in {"w_scan", "w_chk"}
      BY <1>16 DEF kwait_scan, NextSlot, Goto, At, TypeOK
    <2>3. \A x \in Slot : Blocked(x)' => Blocked(x)
      BY <2>2 DEF Blocked
    <2>4. WaitChannel'
      BY <2>2 DEF WaitChannel, WakeupInv
    <2>5. WaitScan'
      <3>1. \A x \in Slot : pc'[x] \in {"w_scan", "w_chk", "w_prep"} =>
              x = p /\ pc'[x] # "w_prep"
        BY <2>1, <2>2 DEF HoldsWait
      <3>2. /\ parent[pp[p]] = p => havekids'[p] /\ state[pp[p]] # "ZOMBIE"
            /\ havekids[p] => havekids'[p]
            /\ havekids'[p] => havekids[p] \/ parent[pp[p]] = p
        BY <1>16 DEF kwait_scan, TypeOK
      <3>3. havekids'[p] => \E q \in Slot : parent[q] = p
        BY <2>2, <3>2 DEF WakeupInv, WaitScan, TypeOK
      <3>4. \A q \in Slot : parent[q] = p /\ q <= pp[p] =>
              havekids'[p] /\ state[q] # "ZOMBIE"
        <4> SUFFICES ASSUME NEW q \in Slot, parent[q] = p, q <= pp[p]
                     PROVE  havekids'[p] /\ state[q] # "ZOMBIE"
          OBVIOUS
        <4>1. CASE q < pp[p]
          BY <2>2, <3>2, <4>1 DEF WakeupInv, WaitScan
        <4>2. CASE q = pp[p]
          BY <3>2, <4>2
        <4>3. q \in Nat /\ pp[p] \in Nat
          BY SlotOrder DEF TypeOK
        <4> QED BY <4>1, <4>2, <4>3
      <3>5. CASE pp[p] < NPROC
        <4>1. pc'[p] = "w_scan" /\ pp'[p] = pp[p] + 1 /\ pp[p] \in Nat
          BY <1>16, <3>5, SlotOrder DEF kwait_scan, At, NextSlot, TypeOK
        <4>2. \A q \in Slot : q < pp'[p] => q <= pp[p]
          BY <4>1, SlotOrder
        <4> QED BY <2>2, <3>1, <3>3, <3>4, <4>1, <4>2 DEF WaitScan
      <3>6. CASE ~(pp[p] < NPROC)
        <4>1. pc'[p] = "w_chk"
          BY <1>16, <3>6 DEF kwait_scan, NextSlot, Goto, TypeOK
        <4>2. pp[p] \in Nat /\ pp[p] <= NPROC /\ NPROC \in Nat
          BY SlotOrder DEF TypeOK
        <4>3. \A q \in Slot : q <= pp[p]
          BY <3>6, <4>2, SlotOrder
        <4> QED BY <2>2, <3>1, <3>3, <3>4, <4>1, <4>3 DEF WaitScan
      <3> QED BY <3>5, <3>6
    <2>6. ExitWakes'
      BY <2>1, <2>2 DEF ExitWakes, HoldsWait
    <2>7. BlockedHasNoZombie'
      <3>1. \A x, y \in Slot : ~(Blocked(x) /\ ZombieChild(x, y))
        BY <2>1, <2>2 DEF WakeupInv, BlockedHasNoZombie, HoldsWait
      <3> QED BY <2>2, <2>3, <3>1 DEF BlockedHasNoZombie, ZombieChild
    <2> QED BY <2>4, <2>5, <2>6, <2>7 DEF WakeupInv
  <1>17. ASSUME NEW p \in Slot, kwait_reap(p) PROVE WakeupInv'
    <2>1. \A x \in Slot : pc[x] \in HoldsWait => x = p
      BY <1>17, OneHolder DEF kwait_reap, At, HoldsWait
    <2>2. /\ pc[p] = "w_scan" /\ pc' = [pc EXCEPT ![p] = "user"] /\ pc[pp[p]] = "dead"
          /\ state' = [state EXCEPT ![pp[p]] = "UNUSED"]
          /\ chan' = [chan EXCEPT ![pp[p]] = 0]
          /\ parent' = [parent EXCEPT ![pp[p]] = NoProc]
      BY <1>17
        DEF kwait_reap, freeproc, Return, Goto, At, TypeOK, ControlInv, StatePc
    <2>3. \A x \in Slot : Blocked(x)' => Blocked(x)
      BY <2>2 DEF Blocked, TypeOK
    <2>4. WaitChannel'
      BY <2>2 DEF WaitChannel, WakeupInv, TypeOK
    <2>5. WaitScan'
      BY <2>1, <2>2 DEF WaitScan, HoldsWait, TypeOK
    <2>6. ExitWakes'
      BY <2>1, <2>2 DEF ExitWakes, HoldsWait, TypeOK
    <2>7. BlockedHasNoZombie'
      <3>1. \A x, y \in Slot : ~(Blocked(x) /\ ZombieChild(x, y))
        BY <2>1, <2>2 DEF WakeupInv, BlockedHasNoZombie, HoldsWait
      <3>2. \A x, y \in Slot : ZombieChild(x, y)' => ZombieChild(x, y)
        BY <2>2, SlotFacts DEF ZombieChild, TypeOK
      <3> QED BY <2>3, <3>1, <3>2 DEF BlockedHasNoZombie
    <2> QED BY <2>4, <2>5, <2>6, <2>7 DEF WakeupInv
  <1>18. ASSUME NEW p \in Slot, kwait_copyout_fail(p) PROVE WakeupInv'
    <2>1. UNCHANGED parent /\ \A x \in Slot : state'[x] = "ZOMBIE" <=> state[x] = "ZOMBIE"
      BY <1>18 DEF kwait_copyout_fail, Return, Goto, locals, At, TypeOK
    <2>2. \A x \in Slot : QuietPc(x) /\ QuietSleep(x)
      BY <1>18
        DEF kwait_copyout_fail, Return, Goto, locals, At, TypeOK, ControlInv,
            StatePc, Embryo, QuietPc, QuietSleep
    <2>3. \A x \in Slot : pc[x] = "x_repw" => pc'[x] = "x_repw"
      BY <1>18
        DEF kwait_copyout_fail, Return, Goto, locals, At, TypeOK, ControlInv,
            StatePc
    <2> QED BY <2>1, <2>2, <2>3, WakeupQuiet
  <1>19. ASSUME NEW p \in Slot, kwait_check(p) PROVE WakeupInv'
    <2>1. \A x \in Slot : pc[x] \in HoldsWait => x = p
      BY <1>19, OneHolder DEF kwait_check, At, HoldsWait
    <2>2. /\ UNCHANGED <<state, chan, parent>> /\ pc[p] = "w_chk"
          /\ \A x \in Slot : x # p => pc'[x] = pc[x]
          /\ pc'[p] \in {"user", "w_prep"}
      BY <1>19 DEF kwait_check, Return, Goto, At, TypeOK
    <2>8. pc'[p] = "w_prep" => UNCHANGED havekids
      <3>1. CASE Return(p)
        BY <3>1 DEF Return, Goto, TypeOK
      <3>2. CASE UNCHANGED locals
        BY <3>2 DEF locals
      <3> QED BY <1>19, <3>1, <3>2 DEF kwait_check
    <2>3. \A x \in Slot : Blocked(x)' => Blocked(x)
      BY <2>2 DEF Blocked
    <2>4. WaitChannel'
      BY <2>2 DEF WaitChannel, WakeupInv
    <2>5. WaitScan'
      <3>1. \A x \in Slot : pc'[x] \in {"w_scan", "w_chk", "w_prep"} =>
              x = p /\ pc'[x] = "w_prep" /\ UNCHANGED havekids
        BY <2>1, <2>2, <2>8 DEF HoldsWait
      <3> QED BY <2>2, <3>1 DEF WakeupInv, WaitScan
    <2>6. ExitWakes'
      BY <2>1, <2>2 DEF ExitWakes, HoldsWait
    <2>7. BlockedHasNoZombie'
      <3>1. \A x, y \in Slot : ~(Blocked(x) /\ ZombieChild(x, y))
        BY <2>1, <2>2 DEF WakeupInv, BlockedHasNoZombie, HoldsWait
      <3> QED BY <2>2, <2>3, <3>1 DEF BlockedHasNoZombie, ZombieChild
    <2> QED BY <2>4, <2>5, <2>6, <2>7 DEF WakeupInv
  <1>20. ASSUME NEW p \in Slot, kwait_prepare(p) PROVE WakeupInv'
    <2>1. \A x \in Slot : pc[x] \in HoldsWait => x = p
      BY <1>20, OneHolder DEF kwait_prepare, At, HoldsWait
    <2>2. /\ UNCHANGED <<state, parent>> /\ pc[p] = "w_prep" /\ state[p] = "RUNNING"
          /\ pc' = [pc EXCEPT ![p] = "w_sleep"] /\ chan' = [chan EXCEPT ![p] = p]
      BY <1>20 DEF kwait_prepare, sleep_prepare, Goto, At
    <2>3. \A x \in Slot : x # p /\ Blocked(x)' => Blocked(x)
      BY <2>2 DEF Blocked, TypeOK
    <2>4. WaitChannel'
      BY <2>2 DEF WaitChannel, WakeupInv, TypeOK
    <2>5. WaitScan'
      BY <2>1, <2>2 DEF WaitScan, HoldsWait, TypeOK
    <2>6. ExitWakes'
      BY <2>1, <2>2 DEF ExitWakes, HoldsWait, TypeOK
    <2>7. BlockedHasNoZombie'
      <3>1. \A x, y \in Slot : ~(Blocked(x) /\ ZombieChild(x, y))
        BY <2>1, <2>2 DEF WakeupInv, BlockedHasNoZombie, HoldsWait
      <3>2. \A y \in Slot : ~ZombieChild(p, y)
        BY <2>2 DEF WakeupInv, WaitScan, ZombieChild
      <3> QED BY <2>2, <2>3, <3>1, <3>2 DEF BlockedHasNoZombie, ZombieChild
    <2> QED BY <2>4, <2>5, <2>6, <2>7 DEF WakeupInv
  <1>21. ASSUME NEW p \in Slot, kwait_sleep(p) PROVE WakeupInv'
    <2>1. wait_lock # p /\ tickslock # p /\ chan[p] \in {NoProc, p}
      BY <1>21
        DEF kwait_sleep, At, ControlInv, LockDiscipline, HoldsWait, HoldsTicks,
            WakeupInv, WaitChannel
    <2>2. /\ UNCHANGED <<chan, parent, wp, pp, havekids>> /\ pc[p] = "w_sleep"
          /\ pc' = [pc EXCEPT ![p] = "w_lock"]
          /\ IF chan[p] # 0 THEN state' = [state EXCEPT ![p] = "SLEEPING"] ELSE state' = state
          /\ state[p] = "RUNNING"
      BY <1>21, <2>1 DEF kwait_sleep, sleep, sched, Goto, At, locals, locks
    <2>3. \A x \in Slot : Blocked(x)' => Blocked(x)
      BY <2>1, <2>2, SlotFacts DEF Blocked, TypeOK
    <2>4. WaitChannel'
      BY <2>1, <2>2, SlotFacts DEF WaitChannel, WakeupInv, TypeOK
    <2>5. \A x \in Slot : state'[x] = "ZOMBIE" <=> state[x] = "ZOMBIE"
      BY <2>2 DEF TypeOK
    <2>6. WaitScan'
      BY <2>2, <2>5 DEF WaitScan, WakeupInv, TypeOK
    <2>7. ExitWakes'
      BY <2>2, <2>3 DEF ExitWakes, WakeupInv, TypeOK
    <2>8. BlockedHasNoZombie'
      <3> SUFFICES ASSUME NEW x \in Slot, NEW y \in Slot, Blocked(x)', ZombieChild(x, y)'
                   PROVE  x = initproc /\ \E r \in Slot : pc'[r] = "x_repw" /\ wp'[r] <= initproc
        BY DEF BlockedHasNoZombie
      <3>1. Blocked(x) /\ ZombieChild(x, y)
        BY <2>2, <2>3, <2>5 DEF ZombieChild
      <3>2. x = initproc /\ \E r \in Slot : pc[r] = "x_repw" /\ wp[r] <= initproc
        BY <3>1 DEF WakeupInv, BlockedHasNoZombie
      <3> QED BY <2>2, <3>2 DEF TypeOK
    <2> QED BY <2>4, <2>6, <2>7, <2>8 DEF WakeupInv
  <1>22. ASSUME NEW p \in Slot, NEW n \in KillTargets, sys_kill(p, n) PROVE WakeupInv'
    <2>1. UNCHANGED parent /\ \A x \in Slot : state'[x] = "ZOMBIE" <=> state[x] = "ZOMBIE"
      BY <1>22 DEF sys_kill, Call, Goto, locals, At, TypeOK
    <2>2. \A x \in Slot : QuietPc(x) /\ QuietSleep(x)
      BY <1>22
        DEF sys_kill, Call, Goto, locals, At, TypeOK, ControlInv, StatePc,
            Embryo, QuietPc, QuietSleep
    <2>3. \A x \in Slot : pc[x] = "x_repw" => pc'[x] = "x_repw"
      BY <1>22 DEF sys_kill, Call, Goto, locals, At, TypeOK, ControlInv, StatePc
    <2> QED BY <2>1, <2>2, <2>3, WakeupQuiet
  <1>23. ASSUME NEW p \in Slot, kkill(p) PROVE WakeupInv'
    <2>1. UNCHANGED parent /\ \A x \in Slot : state'[x] = "ZOMBIE" <=> state[x] = "ZOMBIE"
      BY <1>23 DEF kkill, Return, Goto, locals, At, TypeOK
    <2>2. \A x \in Slot : QuietPc(x) /\ QuietSleep(x)
      BY <1>23
        DEF kkill, Return, Goto, locals, At, TypeOK, ControlInv, StatePc,
            Embryo, QuietPc, QuietSleep
    <2>3. \A x \in Slot : pc[x] = "x_repw" => pc'[x] = "x_repw"
      BY <1>23 DEF kkill, Return, Goto, locals, At, TypeOK, ControlInv, StatePc
    <2> QED BY <2>1, <2>2, <2>3, WakeupQuiet
  <1>24. ASSUME NEW p \in Slot, setkilled(p) PROVE WakeupInv'
    <2>1. UNCHANGED parent /\ \A x \in Slot : state'[x] = "ZOMBIE" <=> state[x] = "ZOMBIE"
      BY <1>24 DEF setkilled, locals, At, TypeOK
    <2>2. \A x \in Slot : QuietPc(x) /\ QuietSleep(x)
      BY <1>24
        DEF setkilled, locals, At, TypeOK, ControlInv, StatePc, Embryo, QuietPc,
            QuietSleep
    <2>3. \A x \in Slot : pc[x] = "x_repw" => pc'[x] = "x_repw"
      BY <1>24 DEF setkilled, locals, At, TypeOK, ControlInv, StatePc
    <2> QED BY <2>1, <2>2, <2>3, WakeupQuiet
  <1>25. ASSUME NEW p \in Slot, NEW n \in PauseArgs, sys_pause(p, n) PROVE WakeupInv'
    <2>1. UNCHANGED parent /\ \A x \in Slot : state'[x] = "ZOMBIE" <=> state[x] = "ZOMBIE"
      BY <1>25 DEF sys_pause, Call, Goto, locals, At, TypeOK
    <2>2. \A x \in Slot : QuietPc(x) /\ QuietSleep(x)
      BY <1>25
        DEF sys_pause, Call, Goto, locals, At, TypeOK, ControlInv, StatePc,
            Embryo, QuietPc, QuietSleep
    <2>3. \A x \in Slot : pc[x] = "x_repw" => pc'[x] = "x_repw"
      BY <1>25
        DEF sys_pause, Call, Goto, locals, At, TypeOK, ControlInv, StatePc
    <2> QED BY <2>1, <2>2, <2>3, WakeupQuiet
  <1>26. ASSUME NEW p \in Slot, pause_start(p) PROVE WakeupInv'
    <2>1. UNCHANGED parent /\ \A x \in Slot : state'[x] = "ZOMBIE" <=> state[x] = "ZOMBIE"
      BY <1>26 DEF pause_start, Goto, locals, At, TypeOK
    <2>2. \A x \in Slot : QuietPc(x) /\ QuietSleep(x)
      BY <1>26
        DEF pause_start, Goto, locals, At, TypeOK, ControlInv, StatePc, Embryo,
            QuietPc, QuietSleep
    <2>3. \A x \in Slot : pc[x] = "x_repw" => pc'[x] = "x_repw"
      BY <1>26 DEF pause_start, Goto, locals, At, TypeOK, ControlInv, StatePc
    <2> QED BY <2>1, <2>2, <2>3, WakeupQuiet
  <1>27. ASSUME NEW p \in Slot, pause_check(p) PROVE WakeupInv'
    <2>1. UNCHANGED parent /\ \A x \in Slot : state'[x] = "ZOMBIE" <=> state[x] = "ZOMBIE"
      BY <1>27 DEF pause_check, Return, Goto, locals, At, TypeOK
    <2>2. \A x \in Slot : QuietPc(x) /\ QuietSleep(x)
      BY <1>27
        DEF pause_check, Return, Goto, locals, At, TypeOK, ControlInv, StatePc,
            Embryo, QuietPc, QuietSleep
    <2>3. \A x \in Slot : pc[x] = "x_repw" => pc'[x] = "x_repw"
      BY <1>27
        DEF pause_check, Return, Goto, locals, At, TypeOK, ControlInv, StatePc
    <2> QED BY <2>1, <2>2, <2>3, WakeupQuiet
  <1>28. ASSUME NEW p \in Slot, pause_prepare(p) PROVE WakeupInv'
    <2>1. UNCHANGED parent /\ \A x \in Slot : state'[x] = "ZOMBIE" <=> state[x] = "ZOMBIE"
      BY <1>28 DEF pause_prepare, sleep_prepare, Goto, locals, At, TypeOK
    <2>2. \A x \in Slot : QuietPc(x) /\ QuietSleep(x)
      BY <1>28
        DEF pause_prepare, sleep_prepare, Goto, locals, At, TypeOK, ControlInv,
            StatePc, Embryo, QuietPc, QuietSleep
    <2>3. \A x \in Slot : pc[x] = "x_repw" => pc'[x] = "x_repw"
      BY <1>28
        DEF pause_prepare, sleep_prepare, Goto, locals, At, TypeOK, ControlInv,
            StatePc
    <2> QED BY <2>1, <2>2, <2>3, WakeupQuiet
  <1>29. ASSUME NEW p \in Slot, pause_sleep(p) PROVE WakeupInv'
    <2>1. UNCHANGED parent /\ \A x \in Slot : state'[x] = "ZOMBIE" <=> state[x] = "ZOMBIE"
      BY <1>29 DEF pause_sleep, sleep, sched, Goto, locals, At, TypeOK
    <2>2. \A x \in Slot : QuietPc(x) /\ QuietSleep(x)
      BY <1>29
        DEF pause_sleep, sleep, sched, Goto, locals, At, TypeOK, ControlInv,
            StatePc, Embryo, QuietPc, QuietSleep
    <2>3. \A x \in Slot : pc[x] = "x_repw" => pc'[x] = "x_repw"
      BY <1>29
        DEF pause_sleep, sleep, sched, Goto, locals, At, TypeOK, ControlInv,
            StatePc
    <2> QED BY <2>1, <2>2, <2>3, WakeupQuiet
  <1>30. ASSUME NEW p \in Slot, pause_acquire(p) PROVE WakeupInv'
    <2>1. UNCHANGED parent /\ \A x \in Slot : state'[x] = "ZOMBIE" <=> state[x] = "ZOMBIE"
      BY <1>30 DEF pause_acquire, Goto, locals, At, TypeOK
    <2>2. \A x \in Slot : QuietPc(x) /\ QuietSleep(x)
      BY <1>30
        DEF pause_acquire, Goto, locals, At, TypeOK, ControlInv, StatePc,
            Embryo, QuietPc, QuietSleep
    <2>3. \A x \in Slot : pc[x] = "x_repw" => pc'[x] = "x_repw"
      BY <1>30 DEF pause_acquire, Goto, locals, At, TypeOK, ControlInv, StatePc
    <2> QED BY <2>1, <2>2, <2>3, WakeupQuiet
  <1>31. ASSUME NEW p \in Slot, yield(p) PROVE WakeupInv'
    <2>1. UNCHANGED parent /\ \A x \in Slot : state'[x] = "ZOMBIE" <=> state[x] = "ZOMBIE"
      BY <1>31 DEF yield, sched, locals, At, TypeOK
    <2>2. \A x \in Slot : QuietPc(x) /\ QuietSleep(x)
      BY <1>31
        DEF yield, sched, locals, At, TypeOK, ControlInv, StatePc, Embryo,
            QuietPc, QuietSleep
    <2>3. \A x \in Slot : pc[x] = "x_repw" => pc'[x] = "x_repw"
      BY <1>31 DEF yield, sched, locals, At, TypeOK, ControlInv, StatePc
    <2> QED BY <2>1, <2>2, <2>3, WakeupQuiet
  <1>32. ASSUME NEW p \in Slot, NEW c \in CPUs, scheduler(c, p) PROVE WakeupInv'
    <2>1. UNCHANGED parent /\ \A x \in Slot : state'[x] = "ZOMBIE" <=> state[x] = "ZOMBIE"
      BY <1>32 DEF scheduler, locals, At, TypeOK
    <2>2. \A x \in Slot : QuietPc(x) /\ QuietSleep(x)
      BY <1>32
        DEF scheduler, locals, At, TypeOK, ControlInv, StatePc, Embryo, QuietPc,
            QuietSleep
    <2>3. \A x \in Slot : pc[x] = "x_repw" => pc'[x] = "x_repw"
      BY <1>32 DEF scheduler, locals, At, TypeOK, ControlInv, StatePc
    <2> QED BY <2>1, <2>2, <2>3, WakeupQuiet
  <1>33. ASSUME clockintr PROVE WakeupInv'
    <2>1. UNCHANGED parent /\ \A x \in Slot : state'[x] = "ZOMBIE" <=> state[x] = "ZOMBIE"
      BY <1>33 DEF clockintr, locals, At, TypeOK
    <2>2. \A x \in Slot : QuietPc(x) /\ QuietSleep(x)
      BY <1>33
        DEF clockintr, locals, At, TypeOK, ControlInv, StatePc, Embryo, QuietPc,
            QuietSleep
    <2>3. \A x \in Slot : pc[x] = "x_repw" => pc'[x] = "x_repw"
      BY <1>33 DEF clockintr, locals, At, TypeOK, ControlInv, StatePc
    <2> QED BY <2>1, <2>2, <2>3, WakeupQuiet
  <1>34. ASSUME clockintr_wakeup PROVE WakeupInv'
    <2>1. UNCHANGED parent /\ \A x \in Slot : state'[x] = "ZOMBIE" <=> state[x] = "ZOMBIE"
      BY <1>34 DEF clockintr_wakeup, wakeup, TypeOK
    <2>2. UNCHANGED <<pc, pp, wp, havekids>>
      BY <1>34 DEF clockintr_wakeup, locals
    <2>3. \A x \in Slot : QuietSleep(x)
      <3> SUFFICES ASSUME NEW x \in Slot PROVE QuietSleep(x)
        OBVIOUS
      <3>1. TICKS # NoProc /\ TICKS # x
        BY SlotDistinct DEF TICKS, CLOCK
      <3>2. pc[x] = "w_sleep" => chan'[x] = chan[x]
        BY <1>34, <3>1
          DEF clockintr_wakeup, wakeup, TypeOK, WakeupInv, WaitChannel
      <3>3. state'[x] = "SLEEPING" => state[x] = "SLEEPING" /\ chan'[x] = chan[x]
        BY <1>34 DEF clockintr_wakeup, wakeup, TypeOK
      <3> QED BY <2>2, <3>2, <3>3 DEF QuietSleep
    <2> QED BY <2>1, <2>2, <2>3, WakeupQuiet DEF QuietPc
  <1>35. CASE UNCHANGED vars
    BY <1>35, WakeupQuiet DEF vars, QuietPc, QuietSleep
  <1> QED
    BY <1>1, <1>2, <1>3, <1>4, <1>5, <1>6, <1>7, <1>8, <1>9, <1>10, <1>11,
       <1>12, <1>13, <1>14, <1>15, <1>16, <1>17, <1>18, <1>19, <1>20, <1>21,
       <1>22, <1>23, <1>24, <1>25, <1>26, <1>27, <1>28, <1>29, <1>30, <1>31,
       <1>32, <1>33, <1>34, <1>35
    DEF Next, User, Step, Acquire, Advance, Clock

-----------------------------------------------------------------------------
(* Pids, panics and reaping. *)

(* The facts on pids are kept by a step that leaves pid, nextpid, the fields *)
(* of free slots and the argument of every kkill() alone.                    *)
LEMMA PidQuiet ==
  ASSUME PidInv, UNCHANGED <<state, chan, killed, xstate, pid, parent, nextpid>>,
         \A x \in Slot : pc'[x] = "k_scan" => pc[x] = "k_scan" /\ arg'[x] = arg[x]
  PROVE  PidInv'
BY DEF PidInv, FreshSlot, PidUnique

(* When kkill() rejects pid 0, every step keeps free slots clean and pids    *)
(* distinct.                                                                 *)
LEMMA PidStep ==
  ASSUME RejectsPidZero, TypeOK, TypeOK', ControlInv, ParentInv, PidInv, [Next]_vars
  PROVE  PidInv'
  <1>1. ASSUME NEW p \in Slot, sys_fork(p) PROVE PidInv'
    BY <1>1, SlotFacts
    DEF sys_fork, Call, Goto, locals, locks, TypeOK, At, ControlInv, StatePc,
        Embryo, PidInv, FreshSlot, PidUnique
  <1>2. ASSUME NEW p \in Slot, allocproc_skip(p) PROVE PidInv'
    BY <1>2, SlotFacts
    DEF allocproc_skip, NextSlot, Goto, locals, locks, TypeOK, At, ControlInv,
        StatePc, Embryo, PidInv, FreshSlot, PidUnique
  <1>3. ASSUME NEW p \in Slot, allocproc(p) PROVE PidInv'
    BY <1>3, SlotFacts
    DEF allocproc, locals, locks, TypeOK, At, ControlInv, StatePc, Embryo,
        PidInv, FreshSlot, PidUnique
  <1>4. ASSUME NEW p \in Slot, allocproc_fail(p) PROVE PidInv'
    BY <1>4, SlotFacts
    DEF allocproc_fail, freeproc, Return, Goto, locals, locks, TypeOK, At,
        ControlInv, StatePc, Embryo, PidInv, FreshSlot, PidUnique
  <1>5. ASSUME NEW p \in Slot, kfork_parent(p) PROVE PidInv'
    BY <1>5, SlotFacts
    DEF kfork_parent, Goto, locals, locks, TypeOK, At, ControlInv, StatePc,
        Embryo, PidInv, FreshSlot, PidUnique
  <1>6. ASSUME NEW p \in Slot, kfork_runnable(p) PROVE PidInv'
    BY <1>6, SlotFacts
    DEF kfork_runnable, Return, Goto, locals, locks, TypeOK, At, ControlInv,
        StatePc, Embryo, PidInv, FreshSlot, PidUnique
  <1>7. ASSUME NEW p \in Slot, sys_exit(p) PROVE PidInv'
    <2>1. \A x \in Slot : pc'[x] = "k_scan" => pc[x] = "k_scan" /\ arg'[x] = arg[x]
      <3>1. CASE p = initproc
        BY <1>7, <3>1 DEF sys_exit, kexit, locals
      <3>2. CASE p # initproc
        BY <1>7, <3>2 DEF sys_exit, kexit, Call, Goto, TypeOK
      <3> QED BY <3>1, <3>2
    <2> QED BY <1>7, <2>1, PidQuiet DEF sys_exit
  <1>8. ASSUME NEW p \in Slot, usertrap_killed(p) PROVE PidInv'
    <2>1. \A x \in Slot : pc'[x] = "k_scan" => pc[x] = "k_scan" /\ arg'[x] = arg[x]
      <3>1. CASE p = initproc
        BY <1>8, <3>1 DEF usertrap_killed, kexit, locals
      <3>2. CASE p # initproc
        BY <1>8, <3>2 DEF usertrap_killed, kexit, Call, Goto, TypeOK
      <3> QED BY <3>1, <3>2
    <2> QED BY <1>8, <2>1, PidQuiet DEF usertrap_killed
  <1>9. ASSUME NEW p \in Slot, kexit_acquire(p) PROVE PidInv'
    BY <1>9, SlotFacts
    DEF kexit_acquire, Goto, locals, locks, TypeOK, At, ControlInv, StatePc,
        Embryo, PidInv, FreshSlot, PidUnique
  <1>10. ASSUME NEW p \in Slot, reparent(p) PROVE PidInv'
    BY <1>10, SlotFacts
    DEF reparent, NextSlot, Goto, locals, locks, TypeOK, At, ControlInv,
        StatePc, Embryo, PidInv, FreshSlot, PidUnique
  <1>11. ASSUME NEW p \in Slot, reparent_wakeup(p) PROVE PidInv'
    BY <1>11, SlotFacts
    DEF reparent_wakeup, wakeup, Goto, locals, locks, TypeOK, At, ControlInv,
        StatePc, Embryo, PidInv, FreshSlot, PidUnique
  <1>12. ASSUME NEW p \in Slot, kexit_wakeup(p) PROVE PidInv'
    BY <1>12, SlotFacts
    DEF kexit_wakeup, wakeup, Goto, locals, locks, TypeOK, At, ControlInv,
        StatePc, Embryo, PidInv, FreshSlot, PidUnique
  <1>13. ASSUME NEW p \in Slot, kexit_zombie(p) PROVE PidInv'
    BY <1>13, SlotFacts
    DEF kexit_zombie, sched, Goto, locals, locks, TypeOK, At, ControlInv,
        StatePc, Embryo, PidInv, FreshSlot, PidUnique
  <1>14. ASSUME NEW p \in Slot, NEW a \in {0, 1}, sys_wait(p, a) PROVE PidInv'
    BY <1>14, SlotFacts
    DEF sys_wait, Call, Goto, locals, locks, TypeOK, At, ControlInv, StatePc,
        Embryo, PidInv, FreshSlot, PidUnique
  <1>15. ASSUME NEW p \in Slot, kwait_acquire(p) PROVE PidInv'
    BY <1>15, SlotFacts
    DEF kwait_acquire, Goto, locals, locks, TypeOK, At, ControlInv, StatePc,
        Embryo, PidInv, FreshSlot, PidUnique
  <1>16. ASSUME NEW p \in Slot, kwait_scan(p) PROVE PidInv'
    BY <1>16, SlotFacts
    DEF kwait_scan, NextSlot, Goto, locals, locks, TypeOK, At, ControlInv,
        StatePc, Embryo, PidInv, FreshSlot, PidUnique
  <1>17. ASSUME NEW p \in Slot, kwait_reap(p) PROVE PidInv'
    BY <1>17, SlotFacts
    DEF kwait_reap, freeproc, Return, Goto, locals, locks, TypeOK, At,
        ControlInv, StatePc, Embryo, PidInv, FreshSlot, PidUnique
  <1>18. ASSUME NEW p \in Slot, kwait_copyout_fail(p) PROVE PidInv'
    BY <1>18, SlotFacts
    DEF kwait_copyout_fail, Return, Goto, locals, locks, TypeOK, At, ControlInv,
        StatePc, Embryo, PidInv, FreshSlot, PidUnique
  <1>19. ASSUME NEW p \in Slot, kwait_check(p) PROVE PidInv'
    <2>1. \A x \in Slot : pc'[x] = "k_scan" => pc[x] = "k_scan" /\ arg'[x] = arg[x]
      <3>1. CASE Return(p)
        BY <3>1 DEF Return, Goto, TypeOK
      <3>2. CASE Goto(p, "w_prep") /\ UNCHANGED locals
        BY <3>2 DEF Goto, locals, TypeOK
      <3> QED BY <1>19, <3>1, <3>2 DEF kwait_check, locals
    <2> QED BY <1>19, <2>1, PidQuiet DEF kwait_check
  <1>20. ASSUME NEW p \in Slot, kwait_prepare(p) PROVE PidInv'
    BY <1>20, SlotFacts
    DEF kwait_prepare, sleep_prepare, Goto, locals, locks, TypeOK, At,
        ControlInv, StatePc, Embryo, PidInv, FreshSlot, PidUnique
  <1>21. ASSUME NEW p \in Slot, kwait_sleep(p) PROVE PidInv'
    BY <1>21, SlotFacts
    DEF kwait_sleep, sleep, sched, Goto, locals, locks, TypeOK, At, ControlInv,
        StatePc, Embryo, PidInv, FreshSlot, PidUnique
  <1>22. ASSUME NEW p \in Slot, NEW n \in KillTargets, sys_kill(p, n) PROVE PidInv'
    <2>1. CASE n = 0
      BY <1>22, <2>1, PidQuiet DEF sys_kill, locals
    <2>2. CASE n # 0
      <3>1. Call(p, "k_scan", n)
        BY <1>22, <2>2 DEF sys_kill
      <3>2. UNCHANGED <<state, chan, killed, xstate, pid, parent, nextpid>>
        BY <1>22 DEF sys_kill
      <3>3. \A x \in Slot : pc'[x] = "k_scan" => arg'[x] # 0
        BY <2>2, <3>1 DEF Call, Goto, TypeOK, PidInv
      <3> QED BY <3>2, <3>3 DEF PidInv, FreshSlot, PidUnique
    <2> QED BY <2>1, <2>2
  <1>23. ASSUME NEW p \in Slot, kkill(p) PROVE PidInv'
    <2>1. \A x \in Slot : pc'[x] = "k_scan" => pc[x] = "k_scan" /\ arg'[x] = arg[x]
      <3>1. CASE Return(p)
        BY <3>1 DEF Return, Goto, TypeOK
      <3>2. CASE UNCHANGED <<pc, arg>>
        BY <3>2
      <3> QED BY <1>23, <3>1, <3>2 DEF kkill
    <2>2. CASE pid[pp[p]] = arg[p]
      <3>1. pp[p] \in Slot /\ arg[p] # 0
        BY <1>23 DEF kkill, At, TypeOK, PidInv
      <3>2. state[pp[p]] # "UNUSED"
        BY <2>2, <3>1 DEF PidInv, FreshSlot
      <3>3. /\ UNCHANGED <<chan, xstate, pid, parent, nextpid>>
            /\ killed' = [killed EXCEPT ![pp[p]] = TRUE]
            /\ \A x \in Slot : state'[x] = "UNUSED" <=> state[x] = "UNUSED"
        BY <1>23, <2>2 DEF kkill, TypeOK
      <3> QED BY <2>1, <3>1, <3>2, <3>3 DEF PidInv, FreshSlot, PidUnique, TypeOK
    <2>3. CASE pid[pp[p]] # arg[p]
      <3>1. UNCHANGED <<state, chan, killed, xstate, pid, parent, nextpid>>
        BY <1>23, <2>3 DEF kkill
      <3> QED BY <2>1, <3>1, PidQuiet
    <2> QED BY <2>2, <2>3
  <1>24. ASSUME NEW p \in Slot, setkilled(p) PROVE PidInv'
    BY <1>24, SlotFacts
    DEF setkilled, locals, locks, TypeOK, At, ControlInv, StatePc, Embryo,
        PidInv, FreshSlot, PidUnique
  <1>25. ASSUME NEW p \in Slot, NEW n \in PauseArgs, sys_pause(p, n) PROVE PidInv'
    BY <1>25, SlotFacts
    DEF sys_pause, Call, Goto, locals, locks, TypeOK, At, ControlInv, StatePc,
        Embryo, PidInv, FreshSlot, PidUnique
  <1>26. ASSUME NEW p \in Slot, pause_start(p) PROVE PidInv'
    BY <1>26, SlotFacts
    DEF pause_start, Goto, locals, locks, TypeOK, At, ControlInv, StatePc,
        Embryo, PidInv, FreshSlot, PidUnique
  <1>27. ASSUME NEW p \in Slot, pause_check(p) PROVE PidInv'
    BY <1>27, SlotFacts
    DEF pause_check, Return, Goto, locals, locks, TypeOK, At, ControlInv,
        StatePc, Embryo, PidInv, FreshSlot, PidUnique
  <1>28. ASSUME NEW p \in Slot, pause_prepare(p) PROVE PidInv'
    BY <1>28, SlotFacts
    DEF pause_prepare, sleep_prepare, Goto, locals, locks, TypeOK, At,
        ControlInv, StatePc, Embryo, PidInv, FreshSlot, PidUnique
  <1>29. ASSUME NEW p \in Slot, pause_sleep(p) PROVE PidInv'
    BY <1>29, SlotFacts
    DEF pause_sleep, sleep, sched, Goto, locals, locks, TypeOK, At, ControlInv,
        StatePc, Embryo, PidInv, FreshSlot, PidUnique
  <1>30. ASSUME NEW p \in Slot, pause_acquire(p) PROVE PidInv'
    BY <1>30, SlotFacts
    DEF pause_acquire, Goto, locals, locks, TypeOK, At, ControlInv, StatePc,
        Embryo, PidInv, FreshSlot, PidUnique
  <1>31. ASSUME NEW p \in Slot, yield(p) PROVE PidInv'
    BY <1>31, SlotFacts
    DEF yield, sched, locals, locks, TypeOK, At, ControlInv, StatePc, Embryo,
        PidInv, FreshSlot, PidUnique
  <1>32. ASSUME NEW p \in Slot, NEW c \in CPUs, scheduler(c, p) PROVE PidInv'
    BY <1>32, SlotFacts
    DEF scheduler, locals, locks, TypeOK, At, ControlInv, StatePc, Embryo,
        PidInv, FreshSlot, PidUnique
  <1>33. ASSUME clockintr PROVE PidInv'
    BY <1>33, SlotFacts
    DEF clockintr, locals, locks, TypeOK, At, ControlInv, StatePc, Embryo,
        PidInv, FreshSlot, PidUnique
  <1>34. ASSUME clockintr_wakeup PROVE PidInv'
    BY <1>34, SlotFacts
    DEF clockintr_wakeup, wakeup, locals, locks, TypeOK, At, ControlInv,
        StatePc, Embryo, PidInv, FreshSlot, PidUnique
  <1>35. CASE UNCHANGED vars
    BY <1>35
      DEF vars, TypeOK, At, ControlInv, StatePc, Embryo, PidInv, FreshSlot,
          PidUnique
  <1> QED
    BY <1>1, <1>2, <1>3, <1>4, <1>5, <1>6, <1>7, <1>8, <1>9, <1>10, <1>11,
       <1>12, <1>13, <1>14, <1>15, <1>16, <1>17, <1>18, <1>19, <1>20, <1>21,
       <1>22, <1>23, <1>24, <1>25, <1>26, <1>27, <1>28, <1>29, <1>30, <1>31,
       <1>32, <1>33, <1>34, <1>35
    DEF Next, User, Step, Acquire, Advance, Clock

(* When nobody kills init, no step reaches a panic(): sched() is never       *)
(* entered with wait_lock or tickslock held, and no zombie is scheduled.     *)
LEMMA PanicStep ==
  ASSUME 1 \notin KillTargets, TypeOK, TypeOK', ControlInv, PanicInv, [Next]_vars
  PROVE  PanicInv'
  <1>1. ASSUME NEW p \in Slot, sys_fork(p) PROVE PanicInv'
    BY <1>1, SlotFacts
    DEF sys_fork, Call, Goto, locals, locks, TypeOK, At, ControlInv,
        LockDiscipline, StatePc, InitLives, HoldsWait, HoldsTicks, Alive,
        ExitPc, PanicInv
  <1>2. ASSUME NEW p \in Slot, allocproc_skip(p) PROVE PanicInv'
    BY <1>2, SlotFacts
    DEF allocproc_skip, NextSlot, Goto, locals, locks, TypeOK, At, ControlInv,
        LockDiscipline, StatePc, InitLives, HoldsWait, HoldsTicks, Alive,
        ExitPc, PanicInv
  <1>3. ASSUME NEW p \in Slot, allocproc(p) PROVE PanicInv'
    BY <1>3, SlotFacts
    DEF allocproc, locals, locks, TypeOK, At, ControlInv, LockDiscipline,
        StatePc, InitLives, HoldsWait, HoldsTicks, Alive, ExitPc, PanicInv
  <1>4. ASSUME NEW p \in Slot, allocproc_fail(p) PROVE PanicInv'
    BY <1>4, SlotFacts
    DEF allocproc_fail, freeproc, Return, Goto, locals, locks, TypeOK, At,
        ControlInv, LockDiscipline, StatePc, InitLives, HoldsWait, HoldsTicks,
        Alive, ExitPc, PanicInv
  <1>5. ASSUME NEW p \in Slot, kfork_parent(p) PROVE PanicInv'
    BY <1>5, SlotFacts
    DEF kfork_parent, Goto, locals, locks, TypeOK, At, ControlInv,
        LockDiscipline, StatePc, InitLives, HoldsWait, HoldsTicks, Alive,
        ExitPc, PanicInv
  <1>6. ASSUME NEW p \in Slot, kfork_runnable(p) PROVE PanicInv'
    BY <1>6, SlotFacts
    DEF kfork_runnable, Return, Goto, locals, locks, TypeOK, At, ControlInv,
        LockDiscipline, StatePc, InitLives, HoldsWait, HoldsTicks, Alive,
        ExitPc, PanicInv
  <1>7. ASSUME NEW p \in Slot, sys_exit(p) PROVE PanicInv'
    BY <1>7, SlotFacts
    DEF sys_exit, kexit, Call, Goto, locals, locks, TypeOK, At, ControlInv,
        LockDiscipline, StatePc, InitLives, HoldsWait, HoldsTicks, Alive,
        ExitPc, PanicInv
  <1>8. ASSUME NEW p \in Slot, usertrap_killed(p) PROVE PanicInv'
    BY <1>8, SlotFacts
    DEF usertrap_killed, kexit, Call, Goto, locals, locks, TypeOK, At,
        ControlInv, LockDiscipline, StatePc, InitLives, HoldsWait, HoldsTicks,
        Alive, ExitPc, PanicInv
  <1>9. ASSUME NEW p \in Slot, kexit_acquire(p) PROVE PanicInv'
    BY <1>9, SlotFacts
    DEF kexit_acquire, Goto, locals, locks, TypeOK, At, ControlInv,
        LockDiscipline, StatePc, InitLives, HoldsWait, HoldsTicks, Alive,
        ExitPc, PanicInv
  <1>10. ASSUME NEW p \in Slot, reparent(p) PROVE PanicInv'
    BY <1>10, SlotFacts
    DEF reparent, NextSlot, Goto, locals, locks, TypeOK, At, ControlInv,
        LockDiscipline, StatePc, InitLives, HoldsWait, HoldsTicks, Alive,
        ExitPc, PanicInv
  <1>11. ASSUME NEW p \in Slot, reparent_wakeup(p) PROVE PanicInv'
    BY <1>11, SlotFacts
    DEF reparent_wakeup, wakeup, Goto, locals, locks, TypeOK, At, ControlInv,
        LockDiscipline, StatePc, InitLives, HoldsWait, HoldsTicks, Alive,
        ExitPc, PanicInv
  <1>12. ASSUME NEW p \in Slot, kexit_wakeup(p) PROVE PanicInv'
    BY <1>12, SlotFacts
    DEF kexit_wakeup, wakeup, Goto, locals, locks, TypeOK, At, ControlInv,
        LockDiscipline, StatePc, InitLives, HoldsWait, HoldsTicks, Alive,
        ExitPc, PanicInv
  <1>13. ASSUME NEW p \in Slot, kexit_zombie(p) PROVE PanicInv'
    BY <1>13, SlotFacts
    DEF kexit_zombie, sched, Goto, locals, locks, TypeOK, At, ControlInv,
        LockDiscipline, StatePc, InitLives, HoldsWait, HoldsTicks, Alive,
        ExitPc, PanicInv
  <1>14. ASSUME NEW p \in Slot, NEW a \in {0, 1}, sys_wait(p, a) PROVE PanicInv'
    BY <1>14, SlotFacts
    DEF sys_wait, Call, Goto, locals, locks, TypeOK, At, ControlInv,
        LockDiscipline, StatePc, InitLives, HoldsWait, HoldsTicks, Alive,
        ExitPc, PanicInv
  <1>15. ASSUME NEW p \in Slot, kwait_acquire(p) PROVE PanicInv'
    BY <1>15, SlotFacts
    DEF kwait_acquire, Goto, locals, locks, TypeOK, At, ControlInv,
        LockDiscipline, StatePc, InitLives, HoldsWait, HoldsTicks, Alive,
        ExitPc, PanicInv
  <1>16. ASSUME NEW p \in Slot, kwait_scan(p) PROVE PanicInv'
    BY <1>16, SlotFacts
    DEF kwait_scan, NextSlot, Goto, locals, locks, TypeOK, At, ControlInv,
        LockDiscipline, StatePc, InitLives, HoldsWait, HoldsTicks, Alive,
        ExitPc, PanicInv
  <1>17. ASSUME NEW p \in Slot, kwait_reap(p) PROVE PanicInv'
    BY <1>17, SlotFacts
    DEF kwait_reap, freeproc, Return, Goto, locals, locks, TypeOK, At,
        ControlInv, LockDiscipline, StatePc, InitLives, HoldsWait, HoldsTicks,
        Alive, ExitPc, PanicInv
  <1>18. ASSUME NEW p \in Slot, kwait_copyout_fail(p) PROVE PanicInv'
    BY <1>18, SlotFacts
    DEF kwait_copyout_fail, Return, Goto, locals, locks, TypeOK, At, ControlInv,
        LockDiscipline, StatePc, InitLives, HoldsWait, HoldsTicks, Alive,
        ExitPc, PanicInv
  <1>19. ASSUME NEW p \in Slot, kwait_check(p) PROVE PanicInv'
    BY <1>19, SlotFacts
    DEF kwait_check, Return, Goto, locals, locks, TypeOK, At, ControlInv,
        LockDiscipline, StatePc, InitLives, HoldsWait, HoldsTicks, Alive,
        ExitPc, PanicInv
  <1>20. ASSUME NEW p \in Slot, kwait_prepare(p) PROVE PanicInv'
    BY <1>20, SlotFacts
    DEF kwait_prepare, sleep_prepare, Goto, locals, locks, TypeOK, At,
        ControlInv, LockDiscipline, StatePc, InitLives, HoldsWait, HoldsTicks,
        Alive, ExitPc, PanicInv
  <1>21. ASSUME NEW p \in Slot, kwait_sleep(p) PROVE PanicInv'
    BY <1>21, SlotFacts
    DEF kwait_sleep, sleep, sched, Goto, locals, locks, TypeOK, At, ControlInv,
        LockDiscipline, StatePc, InitLives, HoldsWait, HoldsTicks, Alive,
        ExitPc, PanicInv
  <1>22. ASSUME NEW p \in Slot, NEW n \in KillTargets, sys_kill(p, n) PROVE PanicInv'
    BY <1>22, SlotFacts
    DEF sys_kill, Call, Goto, locals, locks, TypeOK, At, ControlInv,
        LockDiscipline, StatePc, InitLives, HoldsWait, HoldsTicks, Alive,
        ExitPc, PanicInv
  <1>23. ASSUME NEW p \in Slot, kkill(p) PROVE PanicInv'
    <2>1. \A x \in Slot : pc'[x] = "k_scan" => pc[x] = "k_scan" /\ arg'[x] = arg[x]
      <3>1. CASE Return(p)
        BY <3>1 DEF Return, Goto, TypeOK
      <3>2. CASE UNCHANGED <<pc, arg>>
        BY <3>2
      <3> QED BY <1>23, <3>1, <3>2 DEF kkill
    <2>2. pid[pp[p]] = arg[p] => pp[p] # initproc
      BY <1>23, SlotOrder DEF kkill, At, PanicInv, initproc
    <2>3. ~killed'[initproc]
      <3>1. CASE pid[pp[p]] = arg[p]
        BY <1>23, <2>2, <3>1, SlotFacts DEF kkill, TypeOK, PanicInv
      <3>2. CASE pid[pp[p]] # arg[p]
        BY <1>23, <3>2 DEF kkill, PanicInv
      <3> QED BY <3>1, <3>2
    <2> QED BY <1>23, <2>1, <2>3 DEF kkill, PanicInv
  <1>24. ASSUME NEW p \in Slot, setkilled(p) PROVE PanicInv'
    BY <1>24, SlotFacts
    DEF setkilled, locals, locks, TypeOK, At, ControlInv, LockDiscipline,
        StatePc, InitLives, HoldsWait, HoldsTicks, Alive, ExitPc, PanicInv
  <1>25. ASSUME NEW p \in Slot, NEW n \in PauseArgs, sys_pause(p, n) PROVE PanicInv'
    BY <1>25, SlotFacts
    DEF sys_pause, Call, Goto, locals, locks, TypeOK, At, ControlInv,
        LockDiscipline, StatePc, InitLives, HoldsWait, HoldsTicks, Alive,
        ExitPc, PanicInv
  <1>26. ASSUME NEW p \in Slot, pause_start(p) PROVE PanicInv'
    BY <1>26, SlotFacts
    DEF pause_start, Goto, locals, locks, TypeOK, At, ControlInv,
        LockDiscipline, StatePc, InitLives, HoldsWait, HoldsTicks, Alive,
        ExitPc, PanicInv
  <1>27. ASSUME NEW p \in Slot, pause_check(p) PROVE PanicInv'
    BY <1>27, SlotFacts
    DEF pause_check, Return, Goto, locals, locks, TypeOK, At, ControlInv,
        LockDiscipline, StatePc, InitLives, HoldsWait, HoldsTicks, Alive,
        ExitPc, PanicInv
  <1>28. ASSUME NEW p \in Slot, pause_prepare(p) PROVE PanicInv'
    BY <1>28, SlotFacts
    DEF pause_prepare, sleep_prepare, Goto, locals, locks, TypeOK, At,
        ControlInv, LockDiscipline, StatePc, InitLives, HoldsWait, HoldsTicks,
        Alive, ExitPc, PanicInv
  <1>29. ASSUME NEW p \in Slot, pause_sleep(p) PROVE PanicInv'
    BY <1>29, SlotFacts
    DEF pause_sleep, sleep, sched, Goto, locals, locks, TypeOK, At, ControlInv,
        LockDiscipline, StatePc, InitLives, HoldsWait, HoldsTicks, Alive,
        ExitPc, PanicInv
  <1>30. ASSUME NEW p \in Slot, pause_acquire(p) PROVE PanicInv'
    BY <1>30, SlotFacts
    DEF pause_acquire, Goto, locals, locks, TypeOK, At, ControlInv,
        LockDiscipline, StatePc, InitLives, HoldsWait, HoldsTicks, Alive,
        ExitPc, PanicInv
  <1>31. ASSUME NEW p \in Slot, yield(p) PROVE PanicInv'
    BY <1>31, SlotFacts
    DEF yield, sched, locals, locks, TypeOK, At, ControlInv, LockDiscipline,
        StatePc, InitLives, HoldsWait, HoldsTicks, Alive, ExitPc, PanicInv
  <1>32. ASSUME NEW p \in Slot, NEW c \in CPUs, scheduler(c, p) PROVE PanicInv'
    BY <1>32, SlotFacts
    DEF scheduler, locals, locks, TypeOK, At, ControlInv, LockDiscipline,
        StatePc, InitLives, HoldsWait, HoldsTicks, Alive, ExitPc, PanicInv
  <1>33. ASSUME clockintr PROVE PanicInv'
    BY <1>33, SlotFacts
    DEF clockintr, locals, locks, TypeOK, At, ControlInv, LockDiscipline,
        StatePc, InitLives, HoldsWait, HoldsTicks, Alive, ExitPc, PanicInv
  <1>34. ASSUME clockintr_wakeup PROVE PanicInv'
    BY <1>34, SlotFacts
    DEF clockintr_wakeup, wakeup, locals, locks, TypeOK, At, ControlInv,
        LockDiscipline, StatePc, InitLives, HoldsWait, HoldsTicks, Alive,
        ExitPc, PanicInv
  <1>35. CASE UNCHANGED vars
    BY <1>35
      DEF vars, TypeOK, At, ControlInv, LockDiscipline, StatePc, InitLives,
          HoldsWait, HoldsTicks, Alive, ExitPc, PanicInv
  <1> QED
    BY <1>1, <1>2, <1>3, <1>4, <1>5, <1>6, <1>7, <1>8, <1>9, <1>10, <1>11,
       <1>12, <1>13, <1>14, <1>15, <1>16, <1>17, <1>18, <1>19, <1>20, <1>21,
       <1>22, <1>23, <1>24, <1>25, <1>26, <1>27, <1>28, <1>29, <1>30, <1>31,
       <1>32, <1>33, <1>34, <1>35
    DEF Next, User, Step, Acquire, Advance, Clock

(* A step that changes a zombie is the kwait() of its parent, which holds    *)
(* wait_lock.                                                                *)
LEMMA ReapStep ==
  ASSUME TypeOK, TypeOK', ControlInv, [Next]_vars
  PROVE  Reaped
  <1>1. ASSUME NEW p \in Slot, sys_fork(p) PROVE Reaped
    BY <1>1, SlotFacts
    DEF sys_fork, Call, Goto, locals, locks, TypeOK, At, ControlInv,
        LockDiscipline, StatePc, Embryo, HoldsWait, Reaped
  <1>2. ASSUME NEW p \in Slot, allocproc_skip(p) PROVE Reaped
    BY <1>2, SlotFacts
    DEF allocproc_skip, NextSlot, Goto, locals, locks, TypeOK, At, ControlInv,
        LockDiscipline, StatePc, Embryo, HoldsWait, Reaped
  <1>3. ASSUME NEW p \in Slot, allocproc(p) PROVE Reaped
    BY <1>3, SlotFacts
    DEF allocproc, locals, locks, TypeOK, At, ControlInv, LockDiscipline,
        StatePc, Embryo, HoldsWait, Reaped
  <1>4. ASSUME NEW p \in Slot, allocproc_fail(p) PROVE Reaped
    BY <1>4, SlotFacts
    DEF allocproc_fail, freeproc, Return, Goto, locals, locks, TypeOK, At,
        ControlInv, LockDiscipline, StatePc, Embryo, HoldsWait, Reaped
  <1>5. ASSUME NEW p \in Slot, kfork_parent(p) PROVE Reaped
    BY <1>5, SlotFacts
    DEF kfork_parent, Goto, locals, locks, TypeOK, At, ControlInv,
        LockDiscipline, StatePc, Embryo, HoldsWait, Reaped
  <1>6. ASSUME NEW p \in Slot, kfork_runnable(p) PROVE Reaped
    BY <1>6, SlotFacts
    DEF kfork_runnable, Return, Goto, locals, locks, TypeOK, At, ControlInv,
        LockDiscipline, StatePc, Embryo, HoldsWait, Reaped
  <1>7. ASSUME NEW p \in Slot, sys_exit(p) PROVE Reaped
    BY <1>7, SlotFacts
    DEF sys_exit, kexit, Call, Goto, locals, locks, TypeOK, At, ControlInv,
        LockDiscipline, StatePc, Embryo, HoldsWait, Reaped
  <1>8. ASSUME NEW p \in Slot, usertrap_killed(p) PROVE Reaped
    BY <1>8, SlotFacts
    DEF usertrap_killed, kexit, Call, Goto, locals, locks, TypeOK, At,
        ControlInv, LockDiscipline, StatePc, Embryo, HoldsWait, Reaped
  <1>9. ASSUME NEW p \in Slot, kexit_acquire(p) PROVE Reaped
    BY <1>9, SlotFacts
    DEF kexit_acquire, Goto, locals, locks, TypeOK, At, ControlInv,
        LockDiscipline, StatePc, Embryo, HoldsWait, Reaped
  <1>10. ASSUME NEW p \in Slot, reparent(p) PROVE Reaped
    BY <1>10, SlotFacts
    DEF reparent, NextSlot, Goto, locals, locks, TypeOK, At, ControlInv,
        LockDiscipline, StatePc, Embryo, HoldsWait, Reaped
  <1>11. ASSUME NEW p \in Slot, reparent_wakeup(p) PROVE Reaped
    BY <1>11, SlotFacts
    DEF reparent_wakeup, wakeup, Goto, locals, locks, TypeOK, At, ControlInv,
        LockDiscipline, StatePc, Embryo, HoldsWait, Reaped
  <1>12. ASSUME NEW p \in Slot, kexit_wakeup(p) PROVE Reaped
    BY <1>12, SlotFacts
    DEF kexit_wakeup, wakeup, Goto, locals, locks, TypeOK, At, ControlInv,
        LockDiscipline, StatePc, Embryo, HoldsWait, Reaped
  <1>13. ASSUME NEW p \in Slot, kexit_zombie(p) PROVE Reaped
    BY <1>13, SlotFacts
    DEF kexit_zombie, sched, Goto, locals, locks, TypeOK, At, ControlInv,
        LockDiscipline, StatePc, Embryo, HoldsWait, Reaped
  <1>14. ASSUME NEW p \in Slot, NEW a \in {0, 1}, sys_wait(p, a) PROVE Reaped
    BY <1>14, SlotFacts
    DEF sys_wait, Call, Goto, locals, locks, TypeOK, At, ControlInv,
        LockDiscipline, StatePc, Embryo, HoldsWait, Reaped
  <1>15. ASSUME NEW p \in Slot, kwait_acquire(p) PROVE Reaped
    BY <1>15, SlotFacts
    DEF kwait_acquire, Goto, locals, locks, TypeOK, At, ControlInv,
        LockDiscipline, StatePc, Embryo, HoldsWait, Reaped
  <1>16. ASSUME NEW p \in Slot, kwait_scan(p) PROVE Reaped
    BY <1>16, SlotFacts
    DEF kwait_scan, NextSlot, Goto, locals, locks, TypeOK, At, ControlInv,
        LockDiscipline, StatePc, Embryo, HoldsWait, Reaped
  <1>17. ASSUME NEW p \in Slot, kwait_reap(p) PROVE Reaped
    BY <1>17, SlotFacts
    DEF kwait_reap, freeproc, Return, Goto, locals, locks, TypeOK, At,
        ControlInv, LockDiscipline, StatePc, Embryo, HoldsWait, Reaped
  <1>18. ASSUME NEW p \in Slot, kwait_copyout_fail(p) PROVE Reaped
    BY <1>18, SlotFacts
    DEF kwait_copyout_fail, Return, Goto, locals, locks, TypeOK, At, ControlInv,
        LockDiscipline, StatePc, Embryo, HoldsWait, Reaped
  <1>19. ASSUME NEW p \in Slot, kwait_check(p) PROVE Reaped
    BY <1>19, SlotFacts
    DEF kwait_check, Return, Goto, locals, locks, TypeOK, At, ControlInv,
        LockDiscipline, StatePc, Embryo, HoldsWait, Reaped
  <1>20. ASSUME NEW p \in Slot, kwait_prepare(p) PROVE Reaped
    BY <1>20, SlotFacts
    DEF kwait_prepare, sleep_prepare, Goto, locals, locks, TypeOK, At,
        ControlInv, LockDiscipline, StatePc, Embryo, HoldsWait, Reaped
  <1>21. ASSUME NEW p \in Slot, kwait_sleep(p) PROVE Reaped
    BY <1>21, SlotFacts
    DEF kwait_sleep, sleep, sched, Goto, locals, locks, TypeOK, At, ControlInv,
        LockDiscipline, StatePc, Embryo, HoldsWait, Reaped
  <1>22. ASSUME NEW p \in Slot, NEW n \in KillTargets, sys_kill(p, n) PROVE Reaped
    BY <1>22, SlotFacts
    DEF sys_kill, Call, Goto, locals, locks, TypeOK, At, ControlInv,
        LockDiscipline, StatePc, Embryo, HoldsWait, Reaped
  <1>23. ASSUME NEW p \in Slot, kkill(p) PROVE Reaped
    BY <1>23, SlotFacts
    DEF kkill, Return, Goto, locals, locks, TypeOK, At, ControlInv,
        LockDiscipline, StatePc, Embryo, HoldsWait, Reaped
  <1>24. ASSUME NEW p \in Slot, setkilled(p) PROVE Reaped
    BY <1>24, SlotFacts
    DEF setkilled, locals, locks, TypeOK, At, ControlInv, LockDiscipline,
        StatePc, Embryo, HoldsWait, Reaped
  <1>25. ASSUME NEW p \in Slot, NEW n \in PauseArgs, sys_pause(p, n) PROVE Reaped
    BY <1>25, SlotFacts
    DEF sys_pause, Call, Goto, locals, locks, TypeOK, At, ControlInv,
        LockDiscipline, StatePc, Embryo, HoldsWait, Reaped
  <1>26. ASSUME NEW p \in Slot, pause_start(p) PROVE Reaped
    BY <1>26, SlotFacts
    DEF pause_start, Goto, locals, locks, TypeOK, At, ControlInv,
        LockDiscipline, StatePc, Embryo, HoldsWait, Reaped
  <1>27. ASSUME NEW p \in Slot, pause_check(p) PROVE Reaped
    BY <1>27, SlotFacts
    DEF pause_check, Return, Goto, locals, locks, TypeOK, At, ControlInv,
        LockDiscipline, StatePc, Embryo, HoldsWait, Reaped
  <1>28. ASSUME NEW p \in Slot, pause_prepare(p) PROVE Reaped
    BY <1>28, SlotFacts
    DEF pause_prepare, sleep_prepare, Goto, locals, locks, TypeOK, At,
        ControlInv, LockDiscipline, StatePc, Embryo, HoldsWait, Reaped
  <1>29. ASSUME NEW p \in Slot, pause_sleep(p) PROVE Reaped
    BY <1>29, SlotFacts
    DEF pause_sleep, sleep, sched, Goto, locals, locks, TypeOK, At, ControlInv,
        LockDiscipline, StatePc, Embryo, HoldsWait, Reaped
  <1>30. ASSUME NEW p \in Slot, pause_acquire(p) PROVE Reaped
    BY <1>30, SlotFacts
    DEF pause_acquire, Goto, locals, locks, TypeOK, At, ControlInv,
        LockDiscipline, StatePc, Embryo, HoldsWait, Reaped
  <1>31. ASSUME NEW p \in Slot, yield(p) PROVE Reaped
    BY <1>31, SlotFacts
    DEF yield, sched, locals, locks, TypeOK, At, ControlInv, LockDiscipline,
        StatePc, Embryo, HoldsWait, Reaped
  <1>32. ASSUME NEW p \in Slot, NEW c \in CPUs, scheduler(c, p) PROVE Reaped
    BY <1>32, SlotFacts
    DEF scheduler, locals, locks, TypeOK, At, ControlInv, LockDiscipline,
        StatePc, Embryo, HoldsWait, Reaped
  <1>33. ASSUME clockintr PROVE Reaped
    BY <1>33, SlotFacts
    DEF clockintr, locals, locks, TypeOK, At, ControlInv, LockDiscipline,
        StatePc, Embryo, HoldsWait, Reaped
  <1>34. ASSUME clockintr_wakeup PROVE Reaped
    BY <1>34, SlotFacts
    DEF clockintr_wakeup, wakeup, locals, locks, TypeOK, At, ControlInv,
        LockDiscipline, StatePc, Embryo, HoldsWait, Reaped
  <1>35. CASE UNCHANGED vars
    BY <1>35
      DEF vars, TypeOK, At, ControlInv, LockDiscipline, StatePc, Embryo,
          HoldsWait, Reaped
  <1> QED
    BY <1>1, <1>2, <1>3, <1>4, <1>5, <1>6, <1>7, <1>8, <1>9, <1>10, <1>11,
       <1>12, <1>13, <1>14, <1>15, <1>16, <1>17, <1>18, <1>19, <1>20, <1>21,
       <1>22, <1>23, <1>24, <1>25, <1>26, <1>27, <1>28, <1>29, <1>30, <1>31,
       <1>32, <1>33, <1>34, <1>35
    DEF Next, User, Step, Acquire, Advance, Clock

-----------------------------------------------------------------------------
(* The theorems. *)

(* The part of the inductive invariant that holds whatever pids are killed. *)
SafeInv == TypeOK /\ ControlInv /\ Counters /\ ParentInv /\ WakeupInv

(* The invariant holds when userinit() returns. *)
LEMMA SafeInit == Init => SafeInv
  <1> SUFFICES ASSUME Init PROVE SafeInv
    OBVIOUS
  <1>1. TypeOK
    BY TypeInit
  <1>2. ControlInv
    BY SlotDistinct
      DEF Init, ControlInv, LockDiscipline, StatePc, Embryo, InitLives, 
       HoldsWait, HoldsTicks, Alive, ExitPc
  <1>3. Counters
    BY DEF Init, Counters
  <1>4. ParentInv
    BY SlotFacts DEF Init, ParentInv, ParentLink, HasParent, OrphanScan, Alive
  <1>5. WakeupInv
    BY SlotFacts DEF Init, WakeupInv, WaitChannel, WaitScan, ExitWakes, Blocked,
       BlockedHasNoZombie, ZombieChild
  <1> QED BY <1>1, <1>2, <1>3, <1>4, <1>5 DEF SafeInv

(* The invariant is inductive. *)
LEMMA SafeStep == SafeInv /\ [Next]_vars => SafeInv'
  <1> SUFFICES ASSUME SafeInv, [Next]_vars PROVE SafeInv'
    OBVIOUS
  <1>1. TypeOK'
    BY TypeStep DEF SafeInv
  <1>2. ControlInv' /\ Counters'
    BY <1>1, ControlStep, CountersStep DEF SafeInv
  <1>3. ParentInv'
    BY <1>1, <1>2, ParentStep DEF SafeInv
  <1>4. WakeupInv'
    BY <1>1, <1>2, WakeupStep DEF SafeInv
  <1> QED BY <1>1, <1>2, <1>3, <1>4 DEF SafeInv

(* The invariant holds in every reachable state, for every number of slots   *)
(* and CPUs and every workload.                                              *)
THEOREM Safety == Spec => []SafeInv
BY SafeInit, SafeStep, PTL DEF Spec

(* wait_lock and tickslock are held exactly by the thread inside their       *)
(* critical sections, which is on a CPU: no lock is carried into sched().    *)
THEOREM LocksHeldRunning == Spec => []LockDiscipline
  <1>1. SafeInv => LockDiscipline
    BY DEF SafeInv, ControlInv
  <1> QED BY <1>1, Safety, PTL

(* kexit() never leaves an orphan: every started process other than init,    *)
(* zombies included, has a parent that can still wait for it.                *)
THEOREM ParentsAlive == Spec => []ParentAlive
  <1>1. SafeInv => ParentAlive
    BY DEF SafeInv, ParentInv, ParentLink, HasParent, ParentAlive
  <1> QED BY <1>1, Safety, PTL

(* The wakeup() of kexit() and reparent() is never lost: while wait_lock is  *)
(* free no process sleeps in kwait() with a zombie child.                    *)
THEOREM WakeupsNotLost == Spec => []NoLostWakeup
  <1>1. SafeInv => NoLostWakeup
    <2> SUFFICES ASSUME SafeInv, wait_lock = NoProc, NEW p \in Slot, NEW q \in Slot,
                        state[p] = "SLEEPING", pc[p] = "w_lock", ZombieChild(p, q)
                 PROVE  FALSE
      BY DEF NoLostWakeup
    <2>1. \E r \in Slot : pc[r] = "x_repw"
      BY DEF SafeInv, WakeupInv, BlockedHasNoZombie, Blocked
    <2> QED BY <2>1, NoHolder DEF SafeInv, HoldsWait
  <1> QED BY <1>1, Safety, PTL

(* The slot-by-slot scan of kwait() is as good as a snapshot: when it        *)
(* decides, havekids is exact and no child has exited behind it.             *)
THEOREM WaitSeesAll == Spec => []ScanIsSnapshot
  <1>1. SafeInv => ScanIsSnapshot
    BY DEF SafeInv, WakeupInv, WaitScan, ScanIsSnapshot, ZombieChild, TypeOK
  <1> QED BY <1>1, Safety, PTL

(* A zombie keeps its pid and status until its own parent reaps it in        *)
(* kwait().                                                                  *)
THEOREM ZombiesReapedByParent == Spec => ReapedByParent
  <1>1. SafeInv /\ SafeInv' /\ [Next]_vars => [Reaped]_vars
    BY ReapStep DEF SafeInv
  <1> QED BY <1>1, Safety, PTL DEF Spec, ReapedByParent

(* The invariant on slots and pids, with the test of pid 0 in kkill().       *)
LEMMA PidSafety ==
  ASSUME RejectsPidZero
  PROVE  Spec => []PidInv
  <1>1. Init => PidInv
    <2>1. initproc = 1 /\ NoProc = 0
      BY SlotFacts, SlotOrder
    <2> QED BY <2>1 DEF Init, PidInv, FreshSlot, PidUnique
  <1>2. SafeInv /\ SafeInv' /\ PidInv /\ [Next]_vars => PidInv'
    BY PidStep DEF SafeInv
  <1> QED BY <1>1, <1>2, Safety, PTL DEF Spec

(* With the test of pid 0 in kkill() (Proyecto3), allocproc() only ever      *)
(* finds slots with nothing left of their last owner, and pids are unique.   *)
THEOREM SlotsFresh ==
  ASSUME RejectsPidZero
  PROVE  Spec => [](FreshSlot /\ PidUnique)
  <1>1. PidInv => FreshSlot /\ PidUnique
    BY DEF PidInv
  <1> QED BY <1>1, PidSafety, PTL

(* As long as nobody kills init, kexit(), sched() and the end of kexit()     *)
(* never panic.                                                              *)
THEOREM Panicless ==
  ASSUME 1 \notin KillTargets
  PROVE  Spec => []NoPanic
  <1>1. Init => PanicInv
    BY SlotFacts DEF Init, PanicInv
  <1>2. SafeInv /\ SafeInv' /\ PanicInv /\ [Next]_vars => PanicInv'
    BY PanicStep DEF SafeInv
  <1>3. PanicInv => NoPanic
    BY DEF PanicInv, NoPanic
  <1> QED BY <1>1, <1>2, <1>3, Safety, PTL DEF Spec

-----------------------------------------------------------------------------
(* CPUs. *)

(* The actions that leave every p->state and every c->proc alone. *)
LEMMA CpuFrame ==
  ASSUME [Next]_vars
  PROVE  \/ UNCHANGED <<state, cpu>>
         \/ \E p \in Slot :
              \/ allocproc(p) \/ allocproc_fail(p) \/ kfork_runnable(p)
              \/ reparent_wakeup(p) \/ kexit_wakeup(p) \/ kexit_zombie(p)
              \/ kwait_reap(p) \/ kwait_sleep(p) \/ kkill(p) \/ pause_sleep(p)
              \/ yield(p) \/ \E c \in CPUs : scheduler(c, p)
         \/ clockintr_wakeup
BY DEF Next, User, Step, Acquire, Advance, Clock, vars, sys_fork, allocproc_skip,
  kfork_parent, sys_exit, usertrap_killed, kexit_acquire, reparent, sys_wait,
  kwait_acquire, kwait_scan, kwait_copyout_fail, kwait_check, kwait_prepare,
  sys_kill, setkilled, sys_pause, pause_start, pause_check, pause_prepare,
  pause_acquire, clockintr

(* A step that leaves c->proc alone, and every RUNNING process RUNNING and   *)
(* no other, keeps one process on each CPU.                                  *)
LEMMA CpuQuiet ==
  ASSUME TypeOK, OneCpuEach, UNCHANGED cpu,
         \A x \in Slot : state'[x] = "RUNNING" <=> state[x] = "RUNNING"
  PROVE  OneCpuEach'
BY SlotFacts DEF TypeOK, OneCpuEach

(* sched() takes p off its CPU and out of RUNNING. *)
LEMMA CpuSched ==
  ASSUME TypeOK, OneCpuEach, NEW p \in Slot, NEW s \in ProcState \ {"RUNNING"},
         sched(p, s)
  PROVE  OneCpuEach'
  <1>1. CASE wait_lock' = p \/ tickslock' = p
    BY <1>1, CpuQuiet DEF sched
  <1>2. CASE ~(wait_lock' = p \/ tickslock' = p)
    <2>1. /\ state' = [state EXCEPT ![p] = s]
          /\ cpu' = [c \in CPUs |-> IF cpu[c] = p THEN NoProc ELSE cpu[c]]
      BY <1>2 DEF sched
    <2> QED BY <2>1, SlotFacts DEF TypeOK, OneCpuEach
  <1> QED BY <1>1, <1>2

(* Every step keeps one process on each CPU: only scheduler() makes a        *)
(* process RUNNING, and only sched() ends that.                              *)
LEMMA CpuStep ==
  ASSUME TypeOK, ControlInv, OneCpuEach, [Next]_vars
  PROVE  OneCpuEach'
  <1>1. ASSUME NEW p \in Slot, allocproc(p) PROVE OneCpuEach'
    BY <1>1, CpuQuiet DEF allocproc, TypeOK
  <1>2. ASSUME NEW p \in Slot, allocproc_fail(p) PROVE OneCpuEach'
    BY <1>2, CpuQuiet DEF allocproc_fail, freeproc, TypeOK
  <1>3. ASSUME NEW p \in Slot, kfork_runnable(p) PROVE OneCpuEach'
    BY <1>3, CpuQuiet DEF kfork_runnable, At, TypeOK, ControlInv, Embryo
  <1>4. ASSUME NEW p \in Slot, reparent_wakeup(p) PROVE OneCpuEach'
    BY <1>4, CpuQuiet DEF reparent_wakeup, wakeup, TypeOK
  <1>5. ASSUME NEW p \in Slot, kexit_wakeup(p) PROVE OneCpuEach'
    BY <1>5, CpuQuiet DEF kexit_wakeup, wakeup, TypeOK
  <1>6. ASSUME NEW p \in Slot, kexit_zombie(p) PROVE OneCpuEach'
    BY <1>6, CpuSched DEF kexit_zombie, ProcState
  <1>7. ASSUME NEW p \in Slot, kwait_reap(p) PROVE OneCpuEach'
    BY <1>7, CpuQuiet DEF kwait_reap, freeproc, TypeOK
  <1>8. ASSUME NEW p \in Slot, kwait_sleep(p) PROVE OneCpuEach'
    BY <1>8, CpuSched, CpuQuiet DEF kwait_sleep, sleep, ProcState
  <1>9. ASSUME NEW p \in Slot, kkill(p) PROVE OneCpuEach'
    BY <1>9, CpuQuiet DEF kkill, TypeOK
  <1>10. ASSUME NEW p \in Slot, pause_sleep(p) PROVE OneCpuEach'
    BY <1>10, CpuSched, CpuQuiet DEF pause_sleep, sleep, ProcState
  <1>11. ASSUME NEW p \in Slot, yield(p) PROVE OneCpuEach'
    BY <1>11, CpuSched DEF yield, ProcState
  <1>12. ASSUME NEW p \in Slot, NEW c \in CPUs, scheduler(c, p) PROVE OneCpuEach'
    BY <1>12, SlotFacts DEF scheduler, TypeOK, OneCpuEach
  <1>13. ASSUME clockintr_wakeup PROVE OneCpuEach'
    BY <1>13, CpuQuiet, SlotFacts DEF clockintr_wakeup, wakeup, TypeOK
  <1>14. CASE UNCHANGED <<state, cpu>>
    BY <1>14, CpuQuiet
  <1> QED
    BY <1>1, <1>2, <1>3, <1>4, <1>5, <1>6, <1>7, <1>8, <1>9, <1>10, <1>11, <1>12,
       <1>13, <1>14, CpuFrame

(* A process is RUNNING exactly when one CPU has it as c->proc, and then     *)
(* only that one: no two CPUs are on the same kernel stack.                  *)
THEOREM OneProcessPerCpu == Spec => []OneCpuEach
  <1>1. Init => OneCpuEach
    BY SlotFacts DEF Init, OneCpuEach
  <1>2. SafeInv /\ OneCpuEach /\ [Next]_vars => OneCpuEach'
    BY CpuStep DEF SafeInv
  <1> QED BY <1>1, <1>2, Safety, PTL DEF Spec
-----------------------------------------------------------------------------
(* Ticks. *)

(* The channel &ticks is neither a process nor none. *)
LEMMA TicksDistinct == TICKS \notin Slot /\ TICKS # NoProc /\ TICKS # 0
BY ProcAssumption DEF TICKS, Slot, NoProc

(* A thread that is about to sleep in pause(), or sleeps there, was there    *)
(* before, and at most a wakeup has reached it.                              *)
QuietPause(x) ==
  /\ pc'[x] \in {"p_prep", "p_sleep", "p_lock"} => pc'[x] = pc[x]
  /\ pc'[x] = "p_sleep" => chan'[x] \in {chan[x], 0}
  /\ pc'[x] = "p_lock" /\ state'[x] = "SLEEPING" =>
       state[x] = "SLEEPING" /\ chan'[x] = chan[x]

(* What is known of pause() is kept by a step that is quiet for every thread *)
(* and leaves the ticks alone.                                               *)
LEMMA TickQuiet ==
  ASSUME TypeOK, TickInv, UNCHANGED <<left, tick>>, \A x \in Slot : QuietPause(x)
  PROVE  TickInv'
BY SlotFacts DEF TypeOK, TickInv, Pausing, QuietPause

(* wakeup() of another channel than &ticks is quiet. *)
LEMMA WakeupTickQuiet ==
  ASSUME TypeOK, TickInv, NEW q \in Slot, NEW ch \in Slot \cup {NoProc}, wakeup(q, ch),
         \A x \in Slot : pc'[x] \in {"p_prep", "p_sleep", "p_lock"} => pc'[x] = pc[x]
  PROVE  \A x \in Slot : QuietPause(x)
BY SlotFacts, TicksDistinct DEF TypeOK, TickInv, QuietPause, wakeup

(* Every step keeps what is known of pause(): the channel is registered      *)
(* before tickslock is released, so that a tick that comes before the sleep  *)
(* clears it.                                                                *)
LEMMA TickStep ==
  ASSUME TypeOK, TypeOK', ControlInv, TickInv, [Next]_vars
  PROVE  TickInv'
  <1>1. ASSUME NEW p \in Slot, sys_fork(p) PROVE TickInv'
    BY <1>1, TickQuiet
      DEF sys_fork, Call, Goto, locals, At, TypeOK, ControlInv, StatePc, Embryo,
          QuietPause
  <1>2. ASSUME NEW p \in Slot, allocproc_skip(p) PROVE TickInv'
    BY <1>2, TickQuiet
      DEF allocproc_skip, NextSlot, Goto, locals, At, TypeOK, ControlInv,
          StatePc, Embryo, QuietPause
  <1>3. ASSUME NEW p \in Slot, allocproc(p) PROVE TickInv'
    BY <1>3, TickQuiet
      DEF allocproc, locals, At, TypeOK, ControlInv, StatePc, Embryo, QuietPause
  <1>4. ASSUME NEW p \in Slot, allocproc_fail(p) PROVE TickInv'
    BY <1>4, TickQuiet
      DEF allocproc_fail, freeproc, Return, Goto, locals, At, TypeOK,
          ControlInv, StatePc, Embryo, QuietPause
  <1>5. ASSUME NEW p \in Slot, kfork_parent(p) PROVE TickInv'
    BY <1>5, TickQuiet
      DEF kfork_parent, Goto, locals, At, TypeOK, ControlInv, StatePc, Embryo,
          QuietPause
  <1>6. ASSUME NEW p \in Slot, kfork_runnable(p) PROVE TickInv'
    BY <1>6, TickQuiet
      DEF kfork_runnable, Return, Goto, locals, At, TypeOK, ControlInv, StatePc,
          Embryo, QuietPause
  <1>7. ASSUME NEW p \in Slot, sys_exit(p) PROVE TickInv'
    BY <1>7, TickQuiet
      DEF sys_exit, kexit, Call, Goto, locals, At, TypeOK, ControlInv, StatePc,
          Embryo, QuietPause
  <1>8. ASSUME NEW p \in Slot, usertrap_killed(p) PROVE TickInv'
    BY <1>8, TickQuiet
      DEF usertrap_killed, kexit, Call, Goto, locals, At, TypeOK, ControlInv,
          StatePc, Embryo, QuietPause
  <1>9. ASSUME NEW p \in Slot, kexit_acquire(p) PROVE TickInv'
    BY <1>9, TickQuiet
      DEF kexit_acquire, Goto, locals, At, TypeOK, ControlInv, StatePc, Embryo,
          QuietPause
  <1>10. ASSUME NEW p \in Slot, reparent(p) PROVE TickInv'
    BY <1>10, TickQuiet
      DEF reparent, NextSlot, Goto, locals, At, TypeOK, ControlInv, StatePc,
          Embryo, QuietPause
  <1>11. ASSUME NEW p \in Slot, reparent_wakeup(p) PROVE TickInv'
    BY <1>11, TickQuiet, WakeupTickQuiet, SlotFacts
      DEF reparent_wakeup, Goto, TypeOK
  <1>12. ASSUME NEW p \in Slot, kexit_wakeup(p) PROVE TickInv'
    BY <1>12, TickQuiet, WakeupTickQuiet, SlotFacts
      DEF kexit_wakeup, Goto, TypeOK
  <1>13. ASSUME NEW p \in Slot, kexit_zombie(p) PROVE TickInv'
    BY <1>13, TickQuiet
      DEF kexit_zombie, sched, Goto, locals, At, TypeOK, ControlInv, StatePc,
          Embryo, QuietPause
  <1>14. ASSUME NEW p \in Slot, NEW a \in {0, 1}, sys_wait(p, a) PROVE TickInv'
    BY <1>14, TickQuiet
      DEF sys_wait, Call, Goto, locals, At, TypeOK, ControlInv, StatePc, Embryo,
          QuietPause
  <1>15. ASSUME NEW p \in Slot, kwait_acquire(p) PROVE TickInv'
    BY <1>15, TickQuiet
      DEF kwait_acquire, Goto, locals, At, TypeOK, ControlInv, StatePc, Embryo,
          QuietPause
  <1>16. ASSUME NEW p \in Slot, kwait_scan(p) PROVE TickInv'
    BY <1>16, TickQuiet
      DEF kwait_scan, NextSlot, Goto, locals, At, TypeOK, ControlInv, StatePc,
          Embryo, QuietPause
  <1>17. ASSUME NEW p \in Slot, kwait_reap(p) PROVE TickInv'
    BY <1>17, TickQuiet
      DEF kwait_reap, freeproc, Return, Goto, locals, At, TypeOK, ControlInv,
          StatePc, Embryo, QuietPause
  <1>18. ASSUME NEW p \in Slot, kwait_copyout_fail(p) PROVE TickInv'
    BY <1>18, TickQuiet
      DEF kwait_copyout_fail, Return, Goto, locals, At, TypeOK, ControlInv,
          StatePc, Embryo, QuietPause
  <1>19. ASSUME NEW p \in Slot, kwait_check(p) PROVE TickInv'
    BY <1>19, TickQuiet
      DEF kwait_check, Return, Goto, locals, At, TypeOK, ControlInv, StatePc,
          Embryo, QuietPause
  <1>20. ASSUME NEW p \in Slot, kwait_prepare(p) PROVE TickInv'
    BY <1>20, TickQuiet
      DEF kwait_prepare, sleep_prepare, Goto, locals, At, TypeOK, ControlInv,
          StatePc, Embryo, QuietPause
  <1>21. ASSUME NEW p \in Slot, kwait_sleep(p) PROVE TickInv'
    BY <1>21, TickQuiet
      DEF kwait_sleep, sleep, sched, Goto, locals, At, TypeOK, ControlInv,
          StatePc, Embryo, QuietPause
  <1>22. ASSUME NEW p \in Slot, NEW n \in KillTargets, sys_kill(p, n) PROVE TickInv'
    BY <1>22, TickQuiet
      DEF sys_kill, Call, Goto, locals, At, TypeOK, ControlInv, StatePc, Embryo,
          QuietPause
  <1>23. ASSUME NEW p \in Slot, kkill(p) PROVE TickInv'
    BY <1>23, TickQuiet
      DEF kkill, Return, Goto, locals, At, TypeOK, ControlInv, StatePc, Embryo,
          QuietPause
  <1>24. ASSUME NEW p \in Slot, setkilled(p) PROVE TickInv'
    BY <1>24, TickQuiet
      DEF setkilled, locals, At, TypeOK, ControlInv, StatePc, Embryo, QuietPause
  <1>25. ASSUME NEW p \in Slot, NEW n \in PauseArgs, sys_pause(p, n) PROVE TickInv'
    BY <1>25, TickQuiet
      DEF sys_pause, Call, Goto, locals, At, TypeOK, ControlInv, StatePc,
          Embryo, QuietPause
  <1>26. ASSUME NEW p \in Slot, pause_start(p) PROVE TickInv'
    BY <1>26, SlotFacts, TicksDistinct
      DEF pause_start, Goto, locals, At, TypeOK, ControlInv, LockDiscipline,
          HoldsTicks, StatePc, TickInv, Pausing
  <1>27. ASSUME NEW p \in Slot, pause_check(p) PROVE TickInv'
    BY <1>27, SlotFacts, TicksDistinct
      DEF pause_check, Return, Goto, locals, At, TypeOK, ControlInv,
          LockDiscipline, HoldsTicks, StatePc, TickInv, Pausing
  <1>28. ASSUME NEW p \in Slot, pause_prepare(p) PROVE TickInv'
    BY <1>28, SlotFacts, TicksDistinct
      DEF pause_prepare, sleep_prepare, Goto, locals, At, TypeOK, ControlInv,
          LockDiscipline, HoldsTicks, StatePc, TickInv, Pausing
  <1>29. ASSUME NEW p \in Slot, pause_sleep(p) PROVE TickInv'
    BY <1>29, SlotFacts, TicksDistinct
      DEF pause_sleep, sleep, sched, Goto, locals, At, TypeOK, ControlInv,
          LockDiscipline, HoldsTicks, StatePc, TickInv, Pausing
  <1>30. ASSUME NEW p \in Slot, pause_acquire(p) PROVE TickInv'
    BY <1>30, SlotFacts, TicksDistinct
      DEF pause_acquire, Goto, locals, At, TypeOK, ControlInv, LockDiscipline,
          HoldsTicks, StatePc, TickInv, Pausing
  <1>31. ASSUME NEW p \in Slot, yield(p) PROVE TickInv'
    BY <1>31, TickQuiet
      DEF yield, sched, locals, At, TypeOK, ControlInv, StatePc, Embryo,
          QuietPause
  <1>32. ASSUME NEW p \in Slot, NEW c \in CPUs, scheduler(c, p) PROVE TickInv'
    BY <1>32, TickQuiet
      DEF scheduler, locals, At, TypeOK, ControlInv, StatePc, Embryo, QuietPause
  <1>33. ASSUME clockintr PROVE TickInv'
    BY <1>33, SlotFacts, TicksDistinct
      DEF clockintr, locals, At, TypeOK, ControlInv, LockDiscipline, HoldsTicks,
          StatePc, TickInv, Pausing
  <1>34. ASSUME clockintr_wakeup PROVE TickInv'
    <2>1. tick \in Slot /\ UNCHANGED <<pc, left>>
      BY <1>34, SlotFacts DEF clockintr_wakeup, TypeOK, locals
    <2>2. ASSUME NEW x \in Slot, x # tick
          PROVE  chan'[x] = chan[x] /\ state'[x] = state[x]
      BY <1>34, <2>1, <2>2 DEF clockintr_wakeup, wakeup, TypeOK
    <2>3. /\ chan[tick] = TICKS => chan'[tick] = 0
          /\ chan[tick] # TICKS => chan'[tick] = chan[tick]
          /\ state'[tick] = "SLEEPING" => state[tick] = "SLEEPING" /\ chan[tick] # TICKS
      BY <1>34, <2>1 DEF clockintr_wakeup, wakeup, TypeOK
    <2>4. ASSUME NEW x \in Slot
          PROVE  /\ pc'[x] = "p_prep" => left'[x] > 0
                 /\ pc'[x] = "p_sleep" => chan'[x] \in {0, TICKS}
                 /\ pc'[x] = "p_lock" /\ state'[x] = "SLEEPING" => chan'[x] = TICKS
      BY <2>1, <2>2, <2>3 DEF TickInv
    <2>5. ASSUME NEW x \in Slot, Pausing(x)'
          PROVE  x # tick /\ Pausing(x)
      BY <2>1, <2>2, <2>3, <2>5, TicksDistinct DEF Pausing, TickInv
    <2>6. ASSUME NEW x \in Slot, Pausing(x)'
          PROVE  left'[x] > 0 \/ (tick' # 0 /\ tick' <= x)
      <3>1. x # tick /\ (left[x] > 0 \/ tick <= x)
        BY <2>5, <2>6 DEF TickInv
      <3>2. tick < NPROC => tick' = tick + 1
        BY <1>34 DEF clockintr_wakeup
      <3> QED BY <2>1, <3>1, <3>2, SlotOrder
    <2> QED BY <2>4, <2>6 DEF TickInv
  <1>35. CASE UNCHANGED vars
    BY <1>35, TickQuiet DEF vars, QuietPause
  <1> QED
    BY <1>1, <1>2, <1>3, <1>4, <1>5, <1>6, <1>7, <1>8, <1>9, <1>10, <1>11,
       <1>12, <1>13, <1>14, <1>15, <1>16, <1>17, <1>18, <1>19, <1>20, <1>21,
       <1>22, <1>23, <1>24, <1>25, <1>26, <1>27, <1>28, <1>29, <1>30, <1>31,
       <1>32, <1>33, <1>34, <1>35
    DEF Next, User, Step, Acquire, Advance, Clock

(* Nobody sleeps in pause() once its ticks have passed, except while the     *)
(* clock interrupt is on its way to it.                                      *)
THEOREM TicksNotLost == Spec => []NoLostTick
  <1>1. Init => TickInv
    BY DEF Init, TickInv, Pausing
  <1>2. SafeInv /\ SafeInv' /\ TickInv /\ [Next]_vars => TickInv'
    BY TickStep DEF SafeInv
  <1>3. SafeInv /\ TickInv => NoLostTick
    BY DEF SafeInv, TypeOK, ControlInv, LockDiscipline, TickInv, Pausing, NoLostTick
  <1> QED BY <1>1, <1>2, <1>3, Safety, PTL DEF Spec
-----------------------------------------------------------------------------
(* Kills. *)

(* A kkill() in progress was in progress before, with the same pid. *)
QuietKill(x) == pc'[x] = "k_scan" => pc[x] = "k_scan" /\ arg'[x] = arg[x]

(* What is known of kills is kept by a step that kills nobody, leaves every  *)
(* pid alone and starts no kkill().                                          *)
LEMMA KillQuiet ==
  ASSUME KillInv, UNCHANGED <<killed, pid>>, \A x \in Slot : QuietKill(x)
  PROVE  KillInv'
BY DEF KillInv, OnlyTargetsKilled, QuietKill

(* Every step keeps it: freeproc() forgets killed with the pid, so that the  *)
(* next process in the slot is not taken for the target.                     *)
LEMMA KillStep ==
  ASSUME "fault" \notin Workload, TypeOK, PidInv, KillInv, [Next]_vars
  PROVE  KillInv'
  <1>1. ASSUME NEW p \in Slot, sys_fork(p) PROVE KillInv'
    BY <1>1, KillQuiet DEF sys_fork, Call, Goto, locals, At, TypeOK, QuietKill
  <1>2. ASSUME NEW p \in Slot, allocproc_skip(p) PROVE KillInv'
    BY <1>2, KillQuiet
      DEF allocproc_skip, NextSlot, Goto, locals, At, TypeOK, QuietKill
  <1>3. ASSUME NEW p \in Slot, allocproc(p) PROVE KillInv'
    BY <1>3
      DEF allocproc, locals, At, TypeOK, PidInv, FreshSlot, KillInv,
          OnlyTargetsKilled
  <1>4. ASSUME NEW p \in Slot, allocproc_fail(p) PROVE KillInv'
    BY <1>4
      DEF allocproc_fail, freeproc, Return, Goto, locals, At, TypeOK, PidInv,
          FreshSlot, KillInv, OnlyTargetsKilled
  <1>5. ASSUME NEW p \in Slot, kfork_parent(p) PROVE KillInv'
    BY <1>5, KillQuiet DEF kfork_parent, Goto, locals, At, TypeOK, QuietKill
  <1>6. ASSUME NEW p \in Slot, kfork_runnable(p) PROVE KillInv'
    BY <1>6, KillQuiet
      DEF kfork_runnable, Return, Goto, locals, At, TypeOK, QuietKill
  <1>7. ASSUME NEW p \in Slot, sys_exit(p) PROVE KillInv'
    BY <1>7, KillQuiet
      DEF sys_exit, kexit, Call, Goto, locals, At, TypeOK, QuietKill
  <1>8. ASSUME NEW p \in Slot, usertrap_killed(p) PROVE KillInv'
    BY <1>8, KillQuiet
      DEF usertrap_killed, kexit, Call, Goto, locals, At, TypeOK, QuietKill
  <1>9. ASSUME NEW p \in Slot, kexit_acquire(p) PROVE KillInv'
    BY <1>9, KillQuiet DEF kexit_acquire, Goto, locals, At, TypeOK, QuietKill
  <1>10. ASSUME NEW p \in Slot, reparent(p) PROVE KillInv'
    BY <1>10, KillQuiet
      DEF reparent, NextSlot, Goto, locals, At, TypeOK, QuietKill
  <1>11. ASSUME NEW p \in Slot, reparent_wakeup(p) PROVE KillInv'
    BY <1>11, KillQuiet
      DEF reparent_wakeup, wakeup, Goto, locals, At, TypeOK, QuietKill
  <1>12. ASSUME NEW p \in Slot, kexit_wakeup(p) PROVE KillInv'
    BY <1>12, KillQuiet
      DEF kexit_wakeup, wakeup, Goto, locals, At, TypeOK, QuietKill
  <1>13. ASSUME NEW p \in Slot, kexit_zombie(p) PROVE KillInv'
    BY <1>13, KillQuiet
      DEF kexit_zombie, sched, Goto, locals, At, TypeOK, QuietKill
  <1>14. ASSUME NEW p \in Slot, NEW a \in {0, 1}, sys_wait(p, a) PROVE KillInv'
    BY <1>14, KillQuiet DEF sys_wait, Call, Goto, locals, At, TypeOK, QuietKill
  <1>15. ASSUME NEW p \in Slot, kwait_acquire(p) PROVE KillInv'
    BY <1>15, KillQuiet DEF kwait_acquire, Goto, locals, At, TypeOK, QuietKill
  <1>16. ASSUME NEW p \in Slot, kwait_scan(p) PROVE KillInv'
    BY <1>16, KillQuiet
      DEF kwait_scan, NextSlot, Goto, locals, At, TypeOK, QuietKill
  <1>17. ASSUME NEW p \in Slot, kwait_reap(p) PROVE KillInv'
    BY <1>17
      DEF kwait_reap, freeproc, Return, Goto, locals, At, TypeOK, PidInv,
          FreshSlot, KillInv, OnlyTargetsKilled
  <1>18. ASSUME NEW p \in Slot, kwait_copyout_fail(p) PROVE KillInv'
    BY <1>18, KillQuiet
      DEF kwait_copyout_fail, Return, Goto, locals, At, TypeOK, QuietKill
  <1>19. ASSUME NEW p \in Slot, kwait_check(p) PROVE KillInv'
    BY <1>19, KillQuiet
      DEF kwait_check, Return, Goto, locals, At, TypeOK, QuietKill
  <1>20. ASSUME NEW p \in Slot, kwait_prepare(p) PROVE KillInv'
    BY <1>20, KillQuiet
      DEF kwait_prepare, sleep_prepare, Goto, locals, At, TypeOK, QuietKill
  <1>21. ASSUME NEW p \in Slot, kwait_sleep(p) PROVE KillInv'
    BY <1>21, KillQuiet
      DEF kwait_sleep, sleep, sched, Goto, locals, At, TypeOK, QuietKill
  <1>22. ASSUME NEW p \in Slot, NEW n \in KillTargets, sys_kill(p, n) PROVE KillInv'
    BY <1>22
      DEF sys_kill, Call, Goto, locals, At, TypeOK, PidInv, FreshSlot, KillInv,
          OnlyTargetsKilled
  <1>23. ASSUME NEW p \in Slot, kkill(p) PROVE KillInv'
    BY <1>23
      DEF kkill, Return, Goto, locals, At, TypeOK, PidInv, FreshSlot, KillInv,
          OnlyTargetsKilled
  <1>24. ASSUME NEW p \in Slot, setkilled(p) PROVE KillInv'
    BY <1>24 DEF setkilled
  <1>25. ASSUME NEW p \in Slot, NEW n \in PauseArgs, sys_pause(p, n) PROVE KillInv'
    BY <1>25, KillQuiet DEF sys_pause, Call, Goto, locals, At, TypeOK, QuietKill
  <1>26. ASSUME NEW p \in Slot, pause_start(p) PROVE KillInv'
    BY <1>26, KillQuiet DEF pause_start, Goto, locals, At, TypeOK, QuietKill
  <1>27. ASSUME NEW p \in Slot, pause_check(p) PROVE KillInv'
    BY <1>27, KillQuiet
      DEF pause_check, Return, Goto, locals, At, TypeOK, QuietKill
  <1>28. ASSUME NEW p \in Slot, pause_prepare(p) PROVE KillInv'
    BY <1>28, KillQuiet
      DEF pause_prepare, sleep_prepare, Goto, locals, At, TypeOK, QuietKill
  <1>29. ASSUME NEW p \in Slot, pause_sleep(p) PROVE KillInv'
    BY <1>29, KillQuiet
      DEF pause_sleep, sleep, sched, Goto, locals, At, TypeOK, QuietKill
  <1>30. ASSUME NEW p \in Slot, pause_acquire(p) PROVE KillInv'
    BY <1>30, KillQuiet DEF pause_acquire, Goto, locals, At, TypeOK, QuietKill
  <1>31. ASSUME NEW p \in Slot, yield(p) PROVE KillInv'
    BY <1>31, KillQuiet DEF yield, sched, locals, At, TypeOK, QuietKill
  <1>32. ASSUME NEW p \in Slot, NEW c \in CPUs, scheduler(c, p) PROVE KillInv'
    BY <1>32, KillQuiet DEF scheduler, locals, At, TypeOK, QuietKill
  <1>33. ASSUME clockintr PROVE KillInv'
    BY <1>33, KillQuiet DEF clockintr, locals, At, TypeOK, QuietKill
  <1>34. ASSUME clockintr_wakeup PROVE KillInv'
    BY <1>34, KillQuiet
      DEF clockintr_wakeup, wakeup, locals, At, TypeOK, QuietKill
  <1>35. CASE UNCHANGED vars
    BY <1>35, KillQuiet DEF vars, QuietKill
  <1> QED
    BY <1>1, <1>2, <1>3, <1>4, <1>5, <1>6, <1>7, <1>8, <1>9, <1>10, <1>11,
       <1>12, <1>13, <1>14, <1>15, <1>16, <1>17, <1>18, <1>19, <1>20, <1>21,
       <1>22, <1>23, <1>24, <1>25, <1>26, <1>27, <1>28, <1>29, <1>30, <1>31,
       <1>32, <1>33, <1>34, <1>35
    DEF Next, User, Step, Acquire, Advance, Clock

(* With the test of pid 0 in kkill() (Proyecto3), and when no process ends   *)
(* by a fault, whoever is killed has a pid that was passed to kill().        *)
THEOREM TargetsOnly ==
  ASSUME RejectsPidZero, "fault" \notin Workload
  PROVE  Spec => []OnlyTargetsKilled
  <1>1. Init => KillInv
    BY DEF Init, KillInv, OnlyTargetsKilled
  <1>2. SafeInv /\ PidInv /\ KillInv /\ [Next]_vars => KillInv'
    BY KillStep DEF SafeInv
  <1>3. KillInv => OnlyTargetsKilled
    BY DEF KillInv
  <1> QED BY <1>1, <1>2, <1>3, PidSafety, Safety, PTL DEF Spec

-----------------------------------------------------------------------------
(* Families. *)

(* Thread x was where it is, with the same locals, as far as FamilyInv       *)
(* looks; no slot was taken and nobody has become blocked in kwait().        *)
QuietFamily(x) ==
  /\ pc'[x] = "f_run" <=> pc[x] = "f_run"
  /\ pc'[x] = "f_run" => pp'[x] = pp[x]
  /\ state'[x] = "USED" => state[x] = "USED"
  /\ pc'[x] \in ExitPc => pc[x] \in ExitPc /\ arg'[x] = arg[x]
  /\ pc'[x] = "w_prep" => pc[x] = "w_prep" /\ havekids'[x] = havekids[x]
  /\ Blocked(x)' => Blocked(x)

(* FamilyInv is kept by a step that leaves every parent alone and is quiet   *)
(* for every process.                                                        *)
LEMMA FamilyQuiet ==
  ASSUME TypeOK, FamilyInv, UNCHANGED parent, \A x \in Slot : QuietFamily(x)
  PROVE  FamilyInv'
  <1>1. EmbryoParent'
    BY DEF TypeOK, FamilyInv, EmbryoParent, QuietFamily
  <1>2. ExitStatus'
    BY DEF FamilyInv, ExitStatus, QuietFamily
  <1>3. WaitsForChild'
    BY DEF FamilyInv, WaitsForChild, QuietFamily
  <1> QED BY <1>1, <1>2, <1>3 DEF FamilyInv

(* Every step keeps it: children leave their parent only by its own reaping  *)
(* or by its exit.                                                           *)
LEMMA FamilyStep ==
  ASSUME TypeOK, TypeOK', ControlInv, ParentInv, WakeupInv, FamilyInv, [Next]_vars
  PROVE  FamilyInv'
  <1>1. ASSUME NEW p \in Slot, sys_fork(p) PROVE FamilyInv'
    BY <1>1, FamilyQuiet, SlotFacts
      DEF sys_fork, Call, Goto, locals, At, TypeOK, ControlInv, StatePc, Embryo,
          WakeupInv, WaitChannel, ExitPc, Blocked, QuietFamily
  <1>2. ASSUME NEW p \in Slot, allocproc_skip(p) PROVE FamilyInv'
    BY <1>2, FamilyQuiet, SlotFacts
      DEF allocproc_skip, NextSlot, Goto, locals, At, TypeOK, ControlInv,
          StatePc, Embryo, WakeupInv, WaitChannel, ExitPc, Blocked, QuietFamily
  <1>3. ASSUME NEW p \in Slot, allocproc(p) PROVE FamilyInv'
    <2>1. EmbryoParent'
      BY <1>3, SlotFacts
        DEF allocproc, locals, At, TypeOK, ControlInv, LockDiscipline,
            HoldsWait, StatePc, Embryo, ParentInv, ParentLink, HasParent,
            FamilyInv, EmbryoParent
    <2>2. ExitStatus'
      BY <1>3
        DEF allocproc, locals, At, TypeOK, ControlInv, FamilyInv, ExitStatus,
            ExitPc
    <2>3. WaitsForChild'
      BY <1>3, SlotFacts
        DEF allocproc, locals, At, TypeOK, ControlInv, LockDiscipline,
            HoldsWait, StatePc, Embryo, WakeupInv, WaitScan, Blocked, FamilyInv,
            WaitsForChild
    <2> QED BY <2>1, <2>2, <2>3 DEF FamilyInv
  <1>4. ASSUME NEW p \in Slot, allocproc_fail(p) PROVE FamilyInv'
    BY <1>4, FamilyQuiet, SlotFacts
      DEF allocproc_fail, freeproc, Return, Goto, locals, At, TypeOK,
          ControlInv, StatePc, Embryo, WakeupInv, WaitChannel, ExitPc, Blocked,
          QuietFamily
  <1>5. ASSUME NEW p \in Slot, kfork_parent(p) PROVE FamilyInv'
    <2>1. EmbryoParent'
      BY <1>5, SlotFacts
        DEF kfork_parent, Goto, locals, At, TypeOK, ControlInv, LockDiscipline,
            HoldsWait, StatePc, Embryo, ParentInv, ParentLink, HasParent,
            FamilyInv, EmbryoParent
    <2>2. ExitStatus'
      BY <1>5
        DEF kfork_parent, Goto, locals, At, TypeOK, ControlInv, FamilyInv,
            ExitStatus, ExitPc
    <2>3. WaitsForChild'
      <3>1. ASSUME NEW x \in Slot, parent[pp[p]] = x PROVE ~Blocked(x)
        BY <1>5, <3>1, SlotFacts
          DEF kfork_parent, At, TypeOK, ControlInv, Embryo, FamilyInv,
              EmbryoParent, Blocked
      <3>2. ASSUME NEW x \in Slot
            PROVE  /\ pc'[x] = "w_prep" => pc[x] = "w_prep"
                   /\ Blocked(x)' => Blocked(x)
        BY <1>5 DEF kfork_parent, Goto, At, TypeOK, Blocked
      <3>3. \A q \in Slot : q # pp[p] => parent'[q] = parent[q]
        BY <1>5 DEF kfork_parent, TypeOK
      <3> QED
        BY <1>5, <3>1, <3>2, <3>3
          DEF kfork_parent, locals, FamilyInv, WaitsForChild
    <2> QED BY <2>1, <2>2, <2>3 DEF FamilyInv
  <1>6. ASSUME NEW p \in Slot, kfork_runnable(p) PROVE FamilyInv'
    <2>1. EmbryoParent'
      BY <1>6, SlotFacts
        DEF kfork_runnable, Return, Goto, locals, At, TypeOK, ControlInv,
            LockDiscipline, HoldsWait, StatePc, Embryo, ParentInv, ParentLink,
            HasParent, FamilyInv, EmbryoParent
    <2>2. ExitStatus'
      BY <1>6
        DEF kfork_runnable, Return, Goto, locals, At, TypeOK, ControlInv,
            FamilyInv, ExitStatus, ExitPc
    <2>3. WaitsForChild'
      BY <1>6, SlotFacts
        DEF kfork_runnable, Return, Goto, locals, At, TypeOK, ControlInv,
            LockDiscipline, HoldsWait, StatePc, Embryo, WakeupInv, WaitScan,
            Blocked, FamilyInv, WaitsForChild
    <2> QED BY <2>1, <2>2, <2>3 DEF FamilyInv
  <1>7. ASSUME NEW p \in Slot, sys_exit(p) PROVE FamilyInv'
    <2>1. EmbryoParent'
      BY <1>7, SlotFacts
        DEF sys_exit, kexit, Call, Goto, locals, At, TypeOK, ControlInv,
            LockDiscipline, HoldsWait, StatePc, Embryo, ParentInv, ParentLink,
            HasParent, FamilyInv, EmbryoParent
    <2>2. ExitStatus'
      BY <1>7
        DEF sys_exit, kexit, Call, Goto, locals, At, TypeOK, ControlInv,
            FamilyInv, ExitStatus, ExitPc
    <2>3. WaitsForChild'
      BY <1>7, SlotFacts
        DEF sys_exit, kexit, Call, Goto, locals, At, TypeOK, ControlInv,
            LockDiscipline, HoldsWait, StatePc, Embryo, WakeupInv, WaitScan,
            Blocked, FamilyInv, WaitsForChild
    <2> QED BY <2>1, <2>2, <2>3 DEF FamilyInv
  <1>8. ASSUME NEW p \in Slot, usertrap_killed(p) PROVE FamilyInv'
    <2>1. EmbryoParent'
      BY <1>8, SlotFacts
        DEF usertrap_killed, kexit, Call, Goto, locals, At, TypeOK, ControlInv,
            LockDiscipline, HoldsWait, StatePc, Embryo, ParentInv, ParentLink,
            HasParent, FamilyInv, EmbryoParent
    <2>2. ExitStatus'
      BY <1>8
        DEF usertrap_killed, kexit, Call, Goto, locals, At, TypeOK, ControlInv,
            FamilyInv, ExitStatus, ExitPc
    <2>3. WaitsForChild'
      BY <1>8, SlotFacts
        DEF usertrap_killed, kexit, Call, Goto, locals, At, TypeOK, ControlInv,
            LockDiscipline, HoldsWait, StatePc, Embryo, WakeupInv, WaitScan,
            Blocked, FamilyInv, WaitsForChild
    <2> QED BY <2>1, <2>2, <2>3 DEF FamilyInv
  <1>9. ASSUME NEW p \in Slot, kexit_acquire(p) PROVE FamilyInv'
    BY <1>9, FamilyQuiet, SlotFacts
      DEF kexit_acquire, Goto, locals, At, TypeOK, ControlInv, StatePc, Embryo,
          WakeupInv, WaitChannel, ExitPc, Blocked, QuietFamily
  <1>10. ASSUME NEW p \in Slot, reparent(p) PROVE FamilyInv'
    <2>1. CASE parent[pp[p]] # p
      BY <1>10, <2>1, FamilyQuiet, SlotFacts
        DEF reparent, NextSlot, Goto, locals, At, TypeOK, ExitPc, Blocked,
            QuietFamily
    <2>2. CASE parent[pp[p]] = p
      <3> DEFINE c == pp[p]
      <3>1. /\ c \in Slot /\ pc[p] = "x_rep"
            /\ parent' = [parent EXCEPT ![c] = initproc]
            /\ pc' = [pc EXCEPT ![p] = "x_repw"]
            /\ UNCHANGED <<state, chan, pp, arg, havekids>>
        BY <1>10, <2>2 DEF reparent, Goto, At, TypeOK
      <3>2. state[c] # "USED"
        BY <2>2, <3>1, SlotFacts DEF FamilyInv, EmbryoParent
      <3>3. \A x \in Slot : x # p => pc'[x] = pc[x]
        BY <3>1 DEF TypeOK
      <3>4. pc'[p] = "x_repw"
        BY <3>1 DEF TypeOK
      <3>5. \A q \in Slot : q # c => parent'[q] = parent[q]
        BY <3>1 DEF TypeOK
      <3>6. parent'[c] = initproc
        BY <3>1 DEF TypeOK
      <3> HIDE DEF c
      <3>7. \A x \in Slot : pc[x] = "f_run" => pp[x] # c
        BY <3>2 DEF ControlInv, Embryo
      <3>8. EmbryoParent'
        <4>1. ASSUME NEW x \in Slot, pc'[x] = "f_run" PROVE parent'[pp'[x]] = x
          BY <3>1, <3>3, <3>4, <3>5, <3>7, <4>1
            DEF TypeOK, FamilyInv, EmbryoParent
        <4>2. ASSUME NEW q \in Slot, state'[q] = "USED", parent'[q] # NoProc
              PROVE  pc'[parent'[q]] = "f_run" /\ pp'[parent'[q]] = q
          <5>1. q # c /\ parent'[q] = parent[q] /\ pc[parent[q]] = "f_run"
            BY <3>1, <3>2, <3>5, <4>2 DEF FamilyInv, EmbryoParent
          <5> QED
            BY <3>1, <3>3, <4>2, <5>1 DEF TypeOK, FamilyInv, EmbryoParent
        <4> QED BY <4>1, <4>2 DEF EmbryoParent
      <3>9. ExitStatus'
        BY <3>1, <3>3 DEF FamilyInv, ExitStatus, ExitPc
      <3>10. WaitsForChild'
        <4>1. ASSUME NEW x \in Slot
              PROVE  /\ pc'[x] = "w_prep" => pc[x] = "w_prep"
                     /\ Blocked(x)' => Blocked(x) /\ x # p
          BY <3>1, <3>3, <3>4 DEF Blocked
        <4> QED
          BY <2>2, <3>1, <3>3, <3>4, <3>5, <4>1
            DEF c, FamilyInv, WaitsForChild
      <3> QED BY <3>8, <3>9, <3>10 DEF FamilyInv
    <2> QED BY <2>1, <2>2
  <1>11. ASSUME NEW p \in Slot, reparent_wakeup(p) PROVE FamilyInv'
    BY <1>11, FamilyQuiet, SlotFacts
      DEF reparent_wakeup, wakeup, Goto, locals, At, TypeOK, ControlInv,
          StatePc, Embryo, WakeupInv, WaitChannel, ExitPc, Blocked, QuietFamily
  <1>12. ASSUME NEW p \in Slot, kexit_wakeup(p) PROVE FamilyInv'
    BY <1>12, FamilyQuiet, SlotFacts
      DEF kexit_wakeup, wakeup, Goto, locals, At, TypeOK, ControlInv, StatePc,
          Embryo, WakeupInv, WaitChannel, ExitPc, Blocked, QuietFamily
  <1>13. ASSUME NEW p \in Slot, kexit_zombie(p) PROVE FamilyInv'
    BY <1>13, FamilyQuiet, SlotFacts
      DEF kexit_zombie, sched, Goto, locals, At, TypeOK, ControlInv, StatePc,
          Embryo, WakeupInv, WaitChannel, ExitPc, Blocked, QuietFamily
  <1>14. ASSUME NEW p \in Slot, NEW a \in {0, 1}, sys_wait(p, a) PROVE FamilyInv'
    BY <1>14, FamilyQuiet, SlotFacts
      DEF sys_wait, Call, Goto, locals, At, TypeOK, ControlInv, StatePc, Embryo,
          WakeupInv, WaitChannel, ExitPc, Blocked, QuietFamily
  <1>15. ASSUME NEW p \in Slot, kwait_acquire(p) PROVE FamilyInv'
    BY <1>15, FamilyQuiet, SlotFacts
      DEF kwait_acquire, Goto, locals, At, TypeOK, ControlInv, StatePc, Embryo,
          WakeupInv, WaitChannel, ExitPc, Blocked, QuietFamily
  <1>16. ASSUME NEW p \in Slot, kwait_scan(p) PROVE FamilyInv'
    BY <1>16, FamilyQuiet, SlotFacts
      DEF kwait_scan, NextSlot, Goto, locals, At, TypeOK, ControlInv, StatePc,
          Embryo, WakeupInv, WaitChannel, ExitPc, Blocked, QuietFamily
  <1>17. ASSUME NEW p \in Slot, kwait_reap(p) PROVE FamilyInv'
    <2>1. EmbryoParent'
      BY <1>17, SlotFacts
        DEF kwait_reap, freeproc, Return, Goto, locals, At, TypeOK, ControlInv,
            LockDiscipline, HoldsWait, StatePc, Embryo, ParentInv, ParentLink,
            HasParent, FamilyInv, EmbryoParent
    <2>2. ExitStatus'
      BY <1>17
        DEF kwait_reap, freeproc, Return, Goto, locals, At, TypeOK, ControlInv,
            FamilyInv, ExitStatus, ExitPc
    <2>3. WaitsForChild'
      BY <1>17, SlotFacts
        DEF kwait_reap, freeproc, Return, Goto, locals, At, TypeOK, ControlInv,
            LockDiscipline, HoldsWait, StatePc, Embryo, WakeupInv, WaitScan,
            Blocked, FamilyInv, WaitsForChild
    <2> QED BY <2>1, <2>2, <2>3 DEF FamilyInv
  <1>18. ASSUME NEW p \in Slot, kwait_copyout_fail(p) PROVE FamilyInv'
    BY <1>18, FamilyQuiet, SlotFacts
      DEF kwait_copyout_fail, Return, Goto, locals, At, TypeOK, ControlInv,
          StatePc, Embryo, WakeupInv, WaitChannel, ExitPc, Blocked, QuietFamily
  <1>19. ASSUME NEW p \in Slot, kwait_check(p) PROVE FamilyInv'
    <2>1. EmbryoParent'
      BY <1>19, SlotFacts
        DEF kwait_check, Return, Goto, locals, At, TypeOK, ControlInv,
            LockDiscipline, HoldsWait, StatePc, Embryo, ParentInv, ParentLink,
            HasParent, FamilyInv, EmbryoParent
    <2>2. ExitStatus'
      BY <1>19
        DEF kwait_check, Return, Goto, locals, At, TypeOK, ControlInv,
            FamilyInv, ExitStatus, ExitPc
    <2>3. WaitsForChild'
      BY <1>19, SlotFacts
        DEF kwait_check, Return, Goto, locals, At, TypeOK, ControlInv,
            LockDiscipline, HoldsWait, StatePc, Embryo, WakeupInv, WaitScan,
            Blocked, FamilyInv, WaitsForChild
    <2> QED BY <2>1, <2>2, <2>3 DEF FamilyInv
  <1>20. ASSUME NEW p \in Slot, kwait_prepare(p) PROVE FamilyInv'
    <2>1. EmbryoParent'
      BY <1>20, SlotFacts
        DEF kwait_prepare, sleep_prepare, Goto, locals, At, TypeOK, ControlInv,
            LockDiscipline, HoldsWait, StatePc, Embryo, ParentInv, ParentLink,
            HasParent, FamilyInv, EmbryoParent
    <2>2. ExitStatus'
      BY <1>20
        DEF kwait_prepare, sleep_prepare, Goto, locals, At, TypeOK, ControlInv,
            FamilyInv, ExitStatus, ExitPc
    <2>3. WaitsForChild'
      BY <1>20, SlotFacts
        DEF kwait_prepare, sleep_prepare, Goto, locals, At, TypeOK, ControlInv,
            LockDiscipline, HoldsWait, StatePc, Embryo, WakeupInv, WaitScan,
            Blocked, FamilyInv, WaitsForChild
    <2> QED BY <2>1, <2>2, <2>3 DEF FamilyInv
  <1>21. ASSUME NEW p \in Slot, kwait_sleep(p) PROVE FamilyInv'
    BY <1>21, FamilyQuiet, SlotFacts
      DEF kwait_sleep, sleep, sched, Goto, locals, At, TypeOK, ControlInv,
          StatePc, Embryo, WakeupInv, WaitChannel, ExitPc, Blocked, QuietFamily
  <1>22. ASSUME NEW p \in Slot, NEW n \in KillTargets, sys_kill(p, n) PROVE FamilyInv'
    BY <1>22, FamilyQuiet, SlotFacts
      DEF sys_kill, Call, Goto, locals, At, TypeOK, ControlInv, StatePc, Embryo,
          WakeupInv, WaitChannel, ExitPc, Blocked, QuietFamily
  <1>23. ASSUME NEW p \in Slot, kkill(p) PROVE FamilyInv'
    BY <1>23, FamilyQuiet, SlotFacts
      DEF kkill, Return, Goto, locals, At, TypeOK, ControlInv, StatePc, Embryo,
          WakeupInv, WaitChannel, ExitPc, Blocked, QuietFamily
  <1>24. ASSUME NEW p \in Slot, setkilled(p) PROVE FamilyInv'
    BY <1>24, FamilyQuiet, SlotFacts
      DEF setkilled, locals, At, TypeOK, ControlInv, StatePc, Embryo, WakeupInv,
          WaitChannel, ExitPc, Blocked, QuietFamily
  <1>25. ASSUME NEW p \in Slot, NEW n \in PauseArgs, sys_pause(p, n) PROVE FamilyInv'
    BY <1>25, FamilyQuiet, SlotFacts
      DEF sys_pause, Call, Goto, locals, At, TypeOK, ControlInv, StatePc,
          Embryo, WakeupInv, WaitChannel, ExitPc, Blocked, QuietFamily
  <1>26. ASSUME NEW p \in Slot, pause_start(p) PROVE FamilyInv'
    BY <1>26, FamilyQuiet, SlotFacts
      DEF pause_start, Goto, locals, At, TypeOK, ControlInv, StatePc, Embryo,
          WakeupInv, WaitChannel, ExitPc, Blocked, QuietFamily
  <1>27. ASSUME NEW p \in Slot, pause_check(p) PROVE FamilyInv'
    BY <1>27, FamilyQuiet, SlotFacts
      DEF pause_check, Return, Goto, locals, At, TypeOK, ControlInv, StatePc,
          Embryo, WakeupInv, WaitChannel, ExitPc, Blocked, QuietFamily
  <1>28. ASSUME NEW p \in Slot, pause_prepare(p) PROVE FamilyInv'
    BY <1>28, FamilyQuiet, SlotFacts
      DEF pause_prepare, sleep_prepare, Goto, locals, At, TypeOK, ControlInv,
          StatePc, Embryo, WakeupInv, WaitChannel, ExitPc, Blocked, QuietFamily
  <1>29. ASSUME NEW p \in Slot, pause_sleep(p) PROVE FamilyInv'
    BY <1>29, FamilyQuiet, SlotFacts
      DEF pause_sleep, sleep, sched, Goto, locals, At, TypeOK, ControlInv,
          StatePc, Embryo, WakeupInv, WaitChannel, ExitPc, Blocked, QuietFamily
  <1>30. ASSUME NEW p \in Slot, pause_acquire(p) PROVE FamilyInv'
    BY <1>30, FamilyQuiet, SlotFacts
      DEF pause_acquire, Goto, locals, At, TypeOK, ControlInv, StatePc, Embryo,
          WakeupInv, WaitChannel, ExitPc, Blocked, QuietFamily
  <1>31. ASSUME NEW p \in Slot, yield(p) PROVE FamilyInv'
    BY <1>31, FamilyQuiet, SlotFacts
      DEF yield, sched, locals, At, TypeOK, ControlInv, StatePc, Embryo,
          WakeupInv, WaitChannel, ExitPc, Blocked, QuietFamily
  <1>32. ASSUME NEW p \in Slot, NEW c \in CPUs, scheduler(c, p) PROVE FamilyInv'
    BY <1>32, FamilyQuiet, SlotFacts
      DEF scheduler, locals, At, TypeOK, ControlInv, StatePc, Embryo, WakeupInv,
          WaitChannel, ExitPc, Blocked, QuietFamily
  <1>33. ASSUME clockintr PROVE FamilyInv'
    BY <1>33, FamilyQuiet, SlotFacts
      DEF clockintr, locals, At, TypeOK, ControlInv, StatePc, Embryo, WakeupInv,
          WaitChannel, ExitPc, Blocked, QuietFamily
  <1>34. ASSUME clockintr_wakeup PROVE FamilyInv'
    BY <1>34, FamilyQuiet, SlotFacts
      DEF clockintr_wakeup, wakeup, locals, At, TypeOK, ControlInv, StatePc,
          Embryo, WakeupInv, WaitChannel, ExitPc, Blocked, QuietFamily
  <1>35. CASE UNCHANGED vars
    BY <1>35, FamilyQuiet DEF vars, QuietFamily, Blocked
  <1> QED
    BY <1>1, <1>2, <1>3, <1>4, <1>5, <1>6, <1>7, <1>8, <1>9, <1>10, <1>11,
       <1>12, <1>13, <1>14, <1>15, <1>16, <1>17, <1>18, <1>19, <1>20, <1>21,
       <1>22, <1>23, <1>24, <1>25, <1>26, <1>27, <1>28, <1>29, <1>30, <1>31,
       <1>32, <1>33, <1>34, <1>35
    DEF Next, User, Step, Acquire, Advance, Clock

(* FamilyInv holds in every reachable state. *)
LEMMA FamilySafety == Spec => []FamilyInv
  <1>1. Init => FamilyInv
    BY SlotFacts DEF Init, FamilyInv, EmbryoParent, ExitStatus, ExitPc,
       WaitsForChild, Blocked
  <1>2. SafeInv /\ SafeInv' /\ FamilyInv /\ [Next]_vars => FamilyInv'
    BY FamilyStep DEF SafeInv
  <1> QED BY <1>1, <1>2, Safety, PTL DEF Spec

(* Whoever sleeps in kwait() while wait_lock is free has a child that is     *)
(* alive and will wake it when it exits: also a process that was killed      *)
(* after it had looked at p->killed.                                         *)
THEOREM SleepersHaveChildren == Spec => []SleeperHasChild
  <1>1. SafeInv /\ FamilyInv /\ NoLostWakeup => SleeperHasChild
    <2> SUFFICES ASSUME SafeInv, FamilyInv, NoLostWakeup, wait_lock = NoProc,
                        NEW p \in Slot, state[p] = "SLEEPING", pc[p] = "w_lock"
                 PROVE  \E q \in Slot : parent[q] = p /\ state[q] \in Alive
      BY DEF SleeperHasChild
    <2>1. PICK q \in Slot : parent[q] = p
      BY DEF FamilyInv, WaitsForChild, Blocked
    <2>2. state[q] # "ZOMBIE"
      BY <2>1 DEF NoLostWakeup, ZombieChild
    <2>3. state[q] # "UNUSED"
      BY <2>1, SlotFacts DEF SafeInv, ParentInv, ParentLink
    <2>4. state[q] # "USED"
      BY <2>1, SlotFacts DEF FamilyInv, EmbryoParent
    <2> QED BY <2>1, <2>2, <2>3, <2>4 DEF SafeInv, TypeOK, ProcState, Alive
  <1> QED BY <1>1, FamilySafety, WakeupsNotLost, Safety, PTL

-----------------------------------------------------------------------------
(* The tree of processes. *)

(* Process x is the same node of the tree: its child of init was a child of  *)
(* somebody in kexit() before.                                               *)
QuietTree(x) ==
  /\ Exiting(x)' <=> Exiting(x)
  /\ state'[x] \in Alive <=> state[x] \in Alive
  /\ state'[x] = "ZOMBIE" <=> state[x] = "ZOMBIE"
  /\ Exiting(x) => arg'[x] = arg[x]
  /\ state[x] = "ZOMBIE" => xstate'[x] = xstate[x]
  /\ state[x] \in Alive \cup {"ZOMBIE"} =>
       \/ parent'[x] = parent[x]
       \/ parent[x] # NoProc /\ Exiting(parent[x]) /\ parent'[x] = initproc

(* A step that is quiet for every process is no step of the tree. *)
LEMMA TreeQuiet ==
  ASSUME TypeOK, InitLives', \A x \in Slot : QuietTree(x), ControlInv
  PROVE  UNCHANGED Abstract!tvars
  <1>1. \A x \in Slot : Exiting(x) => state[x] \in Alive
    BY DEF TypeOK, ControlInv, StatePc, Exiting, ProcState, Alive
  <1>2. UNCHANGED TreeSt
    BY DEF TreeSt, QuietTree
  <1>3. UNCHANGED TreeStatus
    BY DEF TreeStatus, QuietTree
  <1>4. ~Exiting(initproc)'
    BY DEF InitLives, Exiting, ExitPc
  <1>5. ASSUME NEW x \in Slot PROVE TreePar'[x] = TreePar[x]
    <2>1. CASE TreeSt[x] = "none"
      BY <1>2, <2>1 DEF TreePar
    <2>2. CASE TreeSt[x] # "none"
      <3>1. state[x] \in Alive \cup {"ZOMBIE"}
        BY <1>1, <2>2 DEF TreeSt
      <3>2. CASE parent'[x] = parent[x]
        BY <1>2, <3>2 DEF TreePar, QuietTree, TypeOK
      <3>3. CASE parent[x] # NoProc /\ Exiting(parent[x]) /\ parent'[x] = initproc
        BY <1>2, <1>4, <2>2, <3>3, SlotFacts DEF TreePar
      <3> QED BY <3>1, <3>2, <3>3 DEF QuietTree
    <2> QED BY <2>1, <2>2
  <1>6. UNCHANGED TreePar
    BY <1>5 DEF TreePar
  <1> QED BY <1>2, <1>3, <1>6 DEF Abstract!tvars

(* kfork() takes effect when the child becomes RUNNABLE. *)
LEMMA TreeFork ==
  ASSUME SafeInv, FamilyInv, NEW p \in Slot, kfork_runnable(p)
  PROVE  Abstract!TreeNext
  <1> DEFINE c == pp[p]
  <1>1. c \in Slot /\ p # c /\ state[c] = "USED" /\ state[p] = "RUNNING" /\ parent[c] = p
    BY DEF kfork_runnable, At, SafeInv, TypeOK, ControlInv, Embryo, FamilyInv,
           EmbryoParent
  <1>2. \A x \in Slot : Exiting(x)' <=> Exiting(x)
    BY DEF kfork_runnable, Return, Goto, At, SafeInv, TypeOK, Exiting
  <1>3. ~Exiting(p) /\ ~Exiting(c)
    BY <1>1 DEF kfork_runnable, At, SafeInv, ControlInv, StatePc, Exiting
  <1>4. \A x \in Slot : x # c => state'[x] = state[x] /\ arg'[x] = IF x = p THEN 0 ELSE arg[x]
    BY DEF kfork_runnable, Return, SafeInv, TypeOK
  <1>5. state'[c] = "RUNNABLE"
    BY <1>1 DEF kfork_runnable, SafeInv, TypeOK
  <1>6. TreeSt' = [TreeSt EXCEPT ![c] = "live"]
    BY <1>1, <1>2, <1>3, <1>4, <1>5 DEF TreeSt, Alive
  <1>7. TreeSt[p] = "live" /\ TreeSt[c] = "none"
    BY <1>1, <1>3 DEF TreeSt, Alive
  <1>8. UNCHANGED TreeStatus
    BY <1>1, <1>2, <1>3, <1>4, <1>5 DEF TreeStatus, kfork_runnable
  <1>9. TreePar' = [TreePar EXCEPT ![c] = p]
    <2>1. ASSUME NEW x \in Slot, x # c PROVE TreePar'[x] = TreePar[x]
      <3>1. TreeSt'[x] = TreeSt[x]
        BY <1>6, <2>1 DEF TreeSt
      <3> QED
        BY <1>2, <2>1, <3>1 DEF TreePar, kfork_runnable, SafeInv, TypeOK
    <2>2. TreePar'[c] = p
      <3>1. TreeSt'[c] # "none"
        BY <1>1, <1>6 DEF TreeSt
      <3> QED
        BY <1>1, <1>2, <1>3, <3>1, SlotFacts DEF TreePar, kfork_runnable
    <2> QED BY <2>1, <2>2, <1>1 DEF TreePar
  <1>10. TreeSt' # TreeSt
    BY <1>1, <1>6, <1>7 DEF TreeSt
  <1> QED
    BY <1>1, <1>6, <1>7, <1>8, <1>9, <1>10 DEF Abstract!TreeNext, Abstract!Fork

(* exit() takes effect when kexit() gets wait_lock: nobody else is exiting   *)
(* then, and all the children are init's from there on.                      *)
LEMMA TreeExit ==
  ASSUME SafeInv, FamilyInv, NEW p \in Slot, kexit_acquire(p)
  PROVE  Abstract!TreeNext
  <1>1. \A x \in Slot : ~Exiting(x)
    BY SlotFacts DEF kexit_acquire, SafeInv, ControlInv, LockDiscipline,
       HoldsWait, Exiting
  <1>2. \A x \in Slot : Exiting(x)' <=> x = p
    BY <1>1 DEF kexit_acquire, Goto, SafeInv, TypeOK, Exiting
  <1>3. p # initproc /\ arg[p] \in {1, -1} /\ state[p] = "RUNNING"
    BY DEF kexit_acquire, At, SafeInv, ControlInv, InitLives, FamilyInv,
           ExitStatus, ExitPc
  <1>4. UNCHANGED <<state, parent, arg, xstate>>
    BY DEF kexit_acquire, locals
  <1>5. TreeSt[p] = "live"
    BY <1>1, <1>3 DEF TreeSt, Alive
  <1>6. TreeSt' = [TreeSt EXCEPT ![p] = "zombie"]
    BY <1>1, <1>2, <1>4 DEF TreeSt
  <1>7. TreeStatus' = [TreeStatus EXCEPT ![p] = arg[p]]
    BY <1>1, <1>2, <1>4 DEF TreeStatus
  <1>8. TreePar' = [n \in Slot |-> IF TreePar[n] = p THEN initproc ELSE TreePar[n]]
    <2>1. ASSUME NEW x \in Slot
          PROVE  TreePar'[x] = IF TreePar[x] = p THEN initproc ELSE TreePar[x]
      <3>1. TreeSt'[x] = "none" <=> TreeSt[x] = "none"
        BY <1>5, <1>6 DEF TreeSt
      <3> QED
        BY <1>1, <1>2, <1>4, <3>1, SlotFacts DEF TreePar, SafeInv, TypeOK
    <2> QED BY <2>1 DEF TreePar
  <1>9. TreeSt' # TreeSt
    BY <1>5, <1>6 DEF TreeSt
  <1> QED
    BY <1>3, <1>5, <1>6, <1>7, <1>8, <1>9 DEF Abstract!TreeNext, Abstract!Exit

(* The end of kexit() shows nothing new: the zombie has its status, and no   *)
(* child was left to it.                                                     *)
LEMMA TreeZombie ==
  ASSUME SafeInv, NEW p \in Slot, kexit_zombie(p)
  PROVE  UNCHANGED Abstract!tvars
  <1>1. Exiting(p) /\ pc' = [pc EXCEPT ![p] = "dead"] /\ UNCHANGED parent
    BY DEF kexit_zombie, At, Goto, Exiting
  <1>2. state' = [state EXCEPT ![p] = "ZOMBIE"]
    BY SlotFacts DEF kexit_zombie, At, sched, SafeInv, ControlInv,
       LockDiscipline, HoldsTicks
  <1>3. \A x \in Slot : Exiting(x)' <=> x # p /\ Exiting(x)
    BY <1>1 DEF SafeInv, TypeOK, Exiting
  <1>4. \A x \in Slot : parent[x] # p
    BY DEF kexit_zombie, At, SafeInv, ParentInv, OrphanScan
  <1>5. UNCHANGED TreeSt
    BY <1>1, <1>2, <1>3 DEF TreeSt, SafeInv, TypeOK
  <1>6. \A x \in Slot : x # p => state'[x] = state[x] /\ arg'[x] = arg[x] /\ xstate'[x] = xstate[x]
    BY <1>2 DEF kexit_zombie, SafeInv, TypeOK
  <1>7. state'[p] = "ZOMBIE" /\ xstate'[p] = arg[p]
    BY <1>2 DEF kexit_zombie, SafeInv, TypeOK
  <1>8. UNCHANGED TreeStatus
    BY <1>1, <1>3, <1>6, <1>7 DEF TreeStatus
  <1>9. ASSUME NEW x \in Slot PROVE TreePar'[x] = TreePar[x]
    BY <1>1, <1>3, <1>4, <1>5, SlotFacts DEF TreePar, SafeInv, TypeOK
  <1>10. UNCHANGED TreePar
    BY <1>9 DEF TreePar
  <1> QED BY <1>5, <1>8, <1>10 DEF Abstract!tvars

(* wait() takes effect when kwait() frees the zombie, which has no children  *)
(* of its own.                                                               *)
LEMMA TreeWait ==
  ASSUME SafeInv, FamilyInv, NEW p \in Slot, kwait_reap(p)
  PROVE  Abstract!TreeNext
  <1> DEFINE c == pp[p]
  <1>1. c \in Slot /\ parent[c] = p /\ state[c] = "ZOMBIE" /\ state[p] = "RUNNING" /\ p # c
    BY DEF kwait_reap, At, SafeInv, TypeOK
  <1>2. \A x \in Slot : Exiting(x)' <=> Exiting(x)
    BY DEF kwait_reap, At, Return, Goto, SafeInv, TypeOK, Exiting
  <1>3. ~Exiting(p) /\ ~Exiting(c)
    BY <1>1 DEF kwait_reap, At, SafeInv, ControlInv, StatePc, Exiting
  <1>4. \A x \in Slot : x # c => state'[x] = state[x] /\ xstate'[x] = xstate[x]
                                /\ parent'[x] = parent[x]
    BY DEF kwait_reap, freeproc, SafeInv, TypeOK
  <1>5. \A x \in Slot : x # p => arg'[x] = arg[x]
    BY DEF kwait_reap, Return, SafeInv, TypeOK
  <1>6. state'[c] = "UNUSED" /\ xstate'[c] = 0
    BY <1>1 DEF kwait_reap, freeproc, SafeInv, TypeOK
  <1>7. TreeSt[p] = "live" /\ TreeSt[c] = "zombie"
    BY <1>1, <1>3 DEF TreeSt, Alive
  <1>8. TreePar[c] = p
    BY <1>1, <1>3, <1>7, SlotFacts DEF TreePar
  <1>9. TreeSt' = [TreeSt EXCEPT ![c] = "none"]
    BY <1>1, <1>2, <1>3, <1>4, <1>6 DEF TreeSt, Alive
  <1>10. TreeStatus' = [TreeStatus EXCEPT ![c] = 0]
    BY <1>1, <1>2, <1>3, <1>4, <1>5, <1>6 DEF TreeStatus
  <1>11. TreePar' = [TreePar EXCEPT ![c] = NoProc]
    <2>1. ASSUME NEW x \in Slot, x # c PROVE TreePar'[x] = TreePar[x]
      <3>1. TreeSt'[x] = TreeSt[x]
        BY <1>9, <2>1 DEF TreeSt
      <3> QED
        BY <1>2, <1>4, <2>1, <3>1 DEF TreePar, SafeInv, TypeOK
    <2>2. TreePar'[c] = NoProc
      BY <1>1, <1>9 DEF TreePar, TreeSt
    <2> QED BY <2>1, <2>2 DEF TreePar
  <1>12. TreeSt' # TreeSt
    BY <1>1, <1>7, <1>9 DEF TreeSt
  <1> QED
    BY <1>1, <1>7, <1>8, <1>9, <1>10, <1>11, <1>12
      DEF Abstract!TreeNext, Abstract!Wait

(* Every step of the table is a step of the tree, or none. *)
LEMMA TreeStep ==
  ASSUME SafeInv, SafeInv', FamilyInv, [Next]_vars
  PROVE  [Abstract!TreeNext]_(Abstract!tvars)
  <1> DEFINE Goal == [Abstract!TreeNext]_(Abstract!tvars)
  <1>0. ASSUME \A x \in Slot : QuietTree(x) PROVE Goal
    BY <1>0, TreeQuiet DEF SafeInv, ControlInv
  <1> SUFFICES Goal
    OBVIOUS
  <1> HIDE DEF Goal
  <1>1. ASSUME NEW p \in Slot, sys_fork(p) PROVE Goal
    BY <1>0, <1>1, SlotFacts
      DEF sys_fork, Call, Goto, locals, At, SafeInv, TypeOK, ControlInv,
          StatePc, Embryo, ParentInv, ParentLink, Exiting, Alive, QuietTree
  <1>2. ASSUME NEW p \in Slot, allocproc_skip(p) PROVE Goal
    BY <1>0, <1>2, SlotFacts
      DEF allocproc_skip, NextSlot, Goto, locals, At, SafeInv, TypeOK,
          ControlInv, StatePc, Embryo, ParentInv, ParentLink, Exiting, Alive,
          QuietTree
  <1>3. ASSUME NEW p \in Slot, allocproc(p) PROVE Goal
    BY <1>0, <1>3, SlotFacts
      DEF allocproc, locals, At, SafeInv, TypeOK, ControlInv, StatePc, Embryo,
          ParentInv, ParentLink, Exiting, Alive, QuietTree
  <1>4. ASSUME NEW p \in Slot, allocproc_fail(p) PROVE Goal
    BY <1>0, <1>4, SlotFacts
      DEF allocproc_fail, freeproc, Return, Goto, locals, At, SafeInv, TypeOK,
          ControlInv, StatePc, Embryo, ParentInv, ParentLink, Exiting, Alive,
          QuietTree
  <1>5. ASSUME NEW p \in Slot, kfork_parent(p) PROVE Goal
    BY <1>0, <1>5, SlotFacts
      DEF kfork_parent, Goto, locals, At, SafeInv, TypeOK, ControlInv, StatePc,
          Embryo, ParentInv, ParentLink, Exiting, Alive, QuietTree
  <1>6. ASSUME NEW p \in Slot, kfork_runnable(p) PROVE Goal
    BY <1>6, TreeFork DEF Goal
  <1>7. ASSUME NEW p \in Slot, sys_exit(p) PROVE Goal
    BY <1>0, <1>7, SlotFacts
      DEF sys_exit, kexit, Call, Goto, locals, At, SafeInv, TypeOK, ControlInv,
          StatePc, Embryo, ParentInv, ParentLink, Exiting, Alive, QuietTree
  <1>8. ASSUME NEW p \in Slot, usertrap_killed(p) PROVE Goal
    BY <1>0, <1>8, SlotFacts
      DEF usertrap_killed, kexit, Call, Goto, locals, At, SafeInv, TypeOK,
          ControlInv, StatePc, Embryo, ParentInv, ParentLink, Exiting, Alive,
          QuietTree
  <1>9. ASSUME NEW p \in Slot, kexit_acquire(p) PROVE Goal
    BY <1>9, TreeExit DEF Goal
  <1>10. ASSUME NEW p \in Slot, reparent(p) PROVE Goal
    BY <1>0, <1>10, SlotFacts
      DEF reparent, NextSlot, Goto, locals, At, SafeInv, TypeOK, ControlInv,
          StatePc, Embryo, ParentInv, ParentLink, Exiting, Alive, QuietTree
  <1>11. ASSUME NEW p \in Slot, reparent_wakeup(p) PROVE Goal
    BY <1>0, <1>11, SlotFacts
      DEF reparent_wakeup, wakeup, Goto, locals, At, SafeInv, TypeOK,
          ControlInv, StatePc, Embryo, ParentInv, ParentLink, Exiting, Alive,
          QuietTree
  <1>12. ASSUME NEW p \in Slot, kexit_wakeup(p) PROVE Goal
    BY <1>0, <1>12, SlotFacts
      DEF kexit_wakeup, wakeup, Goto, locals, At, SafeInv, TypeOK, ControlInv,
          StatePc, Embryo, ParentInv, ParentLink, Exiting, Alive, QuietTree
  <1>13. ASSUME NEW p \in Slot, kexit_zombie(p) PROVE Goal
    BY <1>13, TreeZombie DEF Goal
  <1>14. ASSUME NEW p \in Slot, NEW a \in {0, 1}, sys_wait(p, a) PROVE Goal
    BY <1>0, <1>14, SlotFacts
      DEF sys_wait, Call, Goto, locals, At, SafeInv, TypeOK, ControlInv,
          StatePc, Embryo, ParentInv, ParentLink, Exiting, Alive, QuietTree
  <1>15. ASSUME NEW p \in Slot, kwait_acquire(p) PROVE Goal
    BY <1>0, <1>15, SlotFacts
      DEF kwait_acquire, Goto, locals, At, SafeInv, TypeOK, ControlInv, StatePc,
          Embryo, ParentInv, ParentLink, Exiting, Alive, QuietTree
  <1>16. ASSUME NEW p \in Slot, kwait_scan(p) PROVE Goal
    BY <1>0, <1>16, SlotFacts
      DEF kwait_scan, NextSlot, Goto, locals, At, SafeInv, TypeOK, ControlInv,
          StatePc, Embryo, ParentInv, ParentLink, Exiting, Alive, QuietTree
  <1>17. ASSUME NEW p \in Slot, kwait_reap(p) PROVE Goal
    BY <1>17, TreeWait DEF Goal
  <1>18. ASSUME NEW p \in Slot, kwait_copyout_fail(p) PROVE Goal
    BY <1>0, <1>18, SlotFacts
      DEF kwait_copyout_fail, Return, Goto, locals, At, SafeInv, TypeOK,
          ControlInv, StatePc, Embryo, ParentInv, ParentLink, Exiting, Alive,
          QuietTree
  <1>19. ASSUME NEW p \in Slot, kwait_check(p) PROVE Goal
    BY <1>0, <1>19, SlotFacts
      DEF kwait_check, Return, Goto, locals, At, SafeInv, TypeOK, ControlInv,
          StatePc, Embryo, ParentInv, ParentLink, Exiting, Alive, QuietTree
  <1>20. ASSUME NEW p \in Slot, kwait_prepare(p) PROVE Goal
    BY <1>0, <1>20, SlotFacts
      DEF kwait_prepare, sleep_prepare, Goto, locals, At, SafeInv, TypeOK,
          ControlInv, StatePc, Embryo, ParentInv, ParentLink, Exiting, Alive,
          QuietTree
  <1>21. ASSUME NEW p \in Slot, kwait_sleep(p) PROVE Goal
    BY <1>0, <1>21, SlotFacts
      DEF kwait_sleep, sleep, sched, Goto, locals, At, SafeInv, TypeOK,
          ControlInv, StatePc, Embryo, ParentInv, ParentLink, Exiting, Alive,
          QuietTree
  <1>22. ASSUME NEW p \in Slot, NEW n \in KillTargets, sys_kill(p, n) PROVE Goal
    BY <1>0, <1>22, SlotFacts
      DEF sys_kill, Call, Goto, locals, At, SafeInv, TypeOK, ControlInv,
          StatePc, Embryo, ParentInv, ParentLink, Exiting, Alive, QuietTree
  <1>23. ASSUME NEW p \in Slot, kkill(p) PROVE Goal
    BY <1>0, <1>23, SlotFacts
      DEF kkill, Return, Goto, locals, At, SafeInv, TypeOK, ControlInv, StatePc,
          Embryo, ParentInv, ParentLink, Exiting, Alive, QuietTree
  <1>24. ASSUME NEW p \in Slot, setkilled(p) PROVE Goal
    BY <1>0, <1>24, SlotFacts
      DEF setkilled, locals, At, SafeInv, TypeOK, ControlInv, StatePc, Embryo,
          ParentInv, ParentLink, Exiting, Alive, QuietTree
  <1>25. ASSUME NEW p \in Slot, NEW n \in PauseArgs, sys_pause(p, n) PROVE Goal
    BY <1>0, <1>25, SlotFacts
      DEF sys_pause, Call, Goto, locals, At, SafeInv, TypeOK, ControlInv,
          StatePc, Embryo, ParentInv, ParentLink, Exiting, Alive, QuietTree
  <1>26. ASSUME NEW p \in Slot, pause_start(p) PROVE Goal
    BY <1>0, <1>26, SlotFacts
      DEF pause_start, Goto, locals, At, SafeInv, TypeOK, ControlInv, StatePc,
          Embryo, ParentInv, ParentLink, Exiting, Alive, QuietTree
  <1>27. ASSUME NEW p \in Slot, pause_check(p) PROVE Goal
    BY <1>0, <1>27, SlotFacts
      DEF pause_check, Return, Goto, locals, At, SafeInv, TypeOK, ControlInv,
          StatePc, Embryo, ParentInv, ParentLink, Exiting, Alive, QuietTree
  <1>28. ASSUME NEW p \in Slot, pause_prepare(p) PROVE Goal
    BY <1>0, <1>28, SlotFacts
      DEF pause_prepare, sleep_prepare, Goto, locals, At, SafeInv, TypeOK,
          ControlInv, StatePc, Embryo, ParentInv, ParentLink, Exiting, Alive,
          QuietTree
  <1>29. ASSUME NEW p \in Slot, pause_sleep(p) PROVE Goal
    BY <1>0, <1>29, SlotFacts
      DEF pause_sleep, sleep, sched, Goto, locals, At, SafeInv, TypeOK,
          ControlInv, StatePc, Embryo, ParentInv, ParentLink, Exiting, Alive,
          QuietTree
  <1>30. ASSUME NEW p \in Slot, pause_acquire(p) PROVE Goal
    BY <1>0, <1>30, SlotFacts
      DEF pause_acquire, Goto, locals, At, SafeInv, TypeOK, ControlInv, StatePc,
          Embryo, ParentInv, ParentLink, Exiting, Alive, QuietTree
  <1>31. ASSUME NEW p \in Slot, yield(p) PROVE Goal
    BY <1>0, <1>31, SlotFacts
      DEF yield, sched, locals, At, SafeInv, TypeOK, ControlInv, StatePc,
          Embryo, ParentInv, ParentLink, Exiting, Alive, QuietTree
  <1>32. ASSUME NEW p \in Slot, NEW c \in CPUs, scheduler(c, p) PROVE Goal
    BY <1>0, <1>32, SlotFacts
      DEF scheduler, locals, At, SafeInv, TypeOK, ControlInv, StatePc, Embryo,
          ParentInv, ParentLink, Exiting, Alive, QuietTree
  <1>33. ASSUME clockintr PROVE Goal
    BY <1>0, <1>33, SlotFacts
      DEF clockintr, locals, At, SafeInv, TypeOK, ControlInv, StatePc, Embryo,
          ParentInv, ParentLink, Exiting, Alive, QuietTree
  <1>34. ASSUME clockintr_wakeup PROVE Goal
    BY <1>0, <1>34, SlotFacts
      DEF clockintr_wakeup, wakeup, locals, At, SafeInv, TypeOK, ControlInv,
          StatePc, Embryo, ParentInv, ParentLink, Exiting, Alive, QuietTree
  <1>35. CASE UNCHANGED vars
    BY <1>0, <1>35 DEF vars, QuietTree, Exiting
  <1> QED
    BY <1>1, <1>2, <1>3, <1>4, <1>5, <1>6, <1>7, <1>8, <1>9, <1>10, <1>11,
       <1>12, <1>13, <1>14, <1>15, <1>16, <1>17, <1>18, <1>19, <1>20, <1>21,
       <1>22, <1>23, <1>24, <1>25, <1>26, <1>27, <1>28, <1>29, <1>30, <1>31,
       <1>32, <1>33, <1>34, <1>35
    DEF Next, User, Step, Acquire, Advance, Clock

(* Fork, exit and wait look atomic to every program: the process table, with *)
(* its locks and its loops over proc[], implements the tree of processes.    *)
THEOREM TableImplementsTree == Spec => ImplementsTree
  <1>1. Init => Abstract!TreeInit
    BY SlotFacts DEF Init, Abstract!TreeInit, TreeSt, TreePar, TreeStatus,
       Exiting, Alive
  <1>2. SafeInv /\ SafeInv' /\ FamilyInv /\ [Next]_vars
          => [Abstract!TreeNext]_(Abstract!tvars)
    BY TreeStep
  <1> QED
    BY <1>1, <1>2, Safety, FamilySafety, PTL
      DEF Spec, ImplementsTree, Abstract!TreeSpec
=============================================================================
