-------------------------------- MODULE Proc --------------------------------
(***************************************************************************)
(* The process table of the kernel (Proyecto3/kernel/proc.c) and the       *)
(* system calls that work on it (sysproc.c): fork, exit, wait, kill and    *)
(* pause, with sleep_prepare/sleep/wakeup, yield and the scheduler.        *)
(*                                                                         *)
(* Granularity.  Every section of the code between acquire(&p->lock) and   *)
(* release(&p->lock) touches only what p->lock protects and runs with      *)
(* interrupts off, so it is one step; the hand-over of p->lock between     *)
(* scheduler() and the process across swtch() is part of the same step.    *)
(* wait_lock and tickslock span several such sections and are variables.   *)
(* A loop over proc[] is one step per slot, because other CPUs run between *)
(* two iterations.  A thread that holds no spinlock can be interrupted     *)
(* between any two steps (yield).                                          *)
(***************************************************************************)
EXTENDS Integers, FiniteSets

CONSTANTS
  NPROC,          \* number of slots of proc[]
  CPUs,           \* the harts, each running scheduler()
  MaxPid,         \* bound: no fork starts once nextpid would pass it
  Workload,       \* the system calls that user programs issue
  KillTargets,    \* the pids that user programs pass to kill()
  PauseArgs,      \* the tick counts that user programs pass to pause()
  RejectsPidZero  \* kkill(0) returns -1: TRUE in Proyecto3, FALSE in Proyecto2

Syscalls == {"fork", "exit", "wait", "kill", "pause", "fault"}

ASSUME ProcAssumption ==
  /\ NPROC \in Nat \ {0}
  /\ MaxPid \in Nat
  /\ Workload \subseteq Syscalls
  /\ KillTargets \subseteq Nat
  /\ PauseArgs \subseteq Int
  /\ RejectsPidZero \in BOOLEAN

Slot     == 1..NPROC
initproc == 1            \* userinit() gets proc[0] from allocproc()
NoProc   == 0            \* the null struct proc *
TICKS    == NPROC + 1    \* the channel &ticks
CLOCK    == NPROC + 1    \* the clock interrupt handler as holder of tickslock

ProcState == {"UNUSED", "USED", "SLEEPING", "RUNNABLE", "RUNNING", "ZOMBIE"}

VARIABLES
  \* struct proc
  state, chan, killed, xstate, pid, parent,
  \* globals
  nextpid, wait_lock, tickslock,
  cpu,        \* c->proc
  \* the kernel thread of each process: where it is, and its locals
  pc,
  pp,         \* the slot a loop over proc[] is at; np in kfork()
  wp,         \* the slot the loop of wakeup() is at
  arg, havekids,
  left,       \* n - (ticks - ticks0) of a pause() in progress, 0 when none
  tick,       \* position of the clock interrupt in wakeup(&ticks), 0 when idle
  panicked    \* panic() was called: the machine has stopped

locals == <<pp, wp, arg, havekids>>
locks  == <<wait_lock, tickslock>>

vars == <<state, chan, killed, xstate, pid, parent, nextpid, wait_lock,
          tickslock, cpu, pc, pp, wp, arg, havekids, left, tick, panicked>>

(* Where a kernel thread can be.  "user" is user mode; "dead" is the sched() *)
(* at the end of kexit(), which must not return.                             *)
ForkPc  == {"f_scan", "f_link", "f_run"}
ExitPc  == {"x_lock", "x_rep", "x_repw", "x_wake", "x_zomb"}
WaitPc  == {"w_lock", "w_scan", "w_chk", "w_prep", "w_sleep"}
PausePc == {"p_start", "p_lock", "p_chk", "p_prep", "p_sleep"}
Pc == {"user", "dead", "k_scan"} \cup ForkPc \cup ExitPc \cup WaitPc \cup PausePc

(* The threads that are inside a wait_lock, or a tickslock, critical section. *)
HoldsWait  == {"x_rep", "x_repw", "x_wake", "x_zomb", "w_scan", "w_chk", "w_prep"}
HoldsTicks == {"p_chk", "p_prep"}

(* procinit() and userinit(): the first process is RUNNABLE, the rest of the *)
(* table is UNUSED.                                                          *)
Init ==
  /\ state    = [q \in Slot |-> IF q = initproc THEN "RUNNABLE" ELSE "UNUSED"]
  /\ chan     = [q \in Slot |-> 0]
  /\ killed   = [q \in Slot |-> FALSE]
  /\ xstate   = [q \in Slot |-> 0]
  /\ pid      = [q \in Slot |-> IF q = initproc THEN 1 ELSE 0]
  /\ parent   = [q \in Slot |-> NoProc]
  /\ nextpid  = 2
  /\ wait_lock = NoProc
  /\ tickslock = NoProc
  /\ cpu      = [c \in CPUs |-> NoProc]
  /\ pc       = [q \in Slot |-> "user"]
  /\ pp       = [q \in Slot |-> 1]
  /\ wp       = [q \in Slot |-> 1]
  /\ arg      = [q \in Slot |-> 0]
  /\ havekids = [q \in Slot |-> FALSE]
  /\ left     = [q \in Slot |-> 0]
  /\ tick     = 0
  /\ panicked = FALSE

-----------------------------------------------------------------------------
(* Helpers. *)

(* The thread of p is executing at l; after a panic() nothing executes. *)
At(p, l) == ~panicked /\ state[p] = "RUNNING" /\ pc[p] = l

Goto(p, l) == pc' = [pc EXCEPT ![p] = l]

\* Mutant: the loop runs one slot past proc[].
NextSlot_past(p, l) ==
  IF pp[p] <= NPROC
  THEN /\ pp' = [pp EXCEPT ![p] = @ + 1]
       /\ UNCHANGED pc
  ELSE /\ pp' = [pp EXCEPT ![p] = 1]
       /\ Goto(p, l)

(* The end of an iteration of a loop over proc[]; l is where the loop exits. *)
NextSlot(p, l) ==
  IF pp[p] < NPROC
  THEN /\ pp' = [pp EXCEPT ![p] = @ + 1]
       /\ UNCHANGED pc
  ELSE /\ pp' = [pp EXCEPT ![p] = 1]
       /\ Goto(p, l)

(* Leave the kernel: the locals of the thread are forgotten. *)
Return(p) ==
  /\ Goto(p, "user")
  /\ pp' = [pp EXCEPT ![p] = 1]
  /\ arg' = [arg EXCEPT ![p] = 0]
  /\ havekids' = [havekids EXCEPT ![p] = FALSE]
  /\ UNCHANGED wp

(* Enter the kernel at l with argument n. *)
Call(p, l, n) ==
  /\ Goto(p, l)
  /\ arg' = [arg EXCEPT ![p] = n]
  /\ UNCHANGED <<pp, wp, havekids>>

\* Mutant: p->killed survives in the free slot.
freeproc_keeps_killed(q) ==
  /\ pid' = [pid EXCEPT ![q] = 0]
  /\ chan' = [chan EXCEPT ![q] = 0]
  /\ xstate' = [xstate EXCEPT ![q] = 0]
  /\ state' = [state EXCEPT ![q] = "UNUSED"]
  /\ UNCHANGED killed

(* freeproc(): the slot is UNUSED and keeps nothing of its owner, except    *)
(* p->parent, which the caller clears.                                      *)
freeproc(q) ==
  /\ pid' = [pid EXCEPT ![q] = 0]
  /\ chan' = [chan EXCEPT ![q] = 0]
  /\ killed' = [killed EXCEPT ![q] = FALSE]
  /\ xstate' = [xstate EXCEPT ![q] = 0]
  /\ state' = [state EXCEPT ![q] = "UNUSED"]

(* sched(): the thread of p leaves its CPU in state s.  It panics when p    *)
(* still holds another spinlock than p->lock.                               *)
sched(p, s) ==
  IF wait_lock' = p \/ tickslock' = p
  THEN /\ panicked' = TRUE
       /\ UNCHANGED <<state, cpu>>
  ELSE /\ state' = [state EXCEPT ![p] = s]
       /\ cpu' = [c \in CPUs |-> IF cpu[c] = p THEN NoProc ELSE cpu[c]]
       /\ UNCHANGED panicked

\* Mutant: a wakeup() since sleep_prepare() is not noticed.
sleep_unchecked(p) == sched(p, "SLEEPING")

(* sleep(): nothing to sleep for when wakeup() already cleared p->chan. *)
sleep(p) ==
  IF chan[p] # 0
  THEN sched(p, "SLEEPING")
  ELSE UNCHANGED <<state, cpu, panicked>>

sleep_prepare(p, ch) == chan' = [chan EXCEPT ![p] = ch]

\* Mutant: a thread that has not gone to sleep yet is made RUNNABLE too.
wakeup_awake(q, ch) ==
  /\ chan' = [chan EXCEPT ![q] = IF @ = ch THEN 0 ELSE @]
  /\ state' = [state EXCEPT ![q] = IF chan[q] = ch THEN "RUNNABLE" ELSE @]

(* One iteration, on slot q, of the loop of wakeup(ch). *)
wakeup(q, ch) ==
  /\ chan' = [chan EXCEPT ![q] = IF @ = ch THEN 0 ELSE @]
  /\ state' = [state EXCEPT ![q] =
                 IF chan[q] = ch /\ @ = "SLEEPING" THEN "RUNNABLE" ELSE @]

-----------------------------------------------------------------------------
(* fork(): kfork() and allocproc(). *)

(* The bound on pids: every scan for a free slot may allocate one. *)
PidsLeft ==
  nextpid + Cardinality({q \in Slot : pc[q] = "f_scan"}) <= MaxPid

sys_fork(p) ==
  /\ "fork" \in Workload
  /\ At(p, "user") /\ ~killed[p]
  /\ PidsLeft
  /\ Call(p, "f_scan", 0)
  /\ UNCHANGED <<state, chan, killed, xstate, pid, parent, nextpid, locks, cpu,
                 left, tick, panicked>>

(* The scan of allocproc() passes a slot that is in use. *)
allocproc_skip(p) ==
  /\ At(p, "f_scan")
  /\ state[pp[p]] # "UNUSED"
  /\ NextSlot(p, "user")
  /\ UNCHANGED <<state, chan, killed, xstate, pid, parent, nextpid, locks, cpu,
                 wp, arg, havekids, left, tick, panicked>>

(* allocproc() takes the slot and kfork() copies the parent into it, all     *)
(* under np->lock.  Nothing resets chan, killed, xstate or parent here: the  *)
(* slot is as freeproc() left it.  The new thread starts in forkret().       *)
allocproc(p) ==
  LET np == pp[p] IN
  /\ At(p, "f_scan")
  /\ state[np] = "UNUSED"
  /\ pid' = [pid EXCEPT ![np] = nextpid]
  /\ nextpid' = nextpid + 1
  /\ state' = [state EXCEPT ![np] = "USED"]
  /\ pc' = [pc EXCEPT ![p] = "f_link", ![np] = "user"]
  /\ UNCHANGED <<chan, killed, xstate, parent, locks, cpu, locals, left, tick,
                 panicked>>

(* A kalloc() of allocproc(), proc_pagetable() or uvmcopy() fails: the slot  *)
(* goes back, the pid is spent and fork returns -1.                          *)
allocproc_fail(p) ==
  /\ At(p, "f_scan")
  /\ state[pp[p]] = "UNUSED"
  /\ nextpid' = nextpid + 1
  /\ freeproc(pp[p])
  /\ Return(p)
  /\ UNCHANGED <<parent, locks, cpu, left, tick, panicked>>

(* acquire(&wait_lock); np->parent = p; release(&wait_lock); *)
kfork_parent(p) ==
  /\ At(p, "f_link")
  /\ wait_lock = NoProc
  /\ parent' = [parent EXCEPT ![pp[p]] = p]
  /\ Goto(p, "f_run")
  /\ UNCHANGED <<state, chan, killed, xstate, pid, nextpid, locks, cpu, locals,
                 left, tick, panicked>>

(* acquire(&np->lock); np->state = RUNNABLE; release(&np->lock); *)
kfork_runnable(p) ==
  /\ At(p, "f_run")
  /\ state' = [state EXCEPT ![pp[p]] = "RUNNABLE"]
  /\ Return(p)
  /\ UNCHANGED <<chan, killed, xstate, pid, parent, nextpid, locks, cpu, left,
                 tick, panicked>>

-----------------------------------------------------------------------------
(* exit(): kexit() and reparent(). *)

(* The entry of kexit(): init must not exit.  A program's own status is 1,   *)
(* that of a killed process is -1.                                           *)
kexit(p, status) ==
  IF p = initproc
  THEN /\ panicked' = TRUE
       /\ UNCHANGED <<pc, locals>>
  ELSE /\ Call(p, "x_lock", status)
       /\ UNCHANGED panicked

sys_exit(p) ==
  /\ "exit" \in Workload
  /\ p # initproc                  \* the init program never calls exit()
  /\ At(p, "user") /\ ~killed[p]
  /\ kexit(p, 1)
  /\ UNCHANGED <<state, chan, killed, xstate, pid, parent, nextpid, locks, cpu,
                 left, tick>>

(* External, trap.c: usertrap() sends a killed process to kexit(-1). *)
usertrap_killed(p) ==
  /\ At(p, "user") /\ killed[p]
  /\ kexit(p, -1)
  /\ UNCHANGED <<state, chan, killed, xstate, pid, parent, nextpid, locks, cpu,
                 left, tick>>

\* Mutant: exit() does not wait for wait_lock.
kexit_acquire_none(p) ==
  /\ At(p, "x_lock")
  /\ Goto(p, "x_rep")
  /\ UNCHANGED <<state, chan, killed, xstate, pid, parent, nextpid, locks,
                 cpu, locals, left, tick, panicked>>

kexit_acquire(p) ==
  /\ At(p, "x_lock")
  /\ wait_lock = NoProc
  /\ wait_lock' = p
  /\ Goto(p, "x_rep")
  /\ UNCHANGED <<state, chan, killed, xstate, pid, parent, nextpid, tickslock,
                 cpu, locals, left, tick, panicked>>

\* Mutant: the children keep their parent.
reparent_none(p) ==
  /\ At(p, "x_rep")
  /\ NextSlot(p, "x_wake")
  /\ UNCHANGED <<state, chan, killed, xstate, pid, parent, nextpid, locks, cpu, wp,
                 arg, havekids, left, tick, panicked>>

(* One iteration of reparent(). *)
reparent(p) ==
  /\ At(p, "x_rep")
  /\ IF parent[pp[p]] = p
     THEN /\ parent' = [parent EXCEPT ![pp[p]] = initproc]
          /\ Goto(p, "x_repw")
          /\ UNCHANGED pp
     ELSE /\ NextSlot(p, "x_wake")
          /\ UNCHANGED parent
  /\ UNCHANGED <<state, chan, killed, xstate, pid, nextpid, locks, cpu, wp, arg,
                 havekids, left, tick, panicked>>

(* The wakeup(initproc) of reparent(), which then goes to its next slot. *)
reparent_wakeup(p) ==
  /\ At(p, "x_repw")
  /\ wakeup(wp[p], initproc)
  /\ IF wp[p] < NPROC
     THEN /\ wp' = [wp EXCEPT ![p] = @ + 1]
          /\ UNCHANGED <<pc, pp>>
     ELSE /\ wp' = [wp EXCEPT ![p] = 1]
          /\ IF pp[p] < NPROC
             THEN pp' = [pp EXCEPT ![p] = @ + 1] /\ Goto(p, "x_rep")
             ELSE pp' = [pp EXCEPT ![p] = 1] /\ Goto(p, "x_wake")
  /\ UNCHANGED <<killed, xstate, pid, parent, nextpid, locks, cpu, arg, havekids,
                 left, tick, panicked>>

\* Mutant: wakeup(p), a channel nobody sleeps on.
kexit_wakeup_self(p) ==
  /\ At(p, "x_wake")
  /\ wakeup(wp[p], p)
  /\ IF wp[p] < NPROC
     THEN wp' = [wp EXCEPT ![p] = @ + 1] /\ UNCHANGED pc
     ELSE wp' = [wp EXCEPT ![p] = 1] /\ Goto(p, "x_zomb")
  /\ UNCHANGED <<killed, xstate, pid, parent, nextpid, locks, cpu, pp, arg,
                 havekids, left, tick, panicked>>

(* wakeup(p->parent) *)
kexit_wakeup(p) ==
  /\ At(p, "x_wake")
  /\ wakeup(wp[p], parent[p])
  /\ IF wp[p] < NPROC
     THEN wp' = [wp EXCEPT ![p] = @ + 1] /\ UNCHANGED pc
     ELSE wp' = [wp EXCEPT ![p] = 1] /\ Goto(p, "x_zomb")
  /\ UNCHANGED <<killed, xstate, pid, parent, nextpid, locks, cpu, pp, arg,
                 havekids, left, tick, panicked>>

\* Mutant: the status is not stored.
kexit_zombie_status(p) ==
  /\ At(p, "x_zomb")
  /\ wait_lock' = NoProc
  /\ UNCHANGED <<tickslock, xstate>>
  /\ sched(p, "ZOMBIE")
  /\ Goto(p, "dead")
  /\ arg' = [arg EXCEPT ![p] = 0]
  /\ UNCHANGED <<chan, killed, pid, parent, nextpid, pp, wp, havekids, left, tick>>

(* From acquire(&p->lock) to the sched() that never returns.  wait_lock is   *)
(* released inside, but whoever takes it finds p->lock held until p is off   *)
(* its CPU.                                                                  *)
kexit_zombie(p) ==
  /\ At(p, "x_zomb")
  /\ xstate' = [xstate EXCEPT ![p] = arg[p]]
  /\ wait_lock' = NoProc
  /\ UNCHANGED tickslock
  /\ sched(p, "ZOMBIE")
  /\ Goto(p, "dead")
  /\ arg' = [arg EXCEPT ![p] = 0]
  /\ UNCHANGED <<chan, killed, pid, parent, nextpid, pp, wp, havekids, left, tick>>

-----------------------------------------------------------------------------
(* wait(): kwait().  The argument is 1 when addr is not null. *)

sys_wait(p, addr) ==
  /\ "wait" \in Workload
  /\ At(p, "user") /\ ~killed[p]
  /\ Call(p, "w_lock", addr)
  /\ UNCHANGED <<state, chan, killed, xstate, pid, parent, nextpid, locks, cpu,
                 left, tick, panicked>>

(* acquire(&wait_lock), at the start and after sleep(); havekids = 0. *)
kwait_acquire(p) ==
  /\ At(p, "w_lock")
  /\ wait_lock = NoProc
  /\ wait_lock' = p
  /\ havekids' = [havekids EXCEPT ![p] = FALSE]
  /\ Goto(p, "w_scan")
  /\ UNCHANGED <<state, chan, killed, xstate, pid, parent, nextpid, tickslock,
                 cpu, pp, wp, arg, left, tick, panicked>>

(* The scan of kwait() at a slot that is not a zombie child. *)
kwait_scan(p) ==
  /\ At(p, "w_scan")
  /\ ~(parent[pp[p]] = p /\ state[pp[p]] = "ZOMBIE")
  /\ havekids' = [havekids EXCEPT ![p] = @ \/ parent[pp[p]] = p]
  /\ NextSlot(p, "w_chk")
  /\ UNCHANGED <<state, chan, killed, xstate, pid, parent, nextpid, locks, cpu,
                 wp, arg, left, tick, panicked>>

\* Mutant: any zombie is reaped, not only a child.
kwait_reap_any(p) ==
  /\ At(p, "w_scan")
  /\ state[pp[p]] = "ZOMBIE"
  /\ parent' = [parent EXCEPT ![pp[p]] = NoProc]
  /\ freeproc(pp[p])
  /\ wait_lock' = NoProc
  /\ Return(p)
  /\ UNCHANGED <<nextpid, tickslock, cpu, left, tick, panicked>>

(* The scan finds a zombie child and frees it. *)
kwait_reap(p) ==
  /\ At(p, "w_scan")
  /\ parent[pp[p]] = p /\ state[pp[p]] = "ZOMBIE"
  /\ parent' = [parent EXCEPT ![pp[p]] = NoProc]
  /\ freeproc(pp[p])
  /\ wait_lock' = NoProc
  /\ Return(p)
  /\ UNCHANGED <<nextpid, tickslock, cpu, left, tick, panicked>>

(* The copyout() of the status fails: the zombie stays. *)
kwait_copyout_fail(p) ==
  /\ At(p, "w_scan")
  /\ parent[pp[p]] = p /\ state[pp[p]] = "ZOMBIE"
  /\ arg[p] # 0
  /\ wait_lock' = NoProc
  /\ Return(p)
  /\ UNCHANGED <<state, chan, killed, xstate, pid, parent, nextpid, tickslock,
                 cpu, left, tick, panicked>>

\* Mutant: the early return keeps wait_lock.
kwait_check_keeps_lock(p) ==
  /\ At(p, "w_chk")
  /\ IF ~havekids[p] \/ killed[p]
     THEN Return(p)
     ELSE Goto(p, "w_prep") /\ UNCHANGED locals
  /\ UNCHANGED <<state, chan, killed, xstate, pid, parent, nextpid, locks, cpu,
                 left, tick, panicked>>

\* Mutant: a process without children waits too.
kwait_check_childless(p) ==
  /\ At(p, "w_chk")
  /\ IF killed[p]
     THEN Return(p) /\ wait_lock' = NoProc
     ELSE Goto(p, "w_prep") /\ UNCHANGED <<locals, wait_lock>>
  /\ UNCHANGED <<state, chan, killed, xstate, pid, parent, nextpid, tickslock,
                 cpu, left, tick, panicked>>

(* if (!havekids || killed(p)) *)
kwait_check(p) ==
  /\ At(p, "w_chk")
  /\ IF ~havekids[p] \/ killed[p]
     THEN Return(p) /\ wait_lock' = NoProc
     ELSE Goto(p, "w_prep") /\ UNCHANGED <<locals, wait_lock>>
  /\ UNCHANGED <<state, chan, killed, xstate, pid, parent, nextpid, tickslock,
                 cpu, left, tick, panicked>>

\* Mutant: kwait() goes to sleep with wait_lock held.
kwait_prepare_locked(p) ==
  /\ At(p, "w_prep")
  /\ sleep_prepare(p, p)
  /\ Goto(p, "w_sleep")
  /\ UNCHANGED <<state, killed, xstate, pid, parent, nextpid, locks, cpu, locals,
                 left, tick, panicked>>

(* sleep_prepare(p); release(&wait_lock); *)
kwait_prepare(p) ==
  /\ At(p, "w_prep")
  /\ sleep_prepare(p, p)
  /\ wait_lock' = NoProc
  /\ Goto(p, "w_sleep")
  /\ UNCHANGED <<state, killed, xstate, pid, parent, nextpid, tickslock, cpu,
                 locals, left, tick, panicked>>

kwait_sleep(p) ==
  /\ At(p, "w_sleep")
  /\ UNCHANGED locks
  /\ sleep(p)
  /\ Goto(p, "w_lock")
  /\ UNCHANGED <<chan, killed, xstate, pid, parent, nextpid, locals, left, tick>>

-----------------------------------------------------------------------------
(* kill(): kkill() and setkilled(). *)

\* Mutant: pid 0 is not rejected.
sys_kill_zero(p, n) ==
  /\ "kill" \in Workload
  /\ At(p, "user") /\ ~killed[p]
  /\ Call(p, "k_scan", n)
  /\ UNCHANGED <<state, chan, killed, xstate, pid, parent, nextpid, locks, cpu,
                 left, tick, panicked>>

(* kkill() up to its loop; it rejects pid 0 in Proyecto3. *)
sys_kill(p, n) ==
  /\ "kill" \in Workload
  /\ At(p, "user") /\ ~killed[p]
  /\ IF RejectsPidZero /\ n = 0
     THEN UNCHANGED <<pc, locals>>
     ELSE Call(p, "k_scan", n)
  /\ UNCHANGED <<state, chan, killed, xstate, pid, parent, nextpid, locks, cpu,
                 left, tick, panicked>>

(* One iteration of kkill(). *)
kkill(p) ==
  LET q == pp[p] IN
  /\ At(p, "k_scan")
  /\ IF pid[q] = arg[p]
     THEN /\ killed' = [killed EXCEPT ![q] = TRUE]
          /\ state' = [state EXCEPT ![q] =
                         IF @ = "SLEEPING" THEN "RUNNABLE" ELSE @]
          /\ Return(p)
     ELSE /\ IF q < NPROC
             THEN /\ pp' = [pp EXCEPT ![p] = @ + 1]
                  /\ UNCHANGED <<pc, wp, arg, havekids>>
             ELSE Return(p)
          /\ UNCHANGED <<state, killed>>
  /\ UNCHANGED <<chan, xstate, pid, parent, nextpid, locks, cpu, left, tick,
                 panicked>>

(* External, trap.c: usertrap() calls setkilled(p) on an unexpected fault. *)
setkilled(p) ==
  /\ "fault" \in Workload
  /\ p # initproc                  \* the init program does not fault
  /\ At(p, "user") /\ ~killed[p]
  /\ killed' = [killed EXCEPT ![p] = TRUE]
  /\ UNCHANGED <<state, chan, xstate, pid, parent, nextpid, locks, cpu, pc,
                 locals, left, tick, panicked>>

-----------------------------------------------------------------------------
(* pause(): sys_pause() and the clock interrupt. *)

sys_pause(p, n) ==
  /\ "pause" \in Workload
  /\ At(p, "user") /\ ~killed[p]
  /\ Call(p, "p_start", n)
  /\ UNCHANGED <<state, chan, killed, xstate, pid, parent, nextpid, locks, cpu,
                 left, tick, panicked>>

(* if (n < 0) n = 0; acquire(&tickslock); ticks0 = ticks; *)
pause_start(p) ==
  /\ At(p, "p_start")
  /\ tickslock = NoProc
  /\ tickslock' = p
  /\ left' = [left EXCEPT ![p] = IF arg[p] < 0 THEN 0 ELSE arg[p]]
  /\ Goto(p, "p_chk")
  /\ UNCHANGED <<state, chan, killed, xstate, pid, parent, nextpid, wait_lock,
                 cpu, locals, tick, panicked>>

(* The while condition and the test of killed(myproc()). *)
pause_check(p) ==
  /\ At(p, "p_chk")
  /\ IF left[p] = 0 \/ killed[p]
     THEN /\ left' = [left EXCEPT ![p] = 0]
          /\ tickslock' = NoProc
          /\ Return(p)
     ELSE Goto(p, "p_prep") /\ UNCHANGED <<left, tickslock, locals>>
  /\ UNCHANGED <<state, chan, killed, xstate, pid, parent, nextpid, wait_lock,
                 cpu, tick, panicked>>

\* Mutant: the channel is not the one that the clock interrupt wakes.
pause_prepare_channel(p) ==
  /\ At(p, "p_prep")
  /\ sleep_prepare(p, p)
  /\ tickslock' = NoProc
  /\ Goto(p, "p_sleep")
  /\ UNCHANGED <<state, killed, xstate, pid, parent, nextpid, wait_lock, cpu,
                 locals, left, tick, panicked>>

(* sleep_prepare(&ticks); release(&tickslock); *)
pause_prepare(p) ==
  /\ At(p, "p_prep")
  /\ sleep_prepare(p, TICKS)
  /\ tickslock' = NoProc
  /\ Goto(p, "p_sleep")
  /\ UNCHANGED <<state, killed, xstate, pid, parent, nextpid, wait_lock, cpu,
                 locals, left, tick, panicked>>

pause_sleep(p) ==
  /\ At(p, "p_sleep")
  /\ UNCHANGED locks
  /\ sleep(p)
  /\ Goto(p, "p_lock")
  /\ UNCHANGED <<chan, killed, xstate, pid, parent, nextpid, locals, left, tick>>

(* acquire(&tickslock) after sleep() *)
pause_acquire(p) ==
  /\ At(p, "p_lock")
  /\ tickslock = NoProc
  /\ tickslock' = p
  /\ Goto(p, "p_chk")
  /\ UNCHANGED <<state, chan, killed, xstate, pid, parent, nextpid, wait_lock,
                 cpu, locals, left, tick, panicked>>

(* External, trap.c: clockintr() does acquire(&tickslock); ticks++;          *)
(* wakeup(&ticks); release(&tickslock).                                      *)
clockintr ==
  /\ ~panicked
  /\ "pause" \in Workload
  /\ tickslock = NoProc
  /\ tickslock' = CLOCK
  /\ left' = [q \in Slot |-> IF left[q] > 0 THEN left[q] - 1 ELSE 0]
  /\ tick' = 1
  /\ UNCHANGED <<state, chan, killed, xstate, pid, parent, nextpid, wait_lock,
                 cpu, pc, locals, panicked>>

clockintr_wakeup ==
  /\ ~panicked
  /\ tick # 0
  /\ wakeup(tick, TICKS)
  /\ IF tick < NPROC
     THEN tick' = tick + 1 /\ UNCHANGED tickslock
     ELSE tick' = 0 /\ tickslock' = NoProc
  /\ UNCHANGED <<killed, xstate, pid, parent, nextpid, wait_lock, cpu, pc, locals,
                 left, panicked>>

-----------------------------------------------------------------------------
(* The CPU: yield() and scheduler(). *)

(* acquire() spins with interrupts off while another thread has the lock. *)
Spinning(p) ==
  \/ pc[p] \in {"f_link", "x_lock", "w_lock"} /\ wait_lock # NoProc
  \/ pc[p] \in {"p_start", "p_lock"} /\ tickslock # NoProc

(* The timer interrupts any thread that neither holds nor spins on a lock. *)
yield(p) ==
  /\ ~panicked
  /\ state[p] = "RUNNING"
  /\ wait_lock # p /\ tickslock # p
  /\ ~Spinning(p)
  /\ UNCHANGED locks
  /\ sched(p, "RUNNABLE")
  /\ UNCHANGED <<chan, killed, xstate, pid, parent, nextpid, pc, locals, left, tick>>

(* CPU c, in scheduler(), finds p RUNNABLE and switches to it.  A thread that *)
(* had reached the end of kexit() would fall into panic("zombie exit").       *)
scheduler(c, p) ==
  /\ ~panicked
  /\ cpu[c] = NoProc
  /\ state[p] = "RUNNABLE"
  /\ state' = [state EXCEPT ![p] = "RUNNING"]
  /\ cpu' = [cpu EXCEPT ![c] = p]
  /\ panicked' = (pc[p] = "dead")
  /\ UNCHANGED <<chan, killed, xstate, pid, parent, nextpid, locks, pc, locals,
                 left, tick>>

-----------------------------------------------------------------------------
(* The steps that a thread takes by itself once it is in the kernel. *)
Acquire(p) ==
  \/ kfork_parent(p) \/ kexit_acquire(p) \/ kwait_acquire(p)
  \/ pause_start(p) \/ pause_acquire(p)

Advance(p) ==
  \/ allocproc_skip(p) \/ allocproc(p) \/ allocproc_fail(p) \/ kfork_runnable(p)
  \/ usertrap_killed(p) \/ reparent(p) \/ reparent_wakeup(p) \/ kexit_wakeup(p)
  \/ kexit_zombie(p)
  \/ kwait_scan(p) \/ kwait_reap(p) \/ kwait_copyout_fail(p) \/ kwait_check(p)
  \/ kwait_prepare(p) \/ kwait_sleep(p)
  \/ kkill(p)
  \/ pause_check(p) \/ pause_prepare(p) \/ pause_sleep(p)

User(p) ==
  \/ sys_fork(p) \/ sys_exit(p) \/ setkilled(p)
  \/ \E a \in {0, 1} : sys_wait(p, a)
  \/ \E n \in KillTargets : sys_kill(p, n)
  \/ \E n \in PauseArgs : sys_pause(p, n)

Clock == clockintr \/ clockintr_wakeup

Step(p) == Acquire(p) \/ Advance(p)

Next ==
  \/ \E p \in Slot : User(p) \/ Step(p) \/ yield(p)
  \/ \E p \in Slot, c \in CPUs : scheduler(c, p)
  \/ Clock

(* What a thread is sure to do when it runs often enough: the next step in    *)
(* the kernel, and for the init program, which calls wait(0) in a loop, also  *)
(* the next call.                                                             *)
GoesOn(p) == Step(p) \/ (p = initproc /\ sys_wait(p, 0))

(* What the machine guarantees.  Between two timer interrupts a running      *)
(* thread executes instructions, the loop of scheduler() goes round proc[],  *)
(* the amoswap on a spinlock that is free again and again is won in the end, *)
(* and the clock keeps ticking.  The timer reaches every thread that does    *)
(* not hold a spinlock; it is enough here that it reaches one of them again  *)
(* and again.                                                                *)
Fairness ==
  /\ \A p \in Slot :
       /\ SF_vars(GoesOn(p))
       /\ SF_vars(\E c \in CPUs : scheduler(c, p))
  /\ SF_vars(\E p \in Slot : yield(p))
  /\ WF_vars(clockintr_wakeup)
  /\ "pause" \in Workload => SF_vars(clockintr)

Spec == Init /\ [][Next]_vars

-----------------------------------------------------------------------------
(* Properties. *)

TypeOK ==
  /\ state \in [Slot -> ProcState]
  /\ chan \in [Slot -> Slot \cup {NoProc, TICKS}]
  /\ killed \in [Slot -> BOOLEAN]
  /\ xstate \in [Slot -> Int]
  /\ pid \in [Slot -> Nat]
  /\ parent \in [Slot -> Slot \cup {NoProc}]
  /\ nextpid \in Nat
  /\ wait_lock \in Slot \cup {NoProc}
  /\ tickslock \in Slot \cup {NoProc, CLOCK}
  /\ cpu \in [CPUs -> Slot \cup {NoProc}]
  /\ pc \in [Slot -> Pc]
  /\ pp \in [Slot -> Slot]
  /\ wp \in [Slot -> Slot]
  /\ arg \in [Slot -> Int]
  /\ havekids \in [Slot -> BOOLEAN]
  /\ left \in [Slot -> Nat]
  /\ tick \in Slot \cup {0}
  /\ panicked \in BOOLEAN

ZombieChild(p, q) == parent[q] = p /\ state[q] = "ZOMBIE"

Alive == {"SLEEPING", "RUNNABLE", "RUNNING"}

(* The wakeup that kexit() and reparent() send to a parent in kwait() is not *)
(* lost: no process sleeps in kwait() while it has a zombie child, except    *)
(* while an exiting process, which holds wait_lock, is about to wake it.     *)
NoLostWakeup ==
  wait_lock = NoProc =>
    \A p, q \in Slot :
      ~(state[p] = "SLEEPING" /\ pc[p] = "w_lock" /\ ZombieChild(p, q))

(* Whoever sleeps in kwait(), also one that was killed after it had looked at *)
(* p->killed, has a child that is alive and will wake it when it exits.       *)
SleeperHasChild ==
  wait_lock = NoProc =>
    \A p \in Slot : state[p] = "SLEEPING" /\ pc[p] = "w_lock" =>
      \E q \in Slot : parent[q] = p /\ state[q] \in Alive

(* Nobody sleeps in pause() once its ticks have passed, except while the     *)
(* clock interrupt is still in wakeup(&ticks).                               *)
NoLostTick ==
  tickslock # CLOCK =>
    \A p \in Slot :
      ~(state[p] = "SLEEPING" /\ pc[p] = "p_lock" /\ left[p] = 0)

(* allocproc() resets nothing, so a slot it may take must carry nothing of   *)
(* its last owner: a stale killed would end the new process, a stale chan or *)
(* parent would wake or reap the wrong one.                                  *)
FreshSlot ==
  \A q \in Slot : state[q] = "UNUSED" =>
    /\ pid[q] = 0 /\ ~killed[q] /\ chan[q] = 0 /\ xstate[q] = 0
    /\ parent[q] = NoProc

(* Every process but init that has started, exited ones included, has a      *)
(* parent that can still wait for it; whoever leaves gave it to init first.  *)
ParentAlive ==
  \A q \in Slot \ {initproc} :
    state[q] \in Alive \cup {"ZOMBIE"} =>
      parent[q] # NoProc /\ state[parent[q]] \in Alive

(* When kwait() decides to return or to sleep, what its scan saw slot by     *)
(* slot is still true of the whole table: havekids says whether it has a     *)
(* child and no child has exited behind the scan.                            *)
ScanIsSnapshot ==
  \A p \in Slot : pc[p] = "w_chk" =>
    /\ havekids[p] <=> \E q \in Slot : parent[q] = p
    /\ ~ \E q \in Slot : ZombieChild(p, q)

(* kill() only ever kills a process whose pid was passed to it: the victim   *)
(* is still the same process when killed is seen (no "fault" in Workload).   *)
OnlyTargetsKilled ==
  \A q \in Slot : killed[q] => pid[q] \in KillTargets

(* Two used slots never have the same pid, so kill() finds one process.      *)
PidUnique ==
  \A p, q \in Slot : p # q /\ pid[p] # 0 => pid[p] # pid[q]

(* A RUNNING process is on exactly one CPU and every busy CPU runs a RUNNING *)
(* process: no two schedulers switch to the same kernel stack.               *)
OneCpuEach ==
  /\ \A c \in CPUs : cpu[c] # NoProc => state[cpu[c]] = "RUNNING"
  /\ \A c, d \in CPUs : c # d /\ cpu[c] # NoProc => cpu[c] # cpu[d]
  /\ \A p \in Slot : state[p] = "RUNNING" => \E c \in CPUs : cpu[c] = p

(* wait_lock is held exactly by the thread that is in a critical section of  *)
(* it, which is running: a lock is never carried into sched().               *)
LockDiscipline ==
  /\ \A p \in Slot : pc[p] \in HoldsWait <=> wait_lock = p
  /\ \A p \in Slot : pc[p] \in HoldsTicks <=> tickslock = p
  /\ wait_lock # NoProc => state[wait_lock] = "RUNNING"
  /\ tickslock \in Slot => state[tickslock] = "RUNNING"
  /\ tickslock = CLOCK <=> tick # 0

(* No panic(): init does not exit, sched() is not called with a lock held    *)
(* and a zombie is never scheduled again.                                    *)
NoPanic == ~panicked

(* A step leaves every zombie as it is or is the reaping by its parent. *)
Reaped ==
  \A q \in Slot : state[q] = "ZOMBIE" =>
    \/ state'[q] = "ZOMBIE" /\ xstate'[q] = xstate[q] /\ pid'[q] = pid[q]
    \/ state'[q] = "UNUSED" /\ wait_lock = parent[q] /\ pc[parent[q]] = "w_scan"

(* A zombie only ever becomes UNUSED, in the kwait() of its own parent under *)
(* wait_lock, and keeps its status and pid until then.                       *)
ReapedByParent == [][Reaped]_vars

(* A process that exits as a child of init, or is left to init by a parent   *)
(* that exits, is freed in the end: nothing in kexit() waits for ever.       *)
OrphansReaped ==
  \A q \in Slot :
    ((pc[q] = "x_lock" \/ state[q] = "ZOMBIE") /\ parent[q] = initproc)
      ~> (state[q] = "UNUSED")

(* A process that waits and has a zombie child gets out of kwait(). *)
WaitReturns ==
  \A p \in Slot :
    (pc[p] \in WaitPc /\ \E q \in Slot : ZombieChild(p, q)) ~> (pc[p] = "user")

(* pause() ends, whatever kills and wakeups hit it. *)
PauseEnds ==
  \A p \in Slot : (pc[p] \in PausePc) ~> (pc[p] = "user")

(* A process killed in pause() dies, also when kkill() came between its test *)
(* of killed() and its sleep().                                              *)
KilledLeavesPause ==
  \A p \in Slot :
    (killed[p] /\ pc[p] \in PausePc) ~> (state[p] = "ZOMBIE")
=============================================================================
