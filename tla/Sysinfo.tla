------------------------------ MODULE Sysinfo ------------------------------
(***************************************************************************)
(* The sysinfo() system call of Proyecto2 on top of the process table:     *)
(* get_runnable_count() of proc.c walks proc[] with one p->lock at a time, *)
(* so the table changes under it; sys_sysinfo() of sysproc.c then asks     *)
(* kalloc.c for the free memory and copies the report out.                 *)
(*                                                                         *)
(* One call is in progress at a time (a bound).  The memory of the rest of *)
(* the system is the number of free pages, which others take and give back *)
(* between the steps of the call; Kalloc shows that a page count is one    *)
(* atomic step.                                                            *)
(***************************************************************************)
EXTENDS Proc

CONSTANTS
  NPAGES,       \* (PHYSTOP - KERNBASE) / PGSIZE
  KernelPages   \* the pages that kinit() does not free: kernel text and data

ASSUME SysinfoAssumption ==
  /\ NPAGES \in Nat \ {0}
  /\ KernelPages \in 0..NPAGES

VARIABLES
  nfree,    \* the length of kmem.freelist
  caller,   \* the process in sys_sysinfo(), NoProc when none is
  at,       \* the slot the loop of get_runnable_count() is at
  count,    \* its local count
  report,   \* the struct sysinfo of the last call that returned 0
  \* history of the call: what was RUNNABLE all through it and at some time,
  \* and how many free pages there were at its instants
  always, ever, frees

call  == <<caller, at, count, report>>
hist  == <<always, ever, frees>>
svars == <<vars, nfree, call, hist>>

Runnable == {q \in Slot : state[q] = "RUNNABLE"}

Nothing == [n_runnable |-> 0, freemem |-> 0, n_upages |-> 0, n_apages |-> 0]

SInit ==
  /\ Init
  /\ nfree = NPAGES - KernelPages
  /\ caller = NoProc
  /\ at = 1
  /\ count = 0
  /\ report = Nothing
  /\ always = {} /\ ever = {} /\ frees = {}

(* What the history records of a step inside a call; the report of a call    *)
(* that has ended is looked at before the next step and forgotten.           *)
Observe ==
  IF caller = NoProc
  THEN /\ report' = Nothing
       /\ always' = {} /\ ever' = {} /\ frees' = {}
  ELSE /\ UNCHANGED report
       /\ always' = always \cap Runnable'
       /\ ever' = ever \cup Runnable'
       /\ frees' = frees \cup {nfree'}

-----------------------------------------------------------------------------
(* The entry of sys_sysinfo() and of get_runnable_count(). *)
sys_sysinfo(p) ==
  /\ caller = NoProc
  /\ p # initproc                    \* the init program does not call it
  /\ At(p, "user") /\ ~killed[p]
  /\ caller' = p
  /\ at' = 1
  /\ count' = 0
  /\ report' = Nothing
  /\ always' = Runnable /\ ever' = Runnable
  /\ frees' = {nfree}
  /\ UNCHANGED <<vars, nfree>>

\* Mutant: the iteration counts before it compares the state.
get_runnable_count_all ==
  /\ caller # NoProc /\ At(caller, "user")
  /\ at <= NPROC
  /\ count' = count + 1
  /\ at' = at + 1
  /\ UNCHANGED <<vars, nfree, caller, report, hist>>

(* One iteration of the loop, under p->lock. *)
get_runnable_count ==
  /\ caller # NoProc /\ At(caller, "user")
  /\ at <= NPROC
  /\ count' = IF state[at] = "RUNNABLE" THEN count + 1 ELSE count
  /\ at' = at + 1
  /\ UNCHANGED <<vars, nfree, caller, report, hist>>

(* The rest of sys_sysinfo().  The copyout() fails for a bad address; a page *)
(* it has to fault in comes from the free list, after the pages were counted. *)
sysinfo_return ==
  /\ caller # NoProc /\ At(caller, "user")
  /\ at = NPROC + 1
  /\ \/ /\ report' = [n_runnable |-> count, freemem |-> nfree,
                      n_upages |-> IF NPAGES > nfree THEN NPAGES - nfree ELSE 0,
                      n_apages |-> nfree]
        /\ nfree' \in {nfree} \cup (IF nfree > 0 THEN {nfree - 1} ELSE {})
     \/ UNCHANGED <<report, nfree>>
  /\ caller' = NoProc
  /\ at' = 1
  /\ count' = 0
  /\ UNCHANGED <<vars, hist>>

(* Another process takes a page with kalloc() or gives one back. *)
kmem(p) ==
  /\ p # caller
  /\ state[p] = "RUNNING"
  /\ nfree' \in {nfree - 1, nfree + 1} \cap 0..(NPAGES - KernelPages)
  /\ UNCHANGED <<vars, caller, at, count>>
  /\ Observe

(* The steps of the process table, without the clock, which only pause()     *)
(* needs.  The caller is inside its call.                                    *)
ProcStep ==
  /\ \/ \E p \in Slot \ {caller} : User(p) \/ Step(p)
     \/ \E p \in Slot : yield(p)
     \/ \E p \in Slot, c \in CPUs : scheduler(c, p)
  /\ UNCHANGED <<nfree, caller, at, count>>
  /\ Observe

SNext ==
  \/ ProcStep
  \/ \E p \in Slot : sys_sysinfo(p) \/ kmem(p)
  \/ get_runnable_count
  \/ sysinfo_return

SSpec == SInit /\ [][SNext]_svars

-----------------------------------------------------------------------------
(* The types, and the loop of get_runnable_count() inside proc[]. *)
SysinfoTypeOK ==
  /\ nfree \in 0..NPAGES
  /\ caller \in Slot \cup {NoProc}
  /\ at \in 1..(NPROC + 1)
  /\ count \in 0..NPROC
  /\ report \in [n_runnable : 0..NPROC, freemem : 0..NPAGES,
                 n_upages : 0..NPAGES, n_apages : 0..NPAGES]

(* A report counts every process that was RUNNABLE all through the call and  *)
(* none that never was; its free memory was the true one at some instant of  *)
(* the call, and with the used pages it makes up the whole memory.           *)
ReportRegular ==
  /\ SysinfoTypeOK
  /\ caller = NoProc /\ report # Nothing =>
       /\ Cardinality(always) <= report.n_runnable
       /\ report.n_runnable <= Cardinality(ever)
       /\ report.freemem \in frees
       /\ report.n_upages + report.n_apages = NPAGES
       /\ report.n_upages >= KernelPages
=============================================================================
