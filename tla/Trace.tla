------------------------------- MODULE Trace -------------------------------
(***************************************************************************)
(* The trace() system call of Proyecto2: syscall() of syscall.c runs the   *)
(* call that the trapframe names and then compares its number with         *)
(* p->traced_syscall, which sys_trace() of sysproc.c sets and freeproc()   *)
(* of proc.c clears.                                                       *)
(*                                                                         *)
(* A system call is three steps of its process, between which the others   *)
(* run: its body, the comparison that follows it in syscall(), and the     *)
(* return to user mode.  fork, exit, wait and kill are abstracted to what  *)
(* they do to the slots (Proc has their steps); the calls that neither     *)
(* create, end nor mark a process only return a value, and the table holds *)
(* three of them.  The seven printk() of a report are one step.            *)
(***************************************************************************)
EXTENDS Integers, Sequences, FiniteSets

CONSTANTS
  NPROC,      \* number of slots of proc[]
  MaxPid,     \* bound: fork() returns -1 once nextpid would pass it
  NameArgs    \* the strings that user programs pass to trace()

ASSUME TraceAssumption ==
  /\ NPROC \in Nat \ {0}
  /\ MaxPid \in Nat \ {0}

Slot     == 1..NPROC
Pid      == 1..MaxPid
initproc == 1

(* syscallnames[]; the number of a system call is its position. *)
syscallnames ==
  <<"fork", "exit", "wait", "kill", "getpid", "uptime", "write", "trace">>

NELEM == Len(syscallnames) + 1

(* The numbers that a program may leave in a7, good and bad. *)
Numbers == 0..NELEM

NoName   == ""
NoReport == [pid |-> 0, name |-> NoName, ret |-> 0]

VARIABLES
  \* struct proc; state is UNUSED, LIVE or ZOMBIE here
  state, pid, parent, killed, traced_syscall,
  a7,        \* trapframe->a7: the last system call of the process
  a0,        \* trapframe->a0: the argument going in, the value coming back
  pc,        \* "user", "call" in the body, "post" after it, "trap" on return
  nextpid,
  asked,     \* history: the name for which the last trace() of a pid returned 0
  console    \* the report that the last step printed

vars == <<state, pid, parent, killed, traced_syscall, a7, a0, pc, nextpid, asked,
          console>>

Init ==
  /\ state = [q \in Slot |-> IF q = initproc THEN "LIVE" ELSE "UNUSED"]
  /\ pid = [q \in Slot |-> IF q = initproc THEN 1 ELSE 0]
  /\ parent = [q \in Slot |-> 0]
  /\ killed = [q \in Slot |-> FALSE]
  /\ traced_syscall = [q \in Slot |-> 0]
  /\ a7 = [q \in Slot |-> 0]
  /\ a0 = [q \in Slot |-> 0]
  /\ pc = [q \in Slot |-> "user"]
  /\ nextpid = 2
  /\ asked = [n \in Pid |-> NoName]
  /\ console = NoReport

-----------------------------------------------------------------------------
At(p, l) == state[p] = "LIVE" /\ pc[p] = l

(* p is in the body of the call with this name. *)
InCall(p, name) ==
  /\ At(p, "call")
  /\ a7[p] \in 1..(NELEM - 1) /\ syscallnames[a7[p]] = name

(* The body returns r to syscall(), which stores it in the trapframe. *)
Return(p, r) ==
  /\ a0' = [a0 EXCEPT ![p] = r]
  /\ pc' = [pc EXCEPT ![p] = "post"]
  /\ UNCHANGED a7

(* ecall with number n and argument x.  A name is passed as its string.      *)
ecall(p, n, x) ==
  /\ At(p, "user")
  /\ a7' = [a7 EXCEPT ![p] = n]
  /\ a0' = [a0 EXCEPT ![p] = x]
  /\ pc' = [pc EXCEPT ![p] = "call"]
  /\ console' = NoReport
  /\ UNCHANGED <<state, pid, parent, killed, traced_syscall, nextpid, asked>>

(* syscall() with a number that is not in the table. *)
syscall_unknown(p) ==
  /\ At(p, "call")
  /\ ~(0 < a7[p] /\ a7[p] < NELEM)
  /\ a0' = [a0 EXCEPT ![p] = -1]
  /\ pc' = [pc EXCEPT ![p] = "trap"]
  /\ console' = NoReport
  /\ UNCHANGED <<state, pid, parent, killed, traced_syscall, a7, nextpid, asked>>

\* Mutant: the slot keeps the mark of its last owner.
freeproc_keeps_trace(q) ==
  /\ state' = [state EXCEPT ![q] = "UNUSED"]
  /\ pid' = [pid EXCEPT ![q] = 0]
  /\ killed' = [killed EXCEPT ![q] = FALSE]
  /\ UNCHANGED traced_syscall

(* freeproc(): the slot forgets what its process monitored. *)
freeproc(q) ==
  /\ state' = [state EXCEPT ![q] = "UNUSED"]
  /\ pid' = [pid EXCEPT ![q] = 0]
  /\ killed' = [killed EXCEPT ![q] = FALSE]
  /\ traced_syscall' = [traced_syscall EXCEPT ![q] = 0]

(* kfork(): the child has the parent's trapframe with a0 = 0 and starts on   *)
(* its way to user mode; what the parent monitors is not copied.             *)
sys_fork(p) ==
  /\ InCall(p, "fork")
  /\ IF nextpid \in Pid /\ \E q \in Slot : state[q] = "UNUSED"
     THEN LET np == CHOOSE q \in Slot : /\ state[q] = "UNUSED"
                                        /\ \A r \in Slot : r < q => state[r] # "UNUSED"
          IN /\ state' = [state EXCEPT ![np] = "LIVE"]
             /\ pid' = [pid EXCEPT ![np] = nextpid]
             /\ nextpid' = nextpid + 1
             /\ parent' = [parent EXCEPT ![np] = p]
             /\ a7' = [a7 EXCEPT ![np] = a7[p]]
             /\ a0' = [a0 EXCEPT ![np] = 0, ![p] = nextpid]
             /\ pc' = [pc EXCEPT ![np] = "trap", ![p] = "post"]
     ELSE /\ Return(p, -1)
          /\ UNCHANGED <<state, pid, nextpid, parent>>
  /\ console' = NoReport
  /\ UNCHANGED <<killed, traced_syscall, asked>>

(* kexit(): the children go to init; the call does not return. *)
kexit(p) ==
  /\ p # initproc
  /\ state' = [state EXCEPT ![p] = "ZOMBIE"]
  /\ parent' = [q \in Slot |-> IF parent[q] = p THEN initproc ELSE parent[q]]
  /\ console' = NoReport
  /\ UNCHANGED <<pid, killed, traced_syscall, a7, a0, pc, nextpid, asked>>

sys_exit(p) == InCall(p, "exit") /\ kexit(p)

(* kwait(): reap a zombie child, or fail without children or when killed. *)
sys_wait(p) ==
  /\ InCall(p, "wait")
  /\ \/ \E q \in Slot :
          /\ parent[q] = p /\ state[q] = "ZOMBIE"
          /\ freeproc(q)
          /\ parent' = [parent EXCEPT ![q] = 0]
          /\ Return(p, pid[q])
     \/ /\ ~ \E q \in Slot : parent[q] = p /\ state[q] = "ZOMBIE"
        /\ killed[p] \/ ~ \E q \in Slot : parent[q] = p
        /\ Return(p, -1)
        /\ UNCHANGED <<state, pid, killed, traced_syscall, parent>>
  /\ console' = NoReport
  /\ UNCHANGED <<nextpid, asked>>

(* kkill() of the pid in a0. *)
sys_kill(p) ==
  /\ InCall(p, "kill")
  /\ LET victims == {q \in Slot : pid[q] = a0[p]} IN
     /\ killed' = [q \in Slot |-> killed[q] \/ q \in victims]
     /\ Return(p, IF victims = {} THEN -1 ELSE 0)
  /\ console' = NoReport
  /\ UNCHANGED <<state, pid, parent, traced_syscall, nextpid, asked>>

(* Every call that only returns a value. *)
sys_other(p) ==
  /\ \E name \in {"getpid", "uptime", "write"} : InCall(p, name)
  /\ Return(p, 0)
  /\ console' = NoReport
  /\ UNCHANGED <<state, pid, parent, killed, traced_syscall, nextpid, asked>>

(* syscallid_by_name(): the names are all different, so the first match is   *)
(* the only one.                                                             *)
syscallid_by_name(name) ==
  IF \E i \in 1..(NELEM - 1) : syscallnames[i] = name
  THEN CHOOSE i \in 1..(NELEM - 1) : syscallnames[i] = name
  ELSE -1

(* sys_trace().  NoName is a string that argstr() rejects. *)
sys_trace(p) ==
  /\ InCall(p, "trace")
  /\ LET name == a0[p]
         id   == IF name = NoName THEN -1 ELSE syscallid_by_name(name)
     IN IF id < 0
        THEN Return(p, -1) /\ UNCHANGED <<traced_syscall, asked>>
        ELSE /\ traced_syscall' = [traced_syscall EXCEPT ![p] = id]
             /\ asked' = [asked EXCEPT ![pid[p]] = name]
             /\ Return(p, 0)
  /\ console' = NoReport
  /\ UNCHANGED <<state, pid, parent, killed, nextpid>>

(* if(p->traced_syscall == num) in syscall(), with the report. *)
syscall_report(p) ==
  /\ At(p, "post")
  /\ pc' = [pc EXCEPT ![p] = "trap"]
  /\ console' = IF traced_syscall[p] = a7[p]
                THEN [pid |-> pid[p], name |-> syscallnames[a7[p]], ret |-> a0[p]]
                ELSE NoReport
  /\ UNCHANGED <<state, pid, parent, killed, traced_syscall, a7, a0, nextpid, asked>>

(* External, trap.c: usertrap() ends a killed process, before and after the  *)
(* call; otherwise the process is in user mode again.                        *)
usertrap_exit(p) ==
  /\ At(p, "trap") \/ At(p, "user")
  /\ killed[p]
  /\ kexit(p)

usertrap_return(p) ==
  /\ At(p, "trap") /\ ~killed[p]
  /\ pc' = [pc EXCEPT ![p] = "user"]
  /\ console' = NoReport
  /\ UNCHANGED <<state, pid, parent, killed, traced_syscall, a7, a0, nextpid, asked>>

(* What a program may call: any number, a pid for kill and a name for trace; *)
(* init neither exits nor is it killed.                                      *)
User(p) ==
  \E n \in Numbers :
    LET name == IF n \in 1..(NELEM - 1) THEN syscallnames[n] ELSE NoName IN
    /\ name = "exit" => p # initproc
    /\ \E x \in CASE name = "kill"  -> 2..MaxPid
                  [] name = "trace" -> NameArgs \cup {NoName}
                  [] OTHER          -> {0} :
         ecall(p, n, x)

Kernel(p) ==
  \/ syscall_unknown(p) \/ sys_fork(p) \/ sys_exit(p) \/ sys_wait(p) \/ sys_kill(p)
  \/ sys_other(p) \/ sys_trace(p) \/ syscall_report(p)
  \/ usertrap_exit(p) \/ usertrap_return(p)

Next == \E p \in Slot : (~killed[p] /\ User(p)) \/ Kernel(p)

Spec == Init /\ [][Next]_vars

-----------------------------------------------------------------------------
(* The kernel reports exactly what was asked for: when a call returns, its   *)
(* report is printed if and only if the process itself (not its parent, nor  *)
(* the process that had the slot before) monitors that call.                 *)
ReportExact ==
  [][\A p \in Slot :
       At(p, "post") /\ pc'[p] = "trap" =>
         IF asked[pid[p]] = syscallnames[a7[p]]
         THEN console' = [pid |-> pid[p], name |-> asked[pid[p]], ret |-> a0[p]]
         ELSE console' = NoReport]_vars
=============================================================================
