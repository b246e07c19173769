----------------------------- MODULE TraceProofs -----------------------------
(***************************************************************************)
(* The theorem about trace(), for every number of slots and of pids and    *)
(* all names that programs pass: syscall() reports exactly what the        *)
(* process itself asked for.                                               *)
(***************************************************************************)
EXTENDS Trace, WellFoundedInduction, TLAPS

-----------------------------------------------------------------------------
(* syscallnames[]. *)

(* The numbers of the system calls. *)
LEMMA Table == NELEM = 9 /\ DOMAIN syscallnames = 1..8
BY DEF NELEM, syscallnames

(* No two system calls have the same name, and none has the empty one. *)
LEMMA NamesDiffer ==
  /\ \A i \in 1..8 : syscallnames[i] # NoName
  /\ \A i, j \in 1..8 : syscallnames[i] = syscallnames[j] => i = j
  <1>1. /\ syscallnames[1] = "fork" /\ syscallnames[2] = "exit"
        /\ syscallnames[3] = "wait" /\ syscallnames[4] = "kill"
        /\ syscallnames[5] = "getpid" /\ syscallnames[6] = "uptime"
        /\ syscallnames[7] = "write" /\ syscallnames[8] = "trace"
    BY DEF syscallnames
  <1>2. \A i \in 1..8 : i = 1 \/ i = 2 \/ i = 3 \/ i = 4 \/ i = 5 \/ i = 6
                        \/ i = 7 \/ i = 8
    OBVIOUS
  <1>3. \A i \in 1..8 : syscallnames[i] # NoName
    BY <1>1, <1>2 DEF NoName
  <1>4. \A i, j \in 1..8 : syscallnames[i] = syscallnames[j] => i = j
    BY <1>1, <1>2
  <1> QED BY <1>3, <1>4

(* What syscallid_by_name() finds has that name. *)
LEMMA IdHasName ==
  ASSUME NEW name
  PROVE  LET id == syscallid_by_name(name) IN
           \/ id = -1
           \/ id \in 1..8 /\ syscallnames[id] = name
  <1>1. CASE \E i \in 1..8 : syscallnames[i] = name
    <2>1. syscallid_by_name(name) = CHOOSE i \in 1..8 : syscallnames[i] = name
      BY <1>1, Table DEF syscallid_by_name
    <2> QED BY <1>1, <2>1
  <1>2. CASE ~ \E i \in 1..8 : syscallnames[i] = name
    BY <1>2, Table DEF syscallid_by_name
  <1> QED BY <1>1, <1>2

-----------------------------------------------------------------------------
(* What is true between any two steps. *)

(* The types of what the report depends on. *)
TraceTypes ==
  /\ state \in [Slot -> {"UNUSED", "LIVE", "ZOMBIE"}]
  /\ pid \in [Slot -> Nat]
  /\ traced_syscall \in [Slot -> 0..8]
  /\ a7 \in [Slot -> 0..9]
  /\ DOMAIN a0 = Slot
  /\ pc \in [Slot -> {"user", "call", "post", "trap"}]
  /\ nextpid \in Nat
  /\ DOMAIN asked = Pid

(* Pids that are in use are different and below nextpid. *)
PidsDiffer ==
  /\ \A q \in Slot : state[q] # "UNUSED" => pid[q] \in Pid /\ pid[q] < nextpid
  /\ \A p, q \in Slot : p # q /\ state[p] # "UNUSED" /\ state[q] # "UNUSED" =>
       pid[p] # pid[q]

(* p->traced_syscall is what the process with that pid asked for, and        *)
(* nothing in a slot or for a pid that nobody has yet.                       *)
Marks ==
  /\ \A q \in Slot : state[q] = "UNUSED" => traced_syscall[q] = 0
  /\ \A q \in Slot : state[q] # "UNUSED" =>
       asked[pid[q]] = IF traced_syscall[q] = 0 THEN NoName
                       ELSE syscallnames[traced_syscall[q]]
  /\ \A m \in Pid : m >= nextpid => asked[m] = NoName

(* Only a call of the table gets to the comparison in syscall(). *)
Posted == \A p \in Slot : At(p, "post") => a7[p] \in 1..8

(* The inductive invariant. *)
TraceInv == TraceTypes /\ PidsDiffer /\ Marks /\ Posted

(* A step that changes neither slots nor marks keeps the invariant, if only  *)
(* p moves and gets to the comparison from a call of the table.              *)
LEMMA TraceQuiet ==
  ASSUME TraceInv, NEW p \in Slot, DOMAIN a0' = Slot,
         NEW l \in {"user", "call", "post", "trap"},
         UNCHANGED <<state, pid, traced_syscall, nextpid, asked>>,
         NEW n \in 0..9, a7' = [a7 EXCEPT ![p] = n],
         pc' = [pc EXCEPT ![p] = l],
         l = "post" => n \in 1..8
  PROVE  TraceInv'
  <1>1. TraceTypes'
    BY DEF TraceInv, TraceTypes
  <1>2. PidsDiffer'
    BY DEF TraceInv, PidsDiffer
  <1>3. Marks'
    BY DEF TraceInv, Marks
  <1>4. Posted'
    BY DEF TraceInv, TraceTypes, Posted, At
  <1> QED BY <1>1, <1>2, <1>3, <1>4 DEF TraceInv

(* If a slot is free there is a first one, which allocproc() finds. *)
LEMMA FirstSlot ==
  ASSUME NEW k \in Slot, state[k] = "UNUSED"
  PROVE  \E q \in Slot : /\ state[q] = "UNUSED"
                         /\ \A r \in Slot : r < q => state[r] # "UNUSED"
  <1> DEFINE S == {q \in Slot : state[q] = "UNUSED"}
  <1>1. S \subseteq Nat /\ S # {}
    BY TraceAssumption DEF Slot
  <1>2. PICK q \in S : \A m \in S : ~(<<m, q>> \in OpToRel(<, Nat))
    BY <1>1, NatLessThanWellFounded, WFMin
  <1>3. \A m \in S : ~(m < q)
    BY <1>1, <1>2 DEF OpToRel
  <1> QED BY <1>3

(* Every step keeps the invariant. *)
LEMMA TraceStep ==
  ASSUME TraceInv, [Next]_vars
  PROVE  TraceInv'
  <1>1. ASSUME NEW p \in Slot, NEW n \in Numbers, NEW x, ecall(p, n, x)
        PROVE  TraceInv'
    BY <1>1, TraceQuiet, Table DEF ecall, Numbers, TraceInv, TraceTypes
  <1>2. ASSUME NEW p \in Slot, syscall_unknown(p) PROVE TraceInv'
    <2>1. a7[p] \in 0..9 /\ a7' = [a7 EXCEPT ![p] = a7[p]]
      BY <1>2 DEF syscall_unknown, TraceInv, TraceTypes
    <2> QED
      BY <1>2, <2>1, TraceQuiet DEF syscall_unknown, TraceInv, TraceTypes
  <1>3. ASSUME NEW p \in Slot, NEW name, NEW x, InCall(p, name), Return(p, x),
               UNCHANGED <<state, pid, traced_syscall, nextpid, asked>>
        PROVE  TraceInv'
    <2>1. a7[p] \in 1..8 /\ a7' = [a7 EXCEPT ![p] = a7[p]]
      BY <1>3, Table DEF InCall, Return, TraceInv, TraceTypes
    <2> QED BY <1>3, <2>1, TraceQuiet DEF Return, TraceInv, TraceTypes
  <1>4. ASSUME NEW p \in Slot, sys_fork(p) PROVE TraceInv'
    <2>1. CASE nextpid \in Pid /\ \E q \in Slot : state[q] = "UNUSED"
      <3> DEFINE First(q) == /\ state[q] = "UNUSED"
                             /\ \A r \in Slot : r < q => state[r] # "UNUSED"
                 np == CHOOSE q \in Slot : First(q)
      <3>1. \E q \in Slot : First(q)
        <4>1. PICK k \in Slot : state[k] = "UNUSED"
          BY <2>1
        <4> QED BY <4>1, FirstSlot
      <3>2. np \in Slot /\ state[np] = "UNUSED"
        BY <3>1
      <3>3. /\ state' = [state EXCEPT ![np] = "LIVE"]
            /\ pid' = [pid EXCEPT ![np] = nextpid]
            /\ nextpid' = nextpid + 1
            /\ a7' = [a7 EXCEPT ![np] = a7[p]]
            /\ a0' = [a0 EXCEPT ![np] = 0, ![p] = nextpid]
            /\ pc' = [pc EXCEPT ![np] = "trap", ![p] = "post"]
            /\ UNCHANGED <<traced_syscall, asked>>
        BY <1>4, <2>1 DEF sys_fork
      <3>4. a7[p] \in 1..8 /\ state[p] = "LIVE"
        BY <1>4, Table DEF sys_fork, InCall, At
      <3> HIDE DEF np
      <3>5. TraceTypes'
        BY <3>2, <3>3, <3>4 DEF TraceInv, TraceTypes
      <3>6. PidsDiffer'
        BY <2>1, <3>2, <3>3, <3>4 DEF TraceInv, TraceTypes, PidsDiffer
      <3>7. Marks'
        BY <2>1, <3>2, <3>3, <3>4 DEF TraceInv, TraceTypes, Marks, Pid
      <3>8. Posted'
        BY <3>2, <3>3, <3>4 DEF TraceInv, TraceTypes, Posted, At
      <3> QED BY <3>5, <3>6, <3>7, <3>8 DEF TraceInv
    <2>2. CASE ~(nextpid \in Pid /\ \E q \in Slot : state[q] = "UNUSED")
      BY <1>3, <1>4, <2>2 DEF sys_fork
    <2> QED BY <2>1, <2>2
  <1>5. ASSUME NEW p \in Slot, state[p] = "LIVE", kexit(p) PROVE TraceInv'
    <2>1. TraceTypes'
      BY <1>5 DEF kexit, TraceInv, TraceTypes
    <2>2. PidsDiffer'
      BY <1>5 DEF kexit, TraceInv, TraceTypes, PidsDiffer
    <2>3. Marks'
      BY <1>5 DEF kexit, TraceInv, TraceTypes, Marks
    <2>4. Posted'
      BY <1>5 DEF kexit, TraceInv, TraceTypes, Posted, At
    <2> QED BY <2>1, <2>2, <2>3, <2>4 DEF TraceInv
  <1>6. ASSUME NEW p \in Slot, sys_wait(p) PROVE TraceInv'
    <2>1. ASSUME NEW q \in Slot, state[q] = "ZOMBIE", freeproc(q), Return(p, pid[q]),
                 UNCHANGED <<nextpid, asked>>, InCall(p, "wait")
          PROVE  TraceInv'
      <3>1. a7[p] \in 1..8
        BY <2>1, Table DEF InCall
      <3>2. TraceTypes'
        BY <2>1 DEF freeproc, Return, TraceInv, TraceTypes
      <3>3. PidsDiffer'
        BY <2>1 DEF freeproc, TraceInv, TraceTypes, PidsDiffer
      <3>4. Marks'
        BY <2>1 DEF freeproc, TraceInv, TraceTypes, Marks
      <3>5. Posted'
        BY <2>1, <3>1 DEF freeproc, Return, TraceInv, TraceTypes, Posted, At
      <3> QED BY <3>2, <3>3, <3>4, <3>5 DEF TraceInv
    <2> QED BY <1>3, <1>6, <2>1 DEF sys_wait
  <1>7. ASSUME NEW p \in Slot, sys_kill(p) PROVE TraceInv'
    BY <1>3, <1>7 DEF sys_kill
  <1>8. ASSUME NEW p \in Slot, sys_other(p) PROVE TraceInv'
    BY <1>3, <1>8 DEF sys_other
  <1>9. ASSUME NEW p \in Slot, sys_trace(p) PROVE TraceInv'
    <2> DEFINE name == a0[p]
               id   == IF name = NoName THEN -1 ELSE syscallid_by_name(name)
    <2>1. CASE id < 0
      BY <1>3, <1>9, <2>1 DEF sys_trace
    <2>2. CASE ~(id < 0)
      <3>1. id \in 1..8 /\ syscallnames[id] = name
        BY <2>2, IdHasName
      <3>2. /\ traced_syscall' = [traced_syscall EXCEPT ![p] = id]
            /\ asked' = [asked EXCEPT ![pid[p]] = name]
            /\ Return(p, 0) /\ state[p] = "LIVE"
            /\ UNCHANGED <<state, pid, nextpid>>
        BY <1>9, <2>2 DEF sys_trace, InCall, At
      <3>3. a7[p] \in 1..8
        BY <1>9, Table DEF sys_trace, InCall
      <3> HIDE DEF name, id
      <3>4. TraceTypes'
        BY <3>1, <3>2 DEF Return, TraceInv, TraceTypes
      <3>5. PidsDiffer'
        BY <3>2 DEF TraceInv, PidsDiffer
      <3>6. Marks'
        BY <3>1, <3>2 DEF TraceInv, TraceTypes, PidsDiffer, Marks, Pid
      <3>7. Posted'
        BY <3>2, <3>3 DEF Return, TraceInv, TraceTypes, Posted, At
      <3> QED BY <3>4, <3>5, <3>6, <3>7 DEF TraceInv
    <2> QED BY <2>1, <2>2
  <1>10. ASSUME NEW p \in Slot, syscall_report(p) \/ usertrap_return(p) PROVE TraceInv'
    <2>1. a7[p] \in 0..9 /\ a7' = [a7 EXCEPT ![p] = a7[p]]
      BY <1>10 DEF syscall_report, usertrap_return, TraceInv, TraceTypes
    <2> QED
      BY <1>10, <2>1, TraceQuiet
        DEF syscall_report, usertrap_return, TraceInv, TraceTypes
  <1>11. CASE UNCHANGED vars
    BY <1>11 DEF vars, TraceInv, TraceTypes, PidsDiffer, Marks, Posted, At
  <1>12. ASSUME NEW p \in Slot, User(p) PROVE TraceInv'
    BY <1>1, <1>12 DEF User
  <1>13. ASSUME NEW p \in Slot, Kernel(p) PROVE TraceInv'
    BY <1>2, <1>4, <1>5, <1>6, <1>7, <1>8, <1>9, <1>10, <1>13
      DEF Kernel, sys_exit, usertrap_exit, InCall, At
  <1> QED BY <1>11, <1>12, <1>13 DEF Next

(* TraceInv holds in every reachable state. *)
LEMMA TraceSafety == Spec => []TraceInv
  <1>1. Init => TraceInv
    BY TraceAssumption
      DEF Init, TraceInv, TraceTypes, PidsDiffer, Marks, Posted, At, Pid, initproc,
          Slot
  <1> QED BY <1>1, TraceStep, PTL DEF Spec

-----------------------------------------------------------------------------
(* A thread leaves the comparison only by the step that makes it. *)
LEMMA OwnReport ==
  ASSUME TraceInv, [Next]_vars, NEW p \in Slot, At(p, "post"), pc'[p] = "trap"
  PROVE  syscall_report(p)
  <1>1. ASSUME NEW q \in Slot, NEW n \in Numbers, NEW x, ecall(q, n, x) PROVE FALSE
    BY <1>1 DEF ecall, At, TraceInv, TraceTypes
  <1>2. ASSUME NEW q \in Slot, Kernel(q), ~syscall_report(q), ~sys_fork(q) PROVE FALSE
    BY <1>2 DEF Kernel, syscall_unknown, sys_exit, kexit, sys_wait, sys_kill,
       sys_other, sys_trace, usertrap_exit, usertrap_return, Return, InCall, At,
       TraceInv, TraceTypes
  <1>3. ASSUME NEW q \in Slot, syscall_report(q), q # p PROVE FALSE
    BY <1>3 DEF syscall_report, At, TraceInv, TraceTypes
  <1>4. ASSUME NEW q \in Slot, sys_fork(q) PROVE FALSE
    <2>1. CASE ~(nextpid \in Pid /\ \E k \in Slot : state[k] = "UNUSED")
      BY <1>4, <2>1 DEF sys_fork, Return, InCall, At, TraceInv, TraceTypes
    <2>2. CASE nextpid \in Pid /\ \E k \in Slot : state[k] = "UNUSED"
      <3> DEFINE First(k) == /\ state[k] = "UNUSED"
                             /\ \A r \in Slot : r < k => state[r] # "UNUSED"
                 np == CHOOSE k \in Slot : First(k)
      <3>1. np \in Slot /\ state[np] = "UNUSED"
        <4>1. \E k \in Slot : First(k)
          BY <2>2, FirstSlot
        <4> QED BY <4>1
      <3>2. pc' = [pc EXCEPT ![np] = "trap", ![q] = "post"]
        BY <1>4, <2>2 DEF sys_fork
      <3> HIDE DEF np
      <3> QED BY <3>1, <3>2 DEF At, TraceInv, TraceTypes
    <2> QED BY <2>1, <2>2
  <1>5. CASE UNCHANGED vars
    BY <1>5 DEF vars, At
  <1> QED
    BY <1>1, <1>2, <1>3, <1>4, <1>5 DEF Next, User

(* The kernel reports exactly what was asked for: a call that returns is     *)
(* reported if and only if the process itself, not its parent nor the last   *)
(* owner of its slot, monitors that call.                                    *)
THEOREM ReportsExact == Spec => ReportExact
  <1> DEFINE Reported(p) ==
               At(p, "post") /\ pc'[p] = "trap" =>
                 IF asked[pid[p]] = syscallnames[a7[p]]
                 THEN console' = [pid |-> pid[p], name |-> asked[pid[p]], ret |-> a0[p]]
                 ELSE console' = NoReport
  <1>1. TraceInv /\ [Next]_vars => [\A p \in Slot : Reported(p)]_vars
    <2> SUFFICES ASSUME TraceInv, [Next]_vars, NEW p \in Slot, At(p, "post"),
                        pc'[p] = "trap"
                 PROVE  Reported(p)
      OBVIOUS
    <2>1. syscall_report(p)
      BY OwnReport
    <2>2. a7[p] \in 1..8 /\ traced_syscall[p] \in 0..8
      BY DEF TraceInv, TraceTypes, Posted
    <2>3. asked[pid[p]] = IF traced_syscall[p] = 0 THEN NoName
                          ELSE syscallnames[traced_syscall[p]]
      BY DEF TraceInv, Marks, At
    <2>4. traced_syscall[p] = a7[p] <=> asked[pid[p]] = syscallnames[a7[p]]
      BY <2>2, <2>3, NamesDiffer
    <2> QED BY <2>1, <2>4 DEF syscall_report
  <1> QED BY <1>1, TraceSafety, PTL DEF Spec, ReportExact
==============================================================================
