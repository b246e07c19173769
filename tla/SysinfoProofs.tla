---------------------------- MODULE SysinfoProofs ----------------------------
(***************************************************************************)
(* The theorem about sysinfo(), for every number of slots, of CPUs and of  *)
(* pages and every workload: the report is right although the table        *)
(* changes while get_runnable_count() walks it.                            *)
(***************************************************************************)
EXTENDS Sysinfo, FiniteSetTheorems, TLAPS

(* The sizes. *)
LEMMA SysinfoSizes ==
  /\ NPROC \in Nat \ {0} /\ NPAGES \in Nat \ {0} /\ KernelPages \in 0..NPAGES
  /\ NoProc = 0 /\ NoProc \notin Slot
BY ProcAssumption, SysinfoAssumption DEF NoProc, Slot

(* A set of slots is finite, and a smaller one has no more elements. *)
LEMMA SlotSets ==
  ASSUME NEW S \in SUBSET Slot, NEW T \in SUBSET S
  PROVE  /\ IsFiniteSet(S) /\ Cardinality(S) \in Nat /\ Cardinality(T) \in Nat
         /\ Cardinality(T) <= Cardinality(S) /\ Cardinality(S) <= NPROC
  <1>1. IsFiniteSet(Slot) /\ Cardinality(Slot) = NPROC
    <2>1. IsFiniteSet(1..NPROC) /\ Cardinality(1..NPROC) = IF 1 > NPROC THEN 0 ELSE NPROC - 1 + 1
      BY FS_Interval, SysinfoSizes
    <2> QED BY <2>1, SysinfoSizes DEF Slot
  <1>2. IsFiniteSet(S) /\ Cardinality(S) <= Cardinality(Slot)
    BY <1>1, FS_Subset
  <1>3. IsFiniteSet(T) /\ Cardinality(T) <= Cardinality(S)
    BY <1>2, FS_Subset
  <1> QED BY <1>1, <1>2, <1>3, FS_CardinalityType

-----------------------------------------------------------------------------
(* The types of what a call keeps. *)
CallTypes ==
  /\ nfree \in 0..(NPAGES - KernelPages)
  /\ caller \in Slot \cup {NoProc}
  /\ at \in 1..(NPROC + 1)
  /\ count \in 0..NPROC
  /\ always \subseteq Slot /\ ever \subseteq Slot

(* During a call the history is up to date. *)
Recorded ==
  caller # NoProc =>
    /\ report = Nothing
    /\ always \subseteq Runnable /\ Runnable \subseteq ever
    /\ nfree \in frees

(* The slots behind the loop that were RUNNABLE all the time were counted,   *)
(* and only slots that were RUNNABLE at some time.                           *)
Counted ==
  caller # NoProc =>
    \E C \in SUBSET ever :
      /\ \A q \in C : q < at
      /\ \A q \in always : q < at => q \in C
      /\ count = Cardinality(C)

(* What the last call reported. *)
Reported ==
  report # Nothing =>
    /\ report \in [n_runnable : 0..NPROC, freemem : 0..NPAGES,
                   n_upages : 0..NPAGES, n_apages : 0..NPAGES]
    /\ Cardinality(always) <= report.n_runnable
    /\ report.n_runnable <= Cardinality(ever)
    /\ report.freemem \in frees
    /\ report.n_upages + report.n_apages = NPAGES
    /\ report.n_upages >= KernelPages

(* The inductive invariant. *)
ReportInv == CallTypes /\ Recorded /\ Counted /\ Reported

(* Another process changes the table or the free list: what the call knows   *)
(* stays true, because the history grows with it.                            *)
LEMMA ObserveStep ==
  ASSUME ReportInv, Observe, nfree' \in 0..(NPAGES - KernelPages),
         UNCHANGED <<caller, at, count>>
  PROVE  ReportInv'
  <1>1. CallTypes'
    BY DEF ReportInv, CallTypes, Observe, Runnable
  <1>2. Recorded'
    BY DEF ReportInv, Recorded, Observe
  <1>3. Counted'
    <2> SUFFICES ASSUME caller # NoProc PROVE Counted'
      BY DEF Counted
    <2>1. PICK C \in SUBSET ever :
            /\ \A q \in C : q < at
            /\ \A q \in always : q < at => q \in C
            /\ count = Cardinality(C)
      BY DEF ReportInv, Counted
    <2>2. C \in SUBSET ever' /\ \A q \in always' : q \in always
      BY DEF Observe
    <2> QED BY <2>1, <2>2 DEF Counted
  <1>4. Reported'
    BY DEF ReportInv, Recorded, Reported, Observe
  <1> QED BY <1>1, <1>2, <1>3, <1>4 DEF ReportInv

(* sys_sysinfo() starts with nothing counted. *)
LEMMA CallStep ==
  ASSUME ReportInv, NEW p \in Slot, sys_sysinfo(p)
  PROVE  ReportInv'
  <1>1. CallTypes'
    BY SysinfoSizes DEF ReportInv, CallTypes, sys_sysinfo, Runnable
  <1>2. Recorded'
    BY DEF Recorded, sys_sysinfo, Runnable, vars
  <1>3. Counted'
    <2>1. \A q \in always' : ~(q < 1)
      BY SysinfoSizes DEF sys_sysinfo, Runnable, Slot
    <2> QED BY <2>1, FS_EmptySet DEF Counted, sys_sysinfo
  <1>4. Reported'
    BY DEF Reported, sys_sysinfo
  <1> QED BY <1>1, <1>2, <1>3, <1>4 DEF ReportInv

(* An iteration of get_runnable_count() adds the slot it is at, or leaves    *)
(* out one that is not RUNNABLE now.                                         *)
LEMMA CountStep ==
  ASSUME ReportInv, get_runnable_count
  PROVE  ReportInv'
  <1>0. at \in Slot /\ at \in Nat /\ at' = at + 1 /\ caller # NoProc
        /\ UNCHANGED <<state, nfree, caller, report, always, ever, frees>>
    BY SysinfoSizes DEF ReportInv, CallTypes, get_runnable_count, Slot, vars, hist
  <1>1. PICK C \in SUBSET ever :
          /\ \A q \in C : q < at
          /\ \A q \in always : q < at => q \in C
          /\ count = Cardinality(C)
    BY <1>0 DEF ReportInv, Counted
  <1>2. always \subseteq Runnable /\ Runnable \subseteq ever
        /\ ever \subseteq Slot /\ always \subseteq Slot
    BY <1>0 DEF ReportInv, Recorded, CallTypes
  <1>3. \A q \in Slot : q \in Nat
    BY SysinfoSizes DEF Slot
  <1>4. IsFiniteSet(C) /\ at \notin C
    BY <1>0, <1>1, <1>2, SlotSets
  <1> DEFINE D == IF state[at] = "RUNNABLE" THEN C \cup {at} ELSE C
  <1>5. count' = Cardinality(D)
    <2>1. CASE state[at] = "RUNNABLE"
      <3>1. Cardinality(C \cup {at}) = Cardinality(C) + 1
        BY <1>4, FS_AddElement
      <3> QED BY <1>1, <2>1, <3>1 DEF get_runnable_count
    <2>2. CASE state[at] # "RUNNABLE"
      BY <1>1, <2>2 DEF get_runnable_count
    <2> QED BY <2>1, <2>2
  <1>6. D \in SUBSET ever
    BY <1>0, <1>1, <1>2 DEF Runnable
  <1>7. (\A q \in D : q < at + 1) /\ (\A q \in always : q < at + 1 => q \in D)
    <2>1. \A q \in D : q < at + 1
      BY <1>0, <1>1, <1>2, <1>3
    <2>2. ASSUME NEW q \in always, q < at + 1 PROVE q \in D
      <3>1. q < at \/ q = at
        BY <1>0, <1>2, <1>3, <2>2
      <3>2. state[q] = "RUNNABLE"
        BY <1>2 DEF Runnable
      <3> QED BY <1>1, <3>1, <3>2
    <2> QED BY <2>1, <2>2
  <1> HIDE DEF D
  <1>8. Counted'
    BY <1>0, <1>5, <1>6, <1>7 DEF Counted
  <1>9. CallTypes'
    <2>1. Cardinality(D) \in 0..NPROC
      BY <1>2, <1>6, SlotSets, SysinfoSizes
    <2> QED
      BY <1>0, <1>5, <2>1, SysinfoSizes DEF ReportInv, CallTypes, Slot
  <1>10. Recorded' /\ Reported'
    BY <1>0 DEF ReportInv, Recorded, Reported, Runnable
  <1> QED BY <1>8, <1>9, <1>10 DEF ReportInv

(* The report is made of what the loop counted and of the pages that are     *)
(* free now.                                                                 *)
LEMMA ReturnStep ==
  ASSUME ReportInv, sysinfo_return
  PROVE  ReportInv'
  <1>0. caller # NoProc /\ at = NPROC + 1 /\ caller' = NoProc /\ at' = 1 /\ count' = 0
        /\ UNCHANGED <<always, ever, frees>>
    BY DEF sysinfo_return, hist
  <1>1. PICK C \in SUBSET ever :
          /\ \A q \in always : q < at => q \in C
          /\ count = Cardinality(C)
    BY <1>0 DEF ReportInv, Counted
  <1>2. always \subseteq C /\ ever \subseteq Slot
    <2>1. \A q \in always : q < NPROC + 1
      BY SysinfoSizes DEF ReportInv, CallTypes, Slot
    <2> QED BY <1>0, <1>1, <2>1 DEF ReportInv, CallTypes
  <1>3. Cardinality(always) <= count /\ count <= Cardinality(ever)
    BY <1>1, <1>2, SlotSets
  <1>4. nfree \in frees /\ report = Nothing
    BY <1>0 DEF ReportInv, Recorded
  <1>5. nfree \in 0..(NPAGES - KernelPages) /\ nfree' \in 0..(NPAGES - KernelPages)
    BY SysinfoSizes DEF ReportInv, CallTypes, sysinfo_return
  <1>6. CallTypes'
    BY <1>0, <1>5, SysinfoSizes DEF ReportInv, CallTypes
  <1>7. Recorded' /\ Counted'
    BY <1>0 DEF Recorded, Counted
  <1>8. Reported'
    <2>1. CASE UNCHANGED report
      BY <1>4, <2>1 DEF Reported, Nothing
    <2>2. CASE report' = [n_runnable |-> count, freemem |-> nfree,
                          n_upages |-> IF NPAGES > nfree THEN NPAGES - nfree ELSE 0,
                          n_apages |-> nfree]
      <3>1. count \in 0..NPROC
        BY DEF ReportInv, CallTypes
      <3> QED
        BY <1>0, <1>3, <1>4, <1>5, <2>2, <3>1, SysinfoSizes DEF Reported
    <2> QED BY <2>1, <2>2 DEF sysinfo_return
  <1> QED BY <1>6, <1>7, <1>8 DEF ReportInv

(* A report of sysinfo() counts every process that was RUNNABLE all through  *)
(* the call and none that never was; its free memory was the true one at     *)
(* some instant of the call, and with the used pages makes up the memory.    *)
THEOREM ReportsRegular == SSpec => []ReportRegular
  <1>1. SInit => ReportInv
    BY SysinfoSizes
      DEF SInit, ReportInv, CallTypes, Recorded, Counted, Reported, Nothing
  <1>2. ReportInv /\ [SNext]_svars => ReportInv'
    <2> SUFFICES ASSUME ReportInv, [SNext]_svars PROVE ReportInv'
      OBVIOUS
    <2>1. CASE ProcStep
      BY <2>1, ObserveStep DEF ProcStep, ReportInv, CallTypes
    <2>2. ASSUME NEW p \in Slot, kmem(p) PROVE ReportInv'
      BY <2>2, ObserveStep DEF kmem
    <2>3. CASE UNCHANGED svars
      BY <2>3 DEF svars, vars, call, hist, ReportInv, CallTypes, Recorded, Counted,
         Reported, Runnable
    <2> QED
      BY <2>1, <2>2, <2>3, CallStep, CountStep, ReturnStep DEF SNext
  <1>3. ReportInv => ReportRegular
    <2> SUFFICES ASSUME ReportInv PROVE ReportRegular
      OBVIOUS
    <2>1. Nothing \in [n_runnable : 0..NPROC, freemem : 0..NPAGES,
                       n_upages : 0..NPAGES, n_apages : 0..NPAGES]
      BY SysinfoSizes DEF Nothing
    <2>2. nfree \in 0..NPAGES
      BY SysinfoSizes DEF ReportInv, CallTypes
    <2>3. SysinfoTypeOK
      BY <2>1, <2>2 DEF ReportInv, CallTypes, Reported, SysinfoTypeOK
    <2> QED BY <2>3 DEF ReportInv, Reported, ReportRegular
  <1> QED BY <1>1, <1>2, <1>3, PTL DEF SSpec
==============================================================================
