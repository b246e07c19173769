---------------------------- MODULE ShellProofs ----------------------------
(***************************************************************************)
(* The theorems about Shell, for all command lines, pipes and files of any *)
(* size and any failures: every program starts with the descriptors its    *)
(* place in the line calls for, the prompt comes back only when the        *)
(* processes of the line are gone, and a line on which nothing failed      *)
(* leaves what its commands compute.                                       *)
(***************************************************************************)
EXTENDS ShellInv, SequenceTheorems, WellFoundedInduction, TLAPS

-----------------------------------------------------------------------------
(* Lines, processes and files. *)

(* A line has at least one command and at most MaxStages. *)
LEMMA Stages ==
  /\ MaxStages \in Nat /\ MaxStages >= 1
  /\ \A cmds \in Lines : /\ cmds \in Seq(Commands)
                         /\ Len(cmds) \in Nat /\ 1 <= Len(cmds) /\ Len(cmds) <= MaxStages
  <1>1. \A cmds \in Lines : cmds \in Seq(Commands) /\ Len(cmds) \in Nat /\ Len(cmds) >= 1
    BY ShellAssumption
  <1>2. PICK cmds \in Lines : \A other \in Lines : Len(other) <= Len(cmds)
    BY ShellAssumption
  <1>3. \E k \in {Len(c) : c \in Lines} : \A c \in Lines : Len(c) <= k
    BY <1>2
  <1>4. MaxStages \in {Len(c) : c \in Lines} /\ \A c \in Lines : Len(c) <= MaxStages
    BY <1>3 DEF MaxStages
  <1> QED BY <1>1, <1>4

(* The processes of a line have different names. *)
LEMMA Names ==
  /\ sh \in Proc
  /\ \A j \in 1..MaxStages : /\ E(j) \in Proc \ {sh} /\ E(j)[1] = "E" /\ Stage(E(j)) = j
  /\ \A j \in 1..(MaxStages - 1) :
       /\ L(j) \in Proc \ {sh} /\ L(j)[1] = "L" /\ Stage(L(j)) = j
  /\ \A j, k : (E(j) = E(k) <=> j = k) /\ (L(j) = L(k) <=> j = k) /\ E(j) # L(k)
BY DEF Proc, sh, E, L, Stage

(* Every process but the shell is one of them. *)
LEMMA Kinds ==
  ASSUME NEW p \in Proc \ {sh}
  PROVE  /\ Stage(p) \in 1..MaxStages
         /\ \/ p[1] = "E" /\ p = E(Stage(p))
            \/ p[1] = "L" /\ p = L(Stage(p)) /\ Stage(p) \in 1..(MaxStages - 1)
BY Stages DEF Proc, sh, E, L, Stage

(* Who is the child of whom. *)
LEMMA Parents ==
  /\ Parent(E(1)) = sh
  /\ \A j \in 1..(MaxStages - 1) : Parent(L(j)) = E(j) /\ Parent(E(j + 1)) = E(j)
BY Stages DEF Parent, E, L, sh, Stage

(* Files are told apart by their names. *)
LEMMA FileFacts ==
  /\ Closed # Console
  /\ Closed \in Files /\ Console \in Files
  /\ \A j \in 1..MaxStages : File(j) \in Files /\ R(j) \in Files /\ W(j) \in Files
  /\ \A j : File(j) # Closed /\ R(j) # Closed /\ W(j) # Closed
BY DEF Files, Closed, Console, File, R, W

(* The lowest free descriptor. *)
LEMMA LowestFacts ==
  ASSUME NEW S \in SUBSET Fd, NEW e \in S
  PROVE  Lowest(S) \in S /\ \A d \in S : Lowest(S) <= d
  <1>1. \E d \in S : \A c \in S : d <= c
    <2>1. S \subseteq 0..4
      BY DEF Fd
    <2>2. CASE 0 \in S BY <2>1, <2>2
    <2>3. CASE 0 \notin S /\ 1 \in S BY <2>1, <2>3
    <2>4. CASE 0 \notin S /\ 1 \notin S /\ 2 \in S BY <2>1, <2>4
    <2>5. CASE 0 \notin S /\ 1 \notin S /\ 2 \notin S /\ 3 \in S BY <2>1, <2>5
    <2>6. CASE 0 \notin S /\ 1 \notin S /\ 2 \notin S /\ 3 \notin S BY <2>1, <2>6
    <2> QED BY <2>2, <2>3, <2>4, <2>5, <2>6
  <1> QED BY <1>1 DEF Lowest

-----------------------------------------------------------------------------
(* What a step does not touch. *)

(* The labels that the invariant tells apart. *)
Labels == ShPc \cup EPc \cup LPc

(* A process that nothing happens to keeps what is known of it. *)
LEMMA LocalKept ==
  ASSUME NEW p \in Proc \ {sh}, Local(p), failed \in BOOLEAN, failed' \in BOOLEAN,
         failed => failed', line' = line,
         pc'[p] = pc[p], ofile'[p] = ofile[p], fd'[p] = fd[p]
  PROVE  Local(p)'
  <1>1. Place(p)'
    BY DEF Local, Place, Cmd
  <1>2. Spare(p)'
    BY DEF Local, Spare
  <1>3. ~failed => Wiring(p)'
    BY DEF Local, Wiring, Holds, StdIn, StdOut, From, To
  <1> QED BY <1>1, <1>2, <1>3 DEF Local

(* Families are kept by a step of p that forks nobody and reaps nobody. *)
LEMMA FamilyKept ==
  ASSUME Types, Family, NEW p \in Proc \ {sh}, NEW l,
         pc' = [pc EXCEPT ![p] = l],
         pc[p] # "none", l # "none", l # "wait2",
         pc[p] \in HasLeft => l \in HasLeft, pc[p] \in HasRight => l \in HasRight
  PROVE  Family'
  <1>1. pc \in [Proc -> Labels]
    BY DEF Types, Labels
  <1>2. \A q \in Proc : pc'[q] = IF q = p THEN l ELSE pc[q]
    BY <1>1
  <1>3. pc'[sh] = pc[sh]
    BY <1>2, Names
  <1>4. \A q \in Proc \ {sh} : pc'[q] # "none" => pc'[sh] = "wait"
    BY <1>2, <1>3 DEF Family
  <1>5. \A j \in 1..(MaxStages - 1) : pc'[L(j)] # "none" => pc'[E(j)] \in HasLeft
    <2>1. TAKE j \in 1..(MaxStages - 1)
    <2>2. L(j) \in Proc /\ E(j) \in Proc
      BY Names, Stages
    <2> QED BY <1>2, <2>2, Stages DEF Family
  <1>6. \A j, k \in 1..MaxStages : k < j /\ pc'[E(j)] # "none" => pc'[E(k)] \in HasRight
    <2>1. TAKE j, k \in 1..MaxStages
    <2>2. E(k) \in Proc /\ E(j) \in Proc
      BY Names, Stages
    <2> QED BY <1>2, <2>2, Stages DEF Family
  <1>7. \A j \in 1..(MaxStages - 1) :
          pc'[E(j)] = "wait2" => pc'[L(j)] = "none" \/ pc'[E(j + 1)] = "none"
    <2>1. TAKE j \in 1..(MaxStages - 1)
    <2>2. L(j) \in Proc /\ E(j) \in Proc /\ E(j + 1) \in Proc
      BY Names, Stages
    <2>3. p = E(j) => pc'[E(j)] # "wait2"
      BY <1>2, <2>2
    <2> QED BY <1>2, <2>2, <2>3 DEF Family
  <1> QED BY <1>4, <1>5, <1>6, <1>7 DEF Family

(* A step of p alone: what has to be shown of it. *)
LEMMA OwnStep ==
  ASSUME ShellInv, NEW p \in Proc \ {sh}, NEW l,
         pc' = [pc EXCEPT ![p] = l],
         pc[p] # "none", l # "none", l # "wait2",
         pc[p] \in HasLeft => l \in HasLeft, pc[p] \in HasRight => l \in HasRight,
         line' = line, failed => failed',
         \A q \in Proc \ {p} : ofile'[q] = ofile[q] /\ fd'[q] = fd[q],
         Types', Local(p)'
  PROVE  ShellInv'
  <1>1. Types /\ ShInv /\ Family /\ \A q \in Proc \ {sh} : Local(q)
    BY DEF ShellInv
  <1>2. pc \in [Proc -> Labels] /\ failed \in BOOLEAN /\ failed' \in BOOLEAN
    BY <1>1 DEF Types, Labels
  <1>3. \A q \in Proc : pc'[q] = IF q = p THEN l ELSE pc[q]
    BY <1>2
  <1>4. ShInv'
    BY <1>1, <1>3, Names DEF ShInv
  <1>5. Family'
    BY <1>1, FamilyKept
  <1>6. \A q \in Proc \ {sh} : Local(q)'
    BY <1>1, <1>2, <1>3, LocalKept
  <1> QED BY <1>4, <1>5, <1>6 DEF ShellInv

-----------------------------------------------------------------------------
(* Descriptors. *)

(* close() frees one descriptor of its caller. *)
LEMMA CloseFacts ==
  ASSUME Types, NEW p \in Proc, NEW d \in -1..4, close(p, d)
  PROVE  /\ ofile' \in [Proc -> [Fd -> Files]]
         /\ \A q \in Proc \ {p} : ofile'[q] = ofile[q]
         /\ \A e \in 0..4 : ofile'[p][e] = IF e = d THEN Closed ELSE ofile[p][e]
BY FileFacts DEF Types, close, Fd

(* dup() copies a file, if it is one, to the lowest descriptor that is free. *)
LEMMA DupFacts ==
  ASSUME Types, NEW p \in Proc, NEW d \in -1..4, NEW c \in 0..4,
         ofile[p][c] = Closed, dup(p, d)
  PROVE  /\ ofile' \in [Proc -> [Fd -> Files]]
         /\ \A q \in Proc \ {p} : ofile'[q] = ofile[q]
         /\ \E k \in 0..c :
              /\ ofile[p][k] = Closed
              /\ \A e \in 0..4 : e < k => ofile[p][e] # Closed
              /\ \A e \in 0..4 :
                   ofile'[p][e] = IF e = k /\ d # -1 THEN ofile[p][d] ELSE ofile[p][e]
  <1>1. ofile \in [Proc -> [Fd -> Files]] /\ Fd = 0..4
    BY DEF Types, Fd
  <1>2. Free(p) \in SUBSET Fd /\ c \in Free(p)
    BY <1>1 DEF Free
  <1> DEFINE k == Lowest(Free(p))
  <1>3. k \in Free(p) /\ \A e \in Free(p) : k <= e
    BY <1>2, LowestFacts
  <1>4. k \in 0..c /\ k \in Fd /\ ofile[p][k] = Closed /\ \A e \in 0..4 : e < k => ofile[p][e] # Closed
    BY <1>1, <1>2, <1>3 DEF Free
  <1>5. ofile' = IF d \in Fd /\ ofile[p][d] # Closed
                 THEN [ofile EXCEPT ![p][k] = ofile[p][d]] ELSE ofile
    BY <1>2 DEF dup
  <1> HIDE DEF k
  <1>6. /\ ofile' \in [Proc -> [Fd -> Files]]
        /\ \A q \in Proc \ {p} : ofile'[q] = ofile[q]
        /\ \A e \in 0..4 :
             ofile'[p][e] = IF e = k /\ d # -1 THEN ofile[p][d] ELSE ofile[p][e]
    BY <1>1, <1>4, <1>5
  <1> QED BY <1>4, <1>6

(* One of the calls that only change the descriptors of p. *)
LEMMA DescStep ==
  ASSUME ShellInv, NEW p \in Proc \ {sh}, NEW l, NEW next, FdStep(p, l, next),
         l # "none", next \in Labels \ {"none", "wait2"},
         l \in HasLeft => next \in HasLeft, l \in HasRight => next \in HasRight,
         ofile' \in [Proc -> [Fd -> Files]],
         \A q \in Proc \ {p} : ofile'[q] = ofile[q],
         Place(p)', Spare(p)', ~failed => Wiring(p)'
  PROVE  ShellInv'
  <1>1. Types
    BY DEF ShellInv
  <1>2. Types'
    BY <1>1 DEF Types, FdStep, Goto, Labels
  <1>3. pc' = [pc EXCEPT ![p] = next] /\ pc[p] = l /\ line' = line /\ fd' = fd /\ failed' = failed
    BY DEF FdStep, Goto
  <1>4. Local(p)'
    BY <1>3 DEF Local
  <1> QED BY <1>2, <1>3, <1>4, OwnStep

(* What is known of p before its step. *)
LEMMA Known ==
  ASSUME ShellInv, NEW p \in Proc \ {sh}
  PROVE  /\ Types /\ Place(p) /\ Spare(p) /\ (~failed => Wiring(p))
         /\ failed \in BOOLEAN
         /\ Stage(p) \in 1..MaxStages
         /\ Len(line) \in 1..MaxStages /\ line \in Seq(Commands)
         /\ fd[p][1] \in -1..4 /\ fd[p][2] \in -1..4
         /\ p[1] \in {"E", "L"}
         /\ pc[p] \in LeftPc => p[1] = "L"
         /\ pc[p] \in {"find"} \cup PipePc \cup RightPc => p[1] = "E"
  <1>1. Types /\ Local(p)
    BY DEF ShellInv
  <1>2. line \in Lines /\ fd[p][1] \in -1..4 /\ fd[p][2] \in -1..4 /\ failed \in BOOLEAN
    BY <1>1 DEF Types
  <1>3. Len(line) \in 1..MaxStages /\ line \in Seq(Commands)
    BY <1>2, Stages
  <1>4. Stage(p) \in 1..MaxStages /\ p[1] \in {"E", "L"}
    BY Kinds
  <1>5. pc[p] \in LeftPc => p[1] = "L"
    BY <1>1, <1>4 DEF Local, Place, EPc, LeftPc, RightPc, PipePc, RunPc
  <1>6. pc[p] \in {"find"} \cup PipePc \cup RightPc => p[1] = "E"
    BY <1>1, <1>4 DEF Local, Place, LPc, LeftPc, RightPc, PipePc, RunPc
  <1> QED BY <1>1, <1>2, <1>3, <1>4, <1>5, <1>6 DEF Local

(* After a step of p that goes to next. *)
LEMMA Moved ==
  ASSUME ShellInv, NEW p \in Proc \ {sh}, NEW l, NEW next, FdStep(p, l, next)
  PROVE  /\ pc[p] = l /\ pc'[p] = next /\ line' = line /\ fd' = fd /\ failed' = failed
  <1>1. pc \in [Proc -> Labels]
    BY DEF ShellInv, Types, Labels
  <1> QED BY <1>1 DEF FdStep, Goto

(* The left child gets the write end of the pipe as its output. *)
LEMMA LeftChildStep ==
  ASSUME ShellInv, NEW p \in Proc \ {sh}, left_child(p)
  PROVE  ShellInv'
  <1>1. /\ Types /\ Place(p) /\ Spare(p) /\ (~failed => Wiring(p))
        /\ fd[p][1] \in -1..4 /\ fd[p][2] \in -1..4
        /\ pc[p] \in LeftPc => p[1] = "L"
    BY Known
  <1> DEFINE f == ofile[p]
  <1>2. CASE FdStep(p, "l_close1", "l_dup") /\ close(p, 1)
    <2>1. pc[p] = "l_close1" /\ pc'[p] = "l_dup" /\ line' = line /\ fd' = fd
      BY <1>2, Moved
    <2>2. /\ ofile' \in [Proc -> [Fd -> Files]]
          /\ \A q \in Proc \ {p} : ofile'[q] = ofile[q]
          /\ \A e \in 0..4 : ofile'[p][e] = IF e = 1 THEN Closed ELSE f[e]
      BY <1>1, <1>2, CloseFacts
    <2>3. Place(p)'
      BY <1>1, <2>1 DEF Place, LeftPc, RightPc, PipePc, RunPc, LPc
    <2>4. Spare(p)'
      BY <1>1, <2>1, <2>2 DEF Spare
    <2>5. ~failed => Wiring(p)'
      BY <1>1, <2>1, <2>2 DEF Wiring, Holds, StdIn, LeftPc, RightPc
    <2> QED BY <1>2, <2>2, <2>3, <2>4, <2>5, DescStep DEF Labels, LPc, LeftPc, HasLeft, HasRight
  <1>3. CASE FdStep(p, "l_dup", "l_closer") /\ dup(p, fd[p][2])
    <2>1. pc[p] = "l_dup" /\ pc'[p] = "l_closer" /\ line' = line /\ fd' = fd
      BY <1>3, Moved
    <2>2. f[1] = Closed
      BY <1>1, <2>1 DEF Spare
    <2>3. /\ ofile' \in [Proc -> [Fd -> Files]]
          /\ \A q \in Proc \ {p} : ofile'[q] = ofile[q]
          /\ \E k \in 0..1 :
               /\ f[k] = Closed
               /\ \A e \in 0..4 : e < k => f[e] # Closed
               /\ \A e \in 0..4 :
                    ofile'[p][e] = IF e = k /\ fd[p][2] # -1 THEN f[fd[p][2]] ELSE f[e]
      BY <1>1, <1>3, <2>2, DupFacts
    <2>4. Place(p)'
      BY <1>1, <2>1 DEF Place, LeftPc, RightPc, PipePc, RunPc, LPc
    <2>5. Spare(p)'
      BY <1>1, <2>1, <2>3 DEF Spare
    <2>6. ~failed => Wiring(p)'
      <3>1. SUFFICES ASSUME ~failed PROVE Wiring(p)'
        OBVIOUS
      <3>2. fd[p] = <<3, 4>> /\ Holds(p, StdIn(Stage(p)), Closed, R(Stage(p)), W(Stage(p)))
        BY <1>1, <2>1, <3>1 DEF Wiring, LeftPc
      <3>3. f[0] # Closed /\ fd[p][2] = 4
        BY <3>2, FileFacts DEF Holds, StdIn
      <3>4. \A e \in 0..4 : ofile'[p][e] = IF e = 1 THEN f[4] ELSE f[e]
        BY <2>3, <3>3
      <3> QED BY <2>1, <3>2, <3>4 DEF Wiring, Holds, StdIn, LeftPc, RightPc
    <2> QED BY <1>3, <2>3, <2>4, <2>5, <2>6, DescStep DEF Labels, LPc, LeftPc, HasLeft, HasRight
  <1>4. CASE FdStep(p, "l_closer", "l_closew") /\ close(p, fd[p][1])
    <2>1. pc[p] = "l_closer" /\ pc'[p] = "l_closew" /\ line' = line /\ fd' = fd
      BY <1>4, Moved
    <2>2. /\ ofile' \in [Proc -> [Fd -> Files]]
          /\ \A q \in Proc \ {p} : ofile'[q] = ofile[q]
          /\ \A e \in 0..4 : ofile'[p][e] = IF e = fd[p][1] THEN Closed ELSE f[e]
      BY <1>1, <1>4, CloseFacts
    <2>3. Place(p)'
      BY <1>1, <2>1 DEF Place, LeftPc, RightPc, PipePc, RunPc, LPc
    <2>4. Spare(p)'
      BY <1>1, <2>1, <2>2 DEF Spare
    <2>5. ~failed => Wiring(p)'
      BY <1>1, <2>1, <2>2 DEF Wiring, Holds, StdIn, LeftPc, RightPc
    <2> QED BY <1>4, <2>2, <2>3, <2>4, <2>5, DescStep DEF Labels, LPc, LeftPc, HasLeft, HasRight
  <1>5. CASE FdStep(p, "l_closew", "run") /\ close(p, fd[p][2])
    <2>1. pc[p] = "l_closew" /\ pc'[p] = "run" /\ line' = line /\ fd' = fd
      BY <1>5, Moved
    <2>2. /\ ofile' \in [Proc -> [Fd -> Files]]
          /\ \A q \in Proc \ {p} : ofile'[q] = ofile[q]
          /\ \A e \in 0..4 : ofile'[p][e] = IF e = fd[p][2] THEN Closed ELSE f[e]
      BY <1>1, <1>5, CloseFacts
    <2>3. Place(p)' /\ Stage(p) < Len(line)
      BY <1>1, <2>1 DEF Place, LeftPc, RightPc, PipePc, RunPc, LPc
    <2>4. Spare(p)'
      BY <1>1, <2>1, <2>2 DEF Spare
    <2>5. ~failed => Wiring(p)'
      BY <1>1, <2>1, <2>2, <2>3 DEF Wiring, Holds, StdIn, StdOut, LeftPc, RightPc
    <2> QED BY <1>5, <2>2, <2>3, <2>4, <2>5, DescStep DEF Labels, LPc, LeftPc, RunPc, HasLeft, HasRight
  <1> QED BY <1>2, <1>3, <1>4, <1>5 DEF left_child

(* The right child gets the read end of the pipe as its input. *)
LEMMA RightChildStep ==
  ASSUME ShellInv, NEW p \in Proc \ {sh}, right_child(p)
  PROVE  ShellInv'
  <1>1. /\ Types /\ Place(p) /\ Spare(p) /\ (~failed => Wiring(p))
        /\ fd[p][1] \in -1..4 /\ fd[p][2] \in -1..4
        /\ pc[p] \in RightPc => p[1] = "E"
        /\ Stage(p) \in 1..MaxStages
    BY Known
  <1> DEFINE f == ofile[p]
  <1>2. CASE FdStep(p, "r_close0", "r_dup") /\ close(p, 0)
    <2>1. pc[p] = "r_close0" /\ pc'[p] = "r_dup" /\ line' = line /\ fd' = fd
      BY <1>2, Moved
    <2>2. /\ ofile' \in [Proc -> [Fd -> Files]]
          /\ \A q \in Proc \ {p} : ofile'[q] = ofile[q]
          /\ \A e \in 0..4 : ofile'[p][e] = IF e = 0 THEN Closed ELSE f[e]
      BY <1>1, <1>2, CloseFacts
    <2>3. Place(p)'
      BY <1>1, <2>1 DEF Place, LeftPc, RightPc, PipePc, RunPc, EPc
    <2>4. Spare(p)'
      BY <1>1, <2>1, <2>2 DEF Spare
    <2>5. ~failed => Wiring(p)'
      BY <1>1, <2>1, <2>2 DEF Wiring, Holds, StdIn, LeftPc, RightPc
    <2> QED BY <1>2, <2>2, <2>3, <2>4, <2>5, DescStep DEF Labels, EPc, RightPc, HasLeft, HasRight
  <1>3. CASE FdStep(p, "r_dup", "r_closer") /\ dup(p, fd[p][1])
    <2>1. pc[p] = "r_dup" /\ pc'[p] = "r_closer" /\ line' = line /\ fd' = fd
      BY <1>3, Moved
    <2>2. f[0] = Closed
      BY <1>1, <2>1 DEF Spare
    <2>3. /\ ofile' \in [Proc -> [Fd -> Files]]
          /\ \A q \in Proc \ {p} : ofile'[q] = ofile[q]
          /\ \E k \in 0..0 :
               /\ f[k] = Closed
               /\ \A e \in 0..4 : e < k => f[e] # Closed
               /\ \A e \in 0..4 :
                    ofile'[p][e] = IF e = k /\ fd[p][1] # -1 THEN f[fd[p][1]] ELSE f[e]
      BY <1>1, <1>3, <2>2, DupFacts
    <2>4. Place(p)'
      BY <1>1, <2>1 DEF Place, LeftPc, RightPc, PipePc, RunPc, EPc
    <2>5. Spare(p)'
      BY <1>1, <2>1, <2>3 DEF Spare
    <2>6. ~failed => Wiring(p)'
      BY <1>1, <2>1, <2>3 DEF Wiring, Holds, StdIn, LeftPc, RightPc
    <2> QED BY <1>3, <2>3, <2>4, <2>5, <2>6, DescStep DEF Labels, EPc, RightPc, HasLeft, HasRight
  <1>4. CASE FdStep(p, "r_closer", "r_closew") /\ close(p, fd[p][1])
    <2>1. pc[p] = "r_closer" /\ pc'[p] = "r_closew" /\ line' = line /\ fd' = fd
      BY <1>4, Moved
    <2>2. /\ ofile' \in [Proc -> [Fd -> Files]]
          /\ \A q \in Proc \ {p} : ofile'[q] = ofile[q]
          /\ \A e \in 0..4 : ofile'[p][e] = IF e = fd[p][1] THEN Closed ELSE f[e]
      BY <1>1, <1>4, CloseFacts
    <2>3. Place(p)'
      BY <1>1, <2>1 DEF Place, LeftPc, RightPc, PipePc, RunPc, EPc
    <2>4. Spare(p)'
      BY <1>1, <2>1, <2>2 DEF Spare
    <2>5. ~failed => Wiring(p)'
      BY <1>1, <2>1, <2>2 DEF Wiring, Holds, StdIn, LeftPc, RightPc
    <2> QED BY <1>4, <2>2, <2>3, <2>4, <2>5, DescStep DEF Labels, EPc, RightPc, HasLeft, HasRight
  <1>5. CASE FdStep(p, "r_closew", "find") /\ close(p, fd[p][2])
    <2>1. pc[p] = "r_closew" /\ pc'[p] = "find" /\ line' = line /\ fd' = fd
      BY <1>5, Moved
    <2>2. /\ ofile' \in [Proc -> [Fd -> Files]]
          /\ \A q \in Proc \ {p} : ofile'[q] = ofile[q]
          /\ \A e \in 0..4 : ofile'[p][e] = IF e = fd[p][2] THEN Closed ELSE f[e]
      BY <1>1, <1>5, CloseFacts
    <2>3. Place(p)' /\ Stage(p) > 1
      BY <1>1, <2>1 DEF Place, LeftPc, RightPc, PipePc, RunPc, EPc
    <2>4. Spare(p)'
      BY <1>1, <2>1, <2>2 DEF Spare
    <2>5. ~failed => Wiring(p)'
      BY <1>1, <2>1, <2>2, <2>3 DEF Wiring, Holds, StdIn, LeftPc, RightPc
    <2> QED BY <1>5, <2>2, <2>3, <2>4, <2>5, DescStep DEF Labels, EPc, RightPc, HasLeft, HasRight
  <1> QED BY <1>2, <1>3, <1>4, <1>5 DEF right_child

(* The parent closes both ends. *)
LEMMA ExeclineCloseStep ==
  ASSUME ShellInv, NEW p \in Proc \ {sh}, execline_close(p)
  PROVE  ShellInv'
  <1>1. /\ Types /\ Place(p) /\ Spare(p) /\ (~failed => Wiring(p))
        /\ fd[p][1] \in -1..4 /\ fd[p][2] \in -1..4
        /\ pc[p] \in PipePc => p[1] = "E"
    BY Known
  <1> DEFINE f == ofile[p]
  <1>2. CASE FdStep(p, "close0", "close1") /\ close(p, fd[p][1])
    <2>1. pc[p] = "close0" /\ pc'[p] = "close1" /\ line' = line /\ fd' = fd
      BY <1>2, Moved
    <2>2. /\ ofile' \in [Proc -> [Fd -> Files]]
          /\ \A q \in Proc \ {p} : ofile'[q] = ofile[q]
          /\ \A e \in 0..4 : ofile'[p][e] = IF e = fd[p][1] THEN Closed ELSE f[e]
      BY <1>1, <1>2, CloseFacts
    <2>3. Place(p)'
      BY <1>1, <2>1 DEF Place, LeftPc, RightPc, PipePc, RunPc, EPc
    <2>4. Spare(p)'
      BY <1>1, <2>1, <2>2 DEF Spare
    <2>5. ~failed => Wiring(p)'
      BY <1>1, <2>1, <2>2 DEF Wiring, Holds, StdIn, LeftPc, RightPc
    <2> QED BY <1>2, <2>2, <2>3, <2>4, <2>5, DescStep DEF Labels, EPc, PipePc, HasLeft, HasRight
  <1>3. CASE FdStep(p, "close1", "wait1") /\ close(p, fd[p][2])
    <2>1. pc[p] = "close1" /\ pc'[p] = "wait1" /\ line' = line /\ fd' = fd
      BY <1>3, Moved
    <2>2. /\ ofile' \in [Proc -> [Fd -> Files]]
          /\ \A q \in Proc \ {p} : ofile'[q] = ofile[q]
          /\ \A e \in 0..4 : ofile'[p][e] = IF e = fd[p][2] THEN Closed ELSE f[e]
      BY <1>1, <1>3, CloseFacts
    <2>3. Place(p)'
      BY <1>1, <2>1 DEF Place, LeftPc, RightPc, PipePc, RunPc, EPc
    <2>4. Spare(p)'
      BY <1>1, <2>1, <2>2 DEF Spare
    <2>5. ~failed => Wiring(p)'
      BY <2>1 DEF Wiring, LeftPc, RightPc
    <2> QED BY <1>3, <2>2, <2>3, <2>4, <2>5, DescStep DEF Labels, EPc, PipePc, HasLeft, HasRight
  <1> QED BY <1>2, <1>3 DEF execline_close

(* A step of p that changes nothing but its label. *)
LEMMA GotoStep ==
  ASSUME ShellInv, NEW p \in Proc \ {sh}, NEW next \in Labels \ {"none", "wait2"},
         Goto(p, next), pc[p] # "none", pc[p] \notin HasLeft \cup HasRight,
         UNCHANGED <<line, ofile, fd, buf, n, item, written, failed>>,
         Place(p)', Spare(p)', ~failed => Wiring(p)'
  PROVE  ShellInv'
  <1>1. Types
    BY DEF ShellInv
  <1>2. Types'
    BY <1>1 DEF Types, Goto, Labels
  <1> QED BY <1>2, OwnStep DEF Goto, Local

(* findpipe(). *)
LEMMA ExeclineStep ==
  ASSUME ShellInv, NEW p \in Proc \ {sh}, execline(p)
  PROVE  ShellInv'
  <1>1. /\ Types /\ Place(p) /\ Spare(p) /\ (~failed => Wiring(p))
        /\ Stage(p) \in 1..MaxStages /\ Len(line) \in 1..MaxStages
    BY Known
  <1>2. pc \in [Proc -> Labels]
    BY <1>1 DEF Types, Labels
  <1> DEFINE next == IF Stage(p) < Len(line) THEN "pipe" ELSE "run"
  <1>3. /\ p[1] = "E" /\ pc[p] = "find" /\ pc'[p] = next /\ Goto(p, next)
        /\ UNCHANGED <<line, ofile, fd, buf, n, item, written, failed>>
    BY <1>2 DEF execline, Goto
  <1>4. Stage(p) <= Len(line)
    BY <1>1, <1>3 DEF Place
  <1>5. Place(p)'
    BY <1>1, <1>3, <1>4 DEF Place, LeftPc, RightPc, PipePc, RunPc, EPc
  <1>6. Spare(p)'
    BY <1>1, <1>3 DEF Spare
  <1>7. ~failed => Wiring(p)'
    BY <1>1, <1>3, <1>4 DEF Wiring, Holds, StdIn, StdOut, LeftPc, RightPc
  <1>8. next \in Labels \ {"none", "wait2"} /\ "find" \notin HasLeft \cup HasRight
    BY DEF Labels, EPc, PipePc, RunPc, HasLeft, HasRight
  <1> QED BY <1>3, <1>5, <1>6, <1>7, <1>8, GotoStep

(* pipe() puts its ends into 3 and 4 when nothing has failed before; after a *)
(* failure its array is anything.                                            *)
LEMMA ExeclinePipeStep ==
  ASSUME ShellInv, NEW p \in Proc \ {sh}, execline_pipe(p)
  PROVE  ShellInv'
  <1>1. /\ Types /\ Place(p) /\ Spare(p) /\ (~failed => Wiring(p))
        /\ Stage(p) \in 1..MaxStages
        /\ pc[p] \in PipePc => p[1] = "E"
        /\ failed \in BOOLEAN
    BY Known
  <1>2. pc \in [Proc -> Labels] /\ ofile \in [Proc -> [Fd -> Files]] /\ Fd = 0..4
        /\ fd \in [Proc -> (-1..4) \X (-1..4)]
    BY <1>1 DEF Types, Labels, Fd
  <1>3. pc[p] = "pipe" /\ pc' = [pc EXCEPT ![p] = "fork1"] /\ pc'[p] = "fork1" /\ line' = line
        /\ n' = n /\ item' = item
    BY <1>2 DEF execline_pipe, Goto
  <1>4. ofile[p][3] = Closed /\ ofile[p][4] = Closed
    BY <1>1, <1>3 DEF Spare
  <1>5. Place(p)'
    BY <1>1, <1>3 DEF Place, LeftPc, RightPc, PipePc, RunPc, EPc
  <1>6. /\ pc[p] # "none" /\ "fork1" \in Labels
        /\ pc[p] \notin HasLeft /\ pc[p] \notin HasRight
    BY <1>3 DEF Labels, EPc, PipePc, HasLeft, HasRight
  <1>7. ASSUME Spare(p)', failed' \/ Wiring(p)', failed => failed', Types',
               \A q \in Proc \ {p} : ofile'[q] = ofile[q] /\ fd'[q] = fd[q]
        PROVE  ShellInv'
    BY <1>3, <1>5, <1>6, <1>7, OwnStep DEF Local
  <1> DEFINE a == Lowest(Free(p))
             b == Lowest(Free(p) \ {a})
  <1>8. CASE /\ ofile' = [ofile EXCEPT ![p][a] = R(Stage(p)), ![p][b] = W(Stage(p))]
             /\ fd' = [fd EXCEPT ![p] = <<a, b>>]
             /\ buf' = [buf EXCEPT ![Stage(p)] = <<>>]
             /\ failed' = failed
    <2>1. Free(p) \in SUBSET Fd /\ 3 \in Free(p) /\ 4 \in Free(p)
      BY <1>2, <1>4 DEF Free
    <2>2. a \in Free(p) /\ \A e \in Free(p) : a <= e
      BY <2>1, LowestFacts
    <2>3. a \in 0..3
      BY <1>2, <2>1, <2>2
    <2>4. b \in Free(p) \ {a} /\ \A e \in Free(p) \ {a} : b <= e
      <3>1. Free(p) \ {a} \in SUBSET Fd /\ 4 \in Free(p) \ {a}
        BY <2>1, <2>3
      <3> QED BY <3>1, LowestFacts
    <2>5. b \in 0..4 /\ b # a
      BY <1>2, <2>1, <2>4
    <2>6. ~failed => a = 3 /\ b = 4
      <3>1. SUFFICES ASSUME ~failed PROVE a = 3 /\ b = 4
        OBVIOUS
      <3>2. \A d \in 0..2 : ofile[p][d] # Closed
        BY <1>1, <1>3, <3>1, FileFacts DEF Wiring, Holds, StdIn
      <3>3. \A d \in Free(p) : d \in {3, 4}
        BY <1>2, <3>2 DEF Free
      <3> QED BY <2>1, <2>2, <2>4, <3>3
    <2> HIDE DEF a, b
    <2>7. /\ ofile' \in [Proc -> [Fd -> Files]]
          /\ \A q \in Proc \ {p} : ofile'[q] = ofile[q] /\ fd'[q] = fd[q]
          /\ fd'[p] = <<a, b>> /\ fd' \in [Proc -> (-1..4) \X (-1..4)]
          /\ \A e \in 0..4 : ofile'[p][e] = IF e = b THEN W(Stage(p))
                                            ELSE IF e = a THEN R(Stage(p)) ELSE ofile[p][e]
      BY <1>1, <1>2, <1>8, <2>3, <2>5, FileFacts
    <2>8. Spare(p)'
      BY <1>1, <1>3, <2>7 DEF Spare
    <2>9. ~failed => Wiring(p)'
      BY <1>1, <1>3, <2>6, <2>7 DEF Wiring, Holds, StdIn, LeftPc, RightPc
    <2>10. buf' \in [1..MaxStages -> Seq(1..NITEMS)] /\ \A j \in 1..MaxStages : Len(buf'[j]) <= PIPESIZE
      <3>1. <<>> \in Seq(1..NITEMS) /\ Len(<<>>) <= PIPESIZE
        BY ShellAssumption
      <3> QED BY <1>1, <1>8, <3>1 DEF Types
    <2>11. Types'
      BY <1>1, <1>3, <1>6, <1>8, <2>7, <2>10 DEF Types, Labels
    <2> QED BY <1>7, <1>8, <2>7, <2>8, <2>9, <2>11
  <1>9. CASE /\ fd' \in {[fd EXCEPT ![p] = g] : g \in Garbage}
             /\ failed' = TRUE
             /\ UNCHANGED <<ofile, buf>>
    <2>1. PICK g \in Garbage : fd' = [fd EXCEPT ![p] = g]
      BY <1>9
    <2>2. g \in (-1..4) \X (-1..4)
      BY DEF Garbage
    <2>3. fd' \in [Proc -> (-1..4) \X (-1..4)] /\ \A q \in Proc \ {p} : fd'[q] = fd[q]
      BY <1>2, <2>1, <2>2
    <2>4. Spare(p)'
      BY <1>1, <1>3, <1>4, <1>9 DEF Spare
    <2>5. Types'
      BY <1>1, <1>3, <1>6, <1>9, <2>3 DEF Types, Labels
    <2> QED BY <1>7, <1>9, <2>3, <2>4, <2>5
  <1> QED BY <1>8, <1>9 DEF execline_pipe

-----------------------------------------------------------------------------
(* fork() and wait(). *)

(* A step of p that creates or reaps q: what has to be shown of the two. *)
LEMMA PairStep ==
  ASSUME ShellInv, NEW p \in Proc, NEW q \in Proc \ {sh},
         line' = line, failed => failed',
         \A r \in Proc \ {p, q} :
           pc'[r] = pc[r] /\ ofile'[r] = ofile[r] /\ fd'[r] = fd[r],
         Types', ShInv', Family', p # sh => Local(p)', Local(q)'
  PROVE  ShellInv'
  <1>1. Types /\ \A r \in Proc \ {sh} : Local(r)
    BY DEF ShellInv
  <1>2. failed \in BOOLEAN /\ failed' \in BOOLEAN
    BY <1>1 DEF Types
  <1>3. \A r \in Proc \ {sh} : Local(r)'
    BY <1>1, <1>2, LocalKept
  <1> QED BY <1>3 DEF ShellInv

(* The types after a fork(). *)
LEMMA ForkTypes ==
  ASSUME Types, NEW p \in Proc, NEW q \in Proc, NEW l \in Labels, NEW next \in Labels,
         pc' = [pc EXCEPT ![p] = next, ![q] = l],
         ofile' = [ofile EXCEPT ![q] = ofile[p]], fd' = [fd EXCEPT ![q] = fd[p]],
         UNCHANGED <<line, buf, n, item, failed>>
  PROVE  Types'
BY DEF Types, Labels

(* A fork() that fails only sets the mark. *)
LEMMA FailTypes ==
  ASSUME Types, NEW p \in Proc, NEW next \in Labels, Goto(p, next),
         failed' = TRUE, UNCHANGED <<line, ofile, fd, buf, n, item>>
  PROVE  Types'
BY DEF Types, Labels, Goto

(* While the shell is not in wait() nobody else exists. *)
LEMMA Alone ==
  ASSUME ShellInv, pc[sh] # "wait"
  PROVE  \A p \in Proc \ {sh} : pc[p] = "none" /\ ofile[p] = AllClosed
BY DEF ShellInv, Family, Local, Spare

(* The shell forks the first process of a line. *)
LEMMA MainForkStep ==
  ASSUME ShellInv, main_fork
  PROVE  ShellInv'
  <1>1. Types /\ ShInv /\ pc \in [Proc -> Labels] /\ Fd = 0..4
    BY DEF ShellInv, Types, Labels, Fd
  <1>2. pc[sh] = "fork" /\ UNCHANGED <<line, buf, n, item, written>>
    BY DEF main_fork, fork
  <1>3. \A p \in Proc \ {sh} : pc[p] = "none" /\ ofile[p] = AllClosed
    BY <1>2, Alone
  <1>4. ofile[sh] = OnConsole
    BY <1>1, <1>2 DEF ShInv
  <1>5. /\ sh \in Proc /\ E(1) \in Proc \ {sh} /\ E(1)[1] = "E" /\ Stage(E(1)) = 1
        /\ "wait" \in Labels /\ "find" \in Labels
    BY Names, Stages DEF Labels, ShPc, EPc
  <1>6. CASE /\ pc' = [pc EXCEPT ![sh] = "wait", ![E(1)] = "find"]
             /\ ofile' = [ofile EXCEPT ![E(1)] = ofile[sh]]
             /\ fd' = [fd EXCEPT ![E(1)] = fd[sh]]
             /\ UNCHANGED failed
    <2>1. \A r \in Proc : pc'[r] = IF r = sh THEN "wait" ELSE IF r = E(1) THEN "find" ELSE "none"
      BY <1>1, <1>3, <1>5, <1>6
    <2>2. /\ ofile'[E(1)] = OnConsole /\ ofile'[sh] = OnConsole
          /\ \A r \in Proc \ {E(1)} : ofile'[r] = ofile[r] /\ fd'[r] = fd[r]
      BY <1>1, <1>4, <1>5, <1>6 DEF Types
    <2>3. Types'
      BY <1>1, <1>2, <1>5, <1>6, ForkTypes
    <2>4. ShInv'
      BY <1>5, <2>1, <2>2 DEF ShInv, ShPc
    <2>5. Family'
      <3>1. \A j \in 1..(MaxStages - 1) : pc'[L(j)] = "none"
        BY <2>1, Names
      <3>2. \A j \in 1..MaxStages : pc'[E(j)] = IF j = 1 THEN "find" ELSE "none"
        BY <2>1, Names
      <3> QED BY <1>5, <2>1, <3>1, <3>2, Stages DEF Family
    <2>6. Local(E(1))'
      <3>1. line \in Lines
        BY <1>1 DEF Types
      <3>2. Place(E(1))'
        BY <1>2, <1>5, <2>1, <3>1, Stages DEF Place, EPc, LeftPc, RightPc, PipePc, RunPc
      <3>3. Spare(E(1))'
        BY <1>1, <1>5, <2>1, <2>2 DEF Spare, OnConsole
      <3>4. Wiring(E(1))'
        BY <1>1, <1>5, <2>1, <2>2 DEF Wiring, Holds, StdIn, OnConsole, LeftPc, RightPc
      <3> QED BY <3>2, <3>3, <3>4 DEF Local
    <2>7. \A r \in Proc \ {sh, E(1)} : pc'[r] = pc[r] /\ ofile'[r] = ofile[r] /\ fd'[r] = fd[r]
      BY <1>3, <2>1, <2>2
    <2>8. line' = line /\ failed' = failed
      BY <1>2, <1>6
    <2> QED BY <1>5, <2>3, <2>4, <2>5, <2>6, <2>7, <2>8, PairStep
  <1>7. CASE Goto(sh, "wait") /\ failed' = TRUE /\ UNCHANGED <<ofile, fd>>
    <2>1. \A r \in Proc : pc'[r] = IF r = sh THEN "wait" ELSE "none"
      BY <1>1, <1>3, <1>5, <1>7 DEF Goto
    <2>2. Types'
      BY <1>1, <1>2, <1>5, <1>7, FailTypes
    <2>3. ShInv'
      BY <1>4, <1>5, <1>7, <2>1 DEF ShInv, ShPc
    <2>4. Family'
      <3>1. \A j \in 1..(MaxStages - 1) : pc'[L(j)] = "none"
        BY <2>1, Names
      <3>2. \A j \in 1..MaxStages : pc'[E(j)] = "none"
        BY <2>1, Names
      <3> QED BY <1>5, <2>1, <3>1, <3>2, Stages DEF Family
    <2>5. Local(E(1))'
      <3>1. Local(E(1))
        BY <1>5 DEF ShellInv
      <3> QED BY <1>1, <1>2, <1>3, <1>5, <1>7, <2>1, <3>1, LocalKept DEF Types
    <2> QED BY <1>2, <1>3, <1>5, <1>7, <2>1, <2>2, <2>3, <2>4, <2>5, PairStep
  <1> QED BY <1>6, <1>7 DEF main_fork, fork

(* execline() forks the left child. *)
LEMMA ExeclineFork1Step ==
  ASSUME ShellInv, NEW p \in Proc \ {sh}, execline_fork1(p)
  PROVE  ShellInv'
  <1>1. /\ Types /\ Place(p) /\ Spare(p) /\ (~failed => Wiring(p))
        /\ Stage(p) \in 1..MaxStages /\ Len(line) \in 1..MaxStages
        /\ pc[p] \in PipePc => p[1] = "E"
    BY Known
  <1>2. ShInv /\ Family /\ pc \in [Proc -> Labels]
    BY <1>1 DEF ShellInv, Types, Labels
  <1> DEFINE i == Stage(p)
  <1>3. pc[p] = "fork1" /\ UNCHANGED <<line, buf, n, item, written>>
    BY DEF execline_fork1, fork
  <1>4. p = E(i) /\ i < Len(line) /\ i \in 1..(MaxStages - 1) /\ p[1] = "E"
    BY <1>1, <1>3, Kinds, Stages DEF Place, PipePc
  <1>5. /\ L(i) \in Proc \ {sh} /\ L(i)[1] = "L" /\ Stage(L(i)) = i /\ L(i) # p
        /\ p \in Proc /\ sh \in Proc
        /\ {"l_close1", "fork2"} \subseteq Labels \ {"none", "wait2"}
        /\ "fork1" \notin HasLeft /\ "fork1" \notin HasRight /\ "fork2" \in HasLeft
        /\ "fork2" \notin HasRight
    BY <1>4, Names DEF Labels, EPc, LPc, PipePc, LeftPc, HasLeft, HasRight
  <1> HIDE DEF i
  <1>6. CASE /\ pc' = [pc EXCEPT ![p] = "fork2", ![L(i)] = "l_close1"]
             /\ ofile' = [ofile EXCEPT ![L(i)] = ofile[p]]
             /\ fd' = [fd EXCEPT ![L(i)] = fd[p]]
             /\ UNCHANGED failed
    <2>1. \A r \in Proc : pc'[r] = IF r = p THEN "fork2" ELSE IF r = L(i) THEN "l_close1" ELSE pc[r]
      BY <1>2, <1>5, <1>6
    <2>2. /\ ofile'[L(i)] = ofile[p] /\ fd'[L(i)] = fd[p]
          /\ \A r \in Proc \ {L(i)} : ofile'[r] = ofile[r] /\ fd'[r] = fd[r]
      BY <1>1, <1>5, <1>6 DEF Types
    <2>3. Types'
      BY <1>1, <1>3, <1>5, <1>6, ForkTypes
    <2>4. ShInv'
      BY <1>2, <1>5, <2>1, <2>2 DEF ShInv
    <2>5. Family'
      <3>1. pc[sh] = "wait" /\ pc'[sh] = "wait"
        BY <1>2, <1>3, <1>5, <2>1 DEF Family
      <3>2. \A j \in 1..MaxStages : pc'[E(j)] = IF j = i THEN "fork2" ELSE pc[E(j)]
        BY <1>4, <2>1, Names
      <3>3. \A j \in 1..(MaxStages - 1) : pc'[L(j)] = IF j = i THEN "l_close1" ELSE pc[L(j)]
        BY <1>4, <2>1, Names
      <3>4. \A j \in 1..(MaxStages - 1) : pc'[L(j)] # "none" => pc'[E(j)] \in HasLeft
        BY <1>2, <1>5, <3>2, <3>3, Stages DEF Family
      <3>5. pc[E(i)] = "fork1"
        BY <1>3, <1>4
      <3>6. \A j, k \in 1..MaxStages : k < j /\ pc'[E(j)] # "none" => pc'[E(k)] \in HasRight
        <4>1. TAKE j, k \in 1..MaxStages
        <4> QED BY <1>2, <1>4, <1>5, <3>2, <3>5, Stages DEF Family
      <3>7. \A j \in 1..(MaxStages - 1) :
              pc'[E(j)] = "wait2" => pc'[L(j)] = "none" \/ pc'[E(j + 1)] = "none"
        <4>1. TAKE j \in 1..(MaxStages - 1)
        <4>2. j + 1 \in 1..MaxStages /\ j \in 1..MaxStages
          BY Stages
        <4> QED BY <1>2, <3>2, <3>3, <3>5, <4>2 DEF Family
      <3> QED BY <3>1, <3>4, <3>6, <3>7 DEF Family
    <2>6. Local(p)'
      <3>1. Place(p)'
        BY <1>1, <1>3, <1>5, <2>1 DEF Place, EPc, LeftPc, RightPc, PipePc, RunPc
      <3>2. Spare(p)'
        BY <1>1, <1>3, <1>5, <2>1, <2>2 DEF Spare
      <3>3. ~failed => Wiring(p)'
        BY <1>1, <1>3, <1>5, <2>1, <2>2 DEF Wiring, Holds, StdIn, LeftPc, RightPc
      <3> QED BY <1>6, <3>1, <3>2, <3>3 DEF Local
    <2>7. Local(L(i))'
      <3>1. Place(L(i))'
        BY <1>3, <1>4, <1>5, <2>1 DEF Place, LPc, LeftPc, RightPc, PipePc, RunPc
      <3>2. Spare(L(i))'
        BY <1>1, <1>3, <1>5, <2>1, <2>2 DEF Spare
      <3>3. ~failed => Wiring(L(i))'
        BY <1>1, <1>3, <1>5, <2>1, <2>2 DEF Wiring, Holds, StdIn, LeftPc, RightPc, i
      <3> QED BY <1>6, <3>1, <3>2, <3>3 DEF Local
    <2>8. \A r \in Proc \ {p, L(i)} : pc'[r] = pc[r] /\ ofile'[r] = ofile[r] /\ fd'[r] = fd[r]
      BY <2>1, <2>2
    <2>9. line' = line /\ failed' = failed
      BY <1>3, <1>6
    <2> QED BY <1>5, <2>3, <2>4, <2>5, <2>6, <2>7, <2>8, <2>9, PairStep
  <1>7. CASE Goto(p, "fork2") /\ failed' = TRUE /\ UNCHANGED <<ofile, fd>>
    <2>1. Types'
      BY <1>1, <1>3, <1>5, <1>7, FailTypes
    <2>2. pc'[p] = "fork2"
      BY <1>2, <1>7 DEF Goto
    <2>3. Place(p)'
      BY <1>1, <1>3, <1>5, <2>2 DEF Place, EPc, LeftPc, RightPc, PipePc, RunPc
    <2>4. Spare(p)'
      BY <1>1, <1>3, <1>7, <2>2 DEF Spare
    <2> QED BY <1>3, <1>5, <1>7, <2>1, <2>3, <2>4, OwnStep DEF Goto, Local
  <1> QED BY <1>6, <1>7 DEF execline_fork1, fork, i

(* execline() forks the right child. *)
LEMMA ExeclineFork2Step ==
  ASSUME ShellInv, NEW p \in Proc \ {sh}, execline_fork2(p)
  PROVE  ShellInv'
  <1>1. /\ Types /\ Place(p) /\ Spare(p) /\ (~failed => Wiring(p))
        /\ Stage(p) \in 1..MaxStages /\ Len(line) \in 1..MaxStages
        /\ pc[p] \in PipePc => p[1] = "E"
    BY Known
  <1>2. ShInv /\ Family /\ pc \in [Proc -> Labels]
    BY <1>1 DEF ShellInv, Types, Labels
  <1> DEFINE i == Stage(p)
             q == E(i + 1)
  <1>3. pc[p] = "fork2" /\ UNCHANGED <<line, buf, n, item, written>>
    BY DEF execline_fork2, fork
  <1>4. p = E(i) /\ i < Len(line) /\ i \in 1..(MaxStages - 1) /\ p[1] = "E"
    BY <1>1, <1>3, Kinds, Stages DEF Place, PipePc
  <1>5. /\ i + 1 \in 1..MaxStages
        /\ q \in Proc \ {sh} /\ q[1] = "E" /\ Stage(q) = i + 1 /\ q # p
    BY <1>4, Names, Stages
  <1>6. /\ p \in Proc /\ sh \in Proc
        /\ {"r_close0", "close0"} \subseteq Labels \ {"none", "wait2"}
        /\ "close0" \in HasLeft /\ "close0" \in HasRight
        /\ "fork2" \notin HasRight /\ "fork2" # "none"
    BY Names DEF Labels, EPc, PipePc, RightPc, HasLeft, HasRight
  <1> HIDE DEF i, q
  <1>7. CASE /\ pc' = [pc EXCEPT ![p] = "close0", ![q] = "r_close0"]
             /\ ofile' = [ofile EXCEPT ![q] = ofile[p]]
             /\ fd' = [fd EXCEPT ![q] = fd[p]]
             /\ UNCHANGED failed
    <2>1. \A r \in Proc : pc'[r] = IF r = p THEN "close0" ELSE IF r = q THEN "r_close0" ELSE pc[r]
      BY <1>2, <1>5, <1>6, <1>7
    <2>2. /\ ofile'[q] = ofile[p] /\ fd'[q] = fd[p]
          /\ \A r \in Proc \ {q} : ofile'[r] = ofile[r] /\ fd'[r] = fd[r]
      BY <1>1, <1>5, <1>7 DEF Types
    <2>3. Types'
      BY <1>1, <1>3, <1>5, <1>6, <1>7, ForkTypes
    <2>4. ShInv'
      BY <1>2, <1>5, <1>6, <2>1, <2>2 DEF ShInv
    <2>5. Family'
      <3>1. pc[sh] = "wait" /\ pc'[sh] = "wait"
        BY <1>2, <1>3, <1>5, <1>6, <2>1 DEF Family
      <3>2. \A j \in 1..MaxStages :
              pc'[E(j)] = IF j = i THEN "close0" ELSE IF j = i + 1 THEN "r_close0" ELSE pc[E(j)]
        BY <1>4, <2>1, Names DEF q
      <3>3. \A j \in 1..(MaxStages - 1) : pc'[L(j)] = pc[L(j)]
        BY <1>4, <2>1, Names DEF q
      <3>4. pc[E(i)] = "fork2" /\ i \in 1..MaxStages
        BY <1>3, <1>4, Stages
      <3>5. \A j \in 1..MaxStages : /\ j > i => pc[E(j)] = "none"
                                    /\ j < i => pc[E(j)] \in HasRight
        BY <1>2, <1>6, <3>4 DEF Family
      <3>6. \A j \in 1..(MaxStages - 1) : pc'[L(j)] # "none" => pc'[E(j)] \in HasLeft
        <4>1. TAKE j \in 1..(MaxStages - 1)
        <4>2. j = i + 1 => pc[L(j)] = "none"
          BY <1>2, <3>5, <1>5, <3>4 DEF Family, HasLeft
        <4> QED BY <1>2, <1>6, <3>2, <3>3, <4>2, Stages DEF Family
      <3>7. \A j, k \in 1..MaxStages : k < j /\ pc'[E(j)] # "none" => pc'[E(k)] \in HasRight
        <4>1. TAKE j, k \in 1..MaxStages
        <4> QED BY <1>2, <1>5, <1>6, <3>2, <3>4, <3>5 DEF Family
      <3>8. \A j \in 1..(MaxStages - 1) :
              pc'[E(j)] = "wait2" => pc'[L(j)] = "none" \/ pc'[E(j + 1)] = "none"
        <4>1. TAKE j \in 1..(MaxStages - 1)
        <4>2. j + 1 \in 1..MaxStages /\ j \in 1..MaxStages
          BY Stages
        <4> QED BY <1>2, <3>2, <3>3, <3>4, <4>2 DEF Family
      <3> QED BY <3>1, <3>6, <3>7, <3>8 DEF Family
    <2>6. Local(p)'
      <3>1. Place(p)'
        BY <1>1, <1>3, <1>5, <2>1 DEF Place, EPc, LeftPc, RightPc, PipePc, RunPc
      <3>2. Spare(p)'
        BY <1>1, <1>3, <1>5, <2>1, <2>2 DEF Spare
      <3>3. ~failed => Wiring(p)'
        BY <1>1, <1>3, <1>5, <2>1, <2>2 DEF Wiring, Holds, StdIn, LeftPc, RightPc
      <3> QED BY <1>7, <3>1, <3>2, <3>3 DEF Local
    <2>7. Local(q)'
      <3>1. Place(q)'
        BY <1>3, <1>4, <1>5, <2>1, <1>1 DEF Place, EPc, LeftPc, RightPc, PipePc, RunPc
      <3>2. Spare(q)'
        BY <1>1, <1>3, <1>5, <2>1, <2>2 DEF Spare
      <3>3. ~failed => Wiring(q)'
        <4>1. Stage(q) - 1 = i /\ i = Stage(p)
          BY <1>4, <1>5 DEF i
        <4> QED BY <1>1, <1>3, <1>5, <2>1, <2>2, <4>1 DEF Wiring, Holds, StdIn, LeftPc, RightPc
      <3> QED BY <1>7, <3>1, <3>2, <3>3 DEF Local
    <2>8. \A r \in Proc \ {p, q} : pc'[r] = pc[r] /\ ofile'[r] = ofile[r] /\ fd'[r] = fd[r]
      BY <2>1, <2>2
    <2>9. line' = line /\ failed' = failed
      BY <1>3, <1>7
    <2> QED BY <1>5, <2>3, <2>4, <2>5, <2>6, <2>7, <2>8, <2>9, PairStep
  <1>8. CASE Goto(p, "close0") /\ failed' = TRUE /\ UNCHANGED <<ofile, fd>>
    <2>1. Types'
      BY <1>1, <1>3, <1>6, <1>8, FailTypes
    <2>2. pc'[p] = "close0"
      BY <1>2, <1>8 DEF Goto
    <2>3. Place(p)'
      BY <1>1, <1>3, <1>5, <2>2 DEF Place, EPc, LeftPc, RightPc, PipePc, RunPc
    <2>4. Spare(p)'
      BY <1>1, <1>3, <1>8, <2>2 DEF Spare
    <2> QED BY <1>3, <1>6, <1>8, <2>1, <2>3, <2>4, OwnStep DEF Goto, Local
  <1> QED BY <1>7, <1>8 DEF execline_fork2, fork, i, q

(* The types after a wait(). *)
LEMMA WaitTypes ==
  ASSUME Types, NEW p \in Proc, NEW q \in Proc, NEW l \in Labels, NEW next \in Labels,
         pc' = [pc EXCEPT ![p] = next, ![q] = l],
         UNCHANGED <<line, ofile, fd, buf, n, item, failed>>
  PROVE  Types'
BY DEF Types, Labels

(* A process that is reaped leaves nothing behind. *)
LEMMA Reaped ==
  ASSUME NEW q \in Proc \ {sh}, Local(q), pc[q] \in {"zombie", "none"}, pc'[q] = "none",
         UNCHANGED <<line, ofile, fd, failed>>
  PROVE  Local(q)'
  <1>1. Place(q)'
    BY DEF Local, Place, EPc, LPc, LeftPc, RightPc, PipePc, RunPc
  <1>2. Spare(q)'
    BY DEF Local, Spare
  <1>3. Wiring(q)'
    BY DEF Wiring, LeftPc, RightPc
  <1> QED BY <1>1, <1>2, <1>3 DEF Local

(* Who can be reaped: the first process by the shell, two by execline(). *)
LEMMA Children ==
  ASSUME NEW q \in Proc \ {sh}
  PROVE  /\ Parent(q) = sh <=> q = E(1)
         /\ \A j \in 1..(MaxStages - 1) : Parent(q) = E(j) <=> q \in {L(j), E(j + 1)}
BY Stages DEF Proc, Parent, sh, E, L, Stage

(* The shell waits for the first process of the line. *)
LEMMA MainWaitStep ==
  ASSUME ShellInv, main_wait
  PROVE  ShellInv'
  <1>1. /\ Types /\ ShInv /\ Family /\ pc \in [Proc -> Labels]
        /\ \A p \in Proc \ {sh} : Local(p)
    BY DEF ShellInv, Types, Labels
  <1>2. /\ sh \in Proc /\ E(1) \in Proc \ {sh} /\ 1 \in 1..MaxStages
        /\ "prompt" \in Labels /\ "none" \in Labels
    BY Names, Stages DEF Labels, ShPc, EPc
  <1>3. pc[sh] = "wait" /\ UNCHANGED <<line, ofile, fd, buf, n, item, written, failed>>
    BY DEF main_wait, wait
  <1> DEFINE children == {q \in Proc \ {sh} : Parent(q) = sh /\ pc[q] # "none"}
  <1>4. /\ pc[E(1)] \in {"none", "zombie"}
        /\ pc' = [pc EXCEPT ![sh] = "prompt", ![E(1)] = "none"]
    <2>1. CASE children = {} /\ Goto(sh, "prompt")
      <3>1. pc[E(1)] = "none"
        BY <1>2, <2>1, Children
      <3>2. [pc EXCEPT ![sh] = "prompt", ![E(1)] = "none"] = [pc EXCEPT ![sh] = "prompt"]
        BY <1>1, <1>2, <3>1
      <3> QED BY <2>1, <3>1, <3>2 DEF Goto
    <2>2. CASE \E q \in children : /\ pc[q] = "zombie"
                                   /\ pc' = [pc EXCEPT ![sh] = "prompt", ![q] = "none"]
      BY <2>2, Children
    <2> QED BY <2>1, <2>2 DEF main_wait, wait
  <1>5. /\ \A j \in 1..MaxStages : j > 1 => pc[E(j)] = "none"
        /\ \A j \in 1..(MaxStages - 1) : pc[L(j)] = "none"
    <2>1. \A j \in 1..MaxStages : j > 1 => pc[E(j)] = "none"
      BY <1>1, <1>2, <1>4 DEF Family, HasRight
    <2> QED BY <1>1, <1>4, <2>1, Stages DEF Family, HasLeft
  <1>6. \A r \in Proc : pc'[r] = IF r = sh THEN "prompt" ELSE "none"
    <2>1. TAKE r \in Proc
    <2>2. CASE r = sh BY <1>1, <1>2, <1>4, <2>2
    <2>3. CASE r # sh
      <3>1. r \in Proc \ {sh}
        BY <2>3
      <3>2. r = E(1) \/ pc[r] = "none"
        BY <1>5, <3>1, Kinds
      <3> QED BY <1>1, <1>2, <1>4, <2>3, <3>2
    <2> QED BY <2>2, <2>3
  <1>7. Types'
    BY <1>1, <1>2, <1>3, <1>4, WaitTypes
  <1>8. ShInv'
    BY <1>1, <1>2, <1>3, <1>6 DEF ShInv, ShPc
  <1>9. Family'
    <2>1. \A j \in 1..(MaxStages - 1) : pc'[L(j)] = "none"
      BY <1>6, Names
    <2>2. \A j \in 1..MaxStages : pc'[E(j)] = "none"
      BY <1>6, Names
    <2> QED BY <1>2, <1>6, <2>1, <2>2, Stages DEF Family
  <1>10. Local(E(1))'
    BY <1>1, <1>2, <1>3, <1>4, <1>6, Reaped
  <1>11. \A r \in Proc \ {sh, E(1)} : pc'[r] = pc[r] /\ ofile'[r] = ofile[r] /\ fd'[r] = fd[r]
    BY <1>1, <1>2, <1>3, <1>4
  <1> QED BY <1>2, <1>3, <1>7, <1>8, <1>9, <1>10, <1>11, PairStep

(* execline() waits for its children. *)
LEMMA ExeclineWaitStep ==
  ASSUME ShellInv, NEW p \in Proc \ {sh}, execline_wait(p)
  PROVE  ShellInv'
  <1>1. /\ Types /\ Place(p) /\ Spare(p) /\ (~failed => Wiring(p))
        /\ Stage(p) \in 1..MaxStages /\ Len(line) \in 1..MaxStages
        /\ pc[p] \in PipePc => p[1] = "E"
    BY Known
  <1>2. ShInv /\ Family /\ pc \in [Proc -> Labels] /\ \A r \in Proc \ {sh} : Local(r)
    BY <1>1 DEF ShellInv, Types, Labels
  <1> DEFINE i == Stage(p)
             next == IF pc[p] = "wait1" THEN "wait2" ELSE "exit"
             children == {q \in Proc \ {sh} : Parent(q) = p /\ pc[q] # "none"}
  <1>3. /\ pc[p] \in {"wait1", "wait2"} /\ wait(p, next)
        /\ UNCHANGED <<line, ofile, fd, buf, n, item, written, failed>>
    BY DEF execline_wait, wait
  <1>4. p = E(i) /\ i < Len(line) /\ i \in 1..(MaxStages - 1) /\ i \in 1..MaxStages /\ p[1] = "E"
    BY <1>1, <1>3, Kinds, Stages DEF Place, PipePc
  <1>5. /\ i + 1 \in 1..MaxStages /\ L(i) \in Proc \ {sh} /\ E(i + 1) \in Proc \ {sh}
        /\ L(i) # p /\ E(i + 1) # p /\ L(i) # E(i + 1) /\ sh \in Proc /\ p \in Proc
        /\ next \in Labels /\ next # "none" /\ "none" \in Labels
    BY <1>4, Names, Stages DEF Labels, EPc, PipePc
  <1>6. \A q \in Proc \ {sh} : Parent(q) = p <=> q \in {L(i), E(i + 1)}
    BY <1>4, Children
  <1>7. \E q \in {L(i), E(i + 1)} :
          /\ pc[q] \in {"none", "zombie"}
          /\ pc' = [pc EXCEPT ![p] = next, ![q] = "none"]
          /\ pc[q] = "none" => pc[L(i)] = "none" /\ pc[E(i + 1)] = "none"
    <2>1. CASE children = {} /\ Goto(p, next)
      <3>1. pc[L(i)] = "none" /\ pc[E(i + 1)] = "none"
        BY <1>5, <1>6, <2>1
      <3>2. [pc EXCEPT ![p] = next, ![L(i)] = "none"] = [pc EXCEPT ![p] = next]
        BY <1>2, <1>5, <3>1
      <3> QED BY <2>1, <3>1, <3>2 DEF Goto
    <2>2. CASE \E q \in children : /\ pc[q] = "zombie"
                                   /\ pc' = [pc EXCEPT ![p] = next, ![q] = "none"]
      BY <1>6, <2>2
    <2> QED BY <1>3, <2>1, <2>2 DEF wait
  <1> HIDE DEF i, children
  <1>8. PICK q \in {L(i), E(i + 1)} :
          /\ pc[q] \in {"none", "zombie"}
          /\ pc' = [pc EXCEPT ![p] = next, ![q] = "none"]
          /\ pc[q] = "none" => pc[L(i)] = "none" /\ pc[E(i + 1)] = "none"
    BY <1>7
  <1>9. q \in Proc \ {sh} /\ q # p
    BY <1>5
  <1>10. \A r \in Proc : pc'[r] = IF r = q THEN "none" ELSE IF r = p THEN next ELSE pc[r]
    BY <1>2, <1>5, <1>8, <1>9
  <1>11. Types'
    BY <1>1, <1>3, <1>5, <1>8, <1>9, WaitTypes
  <1>12. ShInv'
    BY <1>2, <1>3, <1>5, <1>9, <1>10 DEF ShInv
  <1>13. Family'
    <2>1. pc[sh] = "wait" /\ pc'[sh] = "wait"
      BY <1>2, <1>3, <1>5, <1>9, <1>10 DEF Family
    <2>2. \A j \in 1..MaxStages :
            pc'[E(j)] = IF q = E(i + 1) /\ j = i + 1 THEN "none"
                        ELSE IF j = i THEN next ELSE pc[E(j)]
      <3>1. TAKE j \in 1..MaxStages
      <3>2. E(j) \in Proc /\ (E(j) = p <=> j = i) /\ (E(j) = q <=> q = E(i + 1) /\ j = i + 1)
        BY <1>4, Names
      <3>3. i # i + 1
        BY <1>4
      <3> QED BY <1>10, <3>2, <3>3
    <2>3. \A j \in 1..(MaxStages - 1) :
            pc'[L(j)] = IF q = L(i) /\ j = i THEN "none" ELSE pc[L(j)]
      <3>1. TAKE j \in 1..(MaxStages - 1)
      <3>2. L(j) \in Proc /\ L(j) # p /\ (L(j) = q <=> q = L(i) /\ j = i)
        BY <1>4, Names
      <3> QED BY <1>10, <3>2
    <2>4. pc[p] = "wait2" => pc'[L(i)] = "none" /\ pc'[E(i + 1)] = "none"
      BY <1>2, <1>4, <1>5, <1>8, <1>10 DEF Family
    <2>5. pc'[L(i)] = "none" \/ pc'[E(i + 1)] = "none"
      BY <1>5, <1>8, <1>10
    <2>6. pc[p] = "wait2" => \A j \in 1..MaxStages : j > i => pc'[E(j)] = "none"
      <3>1. SUFFICES ASSUME pc[p] = "wait2", NEW j \in 1..MaxStages, j > i
                     PROVE  pc'[E(j)] = "none"
        OBVIOUS
      <3>2. CASE j = i + 1 BY <2>4, <3>1, <3>2
      <3>3. CASE j > i + 1
        <4>1. pc[E(i + 1)] \in {"none", "zombie"}
          BY <1>2, <1>4, <1>5, <1>8, <3>1 DEF Family
        <4>2. pc[E(j)] = "none"
          BY <1>2, <1>5, <3>3, <4>1 DEF Family, HasRight
        <4> QED BY <1>4, <2>2, <3>3, <4>2
      <3> QED BY <1>4, <3>1, <3>2, <3>3
    <2>7. next = "wait2" \/ pc[p] = "wait2"
      BY <1>3
    <2>8. "wait2" \in HasLeft /\ "wait2" \in HasRight
      BY DEF HasLeft, HasRight
    <2>9. \A r \in Proc \ {sh} : pc'[r] # "none" => pc'[sh] = "wait"
      BY <2>1
    <2>10. \A j \in 1..(MaxStages - 1) : pc'[L(j)] # "none" => pc'[E(j)] \in HasLeft
      <3>1. TAKE j \in 1..(MaxStages - 1)
      <3>2. CASE j = i
        BY <1>4, <2>2, <2>4, <2>7, <2>8, <3>2
      <3>3. CASE j # i /\ q = E(i + 1) /\ j = i + 1
        <4>1. pc[L(j)] = "none"
          BY <1>2, <1>8, <3>3 DEF Family, HasLeft
        <4> QED BY <2>3, <3>3, <4>1
      <3>4. CASE j # i /\ ~(q = E(i + 1) /\ j = i + 1)
        BY <1>2, <2>2, <2>3, <3>4, Stages DEF Family
      <3> QED BY <3>2, <3>3, <3>4
    <2>11. \A j, k \in 1..MaxStages : k < j /\ pc'[E(j)] # "none" => pc'[E(k)] \in HasRight
      <3>1. SUFFICES ASSUME NEW j \in 1..MaxStages, NEW k \in 1..MaxStages, k < j, pc'[E(j)] # "none"
                     PROVE  pc'[E(k)] \in HasRight
        OBVIOUS
      <3>2. pc[E(j)] # "none"
        BY <1>3, <1>4, <1>5, <2>2, <3>1
      <3>3. pc[E(k)] \in HasRight
        BY <1>2, <3>1, <3>2 DEF Family
      <3>4. CASE k = i
        BY <1>4, <2>2, <2>6, <2>7, <2>8, <3>1, <3>4
      <3>5. CASE k # i
        <4>1. ~(q = E(i + 1) /\ k = i + 1)
          BY <1>8, <3>3 DEF HasRight
        <4> QED BY <2>2, <3>1, <3>3, <3>5, <4>1
      <3> QED BY <3>4, <3>5
    <2>12. \A j \in 1..(MaxStages - 1) :
             pc'[E(j)] = "wait2" => pc'[L(j)] = "none" \/ pc'[E(j + 1)] = "none"
      <3>1. TAKE j \in 1..(MaxStages - 1)
      <3>2. j \in 1..MaxStages /\ j + 1 \in 1..MaxStages
        BY Stages
      <3>3. CASE j = i BY <2>5, <3>3
      <3>4. CASE j # i
        <4>1. j + 1 = i => pc[E(j + 1)] # "none"
          BY <1>3, <1>4
        <4> QED BY <1>2, <2>2, <2>3, <3>2, <3>4, <4>1 DEF Family
      <3> QED BY <3>3, <3>4
    <2> QED BY <2>9, <2>10, <2>11, <2>12 DEF Family
  <1>14. Local(p)'
    <2>1. pc'[p] = next /\ next \in {"wait2", "exit"}
      BY <1>9, <1>10
    <2>2. Place(p)'
      BY <1>1, <1>3, <1>4, <2>1 DEF Place, EPc, LeftPc, RightPc, PipePc, RunPc, i
    <2>3. Spare(p)'
      BY <1>1, <1>3, <2>1 DEF Spare
    <2>4. Wiring(p)'
      BY <2>1 DEF Wiring, LeftPc, RightPc
    <2> QED BY <2>2, <2>3, <2>4 DEF Local
  <1>15. Local(q)'
    BY <1>2, <1>3, <1>8, <1>9, <1>10, Reaped
  <1>16. \A r \in Proc \ {p, q} : pc'[r] = pc[r] /\ ofile'[r] = ofile[r] /\ fd'[r] = fd[r]
    BY <1>3, <1>10
  <1> QED BY <1>3, <1>5, <1>9, <1>11, <1>12, <1>13, <1>14, <1>15, <1>16, PairStep

-----------------------------------------------------------------------------
(* exit(), runcmd() and the programs. *)

(* exit() of a process that has no children. *)
LEMMA ExitStep ==
  ASSUME ShellInv, NEW p \in Proc \ {sh}, exit(p), pc[p] # "none",
         pc[p] \notin HasLeft, pc[p] \notin HasRight, failed' \in BOOLEAN, failed => failed'
  PROVE  ShellInv'
  <1>1. Types /\ Place(p) /\ Stage(p) \in 1..MaxStages /\ p[1] \in {"E", "L"}
    BY Known
  <1>2. /\ pc' = [pc EXCEPT ![p] = "zombie"] /\ line' = line /\ buf' = buf
        /\ ofile' = [ofile EXCEPT ![p] = AllClosed]
        /\ fd' = [fd EXCEPT ![p] = <<-1, -1>>]
        /\ n' = [n EXCEPT ![p] = 0] /\ item' = [item EXCEPT ![p] = 0]
    BY DEF exit, Goto
  <1>3. AllClosed \in [Fd -> Files] /\ <<-1, -1>> \in (-1..4) \X (-1..4) /\ 0 \in 0..NITEMS
    BY FileFacts, ShellAssumption DEF AllClosed
  <1>4. Types'
    BY <1>1, <1>2, <1>3 DEF Types, EPc
  <1>5. pc'[p] = "zombie" /\ ofile'[p] = AllClosed
    BY <1>1, <1>2 DEF Types
  <1>6. \A q \in Proc \ {p} : ofile'[q] = ofile[q] /\ fd'[q] = fd[q]
    BY <1>1, <1>2 DEF Types
  <1>7. Place(p)'
    BY <1>1, <1>2, <1>5 DEF Place, EPc, LPc, LeftPc, RightPc, PipePc, RunPc
  <1>8. Spare(p)'
    BY <1>5 DEF Spare, AllClosed, Fd
  <1>9. Wiring(p)'
    BY <1>5 DEF Wiring, LeftPc, RightPc
  <1> QED BY <1>2, <1>4, <1>6, <1>7, <1>8, <1>9, OwnStep DEF Local

(* No label of runcmd() is one with children. *)
LEMMA RunHasNone ==
  ASSUME NEW l \in RunPc \cup {"exit"}
  PROVE  l # "none" /\ l \notin HasLeft /\ l \notin HasRight
BY DEF RunPc, HasLeft, HasRight

(* execline() has returned. *)
LEMMA ExeclineExitStep ==
  ASSUME ShellInv, NEW p \in Proc \ {sh}, execline_exit(p)
  PROVE  ShellInv'
  <1>1. pc[p] = "exit" /\ exit(p) /\ failed' = failed
    BY DEF execline_exit
  <1>2. failed \in BOOLEAN
    BY Known
  <1> QED BY <1>1, <1>2, RunHasNone, ExitStep

(* A command without words. *)
LEMMA RuncmdEmptyStep ==
  ASSUME ShellInv, NEW p \in Proc \ {sh}, runcmd_empty(p)
  PROVE  ShellInv'
  <1>1. pc[p] = "run" /\ exit(p) /\ failed' = failed
    BY DEF runcmd_empty
  <1>2. failed \in BOOLEAN
    BY Known
  <1> QED BY <1>1, <1>2, RunHasNone, ExitStep DEF RunPc

(* The command of a process in runcmd(). *)
LEMMA TheCmd ==
  ASSUME ShellInv, NEW p \in Proc \ {sh}, pc[p] \in RunPc
  PROVE  Cmd(p) \in Commands /\ Cmd(p) = line[Stage(p)]
  <1>1. /\ Place(p) /\ Stage(p) \in 1..MaxStages
        /\ Len(line) \in 1..MaxStages /\ line \in Seq(Commands)
    BY Known
  <1>2. Stage(p) \in 1..Len(line)
    BY <1>1 DEF Place, RunPc
  <1> QED BY <1>1, <1>2 DEF Cmd

(* runcmd() looks at the redirections of its command. *)
LEMMA RuncmdStep ==
  ASSUME ShellInv, NEW p \in Proc \ {sh}, runcmd(p)
  PROVE  ShellInv'
  <1>1. /\ Types /\ Place(p) /\ Spare(p) /\ (~failed => Wiring(p))
        /\ p[1] \in {"E", "L"}
    BY Known
  <1>2. pc \in [Proc -> Labels]
    BY <1>1 DEF Types, Labels
  <1> DEFINE next == IF Cmd(p).infile THEN "in" ELSE AfterIn(p)
  <1>3. /\ pc[p] = "run" /\ pc'[p] = next /\ Goto(p, next)
        /\ UNCHANGED <<line, ofile, fd, buf, n, item, written, failed>>
    BY <1>2 DEF runcmd, Goto
  <1>4. Cmd(p) \in Commands /\ Cmd(p) = line[Stage(p)]
    BY <1>3, TheCmd DEF RunPc
  <1>5. /\ next \in {"in", "out", "exec"}
        /\ next = "in" <=> Cmd(p).infile
        /\ next = "out" <=> ~Cmd(p).infile /\ Cmd(p).outfile
    BY <1>4 DEF AfterIn, Commands
  <1> HIDE DEF next
  <1>6. Place(p)'
    BY <1>1, <1>3, <1>5 DEF Place, EPc, LPc, LeftPc, RightPc, PipePc, RunPc, Cmd
  <1>7. Spare(p)'
    BY <1>1, <1>3, <1>5 DEF Spare
  <1>8. ~failed => Wiring(p)'
    BY <1>1, <1>3, <1>4, <1>5 DEF Wiring, Holds, StdIn, StdOut, From, To, LeftPc, RightPc
  <1>9. next \in Labels \ {"none", "wait2"}
    BY <1>5 DEF Labels, EPc, RunPc
  <1>10. pc[p] # "none" /\ pc[p] \notin HasLeft \cup HasRight
    BY <1>3, RunHasNone DEF RunPc
  <1> QED BY <1>3, <1>6, <1>7, <1>8, <1>9, <1>10, GotoStep

(* What open() does to the descriptors when it succeeds. *)
Opened(p, i) == ofile' = [ofile EXCEPT ![p][Lowest(Free(p))] = File(i)]

(* open() takes the descriptor that was closed for it, or a lower one. *)
LEMMA OpenFacts ==
  ASSUME Types, NEW p \in Proc, NEW i \in 1..MaxStages, NEW c \in 0..4, ofile[p][c] = Closed,
         Opened(p, i)
  PROVE  /\ ofile' \in [Proc -> [Fd -> Files]]
         /\ \A q \in Proc \ {p} : ofile'[q] = ofile[q]
         /\ \E k \in 0..c :
              /\ ofile[p][k] = Closed
              /\ \A e \in 0..4 : ofile'[p][e] = IF e = k THEN File(i) ELSE ofile[p][e]
  <1>1. ofile \in [Proc -> [Fd -> Files]] /\ Fd = 0..4
    BY DEF Types, Fd
  <1>2. Free(p) \in SUBSET Fd /\ c \in Free(p)
    BY <1>1 DEF Free
  <1> DEFINE k == Lowest(Free(p))
  <1>3. k \in Free(p) /\ \A e \in Free(p) : k <= e
    BY <1>2, LowestFacts
  <1>4. k \in 0..c /\ k \in Fd /\ ofile[p][k] = Closed
    BY <1>1, <1>2, <1>3 DEF Free
  <1> HIDE DEF k
  <1>5. ofile' = [ofile EXCEPT ![p][k] = File(i)]
    BY DEF k, Opened
  <1>6. /\ ofile' \in [Proc -> [Fd -> Files]]
        /\ \A q \in Proc \ {p} : ofile'[q] = ofile[q]
        /\ \A e \in 0..4 : ofile'[p][e] = IF e = k THEN File(i) ELSE ofile[p][e]
    BY <1>1, <1>4, <1>5, FileFacts
  <1> QED BY <1>4, <1>6

(* The input is redirected. *)
LEMMA RuncmdInStep ==
  ASSUME ShellInv, NEW p \in Proc \ {sh}, runcmd_in(p)
  PROVE  ShellInv'
  <1>1. /\ Types /\ Place(p) /\ Spare(p) /\ (~failed => Wiring(p))
        /\ p[1] \in {"E", "L"} /\ Stage(p) \in 1..MaxStages /\ failed \in BOOLEAN
    BY Known
  <1> DEFINE f == ofile[p]
  <1>2. CASE FdStep(p, "in", "in_open") /\ close(p, 0)
    <2>1. pc[p] = "in" /\ pc'[p] = "in_open" /\ line' = line /\ fd' = fd
      BY <1>2, Moved
    <2>2. /\ ofile' \in [Proc -> [Fd -> Files]]
          /\ \A q \in Proc \ {p} : ofile'[q] = ofile[q]
          /\ \A e \in 0..4 : ofile'[p][e] = IF e = 0 THEN Closed ELSE f[e]
      BY <1>1, <1>2, CloseFacts
    <2>3. Place(p)'
      BY <1>1, <2>1 DEF Place, EPc, LPc, LeftPc, RightPc, PipePc, RunPc, Cmd
    <2>4. Spare(p)'
      BY <1>1, <2>1, <2>2 DEF Spare
    <2>5. ~failed => Wiring(p)'
      BY <1>1, <2>1, <2>2 DEF Wiring, Holds, StdOut, LeftPc, RightPc
    <2> QED BY <1>2, <2>2, <2>3, <2>4, <2>5, DescStep DEF Labels, EPc, RunPc, HasLeft, HasRight
  <1>3. CASE /\ pc[p] = "in_open"
             /\ Opened(p, Stage(p))
             /\ Goto(p, AfterIn(p))
             /\ UNCHANGED <<line, fd, buf, n, item, written, files, failed>>
    <2> DEFINE next == AfterIn(p)
    <2>1. Cmd(p) \in Commands /\ Cmd(p) = line[Stage(p)]
      BY <1>3, TheCmd DEF RunPc
    <2>2. Cmd(p).infile /\ next = IF Cmd(p).outfile THEN "out" ELSE "exec"
      BY <1>1, <1>3 DEF Place, AfterIn
    <2>3. f[0] = Closed
      BY <1>1, <1>3 DEF Spare
    <2>4. /\ ofile' \in [Proc -> [Fd -> Files]]
          /\ \A q \in Proc \ {p} : ofile'[q] = ofile[q]
          /\ \E k \in 0..0 :
               /\ f[k] = Closed
               /\ \A e \in 0..4 : ofile'[p][e] = IF e = k THEN File(Stage(p)) ELSE f[e]
      BY <1>1, <1>3, <2>3, OpenFacts
    <2>5. FdStep(p, "in_open", next)
      BY <1>3 DEF FdStep
    <2>6. pc[p] = "in_open" /\ pc'[p] = next /\ line' = line /\ fd' = fd
      BY <2>5, Moved
    <2> HIDE DEF next
    <2>7. Place(p)'
      BY <1>1, <2>2, <2>6 DEF Place, EPc, LPc, LeftPc, RightPc, PipePc, RunPc, Cmd
    <2>8. Spare(p)'
      BY <1>1, <2>2, <2>4, <2>6 DEF Spare
    <2>9. ~failed => Wiring(p)'
      BY <1>1, <2>1, <2>2, <2>4, <2>6 DEF Wiring, Holds, StdOut, From, To, LeftPc, RightPc
    <2>10. next \in Labels \ {"none", "wait2"}
      BY <2>2 DEF Labels, EPc, RunPc
    <2>11. "in_open" # "none" /\ "in_open" \notin HasLeft /\ "in_open" \notin HasRight
      BY DEF HasLeft, HasRight
    <2> QED BY <2>4, <2>5, <2>7, <2>8, <2>9, <2>10, <2>11, DescStep
  <1>4. CASE pc[p] = "in_open" /\ exit(p) /\ failed' = TRUE
    BY <1>4, RunHasNone, ExitStep DEF RunPc
  <1> QED BY <1>2, <1>3, <1>4 DEF runcmd_in, open, Opened

(* The output is redirected. *)
LEMMA RuncmdOutStep ==
  ASSUME ShellInv, NEW p \in Proc \ {sh}, runcmd_out(p)
  PROVE  ShellInv'
  <1>1. /\ Types /\ Place(p) /\ Spare(p) /\ (~failed => Wiring(p))
        /\ p[1] \in {"E", "L"} /\ Stage(p) \in 1..MaxStages /\ failed \in BOOLEAN
    BY Known
  <1> DEFINE f == ofile[p]
  <1>2. CASE FdStep(p, "out", "out_open") /\ close(p, 1)
    <2>1. pc[p] = "out" /\ pc'[p] = "out_open" /\ line' = line /\ fd' = fd
      BY <1>2, Moved
    <2>2. /\ ofile' \in [Proc -> [Fd -> Files]]
          /\ \A q \in Proc \ {p} : ofile'[q] = ofile[q]
          /\ \A e \in 0..4 : ofile'[p][e] = IF e = 1 THEN Closed ELSE f[e]
      BY <1>1, <1>2, CloseFacts
    <2>3. Place(p)'
      BY <1>1, <2>1 DEF Place, EPc, LPc, LeftPc, RightPc, PipePc, RunPc, Cmd
    <2>4. Spare(p)'
      BY <1>1, <2>1, <2>2 DEF Spare
    <2>5. ~failed => Wiring(p)'
      BY <1>1, <2>1, <2>2 DEF Wiring, Holds, From, StdIn, LeftPc, RightPc
    <2> QED BY <1>2, <2>2, <2>3, <2>4, <2>5, DescStep DEF Labels, EPc, RunPc, HasLeft, HasRight
  <1>3. CASE /\ pc[p] = "out_open"
             /\ Opened(p, Stage(p))
             /\ Goto(p, "exec")
             /\ UNCHANGED <<line, fd, buf, n, item, written, files, failed>>
    <2>1. Cmd(p) = line[Stage(p)] /\ Cmd(p).outfile
      BY <1>1, <1>3 DEF Cmd, Place
    <2>2. f[1] = Closed
      BY <1>1, <1>3 DEF Spare
    <2>3. /\ ofile' \in [Proc -> [Fd -> Files]]
          /\ \A q \in Proc \ {p} : ofile'[q] = ofile[q]
          /\ \E k \in 0..1 :
               /\ f[k] = Closed
               /\ \A e \in 0..4 : ofile'[p][e] = IF e = k THEN File(Stage(p)) ELSE f[e]
      BY <1>1, <1>3, <2>2, OpenFacts
    <2>4. FdStep(p, "out_open", "exec")
      BY <1>3 DEF FdStep
    <2>5. pc[p] = "out_open" /\ pc'[p] = "exec" /\ line' = line /\ fd' = fd
      BY <2>4, Moved
    <2>6. Place(p)'
      BY <1>1, <2>5 DEF Place, EPc, LPc, LeftPc, RightPc, PipePc, RunPc, Cmd
    <2>7. Spare(p)'
      BY <1>1, <2>3, <2>5 DEF Spare
    <2>8. ~failed => Wiring(p)'
      <3>1. SUFFICES ASSUME ~failed PROVE Wiring(p)'
        OBVIOUS
      <3>2. Holds(p, From(Stage(p)), Closed, Closed, Closed)
        BY <1>1, <2>5, <3>1 DEF Wiring
      <3>3. f[0] # Closed
        BY <3>2, FileFacts DEF Holds, From, StdIn
      <3>4. \A e \in 0..4 : ofile'[p][e] = IF e = 1 THEN File(Stage(p)) ELSE f[e]
        BY <2>3, <3>3
      <3> QED BY <2>1, <2>5, <3>2, <3>4 DEF Wiring, Holds, StdIn, From, To, LeftPc, RightPc
    <2> QED BY <2>3, <2>4, <2>6, <2>7, <2>8, DescStep DEF Labels, EPc, RunPc, HasLeft, HasRight
  <1>4. CASE pc[p] = "out_open" /\ exit(p) /\ failed' = TRUE
    BY <1>4, RunHasNone, ExitStep DEF RunPc
  <1> QED BY <1>2, <1>3, <1>4 DEF runcmd_out, open, Opened

(* exec() keeps the descriptors. *)
LEMMA RuncmdExecStep ==
  ASSUME ShellInv, NEW p \in Proc \ {sh}, runcmd_exec(p)
  PROVE  ShellInv'
  <1>1. /\ Types /\ Place(p) /\ Spare(p) /\ (~failed => Wiring(p))
        /\ p[1] \in {"E", "L"}
    BY Known
  <1>2. pc[p] = "exec" /\ pc \in [Proc -> Labels]
    BY <1>1 DEF runcmd_exec, Types, Labels
  <1>3. CASE Goto(p, "prog") /\ UNCHANGED <<line, ofile, fd, buf, n, item, written, failed>>
    <2>1. pc'[p] = "prog"
      BY <1>2, <1>3 DEF Goto
    <2>2. Place(p)'
      BY <1>1, <1>2, <1>3, <2>1 DEF Place, EPc, LPc, LeftPc, RightPc, PipePc, RunPc
    <2>3. Spare(p)'
      BY <1>1, <1>2, <1>3, <2>1 DEF Spare
    <2>4. ~failed => Wiring(p)'
      BY <1>1, <1>2, <1>3, <2>1 DEF Wiring, Holds, StdIn, StdOut, From, To, LeftPc, RightPc
    <2>5. "prog" \in Labels \ {"none", "wait2"} /\ pc[p] # "none" /\ pc[p] \notin HasLeft \cup HasRight
      BY <1>2 DEF Labels, EPc, RunPc, HasLeft, HasRight
    <2> QED BY <1>3, <2>2, <2>3, <2>4, <2>5, GotoStep
  <1>4. CASE exit(p) /\ failed' = TRUE
    BY <1>2, <1>4, RunHasNone, ExitStep DEF RunPc
  <1> QED BY <1>3, <1>4 DEF runcmd_exec

(* A program ends. *)
LEMMA ProgExitStep ==
  ASSUME ShellInv, NEW p \in Proc \ {sh}, prog_exit(p)
  PROVE  ShellInv'
  <1>1. pc[p] = "prog" /\ exit(p) /\ failed' = failed
    BY DEF prog_exit, Running
  <1>2. failed \in BOOLEAN
    BY Known
  <1> QED BY <1>1, <1>2, RunHasNone, ExitStep DEF RunPc

(* A read or a write moves data only. *)
LEMMA DataStep ==
  ASSUME ShellInv, UNCHANGED <<line, pc, ofile, fd, failed>>,
         buf' \in [1..MaxStages -> Seq(1..NITEMS)],
         \A i \in 1..MaxStages : Len(buf'[i]) <= PIPESIZE,
         n' \in [Proc -> 0..NITEMS], item' \in [Proc -> 0..NITEMS]
  PROVE  ShellInv'
  <1>1. Types /\ ShInv /\ Family /\ \A p \in Proc \ {sh} : Local(p)
    BY DEF ShellInv
  <1>2. Types'
    BY <1>1 DEF Types
  <1>3. ShInv'
    BY <1>1 DEF ShInv
  <1>4. Family'
    BY <1>1 DEF Family
  <1>5. \A p \in Proc \ {sh} : Local(p)'
    BY <1>1, LocalKept DEF Types
  <1> QED BY <1>2, <1>3, <1>4, <1>5 DEF ShellInv

(* The end of a pipe is that of a pipe of the line. *)
LEMMA PipeEnds ==
  ASSUME NEW f \in Files, f[1] \in {"r", "w"}
  PROVE  f[2] \in 1..MaxStages
BY DEF Files, Closed, Console, File, R, W

(* read() of descriptor 0. *)
LEMMA ReadStep ==
  ASSUME ShellInv, NEW p \in Proc \ {sh}, read(p)
  PROVE  ShellInv'
  <1>1. Types /\ failed \in BOOLEAN
    BY Known
  <1>2. pc[p] = "prog" /\ failed' = failed
    BY DEF read, Running
  <1> DEFINE f == ofile[p][0]
  <1>3. f \in Files /\ NITEMS \in Nat /\ PIPESIZE \in Nat
    BY <1>1, ShellAssumption DEF Types, Fd
  <1> HIDE DEF f
  <1>4. CASE /\ f[1] = "r" /\ buf[f[2]] # <<>>
             /\ item' = [item EXCEPT ![p] = Head(buf[f[2]])]
             /\ buf' = [buf EXCEPT ![f[2]] = Tail(@)]
             /\ UNCHANGED <<line, pc, ofile, fd, n, written>>
    <2> DEFINE i == f[2]
    <2>1. i \in 1..MaxStages
      BY <1>3, <1>4, PipeEnds
    <2>2. buf[i] \in Seq(1..NITEMS) /\ Len(buf[i]) <= PIPESIZE
      BY <1>1, <2>1 DEF Types
    <2>3. /\ Head(buf[i]) \in 1..NITEMS /\ Tail(buf[i]) \in Seq(1..NITEMS)
          /\ Len(Tail(buf[i])) <= PIPESIZE
      <3>1. ASSUME NEW s \in Seq(1..NITEMS), s # <<>>, Len(s) <= PIPESIZE
            PROVE  /\ Head(s) \in 1..NITEMS /\ Tail(s) \in Seq(1..NITEMS)
                   /\ Len(Tail(s)) <= PIPESIZE
        BY <1>3, <3>1
      <3> QED BY <1>4, <2>2, <3>1
    <2>4. item' \in [Proc -> 0..NITEMS]
      BY <1>1, <1>4, <2>3 DEF Types
    <2>5. buf' \in [1..MaxStages -> Seq(1..NITEMS)] /\ \A j \in 1..MaxStages : Len(buf'[j]) <= PIPESIZE
      BY <1>1, <1>4, <2>1, <2>3 DEF Types
    <2> QED BY <1>1, <1>2, <1>4, <2>4, <2>5, DataStep DEF Types
  <1>5. CASE /\ n[p] < NITEMS
             /\ item' = [item EXCEPT ![p] = n[p] + 1]
             /\ n' = [n EXCEPT ![p] = @ + 1]
             /\ UNCHANGED <<line, pc, ofile, fd, buf, written>>
    <2>1. n' \in [Proc -> 0..NITEMS] /\ item' \in [Proc -> 0..NITEMS]
      BY <1>1, <1>3, <1>5 DEF Types
    <2> QED BY <1>1, <1>2, <1>5, <2>1, DataStep DEF Types
  <1>6. CASE exit(p)
    BY <1>1, <1>2, <1>6, RunHasNone, ExitStep DEF RunPc
  <1> QED BY <1>4, <1>5, <1>6 DEF read, f

(* write() to descriptor 1. *)
LEMMA WriteStep ==
  ASSUME ShellInv, NEW p \in Proc \ {sh}, write(p)
  PROVE  ShellInv'
  <1>1. Types /\ failed \in BOOLEAN
    BY Known
  <1>2. pc[p] = "prog" /\ failed' = failed
    BY DEF write, Running
  <1> DEFINE f == ofile[p][1]
             x == IF Cmd(p).prog = "gen" THEN n[p] + 1 ELSE item[p]
  <1>3. f \in Files /\ NITEMS \in Nat /\ PIPESIZE \in Nat
    BY <1>1, ShellAssumption DEF Types, Fd
  <1>4. n[p] \in 0..NITEMS /\ item[p] \in 0..NITEMS
    BY <1>1 DEF Types
  <1>5. x \in 1..NITEMS /\ (Cmd(p).prog = "gen" => n[p] < NITEMS)
    BY <1>3, <1>4 DEF write, Running
  <1> HIDE DEF f, x
  <1>6. CASE /\ \/ /\ f[1] = "w"
                   /\ Len(buf[f[2]]) < PIPESIZE
                   /\ buf' = [buf EXCEPT ![f[2]] = Append(@, x)]
                \/ buf' = buf
             /\ item' = [item EXCEPT ![p] = 0]
             /\ n' = IF Cmd(p).prog = "gen" THEN [n EXCEPT ![p] = @ + 1] ELSE n
             /\ UNCHANGED <<line, pc, ofile, fd>>
    <2>1. n' \in [Proc -> 0..NITEMS] /\ item' \in [Proc -> 0..NITEMS]
      BY <1>1, <1>3, <1>4, <1>5, <1>6 DEF Types
    <2>2. buf' \in [1..MaxStages -> Seq(1..NITEMS)] /\ \A j \in 1..MaxStages : Len(buf'[j]) <= PIPESIZE
      <3>1. CASE /\ f[1] = "w" /\ Len(buf[f[2]]) < PIPESIZE
                 /\ buf' = [buf EXCEPT ![f[2]] = Append(@, x)]
        <4> DEFINE i == f[2]
        <4>1. i \in 1..MaxStages
          BY <1>3, <3>1, PipeEnds
        <4>2. buf[i] \in Seq(1..NITEMS)
          BY <1>1, <4>1 DEF Types
        <4>3. Append(buf[i], x) \in Seq(1..NITEMS) /\ Len(Append(buf[i], x)) <= PIPESIZE
          BY <1>3, <1>5, <3>1, <4>2
        <4> QED BY <1>1, <3>1, <4>1, <4>3 DEF Types
      <3>2. CASE buf' = buf
        BY <1>1, <3>2 DEF Types
      <3> QED BY <1>6, <3>1, <3>2
    <2> QED BY <1>2, <1>6, <2>1, <2>2, DataStep
  <1>7. CASE exit(p)
    BY <1>1, <1>2, <1>7, RunHasNone, ExitStep DEF RunPc
  <1> QED BY <1>6, <1>7 DEF write, f, x

-----------------------------------------------------------------------------
(* The shell. *)

(* A step of the shell while nobody else exists. *)
LEMMA AloneStep ==
  ASSUME ShellInv, pc[sh] # "wait", NEW l \in ShPc,
         pc' = [pc EXCEPT ![sh] = l], line' \in Lines,
         \A p \in Proc \ {sh} : ofile'[p] = ofile[p],
         Types', ShInv'
  PROVE  ShellInv'
  <1>1. pc \in [Proc -> Labels] /\ sh \in Proc
    BY Names DEF ShellInv, Types, Labels
  <1>2. \A p \in Proc \ {sh} : pc[p] = "none" /\ ofile[p] = AllClosed
    BY Alone
  <1>3. \A p \in Proc \ {sh} : pc'[p] = "none" /\ ofile'[p] = AllClosed
    BY <1>1, <1>2
  <1>4. Family'
    <2>1. \A j \in 1..(MaxStages - 1) : pc'[L(j)] = "none"
      BY <1>3, Names
    <2>2. \A j \in 1..MaxStages : pc'[E(j)] = "none"
      BY <1>3, Names
    <2> QED BY <1>3, <2>1, <2>2, Stages DEF Family
  <1>5. \A p \in Proc \ {sh} : Local(p)'
    <2>1. TAKE p \in Proc \ {sh}
    <2>2. Place(p)'
      BY <1>3 DEF Place, EPc, LPc, LeftPc, RightPc, PipePc, RunPc
    <2>3. Spare(p)'
      BY <1>3 DEF Spare, AllClosed, Fd
    <2>4. Wiring(p)'
      BY <1>3 DEF Wiring, LeftPc, RightPc
    <2> QED BY <2>2, <2>3, <2>4 DEF Local
  <1> QED BY <1>4, <1>5 DEF ShellInv

(* getcmd(), the end of the shell and its restart. *)
LEMMA MainStep ==
  ASSUME ShellInv, getcmd \/ main_exit \/ init_restart
  PROVE  ShellInv'
  <1>1. Types /\ ShInv /\ sh \in Proc /\ pc \in [Proc -> Labels]
    BY Names DEF ShellInv, Types, Labels
  <1>2. CASE getcmd
    <2>1. /\ pc[sh] = "prompt" /\ pc' = [pc EXCEPT ![sh] = "fork"] /\ line' \in Lines
          /\ failed' = FALSE /\ UNCHANGED <<ofile, fd, buf, n, item>>
      BY <1>2 DEF getcmd, Goto
    <2>2. Types'
      BY <1>1, <2>1 DEF Types, ShPc
    <2>3. ShInv'
      BY <1>1, <2>1 DEF ShInv, ShPc
    <2> QED BY <2>1, <2>2, <2>3, AloneStep DEF ShPc
  <1>3. CASE main_exit
    <2>1. /\ pc[sh] = "prompt" /\ pc' = [pc EXCEPT ![sh] = "zombie"]
          /\ ofile' = [ofile EXCEPT ![sh] = AllClosed]
          /\ fd' = [fd EXCEPT ![sh] = <<-1, -1>>]
          /\ n' = [n EXCEPT ![sh] = 0] /\ item' = [item EXCEPT ![sh] = 0]
          /\ UNCHANGED <<line, buf, failed>>
      BY <1>3 DEF main_exit, exit, Goto
    <2>2. AllClosed \in [Fd -> Files] /\ <<-1, -1>> \in (-1..4) \X (-1..4) /\ 0 \in 0..NITEMS
      BY FileFacts, ShellAssumption DEF AllClosed
    <2>3. Types'
      BY <1>1, <2>1, <2>2 DEF Types, ShPc
    <2>4. ShInv'
      BY <1>1, <2>1 DEF ShInv, ShPc, Types
    <2>5. line' \in Lines /\ \A p \in Proc \ {sh} : ofile'[p] = ofile[p]
      BY <1>1, <2>1 DEF Types
    <2> QED BY <2>1, <2>3, <2>4, <2>5, AloneStep DEF ShPc
  <1>4. CASE init_restart
    <2>1. /\ pc[sh] = "zombie" /\ pc' = [pc EXCEPT ![sh] = "prompt"]
          /\ ofile' = [ofile EXCEPT ![sh] = OnConsole]
          /\ UNCHANGED <<line, fd, buf, n, item, failed>>
      BY <1>4 DEF init_restart, Goto
    <2>2. OnConsole \in [Fd -> Files]
      BY FileFacts DEF OnConsole
    <2>3. Types'
      BY <1>1, <2>1, <2>2 DEF Types, ShPc
    <2>4. ShInv'
      BY <1>1, <2>1 DEF ShInv, ShPc, Types
    <2>5. line' \in Lines /\ \A p \in Proc \ {sh} : ofile'[p] = ofile[p]
      BY <1>1, <2>1 DEF Types
    <2> QED BY <2>1, <2>3, <2>4, <2>5, AloneStep DEF ShPc
  <1> QED BY <1>2, <1>3, <1>4

-----------------------------------------------------------------------------
(* The theorems. *)

(* init starts the shell with nobody else. *)
LEMMA InitInv == Init => ShellInv
  <1>1. SUFFICES ASSUME Init PROVE ShellInv
    OBVIOUS
  <1>2. /\ pc = [p \in Proc |-> IF p = sh THEN "prompt" ELSE "none"]
        /\ ofile = [p \in Proc |-> IF p = sh THEN OnConsole ELSE AllClosed]
    BY <1>1 DEF Init
  <1>3. /\ AllClosed \in [Fd -> Files] /\ OnConsole \in [Fd -> Files]
        /\ <<-1, -1>> \in (-1..4) \X (-1..4) /\ 0 \in 0..NITEMS
        /\ <<>> \in Seq(1..NITEMS) /\ Len(<<>>) <= PIPESIZE
    BY FileFacts, ShellAssumption DEF AllClosed, OnConsole
  <1>4. Types
    <2>1. pc \in [Proc -> ShPc \cup EPc \cup LPc]
      BY <1>2 DEF ShPc, EPc
    <2>2. ofile \in [Proc -> [Fd -> Files]]
      BY <1>2, <1>3
    <2> QED BY <1>1, <1>3, <2>1, <2>2 DEF Init, Types
  <1>5. /\ pc[sh] = "prompt" /\ ofile[sh] = OnConsole
        /\ \A p \in Proc \ {sh} : pc[p] = "none" /\ ofile[p] = AllClosed
    BY <1>2, Names
  <1>6. ShInv
    BY <1>5 DEF ShInv, ShPc
  <1>7. Family
    <2>1. \A j \in 1..(MaxStages - 1) : pc[L(j)] = "none"
      BY <1>5, Names
    <2>2. \A j \in 1..MaxStages : pc[E(j)] = "none"
      BY <1>5, Names
    <2> QED BY <1>5, <2>1, <2>2, Stages DEF Family
  <1>8. \A p \in Proc \ {sh} : Local(p)
    <2>1. TAKE p \in Proc \ {sh}
    <2>2. Place(p)
      BY <1>5 DEF Place, EPc, LPc, LeftPc, RightPc, PipePc, RunPc
    <2>3. Spare(p)
      BY <1>5 DEF Spare, AllClosed, Fd
    <2>4. Wiring(p)
      BY <1>5 DEF Wiring, LeftPc, RightPc
    <2> QED BY <2>2, <2>3, <2>4 DEF Local
  <1> QED BY <1>4, <1>6, <1>7, <1>8 DEF ShellInv

(* Every step keeps the invariant: one step per action. *)
LEMMA StepInv ==
  ASSUME ShellInv, [Next]_vars
  PROVE  ShellInv'
  <1>1. CASE getcmd \/ main_exit \/ init_restart
    BY <1>1, MainStep
  <1>2. CASE main_fork
    BY <1>2, MainForkStep
  <1>3. CASE main_wait
    BY <1>3, MainWaitStep
  <1>4. ASSUME NEW p \in Proc \ {sh}, Step(p) PROVE ShellInv'
    <2>1. CASE execline(p) BY <2>1, ExeclineStep
    <2>2. CASE execline_pipe(p) BY <2>2, ExeclinePipeStep
    <2>3. CASE execline_fork1(p) BY <2>3, ExeclineFork1Step
    <2>4. CASE execline_fork2(p) BY <2>4, ExeclineFork2Step
    <2>5. CASE execline_close(p) BY <2>5, ExeclineCloseStep
    <2>6. CASE execline_wait(p) BY <2>6, ExeclineWaitStep
    <2>7. CASE execline_exit(p) BY <2>7, ExeclineExitStep
    <2>8. CASE left_child(p) BY <2>8, LeftChildStep
    <2>9. CASE right_child(p) BY <2>9, RightChildStep
    <2>10. CASE runcmd_empty(p) BY <2>10, RuncmdEmptyStep
    <2>11. CASE runcmd(p) BY <2>11, RuncmdStep
    <2>12. CASE runcmd_in(p) BY <2>12, RuncmdInStep
    <2>13. CASE runcmd_out(p) BY <2>13, RuncmdOutStep
    <2>14. CASE runcmd_exec(p) BY <2>14, RuncmdExecStep
    <2>15. CASE prog_exit(p) BY <2>15, ProgExitStep
    <2>16. CASE read(p) BY <2>16, ReadStep
    <2>17. CASE write(p) BY <2>17, WriteStep
    <2> QED BY <1>4, <2>1, <2>2, <2>3, <2>4, <2>5, <2>6, <2>7, <2>8, <2>9, <2>10, <2>11,
               <2>12, <2>13, <2>14, <2>15, <2>16, <2>17 DEF Step
  <1>5. CASE UNCHANGED vars
    <2>1. Types
      BY DEF ShellInv
    <2> QED BY <1>5, <2>1, DataStep DEF vars, Types
  <1> QED BY <1>1, <1>2, <1>3, <1>4, <1>5 DEF Next, Main

(* The invariant: which processes of a line exist, and which descriptors     *)
(* each of them has, call by call, for every line and every failure.         *)
THEOREM ShellSafety == Spec => []ShellInv
  <1>1. ShellInv /\ [Next]_vars => ShellInv'
    BY StepInv
  <1> QED BY <1>1, InitInv, PTL DEF Spec

(* When no call failed, each program of a line of any length starts with     *)
(* the pipe ends and files that execline() and runcmd() should give it, and  *)
(* nothing else; and every descriptor used exists.                           *)
THEOREM EveryProgramWired == Spec => []Wired
  <1>1. ASSUME ShellInv PROVE TypeOK
    BY <1>1, Names DEF ShellInv, Types, TypeOK
  <1>2. ASSUME ShellInv, NEW p \in Proc, pc[p] = "prog", ~failed
        PROVE  /\ ofile[p][0] = IF Cmd(p).infile THEN File(Stage(p))
                                ELSE IF Stage(p) > 1 THEN R(Stage(p) - 1) ELSE Console
               /\ ofile[p][1] = IF Cmd(p).outfile THEN File(Stage(p))
                                ELSE IF Stage(p) < Len(line) THEN W(Stage(p)) ELSE Console
               /\ ofile[p][2] = Console
               /\ \A d \in Fd : d > 2 => ofile[p][d] = Closed
    <2>1. p \in Proc \ {sh}
      BY <1>2 DEF ShellInv, ShInv, ShPc
    <2>2. Wiring(p)
      BY <1>2, <2>1, Known
    <2>3. Holds(p, From(Stage(p)), To(Stage(p)), Closed, Closed)
      BY <1>2, <2>2 DEF Wiring
    <2>4. \A d \in Fd : d > 2 => d = 3 \/ d = 4
      BY DEF Fd
    <2> QED BY <2>3, <2>4 DEF Holds, From, To, StdIn, StdOut, Cmd
  <1>3. ShellInv => Wired
    BY <1>1, <1>2 DEF Wired
  <1> QED BY <1>3, ShellSafety, PTL

(* The shell reads the next line only when execline() of the last one has    *)
(* left no process and no pipe behind, whichever calls failed.               *)
THEOREM PromptsAlone == Spec => []PromptAlone
  <1>1. ASSUME ShellInv PROVE PromptAlone
    BY <1>1, Alone DEF ShellInv, ShInv, PromptAlone
  <1> QED BY <1>1, ShellSafety, PTL

-----------------------------------------------------------------------------
(* What flows through the line. *)

(* The commands of the line and the processes that run them. *)
LEMMA Here ==
  ASSUME ShellInv
  PROVE  /\ Len(line) \in Nat /\ 1 <= Len(line) /\ Len(line) <= MaxStages
         /\ MaxStages \in Nat /\ NITEMS \in Nat
         /\ pc \in [Proc -> Labels]
         /\ \A i \in 1..Len(line) :
              /\ i \in Nat /\ i \in 1..MaxStages /\ line[i] \in Commands
              /\ E(i) \in Proc \ {sh} /\ Runner(i) \in Proc \ {sh} /\ Stage(Runner(i)) = i
              /\ i < Len(line) => L(i) \in Proc \ {sh} /\ Runner(i) = L(i)
              /\ i = Len(line) => Runner(i) = E(i)
              /\ i < Len(line) => i + 1 \in 1..Len(line)
              /\ i > 1 => i - 1 \in 1..Len(line)
  <1>1. line \in Lines /\ pc \in [Proc -> Labels]
    BY DEF ShellInv, Types, Labels
  <1>2. /\ Len(line) \in Nat /\ 1 <= Len(line) /\ Len(line) <= MaxStages
        /\ MaxStages \in Nat /\ NITEMS \in Nat /\ line \in Seq(Commands)
    BY <1>1, Stages, ShellAssumption
  <1>3. ASSUME NEW i \in 1..Len(line)
        PROVE  /\ i \in Nat /\ i \in 1..MaxStages /\ line[i] \in Commands
               /\ i < Len(line) => i \in 1..(MaxStages - 1) /\ i + 1 \in 1..Len(line)
               /\ i > 1 => i - 1 \in 1..Len(line)
    BY <1>2
  <1>4. ASSUME NEW i \in 1..Len(line)
        PROVE  /\ E(i) \in Proc \ {sh} /\ Runner(i) \in Proc \ {sh} /\ Stage(Runner(i)) = i
               /\ i < Len(line) => L(i) \in Proc \ {sh} /\ Runner(i) = L(i)
               /\ i = Len(line) => Runner(i) = E(i)
    <2>1. CASE i < Len(line)
      BY <1>2, <1>3, <2>1, Names DEF Runner
    <2>2. CASE ~(i < Len(line))
      BY <1>2, <1>3, <2>2, Names DEF Runner
    <2> QED BY <2>1, <2>2
  <1> QED BY <1>1, <1>2, <1>3, <1>4

(* Whoever is in runcmd() runs the command of its place. *)
LEMMA RunnerOf ==
  ASSUME ShellInv, NEW p \in Proc \ {sh}, pc[p] \in RunPc
  PROVE  Stage(p) \in 1..Len(line) /\ p = Runner(Stage(p))
  <1>1. Place(p) /\ Stage(p) \in 1..MaxStages /\ Len(line) \in 1..MaxStages
    BY Known
  <1>2. pc[p] # "none"
    BY DEF RunPc
  <1>3. CASE p[1] = "E" /\ p = E(Stage(p))
    BY <1>1, <1>2, <1>3, Stages DEF Place, Runner
  <1>4. CASE p[1] = "L" /\ p = L(Stage(p))
    BY <1>1, <1>2, <1>4, Stages DEF Place, Runner
  <1> QED BY <1>3, <1>4, Kinds

(* A step of p that starts, ends and reaps nobody. *)
LEMMA EndedKept ==
  ASSUME ShellInv, NEW over, Ended(over), NEW p \in Proc \ {sh}, NEW l,
         line' = line, pc' = [pc EXCEPT ![p] = l],
         pc[p] \notin {"none", "zombie"}, l \notin {"none", "zombie"},
         l \in HasLeft \cup {"exit"} => pc[p] \in HasLeft \cup {"exit"},
         l \in HasRight \cup {"exit"} => pc[p] \in HasRight \cup {"exit"},
         l \in Early => pc[p] \in Early, l = "fork2" => pc[p] = "fork2"
  PROVE  Ended(over)'
  <1> USE Here
  <1>1. \A q \in Proc : pc'[q] = IF q = p THEN l ELSE pc[q]
    OBVIOUS
  <1>2. pc'[sh] = pc[sh]
    BY <1>1, Names
  <1>3. \A i : Runner(i)' = Runner(i)
    BY DEF Runner
  <1>4. \A i \in 1..Len(line) : pc'[Runner(i)] \notin {"none", "zombie"} => i \notin over
    BY <1>1 DEF Ended
  <1>5. \A i \in 1..Len(line) : pc'[Runner(i)] = "zombie" => i \in over
    BY <1>1 DEF Ended
  <1>6. \A i \in 1..(Len(line) - 1) :
          pc'[E(i)] \in HasLeft \cup {"exit"} /\ pc'[L(i)] = "none" => i \in over
    <2>1. TAKE i \in 1..(Len(line) - 1)
    <2>2. i \in 1..Len(line) /\ i < Len(line)
      OBVIOUS
    <2>3. E(i) \in Proc /\ L(i) \in Proc
      BY <2>2
    <2> QED BY <1>1, <2>3 DEF Ended
  <1>7. \A i \in 1..Len(line) : pc'[E(i)] = "zombie" => \A j \in i..Len(line) : j \in over
    BY <1>1 DEF Ended
  <1>8. \A i \in 1..(Len(line) - 1) :
          pc'[E(i)] \in HasRight \cup {"exit"} /\ pc'[E(i + 1)] = "none" =>
            \A j \in (i + 1)..Len(line) : j \in over
    <2>1. TAKE i \in 1..(Len(line) - 1)
    <2>2. i \in 1..Len(line) /\ i + 1 \in 1..Len(line)
      OBVIOUS
    <2>3. E(i) \in Proc /\ E(i + 1) \in Proc
      BY <2>2
    <2> QED BY <1>1, <2>3 DEF Ended
  <1>9. pc'[sh] \in {"prompt", "zombie"} \/ (pc'[sh] = "wait" /\ pc'[E(1)] = "none") =>
          \A j \in 1..Len(line) : j \in over
    <2>1. E(1) \in Proc
      OBVIOUS
    <2> QED BY <1>1, <1>2, <2>1 DEF Ended
  <1>10. \A i \in 1..Len(line) : pc'[E(i)] \in Early => \A j \in i..Len(line) : j \notin over
    BY <1>1 DEF Ended
  <1>11. \A i \in 1..Len(line) : pc'[E(i)] = "fork2" => \A j \in (i + 1)..Len(line) : j \notin over
    BY <1>1 DEF Ended
  <1>12. pc'[sh] = "fork" => \A j \in 1..Len(line) : j \notin over
    BY <1>2 DEF Ended
  <1> QED BY <1>3, <1>4, <1>5, <1>6, <1>7, <1>8, <1>9, <1>10, <1>11, <1>12 DEF Ended

-----------------------------------------------------------------------------
(* What a line computes. *)

(* Output, with its recursion replaced by out. *)
OutputOf(out, i) ==
  IF i = 0 \/ i > Len(line) THEN <<>>
  ELSE IF Source(i) THEN AllItems
  ELSE IF Passes(i) THEN out[i - 1] ELSE <<>>

(* The recursive definition has a solution, so Output is one. *)
LEMMA OutputUnfolds ==
  ASSUME line \in Lines
  PROVE  \A i \in 0..MaxStages : Output[i] = OutputOf(Output, i)
  <1>1. MaxStages \in Nat /\ Len(line) \in Nat
    BY Stages
  <1> DEFINE Full(i) == \E j \in 1..i : Source(j) /\ \A k \in (j + 1)..i : Passes(k)
             g == [i \in 0..MaxStages |->
                     IF 1 <= i /\ i <= Len(line) /\ Full(i) THEN AllItems ELSE <<>>]
  <1>2. ASSUME NEW i \in 1..MaxStages, Source(i) PROVE Full(i)
    BY <1>1, <1>2
  <1>3. ASSUME NEW i \in 1..MaxStages, Passes(i) PROVE Full(i) <=> Full(i - 1)
    <2>1. i - 1 \in Nat /\ i \in Nat /\ i >= 1
      BY <1>1
    <2>2. ~Source(i)
      BY <1>3 DEF Source, Passes
    <2>3. ASSUME Full(i - 1) PROVE Full(i)
      <3>1. PICK j \in 1..(i - 1) : Source(j) /\ \A k \in (j + 1)..(i - 1) : Passes(k)
        BY <2>3
      <3>2. \A k \in (j + 1)..i : k = i \/ k \in (j + 1)..(i - 1)
        BY <2>1
      <3>3. \A k \in (j + 1)..i : Passes(k)
        BY <1>3, <3>1, <3>2
      <3> QED BY <2>1, <3>1, <3>3
    <2>4. ASSUME Full(i) PROVE Full(i - 1)
      <3>1. PICK j \in 1..i : Source(j) /\ \A k \in (j + 1)..i : Passes(k)
        BY <2>4
      <3>2. j \in 1..(i - 1)
        BY <2>1, <2>2, <3>1
      <3>3. \A k \in (j + 1)..(i - 1) : k \in (j + 1)..i
        BY <2>1
      <3> QED BY <3>1, <3>2, <3>3
    <2> QED BY <2>3, <2>4
  <1>4. ASSUME NEW i \in 1..MaxStages, ~Source(i), ~Passes(i) PROVE ~Full(i)
    <2>1. SUFFICES ASSUME NEW j \in 1..i, Source(j), \A k \in (j + 1)..i : Passes(k)
                   PROVE  FALSE
      OBVIOUS
    <2>2. j = i \/ i \in (j + 1)..i
      BY <1>1
    <2> QED BY <1>4, <2>1, <2>2
  <1>5. ASSUME NEW i \in 0..MaxStages PROVE g[i] = OutputOf(g, i)
    <2>1. CASE i = 0 \/ i > Len(line)
      BY <1>1, <2>1 DEF OutputOf
    <2>2. CASE ~(i = 0 \/ i > Len(line))
      <3>1. i \in 1..MaxStages /\ i <= Len(line) /\ 1 <= i
        BY <1>1, <2>2
      <3>2. g[i] = IF Full(i) THEN AllItems ELSE <<>>
        BY <3>1
      <3>3. CASE Source(i)
        <4>1. g[i] = AllItems
          BY <1>2, <3>1, <3>2, <3>3
        <4> HIDE DEF g
        <4> QED BY <2>2, <3>3, <4>1 DEF OutputOf
      <3>4. CASE Passes(i)
        <4>1. i - 1 \in 1..MaxStages /\ i - 1 \in 0..MaxStages /\ 1 <= i - 1 /\ i - 1 <= Len(line)
          BY <1>1, <3>1, <3>4 DEF Passes
        <4>2. g[i - 1] = IF Full(i - 1) THEN AllItems ELSE <<>>
          BY <4>1
        <4>3. g[i] = g[i - 1]
          BY <1>3, <3>1, <3>2, <3>4, <4>2
        <4> HIDE DEF g
        <4> QED BY <2>2, <3>4, <4>3 DEF Source, Passes, OutputOf
      <3>5. CASE ~Source(i) /\ ~Passes(i)
        <4>1. g[i] = <<>>
          BY <1>4, <3>1, <3>2, <3>5
        <4> HIDE DEF g
        <4> QED BY <2>2, <3>5, <4>1 DEF OutputOf
      <3> QED BY <3>3, <3>4, <3>5
    <2> QED BY <2>1, <2>2
  <1> DEFINE Eqn(out) == out = [i \in 0..MaxStages |-> OutputOf(out, i)]
  <1>6. Eqn(g)
    <2> DEFINE h == [i \in 0..MaxStages |-> OutputOf(g, i)]
    <2>1. \A i \in 0..MaxStages : h[i] = g[i]
      BY <1>5
    <2>2. g = [i \in 0..MaxStages |-> g[i]]
      OBVIOUS
    <2>3. h = [i \in 0..MaxStages |-> h[i]]
      OBVIOUS
    <2> HIDE DEF g, h
    <2>4. g = h
      BY <2>1, <2>2, <2>3
    <2> QED BY <2>4 DEF h
  <1> HIDE DEF g
  <1>7. Output = CHOOSE out : Eqn(out)
    BY DEF Output, OutputOf
  <1>8. Eqn(Output)
    BY <1>6, <1>7
  <1> QED BY <1>8

(* A command puts out nothing or the whole file. *)
LEMMA OutputIs ==
  ASSUME line \in Lines
  PROVE  \A i \in 0..MaxStages : Output[i] \in {<<>>, AllItems}
  <1>1. MaxStages \in Nat
    BY Stages
  <1> DEFINE S == {i \in 0..MaxStages : Output[i] \notin {<<>>, AllItems}}
  <1>2. SUFFICES ASSUME S # {} PROVE FALSE
    OBVIOUS
  <1>3. /\ S \in SUBSET Nat
        /\ \A y : y \in S <=> y \in 0..MaxStages /\ Output[y] \notin {<<>>, AllItems}
    BY <1>1
  <1> HIDE DEF S
  <1>4. PICK x \in S : \A y \in S : ~(<<y, x>> \in OpToRel(<, Nat))
    BY <1>2, <1>3, NatLessThanWellFounded, WFMin
  <1>5. x \in 0..MaxStages /\ x \in Nat /\ Output[x] \notin {<<>>, AllItems}
    BY <1>1, <1>3
  <1>6. Output[x] = OutputOf(Output, x)
    BY <1>5, OutputUnfolds
  <1>7. x > 1 /\ Output[x] = Output[x - 1]
    <2>1. OutputOf(Output, x) # <<>> /\ OutputOf(Output, x) # AllItems
      BY <1>5, <1>6
    <2>2. Passes(x) /\ OutputOf(Output, x) = Output[x - 1]
      BY <2>1 DEF OutputOf
    <2> QED BY <1>6, <2>2 DEF Passes
  <1>8. x - 1 \in Nat /\ x - 1 \in S /\ x - 1 < x
    BY <1>1, <1>3, <1>5, <1>7
  <1> QED BY <1>4, <1>5, <1>8 DEF OpToRel

(* The items a + 1, ..., b, one by one. *)
LEMMA ItemsFacts ==
  ASSUME NEW a \in Nat, NEW b \in Nat, a <= b
  PROVE  /\ Items(a, b) \in Seq(Nat) /\ Len(Items(a, b)) = b - a
         /\ \A k \in 1..(b - a) : Items(a, b)[k] = a + k
  <1>1. b - a \in Nat /\ Items(a, b) = [k \in 1..(b - a) |-> a + k]
    BY DEF Items
  <1>2. \A k \in 1..(b - a) : a + k \in Nat
    BY <1>1
  <1> QED BY <1>1, <1>2

(* They are nothing only when a is b. *)
LEMMA ItemsEmpty ==
  ASSUME NEW a \in Nat, NEW b \in Nat, a <= b
  PROVE  Items(a, b) = <<>> <=> a = b
  <1>1. Items(a, b) \in Seq(Nat) /\ Len(Items(a, b)) = b - a
    BY ItemsFacts
  <1>2. ASSUME NEW s \in Seq(Nat) PROVE s = <<>> <=> Len(s) = 0
    OBVIOUS
  <1>3. Items(a, b) = <<>> <=> Len(Items(a, b)) = 0
    BY <1>1, <1>2
  <1> QED BY <1>1, <1>3

(* The next one goes to the end. *)
LEMMA ItemsAppend ==
  ASSUME NEW a \in Nat, NEW b \in Nat, a <= b
  PROVE  Append(Items(a, b), b + 1) = Items(a, b + 1)
  <1>1. /\ Items(a, b) \in Seq(Nat) /\ Len(Items(a, b)) = b - a
        /\ \A k \in 1..(b - a) : Items(a, b)[k] = a + k
    BY ItemsFacts
  <1>2. b + 1 \in Nat /\ a <= b + 1 /\ b - a \in Nat
    OBVIOUS
  <1>3. /\ Items(a, b + 1) \in Seq(Nat) /\ Len(Items(a, b + 1)) = (b + 1) - a
        /\ \A k \in 1..((b + 1) - a) : Items(a, b + 1)[k] = a + k
    BY <1>2, ItemsFacts
  <1> DEFINE s == Items(a, b)
             t == Append(s, b + 1)
             u == Items(a, b + 1)
  <1>4. t \in Seq(Nat) /\ Len(t) = Len(s) + 1 /\ t[Len(s) + 1] = b + 1
        /\ \A k \in 1..Len(s) : t[k] = s[k]
    <2>1. ASSUME NEW z \in Seq(Nat), NEW e \in Nat
          PROVE  /\ Append(z, e) \in Seq(Nat) /\ Len(Append(z, e)) = Len(z) + 1
                 /\ Append(z, e)[Len(z) + 1] = e
                 /\ \A k \in 1..Len(z) : Append(z, e)[k] = z[k]
      BY <2>1
    <2> QED BY <1>1, <1>2, <2>1
  <1>5. s \in Seq(Nat) /\ u \in Seq(Nat) /\ Len(s) = b - a /\ Len(u) = (b + 1) - a
    BY <1>1, <1>3
  <1> HIDE DEF s, t, u
  <1>6. Len(t) = Len(u)
    BY <1>2, <1>4, <1>5
  <1>7. \A k \in 1..Len(t) : t[k] = u[k]
    <2>1. TAKE k \in 1..Len(t)
    <2>2. k \in Nat /\ k \in 1..((b + 1) - a)
      BY <1>2, <1>4, <1>5
    <2>3. u[k] = a + k
      BY <1>3, <2>2 DEF u
    <2>4. CASE k = Len(s) + 1
      BY <1>2, <1>4, <1>5, <2>3, <2>4
    <2>5. CASE k # Len(s) + 1
      <3>1. k \in 1..Len(s) /\ k \in 1..(b - a)
        BY <1>2, <1>4, <1>5, <2>2, <2>5
      <3>2. s[k] = a + k
        BY <1>1, <3>1 DEF s
      <3> QED BY <1>4, <2>3, <3>1, <3>2
    <2> QED BY <2>4, <2>5
  <1>8. t = u
    BY <1>4, <1>5, <1>6, <1>7, SeqEqual
  <1> QED BY <1>8 DEF s, t, u

(* The first one comes out first. *)
LEMMA ItemsTail ==
  ASSUME NEW a \in Nat, NEW b \in Nat, a < b
  PROVE  Head(Items(a, b)) = a + 1 /\ Tail(Items(a, b)) = Items(a + 1, b)
  <1>1. /\ Items(a, b) \in Seq(Nat) /\ Len(Items(a, b)) = b - a
        /\ \A k \in 1..(b - a) : Items(a, b)[k] = a + k
    BY ItemsFacts
  <1>2. a + 1 \in Nat /\ a + 1 <= b /\ b - a \in Nat /\ b - a >= 1
    OBVIOUS
  <1>3. /\ Items(a + 1, b) \in Seq(Nat) /\ Len(Items(a + 1, b)) = b - (a + 1)
        /\ \A k \in 1..(b - (a + 1)) : Items(a + 1, b)[k] = (a + 1) + k
    BY <1>2, ItemsFacts
  <1> DEFINE s == Items(a, b)
             t == Tail(s)
             u == Items(a + 1, b)
  <1>4. /\ t \in Seq(Nat) /\ Len(t) = Len(s) - 1 /\ Head(s) = s[1]
        /\ \A k \in 1..(Len(s) - 1) : t[k] = s[k + 1]
    <2>1. ASSUME NEW z \in Seq(Nat), Len(z) >= 1
          PROVE  /\ Tail(z) \in Seq(Nat) /\ Len(Tail(z)) = Len(z) - 1 /\ Head(z) = z[1]
                 /\ \A k \in 1..(Len(z) - 1) : Tail(z)[k] = z[k + 1]
      BY <2>1
    <2> QED BY <1>1, <1>2, <2>1
  <1>5. s \in Seq(Nat) /\ u \in Seq(Nat) /\ Len(s) = b - a /\ Len(u) = b - (a + 1)
    BY <1>1, <1>3
  <1>6. s[1] = a + 1
    BY <1>1, <1>2
  <1> HIDE DEF s, t, u
  <1>7. Len(t) = Len(u)
    BY <1>2, <1>4, <1>5
  <1>8. \A k \in 1..Len(t) : t[k] = u[k]
    <2>1. TAKE k \in 1..Len(t)
    <2>2. k \in Nat /\ k \in 1..(b - (a + 1)) /\ k + 1 \in 1..(b - a) /\ k \in 1..(Len(s) - 1)
      BY <1>2, <1>4, <1>5
    <2>3. u[k] = (a + 1) + k /\ s[k + 1] = a + (k + 1)
      BY <1>1, <1>3, <2>2 DEF s, u
    <2> QED BY <1>4, <2>2, <2>3
  <1>9. t = u
    BY <1>4, <1>5, <1>7, <1>8, SeqEqual
  <1> QED BY <1>4, <1>6, <1>9 DEF s, t, u

-----------------------------------------------------------------------------
(* What a step leaves alone. *)

(* What a line computes depends on the line only. *)
LEMMA OutputKept ==
  ASSUME line' = line
  PROVE  Output' = Output
BY DEF Output, Source, Passes, AllItems

(* Command i, when nothing happens to its process. *)
LEMMA RanKept ==
  ASSUME NEW i \in Nat, NEW over, NEW made, NEW took, NEW over2, NEW made2, NEW took2,
         Ran(i, over, made, took), line' = line,
         written'[i] = written[i], n'[Runner(i)] = n[Runner(i)],
         item'[Runner(i)] = item[Runner(i)],
         pc'[Runner(i)] = "prog" <=> pc[Runner(i)] = "prog",
         made2[i] = made[i], i > 1 => took2[i - 1] = took[i - 1],
         i \in over2 <=> i \in over, i + 1 \in over => i + 1 \in over2
  PROVE  Ran(i, over2, made2, took2)'
  <1>1. Output' = Output
    BY OutputKept
  <1>2. Runner(i)' = Runner(i)
    BY DEF Runner
  <1>3. Taken(i, took2)' = Taken(i, took)
    BY <1>2 DEF Taken
  <1> QED BY <1>1, <1>2, <1>3 DEF Ran

(* A pipe that is not used. *)
LEMMA CarriedKept ==
  ASSUME NEW i \in Nat, NEW over, NEW made, NEW took, NEW over2, NEW made2, NEW took2,
         Carried(i, over, made, took), line' = line,
         buf'[i] = buf[i], made2[i] = made[i], took2[i] = took[i],
         pc'[E(i)] \in Piped => pc[E(i)] \in Piped,
         i + 1 \notin over2 /\ pc'[Runner(i + 1)] # "prog" =>
           i + 1 \notin over /\ pc[Runner(i + 1)] # "prog"
  PROVE  Carried(i, over2, made2, took2)'
  <1>1. Runner(i + 1)' = Runner(i + 1)
    BY DEF Runner
  <1> QED BY <1>1 DEF Carried

(* A step that moves no item, starts no program and makes no pipe. *)
LEMMA FlowKept ==
  ASSUME ShellInv, NEW over, NEW made, NEW took, Flow(over, made, took),
         UNCHANGED <<line, buf, n, item, written>>,
         \A q \in Proc : pc'[q] = "prog" <=> pc[q] = "prog",
         \A q \in Proc \ {sh} : pc'[q] \in Piped => pc[q] \in Piped
  PROVE  Flow(over, made, took)'
  <1>1. ASSUME NEW i \in 1..Len(line) PROVE Ran(i, over, made, took)'
    <2>1. Runner(i) \in Proc /\ i \in Nat
      BY Here
    <2>2. Ran(i, over, made, took)
      BY DEF Flow
    <2> QED BY <2>1, <2>2, RanKept
  <1>2. ASSUME NEW i \in 1..(Len(line) - 1) PROVE Carried(i, over, made, took)'
    <2>1. i \in Nat /\ i \in 1..Len(line) /\ i + 1 \in 1..Len(line)
      BY Here
    <2>2. Runner(i + 1) \in Proc /\ E(i) \in Proc \ {sh}
      BY <2>1, Here
    <2>3. Carried(i, over, made, took)
      BY DEF Flow
    <2> QED BY <2>1, <2>2, <2>3, CarriedKept
  <1> QED BY <1>1, <1>2 DEF Flow

(* No program starts, and none ends. *)
LEMMA IdleKept ==
  ASSUME Idle, UNCHANGED <<n, item, written>>,
         \A q \in Proc : pc'[q] # "prog" => pc[q] # "prog"
  PROVE  Idle'
BY DEF Idle

(* A program ends. *)
LEMMA IdleExit ==
  ASSUME ShellInv, Idle, NEW p \in Proc, exit(p)
  PROVE  Idle'
  <1>1. pc \in [Proc -> Labels] /\ n \in [Proc -> 0..NITEMS] /\ item \in [Proc -> 0..NITEMS]
    BY DEF ShellInv, Types, Labels
  <1>2. /\ pc' = [pc EXCEPT ![p] = "zombie"] /\ written' = written
        /\ n' = [n EXCEPT ![p] = 0] /\ item' = [item EXCEPT ![p] = 0]
    BY DEF exit, Goto
  <1> QED BY <1>1, <1>2 DEF Idle

(* A step of one process, between two of its calls, that starts nobody,      *)
(* makes no pipe and moves no item.                                          *)
LEMMA Quiet ==
  ASSUME ShellInv, FlowInv, NEW p \in Proc \ {sh}, NEW l, pc' = [pc EXCEPT ![p] = l],
         UNCHANGED <<line, buf, n, item, written, failed>>,
         pc[p] \notin {"none", "zombie", "prog"}, l \notin {"none", "zombie", "prog"},
         l \in HasLeft \cup {"exit"} => pc[p] \in HasLeft \cup {"exit"},
         l \in HasRight \cup {"exit"} => pc[p] \in HasRight \cup {"exit"},
         l \in Early => pc[p] \in Early, l = "fork2" => pc[p] = "fork2",
         l \in Piped => pc[p] \in Piped
  PROVE  FlowInv'
  <1>1. \A q \in Proc : pc'[q] = IF q = p THEN l ELSE pc[q]
    BY Here
  <1>2. Idle'
    BY <1>1, IdleKept DEF FlowInv
  <1>3. ASSUME ~failed PROVE Flows'
    <2>1. PICK over \in SUBSET (1..MaxStages), made, took \in [1..MaxStages -> 0..NITEMS] :
            Ended(over) /\ Flow(over, made, took)
      BY <1>3 DEF FlowInv, Flows
    <2>2. Ended(over)'
      BY <2>1, EndedKept
    <2>3. Flow(over, made, took)'
      BY <1>1, <2>1, FlowKept
    <2> QED BY <2>2, <2>3 DEF Flows
  <1> QED BY <1>2, <1>3 DEF FlowInv

(* A call that failed: from here on nothing is claimed about the line. *)
LEMMA Failing ==
  ASSUME Idle', failed' = TRUE
  PROVE  FlowInv'
BY DEF FlowInv

(* findpipe(). *)
LEMMA ExeclineFlow ==
  ASSUME ShellInv, FlowInv, NEW p \in Proc \ {sh}, execline(p)
  PROVE  FlowInv'
  <1>1. PICK l \in {"pipe", "run"} : pc' = [pc EXCEPT ![p] = l]
    BY DEF execline, Goto
  <1>2. pc[p] = "find" /\ UNCHANGED <<line, buf, n, item, written, failed>>
    BY DEF execline
  <1> QED BY <1>1, <1>2, Quiet DEF HasLeft, HasRight, Early, Piped, RightPc

(* The calls that only change descriptors. *)
LEMMA DescFlow ==
  ASSUME ShellInv, FlowInv, NEW p \in Proc \ {sh}, NEW l, NEW next, FdStep(p, l, next),
         \/ l \in LeftPc /\ next \in LeftPc \cup {"run"}
         \/ l \in RightPc /\ next \in RightPc \cup {"find"}
         \/ l \in {"close0", "close1"} /\ next \in {"close1", "wait1"}
         \/ l \in {"in", "out"} /\ next \in {"in_open", "out_open"}
  PROVE  FlowInv'
  <1>1. pc[p] = l /\ pc' = [pc EXCEPT ![p] = next] /\ UNCHANGED <<line, buf, n, item, written, failed>>
    BY DEF FdStep, Goto
  <1>2. pc[p] \notin {"none", "zombie", "prog"} /\ next \notin {"none", "zombie", "prog", "fork2"}
    BY <1>1 DEF LeftPc, RightPc
  <1>3. /\ next \in HasLeft \cup {"exit"} => pc[p] \in HasLeft \cup {"exit"}
        /\ next \in HasRight \cup {"exit"} => pc[p] \in HasRight \cup {"exit"}
        /\ next \in Early => pc[p] \in Early
        /\ next \in Piped => pc[p] \in Piped
    BY <1>1 DEF LeftPc, RightPc, HasLeft, HasRight, Early, Piped
  <1> QED BY <1>1, <1>2, <1>3, Quiet

(* The children set up their descriptors, and the parent closes the pipe. *)
LEMMA ChildFlow ==
  ASSUME ShellInv, FlowInv, NEW p \in Proc \ {sh},
         left_child(p) \/ right_child(p) \/ execline_close(p)
  PROVE  FlowInv'
  <1>1. CASE left_child(p)
    BY <1>1, DescFlow DEF left_child, LeftPc
  <1>2. CASE right_child(p)
    BY <1>2, DescFlow DEF right_child, RightPc
  <1>3. CASE execline_close(p)
    BY <1>3, DescFlow DEF execline_close
  <1> QED BY <1>1, <1>2, <1>3

(* runcmd() and its redirections. *)
LEMMA RuncmdFlow ==
  ASSUME ShellInv, FlowInv, NEW p \in Proc \ {sh},
         runcmd(p) \/ runcmd_in(p) \/ runcmd_out(p)
  PROVE  FlowInv'
  <1>1. CASE runcmd(p)
    <2>1. PICK l \in {"in", "out", "exec"} : pc' = [pc EXCEPT ![p] = l]
      BY <1>1 DEF runcmd, Goto, AfterIn
    <2>2. pc[p] = "run" /\ UNCHANGED <<line, buf, n, item, written, failed>>
      BY <1>1 DEF runcmd
    <2> QED BY <2>1, <2>2, Quiet DEF HasLeft, HasRight, Early, Piped, RightPc
  <1>2. ASSUME NEW l \in {"in_open", "out_open"}, NEW next \in {"out", "exec"}, open(p, l, next)
        PROVE  FlowInv'
    <2>1. CASE Goto(p, next) /\ UNCHANGED <<line, fd, buf, n, item, written, failed>>
      <3>1. pc[p] = l /\ pc' = [pc EXCEPT ![p] = next]
        BY <1>2, <2>1 DEF open, Goto
      <3> QED BY <2>1, <3>1, Quiet DEF HasLeft, HasRight, Early, Piped, RightPc
    <2>2. CASE exit(p) /\ failed' = TRUE
      <3>1. Idle'
        BY <2>2, IdleExit DEF FlowInv
      <3> QED BY <2>2, <3>1, Failing
    <2> QED BY <1>2, <2>1, <2>2 DEF open
  <1>3. CASE runcmd_in(p)
    <2>1. CASE FdStep(p, "in", "in_open")
      BY <2>1, DescFlow
    <2>2. CASE open(p, "in_open", AfterIn(p))
      <3>1. AfterIn(p) \in {"out", "exec"}
        BY DEF AfterIn
      <3> QED BY <1>2, <2>2, <3>1
    <2> QED BY <1>3, <2>1, <2>2 DEF runcmd_in
  <1>4. CASE runcmd_out(p)
    BY <1>2, <1>4, DescFlow DEF runcmd_out
  <1> QED BY <1>1, <1>3, <1>4

(* exec(): the program starts with nothing read and nothing written. *)
LEMMA RuncmdExecFlow ==
  ASSUME ShellInv, FlowInv, NEW p \in Proc \ {sh}, runcmd_exec(p)
  PROVE  FlowInv'
  <1>1. CASE exit(p) /\ failed' = TRUE
    <2>1. Idle'
      BY <1>1, IdleExit DEF FlowInv
    <2> QED BY <1>1, <2>1, Failing
  <1>2. CASE Goto(p, "prog") /\ UNCHANGED <<line, ofile, fd, buf, n, item, written, failed>>
    <2> DEFINE i == Stage(p)
    <2>1. pc[p] = "exec" /\ pc' = [pc EXCEPT ![p] = "prog"]
      BY <1>2 DEF runcmd_exec, Goto
    <2>2. i \in 1..Len(line) /\ p = Runner(i) /\ i \in Nat /\ i > 1 => i - 1 \in 1..(Len(line) - 1)
      BY <2>1, RunnerOf, Here DEF RunPc
    <2>3. i \in 1..Len(line) /\ p = Runner(i)
      BY <2>1, RunnerOf DEF RunPc
    <2>4. \A q \in Proc : pc'[q] = IF q = p THEN "prog" ELSE pc[q]
      BY <2>1, Here
    <2>5. Idle' /\ n[p] = 0 /\ item[p] = 0
      BY <1>2, <2>1, <2>4, IdleKept DEF FlowInv, Idle
    <2> HIDE DEF i
    <2>6. ASSUME ~failed PROVE Flows'
      <3>1. PICK over \in SUBSET (1..MaxStages), made, took \in [1..MaxStages -> 0..NITEMS] :
              Ended(over) /\ Flow(over, made, took)
        BY <2>6 DEF FlowInv, Flows
      <3>2. Ended(over)'
        BY <1>2, <2>1, <3>1, EndedKept DEF HasLeft, HasRight, Early, RightPc
      <3>3. i \notin over
        BY <2>1, <2>3, <3>1 DEF Ended
      <3>4. made[i] = 0
        BY <2>1, <2>3, <3>1, <3>3 DEF Flow, Ran
      <3>5. i > 1 => took[i - 1] = 0
        <4>1. SUFFICES ASSUME i > 1 PROVE took[i - 1] = 0
          OBVIOUS
        <4>2. i \in Nat /\ i - 1 \in 1..(Len(line) - 1) /\ (i - 1) + 1 = i
          BY <2>3, <4>1, Here
        <4>3. Carried(i - 1, over, made, took)
          BY <3>1, <4>2 DEF Flow
        <4> QED BY <2>1, <2>3, <3>3, <4>2, <4>3 DEF Carried
      <3>6. Ran(i, over, made, took)'
        <4>1. Ran(i, over, made, took)
          BY <2>3, <3>1 DEF Flow
        <4>2. Output' = Output
          BY <1>2, OutputKept
        <4>3. Runner(i)' = p
          BY <1>2, <2>3 DEF Runner
        <4>4. Taken(i, took)' = 0
          BY <1>2, <2>5, <3>5, <4>3 DEF Taken
        <4> QED BY <1>2, <2>3, <2>4, <2>5, <3>3, <3>4, <4>1, <4>2, <4>3, <4>4 DEF Ran
      <3>7. ASSUME NEW j \in 1..Len(line), j # i PROVE Ran(j, over, made, took)'
        <4>1. Runner(j) \in Proc /\ j \in Nat /\ Runner(j) # p
          BY <2>3, <3>7, Here
        <4>2. Ran(j, over, made, took)
          BY <3>1 DEF Flow
        <4> QED BY <1>2, <2>4, <4>1, <4>2, RanKept
      <3>8. ASSUME NEW j \in 1..(Len(line) - 1) PROVE Carried(j, over, made, took)'
        <4>1. j \in Nat /\ j \in 1..Len(line) /\ j + 1 \in 1..Len(line)
          BY Here
        <4>2. Runner(j + 1) \in Proc /\ E(j) \in Proc
          BY <4>1, Here
        <4>3. Carried(j, over, made, took)
          BY <3>1 DEF Flow
        <4>4. "prog" \notin Piped
          BY DEF Piped, HasRight
        <4> QED BY <1>2, <2>4, <4>1, <4>2, <4>3, <4>4, CarriedKept
      <3>9. line' = line /\ Flow(over, made, took)'
        BY <1>2, <3>6, <3>7, <3>8 DEF Flow
      <3> QED BY <3>2, <3>9 DEF Flows
    <2> QED BY <1>2, <2>5, <2>6 DEF FlowInv
  <1> QED BY <1>1, <1>2 DEF runcmd_exec

(* pipe(): the new pipe is empty, and so far nothing has been put out. *)
LEMMA ExeclinePipeFlow ==
  ASSUME ShellInv, FlowInv, NEW p \in Proc \ {sh}, execline_pipe(p)
  PROVE  FlowInv'
  <1> DEFINE i == Stage(p)
  <1>1. /\ pc[p] = "pipe" /\ pc' = [pc EXCEPT ![p] = "fork1"]
        /\ UNCHANGED <<line, n, item, written>>
    BY DEF execline_pipe, Goto
  <1>2. \A q \in Proc : pc'[q] = IF q = p THEN "fork1" ELSE pc[q]
    BY <1>1, Here
  <1>3. Idle'
    BY <1>1, <1>2, IdleKept DEF FlowInv
  <1>4. CASE failed' = TRUE
    BY <1>3, <1>4, Failing
  <1>5. CASE buf' = [buf EXCEPT ![i] = <<>>] /\ failed' = failed
    <2>1. /\ Place(p) /\ Stage(p) \in 1..MaxStages /\ Len(line) \in 1..MaxStages
          /\ pc[p] \in PipePc => p[1] = "E"
      BY Known
    <2>2. p[1] = "E" /\ i < Len(line) /\ p = E(i)
      BY <1>1, <2>1, Kinds DEF PipePc, Place
    <2>3. i \in 1..Len(line) /\ i \in 1..(Len(line) - 1) /\ i \in Nat
      BY <2>1, <2>2, Here
    <2>4. pc[L(i)] = "none" /\ Runner(i) = L(i)
      <3>1. i \in 1..(MaxStages - 1)
        BY <2>1, <2>2, Stages
      <3>2. pc[E(i)] \notin HasLeft
        BY <1>1, <2>2 DEF HasLeft
      <3> QED BY <2>2, <3>1, <3>2 DEF ShellInv, Family, Runner
    <2> HIDE DEF i
    <2>5. ASSUME ~failed PROVE Flows'
      <3>1. PICK over \in SUBSET (1..MaxStages), made, took \in [1..MaxStages -> 0..NITEMS] :
              Ended(over) /\ Flow(over, made, took)
        BY <2>5 DEF FlowInv, Flows
      <3>2. Ended(over)'
        BY <1>1, <3>1, EndedKept DEF HasLeft, HasRight, Early, RightPc
      <3>3. i \notin over
        <4>1. pc[E(i)] \in Early /\ i \in i..Len(line)
          BY <1>1, <2>2, <2>3, Here DEF Early
        <4> QED BY <2>3, <3>1, <4>1 DEF Ended
      <3>4. made[i] = 0 /\ took[i] = 0
        <4>1. made[i] = 0
          BY <2>3, <2>4, <3>1, <3>3 DEF Flow, Ran
        <4>2. Carried(i, over, made, took)
          BY <2>3, <3>1 DEF Flow
        <4>3. took[i] \in 0..NITEMS /\ NITEMS \in Nat
          BY <2>3, Here
        <4> QED BY <4>1, <4>2, <4>3 DEF Carried
      <3>5. ASSUME NEW j \in 1..Len(line) PROVE Ran(j, over, made, took)'
        <4>1. Runner(j) \in Proc /\ j \in Nat
          BY Here
        <4>2. Ran(j, over, made, took)
          BY <3>1 DEF Flow
        <4> QED BY <1>1, <1>2, <4>1, <4>2, RanKept
      <3>6. ASSUME NEW j \in 1..(Len(line) - 1) PROVE Carried(j, over, made, took)'
        <4>1. j \in Nat /\ j \in 1..Len(line) /\ j + 1 \in 1..Len(line) /\ j \in 1..MaxStages
          BY Here
        <4>2. Runner(j + 1) \in Proc /\ E(j) \in Proc
          BY <4>1, Here
        <4>3. Carried(j, over, made, took)
          BY <3>1 DEF Flow
        <4>4. CASE j # i
          <5>1. buf'[j] = buf[j]
            BY <1>5, <4>1, <4>4 DEF ShellInv, Types
          <5>2. E(j) # p
            BY <2>2, <4>4, Names
          <5> QED BY <1>1, <1>2, <4>1, <4>2, <4>3, <5>1, <5>2, CarriedKept
        <4>5. CASE j = i
          <5>1. buf'[i] = <<>>
            BY <1>5, <4>1, <4>5 DEF ShellInv, Types
          <5>2. Items(took[i], made[i]) = <<>>
            BY <3>4, ItemsEmpty
          <5>3. Runner(i + 1)' = Runner(i + 1)
            BY <1>1 DEF Runner
          <5> QED BY <1>1, <1>2, <3>4, <4>1, <4>2, <4>3, <4>5, <5>1, <5>2, <5>3 DEF Carried
        <4> QED BY <4>4, <4>5
      <3>7. line' = line /\ Flow(over, made, took)'
        BY <1>1, <3>5, <3>6 DEF Flow
      <3> QED BY <3>2, <3>7 DEF Flows
    <2> QED BY <1>3, <1>5, <2>5 DEF FlowInv
  <1> QED BY <1>4, <1>5 DEF execline_pipe

-----------------------------------------------------------------------------
(* fork() and wait(). *)

(* The left child starts. *)
LEMMA ExeclineFork1Flow ==
  ASSUME ShellInv, FlowInv, NEW p \in Proc \ {sh}, execline_fork1(p)
  PROVE  FlowInv'
  <1> DEFINE i == Stage(p)
             c == L(i)
  <1>1. pc[p] = "fork1" /\ UNCHANGED <<line, buf, n, item, written>>
    BY DEF execline_fork1, fork
  <1>2. /\ Place(p) /\ i \in 1..MaxStages /\ Len(line) \in 1..MaxStages
        /\ pc[p] \in PipePc => p[1] = "E"
    BY Known
  <1>3. p[1] = "E" /\ i < Len(line) /\ p = E(i)
    BY <1>1, <1>2, Kinds DEF PipePc, Place
  <1>4. i \in 1..Len(line) /\ i \in 1..(Len(line) - 1) /\ i \in 1..(MaxStages - 1) /\ i \in Nat
    BY <1>2, <1>3, Here
  <1>5. c \in Proc \ {sh} /\ p # c /\ pc[c] = "none" /\ Runner(i) = c
    <2>1. pc[E(i)] \notin HasLeft
      BY <1>1, <1>3 DEF HasLeft
    <2> QED BY <1>3, <1>4, <2>1, Names DEF ShellInv, Family, Runner
  <1>6. CASE Goto(p, "fork2") /\ failed' = TRUE
    <2>1. \A q \in Proc : pc'[q] = IF q = p THEN "fork2" ELSE pc[q]
      BY <1>6, Here DEF Goto
    <2>2. Idle'
      BY <1>1, <2>1, IdleKept DEF FlowInv
    <2> QED BY <1>6, <2>2, Failing
  <1>7. CASE pc' = [pc EXCEPT ![p] = "fork2", ![c] = "l_close1"] /\ failed' = failed
    <2> HIDE DEF i, c
    <2>1. \A q \in Proc : pc'[q] = IF q = p THEN "fork2" ELSE IF q = c THEN "l_close1" ELSE pc[q]
      BY <1>5, <1>7, Here
    <2>2. Idle'
      BY <1>1, <1>5, <2>1, IdleKept DEF FlowInv
    <2>3. ASSUME ~failed PROVE Flows'
      <3>1. PICK over \in SUBSET (1..MaxStages), made, took \in [1..MaxStages -> 0..NITEMS] :
              Ended(over) /\ Flow(over, made, took)
        BY <2>3 DEF FlowInv, Flows
      <3>2. Flow(over, made, took)'
        BY <1>1, <1>5, <2>1, <3>1, FlowKept DEF Piped, HasRight
      <3>3. \A j \in i..Len(line) : j \notin over
        BY <1>1, <1>3, <1>4, <3>1 DEF Ended, Early
      <3>4. pc'[sh] = pc[sh] /\ \A j : Runner(j)' = Runner(j)
        BY <1>1, <1>5, <2>1, Names DEF Runner
      <3>5. \A j \in 1..Len(line) : pc'[Runner(j)] \notin {"none", "zombie"} => j \notin over
        <4>1. TAKE j \in 1..Len(line)
        <4>2. CASE j = i
          BY <1>4, <3>3, <4>2, Here
        <4>3. CASE j # i
          <5>1. Runner(j) \in Proc /\ Runner(j) # c
            BY <1>4, <1>5, <4>3, Here
          <5>2. Runner(j) # p
            BY <1>3, <1>4, <4>3, Names DEF Runner
          <5> QED BY <2>1, <3>1, <5>1, <5>2 DEF Ended
        <4> QED BY <4>2, <4>3
      <3>6. \A j \in 1..Len(line) : pc'[Runner(j)] = "zombie" => j \in over
        BY <2>1, <3>1, Here DEF Ended
      <3>7. \A j \in 1..(Len(line) - 1) :
              pc'[E(j)] \in HasLeft \cup {"exit"} /\ pc'[L(j)] = "none" => j \in over
        <4>1. TAKE j \in 1..(Len(line) - 1)
        <4>2. j \in 1..Len(line) /\ j < Len(line)
          BY Here
        <4>3. E(j) \in Proc /\ L(j) \in Proc
          BY <4>2, Here
        <4>4. j # i => E(j) # p /\ E(j) # c /\ L(j) # p /\ L(j) # c
          BY <1>3, Names DEF c
        <4> QED BY <1>5, <2>1, <3>1, <4>3, <4>4 DEF Ended, c
      <3>8. \A j \in 1..Len(line) : pc'[E(j)] = "zombie" => \A k \in j..Len(line) : k \in over
        BY <2>1, <3>1, Here DEF Ended
      <3>9. \A j \in 1..(Len(line) - 1) :
              pc'[E(j)] \in HasRight \cup {"exit"} /\ pc'[E(j + 1)] = "none" =>
                \A k \in (j + 1)..Len(line) : k \in over
        <4>1. TAKE j \in 1..(Len(line) - 1)
        <4>2. j \in 1..Len(line) /\ j + 1 \in 1..Len(line)
          BY Here
        <4>3. E(j) \in Proc /\ E(j + 1) \in Proc
          BY <4>2, Here
        <4>4. "fork2" \notin HasRight \cup {"exit"} /\ "l_close1" \notin HasRight \cup {"exit"}
          BY DEF HasRight
        <4> QED BY <2>1, <3>1, <4>3, <4>4 DEF Ended
      <3>10. pc'[sh] \in {"prompt", "zombie"} \/ (pc'[sh] = "wait" /\ pc'[E(1)] = "none") =>
               \A j \in 1..Len(line) : j \in over
        <4>1. E(1) \in Proc
          BY Here
        <4> QED BY <2>1, <3>1, <3>4, <4>1 DEF Ended
      <3>11. \A j \in 1..Len(line) : pc'[E(j)] \in Early => \A k \in j..Len(line) : k \notin over
        BY <2>1, <3>1, Here DEF Ended, Early, RightPc
      <3>12. \A j \in 1..Len(line) : pc'[E(j)] = "fork2" =>
               \A k \in (j + 1)..Len(line) : k \notin over
        <4>1. TAKE j \in 1..Len(line)
        <4>2. CASE j = i
          BY <1>4, <3>3, <4>2, Here
        <4>3. CASE j # i
          <5>1. E(j) \in Proc /\ E(j) # p
            BY <1>3, <4>3, Here, Names
          <5> QED BY <2>1, <3>1, <5>1 DEF Ended
        <4> QED BY <4>2, <4>3
      <3>13. pc'[sh] = "fork" => \A j \in 1..Len(line) : j \notin over
        BY <3>1, <3>4 DEF Ended
      <3>14. Ended(over)'
        BY <1>1, <3>4, <3>5, <3>6, <3>7, <3>8, <3>9, <3>10, <3>11, <3>12, <3>13 DEF Ended
      <3> QED BY <3>2, <3>14 DEF Flows
    <2> QED BY <1>7, <2>2, <2>3 DEF FlowInv
  <1> QED BY <1>6, <1>7 DEF execline_fork1, fork

(* The right child starts. *)
LEMMA ExeclineFork2Flow ==
  ASSUME ShellInv, FlowInv, NEW p \in Proc \ {sh}, execline_fork2(p)
  PROVE  FlowInv'
  <1> DEFINE i == Stage(p)
             c == E(i + 1)
  <1>1. pc[p] = "fork2" /\ UNCHANGED <<line, buf, n, item, written>>
    BY DEF execline_fork2, fork
  <1>2. /\ Place(p) /\ i \in 1..MaxStages /\ Len(line) \in 1..MaxStages
        /\ pc[p] \in PipePc => p[1] = "E"
    BY Known
  <1>3. p[1] = "E" /\ i < Len(line) /\ p = E(i)
    BY <1>1, <1>2, Kinds DEF PipePc, Place
  <1>4. /\ i \in 1..Len(line) /\ i \in 1..(Len(line) - 1) /\ i \in 1..(MaxStages - 1) /\ i \in Nat
        /\ i + 1 \in 1..MaxStages /\ i + 1 \in 1..Len(line) /\ i < i + 1
    BY <1>2, <1>3, Here
  <1>5. c \in Proc \ {sh} /\ p # c /\ pc[c] = "none"
    <2>1. pc[E(i)] \notin HasRight
      BY <1>1, <1>3 DEF HasRight
    <2> QED BY <1>2, <1>3, <1>4, <2>1, Names DEF ShellInv, Family
  <1>6. CASE Goto(p, "close0") /\ failed' = TRUE
    <2>1. \A q \in Proc : pc'[q] = IF q = p THEN "close0" ELSE pc[q]
      BY <1>6, Here DEF Goto
    <2>2. Idle'
      BY <1>1, <2>1, IdleKept DEF FlowInv
    <2> QED BY <1>6, <2>2, Failing
  <1>7. CASE pc' = [pc EXCEPT ![p] = "close0", ![c] = "r_close0"] /\ failed' = failed
    <2> HIDE DEF i, c
    <2>1. \A q \in Proc : pc'[q] = IF q = p THEN "close0" ELSE IF q = c THEN "r_close0" ELSE pc[q]
      BY <1>5, <1>7, Here
    <2>2. Idle'
      BY <1>1, <1>5, <2>1, IdleKept DEF FlowInv
    <2>3. ASSUME ~failed PROVE Flows'
      <3>1. PICK over \in SUBSET (1..MaxStages), made, took \in [1..MaxStages -> 0..NITEMS] :
              Ended(over) /\ Flow(over, made, took)
        BY <2>3 DEF FlowInv, Flows
      <3>2. Flow(over, made, took)'
        BY <1>1, <1>5, <2>1, <3>1, FlowKept DEF Piped, HasRight
      <3>3. \A j \in (i + 1)..Len(line) : j \notin over
        BY <1>1, <1>3, <1>4, <3>1 DEF Ended
      <3>4. pc'[sh] = pc[sh] /\ \A j : Runner(j)' = Runner(j)
        BY <1>1, <1>5, <2>1, Names DEF Runner
      <3>5. \A j \in 1..Len(line) : pc'[Runner(j)] \notin {"none", "zombie"} => j \notin over
        <4>1. TAKE j \in 1..Len(line)
        <4>2. CASE Runner(j) = c
          <5>1. j = i + 1
            BY <4>2, Names DEF Runner, c
          <5> QED BY <1>4, <3>3, <5>1, Here
        <4>3. CASE Runner(j) # c
          <5>1. Runner(j) \in Proc
            BY Here
          <5>2. Runner(j) # p
            BY <1>3, <1>4, Names DEF Runner
          <5> QED BY <2>1, <3>1, <4>3, <5>1, <5>2 DEF Ended
        <4> QED BY <4>2, <4>3
      <3>6. \A j \in 1..Len(line) : pc'[Runner(j)] = "zombie" => j \in over
        BY <2>1, <3>1, Here DEF Ended
      <3>7. \A j \in 1..(Len(line) - 1) :
              pc'[E(j)] \in HasLeft \cup {"exit"} /\ pc'[L(j)] = "none" => j \in over
        <4>1. TAKE j \in 1..(Len(line) - 1)
        <4>2. j \in 1..Len(line) /\ j < Len(line)
          BY Here
        <4>3. E(j) \in Proc /\ L(j) \in Proc /\ L(j) # p /\ L(j) # c
          BY <1>3, <4>2, Here, Names DEF c
        <4>4. "fork2" \in HasLeft /\ "r_close0" \notin HasLeft \cup {"exit"}
          BY DEF HasLeft
        <4> QED BY <1>1, <1>5, <2>1, <3>1, <4>3, <4>4 DEF Ended
      <3>8. \A j \in 1..Len(line) : pc'[E(j)] = "zombie" => \A k \in j..Len(line) : k \in over
        BY <2>1, <3>1, Here DEF Ended
      <3>9. \A j \in 1..(Len(line) - 1) :
              pc'[E(j)] \in HasRight \cup {"exit"} /\ pc'[E(j + 1)] = "none" =>
                \A k \in (j + 1)..Len(line) : k \in over
        <4>1. TAKE j \in 1..(Len(line) - 1)
        <4>2. j \in 1..Len(line) /\ j + 1 \in 1..Len(line)
          BY Here
        <4>3. E(j) \in Proc /\ E(j + 1) \in Proc
          BY <4>2, Here
        <4>4. "r_close0" \notin HasRight \cup {"exit"}
          BY DEF HasRight
        <4>5. E(j) = p => E(j + 1) = c
          BY <1>3, Names DEF c
        <4> QED BY <2>1, <3>1, <4>3, <4>4, <4>5 DEF Ended
      <3>10. pc'[sh] \in {"prompt", "zombie"} \/ (pc'[sh] = "wait" /\ pc'[E(1)] = "none") =>
               \A j \in 1..Len(line) : j \in over
        <4>1. E(1) \in Proc
          BY Here
        <4> QED BY <2>1, <3>1, <3>4, <4>1 DEF Ended
      <3>11. \A j \in 1..Len(line) : pc'[E(j)] \in Early => \A k \in j..Len(line) : k \notin over
        <4>1. TAKE j \in 1..Len(line)
        <4>2. E(j) \in Proc
          BY Here
        <4>3. E(j) = c => j = i + 1
          BY Names DEF c
        <4>4. "close0" \notin Early
          BY DEF Early, RightPc
        <4> QED BY <2>1, <3>1, <3>3, <4>2, <4>3, <4>4 DEF Ended
      <3>12. \A j \in 1..Len(line) : pc'[E(j)] = "fork2" =>
               \A k \in (j + 1)..Len(line) : k \notin over
        BY <2>1, <3>1, Here DEF Ended
      <3>13. pc'[sh] = "fork" => \A j \in 1..Len(line) : j \notin over
        BY <3>1, <3>4 DEF Ended
      <3>14. Ended(over)'
        BY <1>1, <3>4, <3>5, <3>6, <3>7, <3>8, <3>9, <3>10, <3>11, <3>12, <3>13 DEF Ended
      <3> QED BY <3>2, <3>14 DEF Flows
    <2> QED BY <1>7, <2>2, <2>3 DEF FlowInv
  <1> QED BY <1>6, <1>7 DEF execline_fork2, fork

(* The shell starts the first process. *)
LEMMA MainForkFlow ==
  ASSUME ShellInv, FlowInv, main_fork
  PROVE  FlowInv'
  <1>1. pc[sh] = "fork" /\ UNCHANGED <<line, buf, n, item, written>>
    BY DEF main_fork, fork
  <1>2. \A q \in Proc \ {sh} : pc[q] = "none"
    BY <1>1, Alone
  <1>3. E(1) \in Proc \ {sh} /\ sh \in Proc
    BY Here, Names
  <1>4. CASE Goto(sh, "wait") /\ failed' = TRUE
    <2>1. \A q \in Proc : pc'[q] = IF q = sh THEN "wait" ELSE pc[q]
      BY <1>4, Here DEF Goto
    <2>2. Idle'
      BY <1>1, <2>1, IdleKept DEF FlowInv
    <2> QED BY <1>4, <2>2, Failing
  <1>5. CASE pc' = [pc EXCEPT ![sh] = "wait", ![E(1)] = "find"] /\ failed' = failed
    <2>1. \A q \in Proc : pc'[q] = IF q = sh THEN "wait" ELSE IF q = E(1) THEN "find" ELSE "none"
      BY <1>2, <1>3, <1>5, Here
    <2>2. Idle'
      BY <1>1, <1>2, <2>1, IdleKept DEF FlowInv
    <2>3. ASSUME ~failed PROVE Flows'
      <3>1. PICK over \in SUBSET (1..MaxStages), made, took \in [1..MaxStages -> 0..NITEMS] :
              Ended(over) /\ Flow(over, made, took)
        BY <2>3 DEF FlowInv, Flows
      <3>2. Flow(over, made, took)'
        <4>1. \A q \in Proc : pc'[q] # "prog" /\ pc[q] # "prog"
          BY <1>1, <1>2, <2>1
        <4>2. \A q \in Proc \ {sh} : pc'[q] \notin Piped
          BY <2>1 DEF Piped, HasRight
        <4> QED BY <1>1, <3>1, <4>1, <4>2, FlowKept
      <3>3. \A j \in 1..Len(line) : j \notin over
        BY <1>1, <3>1 DEF Ended
      <3>4. /\ pc'[sh] = "wait" /\ pc'[E(1)] = "find"
            /\ \A j \in 1..Len(line) : pc'[E(j)] \in {"find", "none"}
            /\ \A j \in 1..Len(line) : pc'[Runner(j)] # "zombie"
            /\ \A j \in 1..Len(line) : j \in Nat
            /\ \A j : Runner(j)' = Runner(j)
        BY <1>1, <1>3, <2>1, Here DEF Runner
      <3>5. \A j \in 1..Len(line) : \A k \in j..Len(line) : k \in 1..Len(line)
        BY Here
      <3>6. Ended(over)'
        <4>1. \A j \in 1..(Len(line) - 1) : pc'[E(j)] \in {"find", "none"}
          BY <3>4, Here
        <4>2. \A j \in 1..Len(line) : pc'[E(j)] # "zombie" /\ pc'[E(j)] # "fork2"
          BY <3>4
        <4>3. \A l : l \in {"find", "none"} => l \notin HasLeft \cup {"exit"} /\ l \notin HasRight \cup {"exit"}
          BY DEF HasLeft, HasRight
        <4> QED BY <1>1, <3>3, <3>4, <3>5, <4>1, <4>2, <4>3 DEF Ended
      <3> QED BY <3>2, <3>6 DEF Flows
    <2> QED BY <1>5, <2>2, <2>3 DEF FlowInv
  <1> QED BY <1>4, <1>5 DEF main_fork, fork

(* execline() reaps a child: what its end meant for the line is known. *)
LEMMA ExeclineWaitFlow ==
  ASSUME ShellInv, FlowInv, NEW p \in Proc \ {sh}, execline_wait(p)
  PROVE  FlowInv'
  <1> DEFINE i == Stage(p)
  <1>1. PICK next \in {"wait2", "exit"} :
          /\ pc[p] \in {"wait1", "wait2"} /\ (next = "wait2" => pc[p] = "wait1")
          /\ wait(p, next)
    BY DEF execline_wait
  <1>2. UNCHANGED <<line, buf, n, item, written, failed>>
    BY <1>1 DEF wait
  <1>3. /\ Place(p) /\ i \in 1..MaxStages /\ Len(line) \in 1..MaxStages
        /\ pc[p] \in PipePc => p[1] = "E"
    BY Known
  <1>4. p[1] = "E" /\ i < Len(line) /\ p = E(i)
    BY <1>1, <1>3, Kinds DEF PipePc, Place
  <1>5. /\ i \in 1..Len(line) /\ i \in 1..(Len(line) - 1) /\ i \in 1..(MaxStages - 1) /\ i \in Nat
        /\ i + 1 \in 1..MaxStages /\ i + 1 \in 1..Len(line) /\ i < i + 1
    BY <1>3, <1>4, Here
  <1>6. L(i) \in Proc \ {sh} /\ E(i + 1) \in Proc \ {sh} /\ p # L(i) /\ p # E(i + 1) /\ L(i) # E(i + 1)
    BY <1>4, <1>5, Names
  <1> HIDE DEF i
  <1>7. PICK q \in {L(i), E(i + 1)} :
          pc[q] \in {"none", "zombie"} /\ pc' = [pc EXCEPT ![p] = next, ![q] = "none"]
    <2> DEFINE children == {q \in Proc \ {sh} : Parent(q) = p /\ pc[q] # "none"}
    <2>1. CASE children = {} /\ Goto(p, next)
      <3>1. pc[L(i)] = "none"
        BY <1>4, <1>5, <1>6, <2>1, Children
      <3>2. [pc EXCEPT ![p] = next, ![L(i)] = "none"] = [pc EXCEPT ![p] = next]
        BY <1>6, <3>1, Here
      <3> QED BY <2>1, <3>1, <3>2 DEF Goto
    <2>2. CASE \E q \in children : /\ pc[q] = "zombie"
                                   /\ pc' = [pc EXCEPT ![p] = next, ![q] = "none"]
      <3>1. PICK q \in children : /\ pc[q] = "zombie"
                                  /\ pc' = [pc EXCEPT ![p] = next, ![q] = "none"]
        BY <2>2
      <3>2. q \in {L(i), E(i + 1)}
        BY <1>4, <1>5, Children
      <3> QED BY <3>1, <3>2
    <2> QED BY <1>1, <2>1, <2>2 DEF wait
  <1>8. \A r \in Proc : pc'[r] = IF r = q THEN "none" ELSE IF r = p THEN next ELSE pc[r]
    BY <1>6, <1>7, Here
  <1>9. Idle' /\ \A r \in Proc : pc'[r] = "prog" <=> pc[r] = "prog"
    <2>1. pc[q] # "prog" /\ pc[p] # "prog" /\ next # "prog"
      BY <1>1, <1>7
    <2>2. \A r \in Proc : pc'[r] = "prog" <=> pc[r] = "prog"
      BY <1>8, <2>1
    <2> QED BY <1>2, <2>2, IdleKept DEF FlowInv
  <1>10. ASSUME ~failed PROVE Flows'
    <2>1. PICK over \in SUBSET (1..MaxStages), made, took \in [1..MaxStages -> 0..NITEMS] :
            Ended(over) /\ Flow(over, made, took)
      BY <1>10 DEF FlowInv, Flows
    <2>2. Flow(over, made, took)'
      <3>1. \A r \in Proc : pc'[r] = "prog" <=> pc[r] = "prog"
        BY <1>9
      <3>2. \A r \in Proc \ {sh} : pc'[r] \in Piped => pc[r] \in Piped
        BY <1>1, <1>8 DEF Piped, HasRight
      <3> QED BY <1>2, <2>1, <3>1, <3>2, FlowKept
    <2>3. pc'[sh] = pc[sh] /\ \A j : Runner(j)' = Runner(j)
      BY <1>2, <1>6, <1>8, Names DEF Runner
    <2>4. \A j \in 1..Len(line) : Runner(j) \in Proc /\ Runner(j) # p
      BY <1>4, <1>5, Here, Names DEF Runner
    <2>5. \A j \in 1..Len(line) : pc'[Runner(j)] \notin {"none", "zombie"} => j \notin over
      BY <1>8, <2>1, <2>4 DEF Ended
    <2>6. \A j \in 1..Len(line) : pc'[Runner(j)] = "zombie" => j \in over
      BY <1>8, <2>1, <2>4 DEF Ended
    <2>7. \A j \in 1..(Len(line) - 1) :
            pc'[E(j)] \in HasLeft \cup {"exit"} /\ pc'[L(j)] = "none" => j \in over
      <3>1. SUFFICES ASSUME NEW j \in 1..(Len(line) - 1),
                            pc'[E(j)] \in HasLeft \cup {"exit"}, pc'[L(j)] = "none"
                     PROVE  j \in over
        OBVIOUS
      <3>2. j \in 1..Len(line) /\ j < Len(line)
        BY Here
      <3>3. E(j) \in Proc /\ L(j) \in Proc /\ L(j) # p /\ Runner(j) = L(j)
        BY <1>4, <3>2, Here, Names
      <3>4. pc[E(j)] \in HasLeft \cup {"exit"}
        BY <1>1, <1>8, <3>1, <3>3 DEF HasLeft
      <3>5. CASE L(j) = q /\ pc[q] = "zombie"
        BY <2>1, <3>2, <3>3, <3>5 DEF Ended
      <3>6. CASE pc[L(j)] = "none"
        BY <2>1, <3>4, <3>6 DEF Ended
      <3> QED BY <1>7, <1>8, <3>1, <3>3, <3>5, <3>6
    <2>8. \A j \in 1..Len(line) : pc'[E(j)] = "zombie" => \A k \in j..Len(line) : k \in over
      BY <1>8, <2>1, Here DEF Ended
    <2>9. \A j \in 1..(Len(line) - 1) :
            pc'[E(j)] \in HasRight \cup {"exit"} /\ pc'[E(j + 1)] = "none" =>
              \A k \in (j + 1)..Len(line) : k \in over
      <3>1. SUFFICES ASSUME NEW j \in 1..(Len(line) - 1),
                            pc'[E(j)] \in HasRight \cup {"exit"}, pc'[E(j + 1)] = "none"
                     PROVE  \A k \in (j + 1)..Len(line) : k \in over
        OBVIOUS
      <3>2. j \in 1..Len(line) /\ j + 1 \in 1..Len(line)
        BY Here
      <3>3. E(j) \in Proc /\ E(j + 1) \in Proc
        BY <3>2, Here
      <3>4. pc[E(j)] \in HasRight \cup {"exit"}
        BY <1>1, <1>8, <3>1, <3>3 DEF HasRight
      <3>5. CASE E(j + 1) = q /\ pc[q] = "zombie"
        BY <2>1, <3>2, <3>5 DEF Ended
      <3>6. CASE pc[E(j + 1)] = "none"
        BY <2>1, <3>4, <3>6 DEF Ended
      <3> QED BY <1>1, <1>7, <1>8, <3>1, <3>3, <3>5, <3>6
    <2>10. pc'[sh] \in {"prompt", "zombie"} \/ (pc'[sh] = "wait" /\ pc'[E(1)] = "none") =>
             \A j \in 1..Len(line) : j \in over
      <3>1. E(1) \in Proc
        BY Here
      <3>2. q # E(1)
        BY <1>5, Names
      <3> QED BY <1>1, <1>8, <2>1, <2>3, <3>1, <3>2 DEF Ended
    <2>11. \A j \in 1..Len(line) : pc'[E(j)] \in Early => \A k \in j..Len(line) : k \notin over
      <3>1. "none" \notin Early /\ next \notin Early
        BY DEF Early, RightPc
      <3> QED BY <1>8, <2>1, <3>1, Here DEF Ended
    <2>12. \A j \in 1..Len(line) : pc'[E(j)] = "fork2" =>
             \A k \in (j + 1)..Len(line) : k \notin over
      BY <1>8, <2>1, Here DEF Ended
    <2>13. pc'[sh] = "fork" => \A j \in 1..Len(line) : j \notin over
      BY <2>1, <2>3 DEF Ended
    <2>14. Ended(over)'
      BY <1>2, <2>3, <2>5, <2>6, <2>7, <2>8, <2>9, <2>10, <2>11, <2>12, <2>13 DEF Ended
    <2> QED BY <2>2, <2>14 DEF Flows
  <1> QED BY <1>2, <1>9, <1>10 DEF FlowInv

-----------------------------------------------------------------------------
(* exit(). *)

(* execline() ends after its children: all commands from here on are over. *)
LEMMA ExeclineExitFlow ==
  ASSUME ShellInv, FlowInv, NEW p \in Proc \ {sh}, execline_exit(p)
  PROVE  FlowInv'
  <1> DEFINE i == Stage(p)
  <1>1. pc[p] = "exit" /\ exit(p) /\ failed' = failed
    BY DEF execline_exit
  <1>2. /\ pc' = [pc EXCEPT ![p] = "zombie"] /\ UNCHANGED <<line, buf, written>>
        /\ n' = [n EXCEPT ![p] = 0] /\ item' = [item EXCEPT ![p] = 0]
    BY <1>1 DEF exit, Goto
  <1>3. /\ Place(p) /\ i \in 1..MaxStages /\ Len(line) \in 1..MaxStages
        /\ pc[p] \in PipePc => p[1] = "E"
    BY Known
  <1>4. p[1] = "E" /\ i < Len(line) /\ p = E(i)
    BY <1>1, <1>3, Kinds DEF PipePc, Place
  <1>5. /\ i \in 1..Len(line) /\ i \in 1..(Len(line) - 1) /\ i \in 1..(MaxStages - 1) /\ i \in Nat
        /\ i + 1 \in 1..MaxStages /\ i + 1 \in 1..Len(line) /\ i < i + 1
    BY <1>3, <1>4, Here
  <1>6. pc[L(i)] = "none" /\ pc[E(i + 1)] = "none"
    <2>1. pc[E(i)] \notin HasLeft /\ pc[E(i)] \notin HasRight
      BY <1>1, <1>4 DEF HasLeft, HasRight
    <2> QED BY <1>3, <1>5, <2>1 DEF ShellInv, Family
  <1>7. Idle' /\ n' = n /\ item' = item
    <2>1. n \in [Proc -> 0..NITEMS] /\ item \in [Proc -> 0..NITEMS] /\ n[p] = 0 /\ item[p] = 0
      BY <1>1 DEF ShellInv, Types, FlowInv, Idle
    <2> QED BY <1>1, <1>2, <2>1, IdleExit DEF FlowInv
  <1> HIDE DEF i
  <1>8. \A r \in Proc : pc'[r] = IF r = p THEN "zombie" ELSE pc[r]
    BY <1>2, Here
  <1>9. ASSUME ~failed PROVE Flows'
    <2>1. PICK over \in SUBSET (1..MaxStages), made, took \in [1..MaxStages -> 0..NITEMS] :
            Ended(over) /\ Flow(over, made, took)
      BY <1>9 DEF FlowInv, Flows
    <2>2. Flow(over, made, took)'
      <3>1. \A r \in Proc : pc'[r] = "prog" <=> pc[r] = "prog"
        BY <1>1, <1>8
      <3>2. \A r \in Proc \ {sh} : pc'[r] \in Piped => pc[r] \in Piped
        BY <1>8 DEF Piped, HasRight
      <3> QED BY <1>2, <1>7, <2>1, <3>1, <3>2, FlowKept
    <2>3. pc'[sh] = pc[sh] /\ \A j : Runner(j)' = Runner(j)
      BY <1>2, <1>8, Names DEF Runner
    <2>4. \A j \in 1..Len(line) : Runner(j) \in Proc /\ Runner(j) # p
      BY <1>4, <1>5, Here, Names DEF Runner
    <2>5. \A j \in 1..Len(line) : pc'[Runner(j)] \notin {"none", "zombie"} => j \notin over
      BY <1>8, <2>1, <2>4 DEF Ended
    <2>6. \A j \in 1..Len(line) : pc'[Runner(j)] = "zombie" => j \in over
      BY <1>8, <2>1, <2>4 DEF Ended
    <2>7. \A j \in 1..(Len(line) - 1) :
            pc'[E(j)] \in HasLeft \cup {"exit"} /\ pc'[L(j)] = "none" => j \in over
      <3>1. TAKE j \in 1..(Len(line) - 1)
      <3>2. j \in 1..Len(line) /\ j < Len(line)
        BY Here
      <3>3. E(j) \in Proc /\ L(j) \in Proc /\ L(j) # p
        BY <1>4, <3>2, Here, Names
      <3> QED BY <1>8, <2>1, <3>3 DEF Ended, HasLeft
    <2>8. \A j \in 1..Len(line) : pc'[E(j)] = "zombie" => \A k \in j..Len(line) : k \in over
      <3>1. i \in over
        BY <1>1, <1>4, <1>5, <1>6, <2>1 DEF Ended
      <3>2. \A k \in (i + 1)..Len(line) : k \in over
        BY <1>1, <1>4, <1>5, <1>6, <2>1 DEF Ended
      <3>3. \A k \in i..Len(line) : k = i \/ k \in (i + 1)..Len(line)
        BY <1>5, Here
      <3>4. TAKE j \in 1..Len(line)
      <3>5. CASE j = i
        BY <3>1, <3>2, <3>3, <3>5
      <3>6. CASE j # i
        <4>1. E(j) \in Proc /\ E(j) # p
          BY <1>4, <3>6, Here, Names
        <4> QED BY <1>8, <2>1, <4>1 DEF Ended
      <3> QED BY <3>5, <3>6
    <2>9. \A j \in 1..(Len(line) - 1) :
            pc'[E(j)] \in HasRight \cup {"exit"} /\ pc'[E(j + 1)] = "none" =>
              \A k \in (j + 1)..Len(line) : k \in over
      <3>1. TAKE j \in 1..(Len(line) - 1)
      <3>2. j \in 1..Len(line) /\ j + 1 \in 1..Len(line)
        BY Here
      <3>3. E(j) \in Proc /\ E(j + 1) \in Proc
        BY <3>2, Here
      <3>4. "zombie" \notin HasRight \cup {"exit"}
        BY DEF HasRight
      <3> QED BY <1>8, <2>1, <3>3, <3>4 DEF Ended
    <2>10. pc'[sh] \in {"prompt", "zombie"} \/ (pc'[sh] = "wait" /\ pc'[E(1)] = "none") =>
             \A j \in 1..Len(line) : j \in over
      <3>1. E(1) \in Proc
        BY Here
      <3> QED BY <1>8, <2>1, <2>3, <3>1 DEF Ended
    <2>11. \A j \in 1..Len(line) : pc'[E(j)] \in Early => \A k \in j..Len(line) : k \notin over
      <3>1. "zombie" \notin Early
        BY DEF Early, RightPc
      <3> QED BY <1>8, <2>1, <3>1, Here DEF Ended
    <2>12. \A j \in 1..Len(line) : pc'[E(j)] = "fork2" =>
             \A k \in (j + 1)..Len(line) : k \notin over
      BY <1>8, <2>1, Here DEF Ended
    <2>13. pc'[sh] = "fork" => \A j \in 1..Len(line) : j \notin over
      BY <2>1, <2>3 DEF Ended
    <2>14. Ended(over)'
      BY <1>2, <2>3, <2>5, <2>6, <2>7, <2>8, <2>9, <2>10, <2>11, <2>12, <2>13 DEF Ended
    <2> QED BY <2>2, <2>14 DEF Flows
  <1> QED BY <1>1, <1>7, <1>9 DEF FlowInv

(* A command has put out everything, or nobody reads it. *)
Finished(i, over, made) ==
  \/ made[i] = Len(Output[i])
  \/ /\ i < Len(line) /\ ~line[i].outfile
     /\ i + 1 \in over \/ line[i + 1].infile

(* A command ends. *)
LEMMA CommandEnds ==
  ASSUME ShellInv, NEW p \in Proc \ {sh}, pc[p] \in RunPc, exit(p),
         NEW over \in SUBSET (1..MaxStages),
         NEW made \in [1..MaxStages -> 0..NITEMS], NEW took \in [1..MaxStages -> 0..NITEMS],
         Ended(over), Flow(over, made, took), Finished(Stage(p), over, made)
  PROVE  Flows'
  <1> DEFINE i == Stage(p)
             over2 == over \cup {i}
  <1>1. i \in 1..Len(line) /\ p = Runner(i) /\ i \in Nat /\ i \in 1..MaxStages
    BY RunnerOf, Here
  <1>2. /\ pc' = [pc EXCEPT ![p] = "zombie"] /\ UNCHANGED <<line, buf, written>>
        /\ n' = [n EXCEPT ![p] = 0] /\ item' = [item EXCEPT ![p] = 0]
    BY DEF exit, Goto
  <1>3. n \in [Proc -> 0..NITEMS] /\ item \in [Proc -> 0..NITEMS]
    BY DEF ShellInv, Types
  <1>4. \A r \in Proc : /\ pc'[r] = IF r = p THEN "zombie" ELSE pc[r]
                        /\ r # p => n'[r] = n[r] /\ item'[r] = item[r]
    BY <1>2, <1>3, Here
  <1>5. Finished(i, over, made)
    OBVIOUS
  <1>6. over2 \in SUBSET (1..MaxStages) /\ i \in over2 /\ \A j : j # i => (j \in over2 <=> j \in over)
    BY <1>1
  <1> HIDE DEF i, over2
  <1>7. /\ pc'[sh] = pc[sh] /\ \A j : Runner(j)' = Runner(j)
        /\ \A j \in 1..Len(line) : Runner(j) \in Proc /\ (j # i => Runner(j) # p)
    BY <1>1, <1>2, <1>4, Here, Names DEF Runner
  <1>8. Flow(over2, made, took)'
    <2>1. Ran(i, over2, made, took)'
      <3>1. Ran(i, over, made, took)
        BY <1>1 DEF Flow
      <3>2. Output' = Output
        BY <1>2, OutputKept
      <3>3. pc'[Runner(i)] # "prog" /\ Runner(i)' = Runner(i)
        BY <1>1, <1>4, <1>7
      <3>4. i + 1 \in over => i + 1 \in over2
        BY <1>6
      <3> QED BY <1>2, <1>5, <1>6, <3>1, <3>2, <3>3, <3>4 DEF Ran, Finished
    <2>2. ASSUME NEW j \in 1..Len(line), j # i PROVE Ran(j, over2, made, took)'
      <3>1. Ran(j, over, made, took) /\ j \in Nat
        BY Here DEF Flow
      <3>2. Runner(j) \in Proc /\ Runner(j) # p
        BY <1>7, <2>2
      <3>3. (j \in over2 <=> j \in over) /\ (j + 1 \in over => j + 1 \in over2)
        BY <1>6, <2>2
      <3> QED BY <1>2, <1>4, <3>1, <3>2, <3>3, RanKept
    <2>3. ASSUME NEW j \in 1..(Len(line) - 1) PROVE Carried(j, over2, made, took)'
      <3>1. j \in Nat /\ j \in 1..Len(line) /\ j + 1 \in 1..Len(line)
        BY Here
      <3>2. Runner(j + 1) \in Proc /\ E(j) \in Proc /\ (j + 1 # i => Runner(j + 1) # p)
        BY <1>7, <3>1, Here
      <3>3. Carried(j, over, made, took)
        BY DEF Flow
      <3>4. pc'[E(j)] \in Piped => pc[E(j)] \in Piped
        BY <1>4, <3>2 DEF Piped, HasRight
      <3>5. j + 1 \notin over2 => j + 1 # i /\ j + 1 \notin over
        BY <1>6
      <3>6. j + 1 \notin over2 /\ pc'[Runner(j + 1)] # "prog" =>
              j + 1 \notin over /\ pc[Runner(j + 1)] # "prog"
        BY <1>4, <3>2, <3>5
      <3> QED BY <1>2, <3>1, <3>3, <3>4, <3>6, CarriedKept
    <2> QED BY <1>2, <2>1, <2>2, <2>3 DEF Flow
  <1>9. /\ pc[p] \notin {"none", "zombie"} /\ pc[p] \notin Early /\ pc[p] # "fork2"
        /\ pc[p] \notin HasLeft \cup {"exit"} /\ pc[p] \notin HasRight \cup {"exit"}
    BY DEF RunPc, Early, RightPc, HasLeft, HasRight
  <1>10. pc[sh] = "wait"
    BY <1>9 DEF ShellInv, Family
  <1>11. ASSUME NEW j \in 1..Len(line), j <= i, pc[E(j)] \in Early \/ (pc[E(j)] = "fork2" /\ j < i)
         PROVE  FALSE
    <2>1. E(j) # p
      BY <1>9, <1>11
    <2>2. i = j => p = L(j) /\ j \in 1..(MaxStages - 1)
      BY <1>1, <2>1, Here DEF Runner
    <2>3. pc[E(i)] # "none"
      <3>1. CASE p = E(i) BY <1>9, <3>1
      <3>2. CASE p = L(i) /\ i \in 1..(MaxStages - 1)
        BY <1>9, <3>2 DEF ShellInv, Family, HasLeft
      <3> QED BY <1>1, <3>1, <3>2, Here DEF Runner
    <2>4. i # j => pc[E(j)] \in HasRight
      BY <1>1, <1>11, <2>3, Here DEF ShellInv, Family
    <2>5. i = j => pc[E(j)] \in HasLeft
      BY <1>9, <2>2 DEF ShellInv, Family
    <2> QED BY <1>11, <2>4, <2>5 DEF Early, RightPc, HasLeft, HasRight
  <1>12. \A j \in 1..Len(line) : pc'[Runner(j)] \notin {"none", "zombie"} => j \notin over2
    <2>1. TAKE j \in 1..Len(line)
    <2>2. CASE j = i BY <1>1, <1>4, <1>7, <2>2
    <2>3. CASE j # i BY <1>4, <1>6, <1>7, <2>3 DEF Ended
    <2> QED BY <2>2, <2>3
  <1>13. \A j \in 1..Len(line) : pc'[Runner(j)] = "zombie" => j \in over2
    <2>1. TAKE j \in 1..Len(line)
    <2>2. CASE j = i BY <1>6, <2>2
    <2>3. CASE j # i BY <1>4, <1>6, <1>7, <2>3 DEF Ended
    <2> QED BY <2>2, <2>3
  <1>14. \A j : j \in over => j \in over2
    BY <1>6
  <1>15. \A j \in 1..(Len(line) - 1) :
           pc'[E(j)] \in HasLeft \cup {"exit"} /\ pc'[L(j)] = "none" => j \in over2
    <2>1. TAKE j \in 1..(Len(line) - 1)
    <2>2. j \in 1..Len(line) /\ j < Len(line)
      BY Here
    <2>3. E(j) \in Proc /\ L(j) \in Proc
      BY <2>2, Here
    <2>4. "zombie" \notin HasLeft \cup {"exit"}
      BY DEF HasLeft
    <2> QED BY <1>4, <1>14, <2>3, <2>4 DEF Ended
  <1>16. \A j \in 1..Len(line) : pc'[E(j)] = "zombie" => \A k \in j..Len(line) : k \in over2
    <2>1. TAKE j \in 1..Len(line)
    <2>2. E(j) \in Proc
      BY Here
    <2>3. CASE E(j) = p
      <3>1. j = i /\ ~(i < Len(line))
        BY <1>1, <2>3, Names DEF Runner
      <3>2. \A k \in j..Len(line) : k = i
        BY <1>1, <3>1, Here
      <3> QED BY <1>6, <3>2
    <2>4. CASE E(j) # p
      BY <1>4, <1>14, <2>2, <2>4 DEF Ended
    <2> QED BY <2>3, <2>4
  <1>17. \A j \in 1..(Len(line) - 1) :
           pc'[E(j)] \in HasRight \cup {"exit"} /\ pc'[E(j + 1)] = "none" =>
             \A k \in (j + 1)..Len(line) : k \in over2
    <2>1. TAKE j \in 1..(Len(line) - 1)
    <2>2. j \in 1..Len(line) /\ j + 1 \in 1..Len(line)
      BY Here
    <2>3. E(j) \in Proc /\ E(j + 1) \in Proc
      BY <2>2, Here
    <2>4. "zombie" \notin HasRight \cup {"exit"}
      BY DEF HasRight
    <2> QED BY <1>4, <1>14, <2>3, <2>4 DEF Ended
  <1>18. pc'[sh] \in {"prompt", "zombie"} \/ (pc'[sh] = "wait" /\ pc'[E(1)] = "none") =>
           \A j \in 1..Len(line) : j \in over2
    <2>1. E(1) \in Proc
      BY Here
    <2> QED BY <1>4, <1>7, <1>14, <2>1 DEF Ended
  <1>19. \A j \in 1..Len(line) : pc'[E(j)] \in Early => \A k \in j..Len(line) : k \notin over2
    <2>1. TAKE j \in 1..Len(line)
    <2>2. E(j) \in Proc /\ "zombie" \notin Early /\ j \in Nat
      BY Here DEF Early, RightPc
    <2>3. SUFFICES ASSUME pc'[E(j)] \in Early, NEW k \in j..Len(line) PROVE k \notin over2
      OBVIOUS
    <2>4. pc[E(j)] \in Early /\ k \notin over
      BY <1>4, <2>2, <2>3 DEF Ended
    <2>5. k # i
      BY <1>1, <1>11, <2>2, <2>4
    <2> QED BY <1>6, <2>4, <2>5
  <1>20. \A j \in 1..Len(line) : pc'[E(j)] = "fork2" =>
           \A k \in (j + 1)..Len(line) : k \notin over2
    <2>1. TAKE j \in 1..Len(line)
    <2>2. E(j) \in Proc /\ j \in Nat
      BY Here
    <2>3. SUFFICES ASSUME pc'[E(j)] = "fork2", NEW k \in (j + 1)..Len(line) PROVE k \notin over2
      OBVIOUS
    <2>4. pc[E(j)] = "fork2" /\ k \notin over
      BY <1>4, <2>2, <2>3 DEF Ended
    <2>5. k # i
      BY <1>1, <1>11, <2>2, <2>4
    <2> QED BY <1>6, <2>4, <2>5
  <1>21. pc'[sh] # "fork"
    BY <1>7, <1>10
  <1>22. Ended(over2)'
    BY <1>2, <1>7, <1>12, <1>13, <1>15, <1>16, <1>17, <1>18, <1>19, <1>20, <1>21 DEF Ended
  <1> QED BY <1>6, <1>8, <1>22 DEF Flows

(* What command i computes, from the command before it. *)
LEMMA OutputAt ==
  ASSUME ShellInv, NEW i \in 1..Len(line)
  PROVE  /\ Output[i] = IF Source(i) THEN AllItems ELSE IF Passes(i) THEN Output[i - 1] ELSE <<>>
         /\ Output[i] = Items(0, Len(Output[i]))
         /\ Len(AllItems) = NITEMS /\ Len(<<>>) = 0
         /\ AllItems = <<>> <=> NITEMS = 0
  <1>1. line \in Lines /\ i \in 0..MaxStages /\ NITEMS \in Nat /\ i \in Nat
    BY Here DEF ShellInv, Types
  <1>2. Output[i] = OutputOf(Output, i) /\ Output[i] \in {<<>>, AllItems}
    BY <1>1, OutputUnfolds, OutputIs
  <1>3. ~(i = 0 \/ i > Len(line))
    BY <1>1, Here
  <1>4. Output[i] = IF Source(i) THEN AllItems ELSE IF Passes(i) THEN Output[i - 1] ELSE <<>>
    BY <1>2, <1>3 DEF OutputOf
  <1>5. AllItems = Items(0, NITEMS)
    <2>1. NITEMS - 0 = NITEMS /\ \A k \in 1..NITEMS : 0 + k = k
      BY <1>1
    <2> QED BY <2>1 DEF AllItems, Items
  <1>6. Len(AllItems) = NITEMS /\ (AllItems = <<>> <=> NITEMS = 0)
    <2>1. 0 \in Nat /\ 0 <= NITEMS
      BY <1>1
    <2>2. Len(Items(0, NITEMS)) = NITEMS - 0
      BY <1>1, <2>1, ItemsFacts
    <2>3. Items(0, NITEMS) = <<>> <=> 0 = NITEMS
      BY <1>1, <2>1, ItemsEmpty
    <2> QED BY <1>1, <1>5, <2>2, <2>3
  <1>7. Items(0, 0) = <<>> /\ Len(<<>>) = 0
    BY ItemsEmpty
  <1>8. Output[i] = Items(0, Len(Output[i]))
    BY <1>2, <1>5, <1>6, <1>7
  <1> QED BY <1>4, <1>6, <1>7, <1>8

(* A command that has read everything there was ends complete. *)
LEMMA EndsInv ==
  ASSUME ShellInv, FlowInv, NEW p \in Proc \ {sh}, pc[p] \in RunPc, exit(p), failed' = failed,
         \A over \in SUBSET (1..MaxStages), made, took \in [1..MaxStages -> 0..NITEMS] :
           ~failed /\ Ended(over) /\ Flow(over, made, took) => Finished(Stage(p), over, made)
  PROVE  FlowInv'
  <1>1. Idle'
    BY IdleExit DEF FlowInv
  <1>2. ASSUME ~failed PROVE Flows'
    <2>1. PICK over \in SUBSET (1..MaxStages), made, took \in [1..MaxStages -> 0..NITEMS] :
            Ended(over) /\ Flow(over, made, took)
      BY <1>2 DEF FlowInv, Flows
    <2>2. Finished(Stage(p), over, made)
      BY <1>2, <2>1
    <2> QED BY <2>1, <2>2, CommandEnds
  <1> QED BY <1>1, <1>2 DEF FlowInv

(* A command without words has nothing to put out. *)
LEMMA RuncmdEmptyFlow ==
  ASSUME ShellInv, FlowInv, NEW p \in Proc \ {sh}, runcmd_empty(p)
  PROVE  FlowInv'
  <1> DEFINE i == Stage(p)
  <1>1. pc[p] = "run" /\ exit(p) /\ failed' = failed /\ line[i].prog = ""
    BY DEF runcmd_empty, Cmd
  <1>2. pc[p] \in RunPc /\ i \in 1..Len(line)
    BY <1>1, RunnerOf DEF RunPc
  <1> HIDE DEF i
  <1>3. Output[i] = <<>> /\ Len(<<>>) = 0
    BY <1>1, <1>2, OutputAt DEF Source, Passes
  <1>4. ASSUME NEW over, NEW made, NEW took, Flow(over, made, took)
        PROVE  Finished(i, over, made)
    BY <1>2, <1>3, <1>4 DEF Flow, Ran, Finished
  <1> QED BY <1>1, <1>2, <1>4, EndsInv DEF i

(* "quit" puts out nothing, "gen" has put out everything. *)
LEMMA ProgExitFlow ==
  ASSUME ShellInv, FlowInv, NEW p \in Proc \ {sh}, prog_exit(p)
  PROVE  FlowInv'
  <1> DEFINE i == Stage(p)
  <1>1. pc[p] = "prog" /\ exit(p) /\ failed' = failed
    BY DEF prog_exit, Running
  <1>2. line[i].prog = "quit" \/ (line[i].prog = "gen" /\ n[p] = NITEMS)
    BY DEF prog_exit, Running, Cmd
  <1>3. pc[p] \in RunPc /\ i \in 1..Len(line) /\ p = Runner(i)
    BY <1>1, RunnerOf DEF RunPc
  <1> HIDE DEF i
  <1>4. ASSUME NEW over, NEW made, NEW took, Flow(over, made, took)
        PROVE  Finished(i, over, made)
    <2>1. Ran(i, over, made, took)
      BY <1>3, <1>4 DEF Flow
    <2>2. CASE line[i].prog = "quit"
      <3>1. Output[i] = <<>> /\ Len(<<>>) = 0
        BY <1>3, <2>2, OutputAt DEF Source, Passes
      <3> QED BY <2>1, <3>1 DEF Ran, Finished
    <2>3. CASE line[i].prog = "gen" /\ n[p] = NITEMS
      <3>1. Output[i] = AllItems /\ Len(AllItems) = NITEMS
        BY <1>3, <2>3, OutputAt DEF Source
      <3> QED BY <1>1, <1>3, <2>1, <2>3, <3>1 DEF Ran, Finished
    <2> QED BY <1>2, <2>2, <2>3
  <1> QED BY <1>1, <1>3, <1>4, EndsInv DEF i

-----------------------------------------------------------------------------
(* The programs. *)


(* The files of a running program, and its neighbours. *)
LEMMA RunningFacts ==
  ASSUME ShellInv, ~failed, NEW p \in Proc \ {sh}, pc[p] = "prog"
  PROVE  /\ Stage(p) \in 1..Len(line) /\ Stage(p) \in Nat /\ p = Runner(Stage(p))
         /\ Stage(p) \in 1..MaxStages
         /\ ofile[p][0] = From(Stage(p)) /\ ofile[p][1] = To(Stage(p))
         /\ Stage(p) > 1 => /\ Stage(p) - 1 \in 1..(Len(line) - 1)
                            /\ pc[E(Stage(p) - 1)] \in HasRight
         /\ Stage(p) < Len(line) => /\ Stage(p) \in 1..(Len(line) - 1)
                                    /\ pc[E(Stage(p))] \in HasLeft
  <1> DEFINE i == Stage(p)
  <1>1. i \in 1..Len(line) /\ p = Runner(i) /\ i \in Nat /\ i \in 1..MaxStages
    BY RunnerOf, Here DEF RunPc
  <1>2. Wiring(p)
    BY Known
  <1>3. ofile[p][0] = From(i) /\ ofile[p][1] = To(i)
    BY <1>2 DEF Wiring, Holds
  <1> HIDE DEF i
  <1>4. i < Len(line) => i \in 1..(Len(line) - 1) /\ i \in 1..(MaxStages - 1) /\ p = L(i)
    BY <1>1, Here DEF Runner
  <1>5. i < Len(line) => pc[E(i)] \in HasLeft
    BY <1>4 DEF ShellInv, Family
  <1>6. pc[E(i)] # "none"
    <2>1. CASE i < Len(line) BY <1>5, <2>1 DEF HasLeft
    <2>2. CASE ~(i < Len(line)) BY <1>1, <2>2 DEF Runner
    <2> QED BY <2>1, <2>2
  <1>7. i > 1 => i - 1 \in 1..(Len(line) - 1) /\ i - 1 \in 1..MaxStages /\ i - 1 < i
    BY <1>1, Here
  <1>8. i > 1 => pc[E(i - 1)] \in HasRight
    BY <1>1, <1>6, <1>7 DEF ShellInv, Family
  <1> QED BY <1>1, <1>3, <1>4, <1>5, <1>7, <1>8 DEF i

(* The names of files. *)
LEMMA FileNames ==
  ASSUME NEW i
  PROVE  /\ R(i)[1] = "r" /\ R(i)[2] = i /\ W(i)[1] = "w" /\ W(i)[2] = i
         /\ File(i)[1] = "file" /\ Console[1] = "console"
         /\ W(i) # Closed /\ R(i) # Closed
BY DEF R, W, File, Console, Closed

(* A file that nobody refers to. *)
LEMMA NoRefs ==
  ASSUME NEW f, Refs(f) = {}, NEW q \in Proc, NEW d \in Fd
  PROVE  ofile[q][d] # f
  <1> DEFINE pd == <<q, d>>
  <1>1. pd \in Proc \X Fd /\ pd[1] = q /\ pd[2] = d
    OBVIOUS
  <1> HIDE DEF pd
  <1>2. SUFFICES ASSUME ofile[pd[1]][pd[2]] = f PROVE FALSE
    BY <1>1
  <1>3. pd \in Refs(f)
    BY <1>1, <1>2 DEF Refs
  <1> QED BY <1>3

(* Nobody can write to the pipe before a running command any more: the       *)
(* command before it has ended, or it writes to a file.                      *)
LEMMA NoWriters ==
  ASSUME ShellInv, ~failed, NEW over, Ended(over), NEW j \in 1..(Len(line) - 1),
         pc[E(j)] \in HasRight, Refs(W(j)) = {}, ~line[j].outfile
  PROVE  j \in over
  <1>1. \A q \in Proc, d \in Fd : ofile[q][d] # W(j)
    BY NoRefs
  <1>2. j \in 1..Len(line) /\ j < Len(line) /\ j \in Nat
    BY Here
  <1>3. E(j) \in Proc \ {sh} /\ L(j) \in Proc \ {sh} /\ Stage(E(j)) = j /\ Stage(L(j)) = j /\ Runner(j) = L(j)
    BY <1>2, Here, Names
  <1>4. Wiring(E(j)) /\ Wiring(L(j)) /\ Place(L(j)) /\ L(j)[1] = "L"
    BY <1>3, Known DEF L
  <1>5. pc[L(j)] \in LPc
    BY <1>4 DEF Place
  <1>6. 0 \in Fd /\ 1 \in Fd /\ 4 \in Fd /\ StdOut(j) = W(j)
    BY <1>2 DEF Fd, StdOut
  <1>7. pc[L(j)] \notin LeftPc
    BY <1>1, <1>3, <1>4, <1>6 DEF Wiring, Holds, LeftPc
  <1>8. pc[L(j)] \notin RunPc
    <2>1. pc[L(j)] \notin {"out", "out_open"}
      BY <1>3, <1>4 DEF Place, Cmd
    <2> QED BY <1>1, <1>3, <1>4, <1>6, <2>1 DEF Wiring, Holds, RunPc, To
  <1>9. pc[L(j)] \in {"none", "zombie"}
    BY <1>5, <1>7, <1>8 DEF LPc
  <1> QED BY <1>2, <1>3, <1>9 DEF Ended, HasLeft, HasRight

(* Nobody can read the pipe after a running command any more: the next       *)
(* command has ended, or it reads a file.                                    *)
LEMMA NoReaders ==
  ASSUME ShellInv, ~failed, NEW over, Ended(over), NEW j \in 1..(Len(line) - 1),
         pc[E(j)] \in HasLeft, Refs(R(j)) = {}
  PROVE  j + 1 \in over \/ line[j + 1].infile
  <1>1. \A q \in Proc, d \in Fd : ofile[q][d] # R(j)
    BY NoRefs
  <1>2. j \in 1..Len(line) /\ j < Len(line) /\ j \in Nat /\ j + 1 \in 1..Len(line)
        /\ (j + 1) - 1 = j /\ j + 1 > 1
    BY Here
  <1>3. E(j) \in Proc \ {sh} /\ E(j + 1) \in Proc \ {sh} /\ Stage(E(j)) = j /\ Stage(E(j + 1)) = j + 1
    BY <1>2, Here, Names
  <1>4. Wiring(E(j)) /\ Wiring(E(j + 1)) /\ Place(E(j + 1)) /\ E(j + 1)[1] = "E"
    BY <1>3, Known DEF E
  <1>5. 0 \in Fd /\ 3 \in Fd /\ StdIn(j + 1) = R(j)
    BY <1>2 DEF Fd, StdIn
  <1>6. pc[E(j)] \notin {"fork2", "close0"}
    BY <1>1, <1>3, <1>4, <1>5 DEF Wiring, Holds
  <1>7. pc[E(j)] \in HasRight
    BY <1>6 DEF HasLeft, HasRight
  <1>8. pc[E(j + 1)] \in EPc
    BY <1>4 DEF Place
  <1>9. CASE pc[E(j + 1)] = "none"
    <2>1. j + 1 \in (j + 1)..Len(line)
      BY <1>2
    <2> QED BY <1>7, <1>9, <2>1 DEF Ended
  <1>10. CASE pc[E(j + 1)] = "zombie"
    <2>1. j + 1 \in (j + 1)..Len(line)
      BY <1>2
    <2> QED BY <1>2, <1>10, <2>1 DEF Ended
  <1>11. pc[E(j + 1)] # "find" /\ pc[E(j + 1)] \notin {"pipe", "fork1", "fork2", "close0", "close1"}
    BY <1>1, <1>3, <1>4, <1>5 DEF Wiring, Holds
  <1>12. pc[E(j + 1)] \notin {"r_closer", "r_closew"}
    BY <1>1, <1>2, <1>3, <1>4, <1>5 DEF Wiring, Holds
  <1>13. pc[E(j + 1)] \notin {"r_close0", "r_dup"}
    BY <1>1, <1>2, <1>3, <1>4, <1>5 DEF Wiring, Holds
  <1>14. ASSUME NEW q \in Proc \ {sh}, Stage(q) = j + 1, pc[q] \in RunPc, ~line[j + 1].infile
         PROVE  FALSE
    <2>1. Wiring(q) /\ Place(q)
      BY Known
    <2>2. pc[q] \notin {"in", "in_open"}
      BY <1>14, <2>1 DEF Place, Cmd
    <2>3. From(j + 1) = R(j)
      BY <1>5, <1>14 DEF From
    <2> QED BY <1>1, <1>5, <1>14, <2>1, <2>2, <2>3 DEF Wiring, Holds, RunPc
  <1>15. CASE pc[E(j + 1)] \in RunPc
    BY <1>3, <1>14, <1>15
  <1>16. CASE pc[E(j + 1)] \in {"wait1", "wait2", "exit"}
    <2>1. j + 1 < Len(line)
      BY <1>3, <1>4, <1>16 DEF Place, PipePc
    <2>2. /\ L(j + 1) \in Proc \ {sh} /\ Stage(L(j + 1)) = j + 1 /\ Runner(j + 1) = L(j + 1)
          /\ L(j + 1)[1] = "L" /\ j + 1 \in 1..(Len(line) - 1)
      BY <1>2, <2>1, Here DEF L, Stage
    <2>3. Wiring(L(j + 1)) /\ Place(L(j + 1))
      BY <2>2, Known
    <2>4. pc[L(j + 1)] \in LPc
      BY <2>2, <2>3 DEF Place
    <2>5. pc[L(j + 1)] \notin LeftPc
      BY <1>1, <1>5, <2>2, <2>3 DEF Wiring, Holds, LeftPc
    <2>6. CASE pc[L(j + 1)] \in RunPc
      BY <1>14, <2>2, <2>6
    <2>7. CASE pc[L(j + 1)] = "zombie"
      BY <1>2, <2>2, <2>7 DEF Ended
    <2>8. CASE pc[L(j + 1)] = "none"
      BY <1>16, <2>2, <2>8 DEF Ended, HasLeft
    <2> QED BY <2>4, <2>5, <2>6, <2>7, <2>8 DEF LPc
  <1> QED BY <1>8, <1>9, <1>10, <1>11, <1>12, <1>13, <1>15, <1>16 DEF EPc, RightPc, PipePc

(* Command i moves an item: what has to be shown of it and of its two pipes. *)
LEMMA MovesItem ==
  ASSUME ShellInv, NEW p \in Proc \ {sh}, pc[p] = "prog", UNCHANGED <<line, pc>>,
         \A q \in Proc : q # p => n'[q] = n[q] /\ item'[q] = item[q],
         NEW over \in SUBSET (1..MaxStages), NEW made, NEW took,
         Ended(over), Flow(over, made, took),
         NEW made2 \in [1..MaxStages -> 0..NITEMS], NEW took2 \in [1..MaxStages -> 0..NITEMS],
         \A j \in 1..MaxStages : j # Stage(p) => made2[j] = made[j] /\ written'[j] = written[j],
         \A j \in 1..MaxStages : j # Stage(p) - 1 => took2[j] = took[j],
         \A j \in 1..MaxStages : j # Stage(p) /\ j # Stage(p) - 1 => buf'[j] = buf[j],
         Ran(Stage(p), over, made2, took2)',
         Stage(p) < Len(line) => Carried(Stage(p), over, made2, took2)',
         Stage(p) > 1 => Carried(Stage(p) - 1, over, made2, took2)'
  PROVE  Flows'
  <1> DEFINE i == Stage(p)
  <1>1. i \in 1..Len(line) /\ p = Runner(i) /\ i \in Nat /\ i \in 1..MaxStages
    BY RunnerOf, Here DEF RunPc
  <1>2. ASSUME NEW j \in 1..Len(line) PROVE Ran(j, over, made2, took2)'
    <2>1. j \in Nat /\ j \in 1..MaxStages /\ Runner(j) \in Proc /\ (j # i => Runner(j) # p)
      BY <1>1, Here
    <2>2. Ran(j, over, made, took)
      BY DEF Flow
    <2>3. CASE j = i
      BY <2>3
    <2>4. CASE j # i
      <3>1. j > 1 => j - 1 \in 1..MaxStages /\ j - 1 # i - 1
        BY <1>1, <2>1, <2>4, Here
      <3>2. j > 1 => took2[j - 1] = took[j - 1]
        BY <3>1
      <3>3. made2[j] = made[j] /\ written'[j] = written[j]
        BY <2>1, <2>4
      <3>4. n'[Runner(j)] = n[Runner(j)] /\ item'[Runner(j)] = item[Runner(j)]
        BY <2>1, <2>4
      <3> QED BY <2>1, <2>2, <3>2, <3>3, <3>4, RanKept
    <2> QED BY <2>3, <2>4
  <1>3. ASSUME NEW j \in 1..(Len(line) - 1) PROVE Carried(j, over, made2, took2)'
    <2>1. j \in Nat /\ j \in 1..MaxStages /\ j < Len(line)
      BY Here
    <2>2. Carried(j, over, made, took)
      BY DEF Flow
    <2>3. CASE j = i
      BY <2>1, <2>3
    <2>4. CASE j = i - 1
      <3>1. i > 1
        BY <1>1, <2>1, <2>4
      <3> QED BY <2>4, <3>1
    <2>5. CASE j # i /\ j # i - 1
      <3>1. made2[j] = made[j] /\ took2[j] = took[j] /\ buf'[j] = buf[j]
        BY <2>1, <2>5
      <3> QED BY <2>1, <2>2, <3>1, CarriedKept
    <2> QED BY <2>3, <2>4, <2>5
  <1>4. Flow(over, made2, took2)'
    BY <1>2, <1>3 DEF Flow
  <1>5. Ended(over)'
    BY DEF Ended, Runner
  <1> QED BY <1>4, <1>5 DEF Flows

(* The other programs are idle as before. *)
LEMMA IdleMoves ==
  ASSUME Idle, NEW p \in Proc, pc[p] = "prog", pc' = pc,
         written' \in [1..MaxStages -> Seq(1..NITEMS)],
         \A q \in Proc : q # p => n'[q] = n[q] /\ item'[q] = item[q]
  PROVE  Idle'
BY DEF Idle

(* read() of descriptor 0: the next item of the pipe, or of the file; at the *)
(* end of either everything there was has been passed on.                    *)
LEMMA ReadFlow ==
  ASSUME ShellInv, FlowInv, NEW p \in Proc \ {sh}, read(p)
  PROVE  FlowInv'
  <1> DEFINE i == Stage(p)
             f == ofile[p][0]
  <1>1. pc[p] = "prog" /\ line[i].prog = "cat" /\ item[p] = 0 /\ failed' = failed
    BY DEF read, Running, Cmd
  <1>2. /\ n \in [Proc -> 0..NITEMS] /\ item \in [Proc -> 0..NITEMS] /\ NITEMS \in Nat
        /\ buf \in [1..MaxStages -> Seq(1..NITEMS)]
    BY ShellAssumption DEF ShellInv, Types
  <1>3. i \in 1..Len(line) /\ p = Runner(i) /\ i \in Nat /\ i \in 1..MaxStages /\ pc[p] \in RunPc
    BY <1>1, RunnerOf, Here DEF RunPc
  <1>4. ~failed => /\ f = From(i)
                   /\ i > 1 => i - 1 \in 1..(Len(line) - 1) /\ pc[E(i - 1)] \in HasRight
    BY <1>1, RunningFacts
  <1>5. line[i].infile \in BOOLEAN
    BY <1>3, Here DEF Commands
  <1> HIDE DEF i, f
  <1>6. ASSUME NEW over \in SUBSET (1..MaxStages), NEW made \in [1..MaxStages -> 0..NITEMS],
               NEW took \in [1..MaxStages -> 0..NITEMS], Flow(over, made, took), ~failed
        PROVE  /\ Taken(i, took) = made[i] /\ made[i] \in 0..NITEMS
               /\ Ran(i, over, made, took)
               /\ i > 1 => /\ Carried(i - 1, over, made, took)
                           /\ i - 1 \in 1..MaxStages /\ (i - 1) + 1 = i /\ i - 1 \in Nat
                           /\ took[i - 1] \in 0..NITEMS /\ made[i - 1] \in 0..NITEMS
                           /\ buf[i - 1] = IF line[i - 1].outfile THEN <<>>
                                           ELSE Items(took[i - 1], made[i - 1])
    <2>1. Ran(i, over, made, took) /\ made[i] \in 0..NITEMS
      BY <1>3, <1>6 DEF Flow
    <2>2. Taken(i, took) = made[i]
      BY <1>1, <1>3, <2>1 DEF Ran
    <2>3. i > 1 => Carried(i - 1, over, made, took) /\ pc[E(i - 1)] \in Piped
      BY <1>4, <1>6 DEF Flow, Piped
    <2>4. i > 1 => i - 1 \in 1..MaxStages /\ (i - 1) + 1 = i /\ i - 1 \in Nat
      BY <1>3, <1>4, <1>6, Here
    <2> QED BY <2>1, <2>2, <2>3, <2>4 DEF Carried
  <1>7. CASE /\ f[1] = "r" /\ buf[f[2]] # <<>>
             /\ item' = [item EXCEPT ![p] = Head(buf[f[2]])]
             /\ buf' = [buf EXCEPT ![f[2]] = Tail(@)]
             /\ UNCHANGED <<line, pc, ofile, fd, n, written>>
    <2>1. \A q \in Proc : q # p => n'[q] = n[q] /\ item'[q] = item[q]
      BY <1>2, <1>7
    <2>2. Idle'
      BY <1>1, <1>7, <2>1, IdleMoves DEF FlowInv, Idle
    <2>3. ASSUME ~failed PROVE Flows'
      <3>1. ~line[i].infile /\ i > 1 /\ f = R(i - 1) /\ f[2] = i - 1
        BY <1>4, <1>7, <2>3, FileNames DEF From, StdIn
      <3> DEFINE h == i - 1
      <3>2. PICK over \in SUBSET (1..MaxStages), made, took \in [1..MaxStages -> 0..NITEMS] :
              Ended(over) /\ Flow(over, made, took)
        BY <2>3 DEF FlowInv, Flows
      <3>3. /\ Taken(i, took) = made[i] /\ Ran(i, over, made, took)
            /\ Carried(h, over, made, took) /\ h \in 1..MaxStages /\ h + 1 = i /\ h \in Nat
            /\ took[h] \in 0..NITEMS /\ made[h] \in 0..NITEMS /\ made[i] \in 0..NITEMS
            /\ buf[h] = IF line[h].outfile THEN <<>> ELSE Items(took[h], made[h])
        BY <1>6, <2>3, <3>1, <3>2
      <3> HIDE DEF h
      <3>4. f[2] = h /\ took[i - 1] = took[h] /\ h # i
        BY <1>3, <3>1, <3>3 DEF h
      <3>5. ~line[h].outfile /\ buf[h] = Items(took[h], made[h]) /\ buf[h] # <<>>
        BY <1>7, <3>3, <3>4
      <3>6. took[h] \in Nat /\ made[h] \in Nat /\ took[h] <= made[h] /\ took[h] < made[h]
        <4>1. took[h] \in Nat /\ made[h] \in Nat /\ took[h] <= made[h]
          BY <1>2, <3>3 DEF Carried
        <4>2. took[h] # made[h]
          BY <3>5, <4>1, ItemsEmpty
        <4> QED BY <4>1, <4>2
      <3>7. Head(buf[h]) = took[h] + 1 /\ Tail(buf[h]) = Items(took[h] + 1, made[h])
        BY <3>5, <3>6, ItemsTail
      <3>8. item'[p] = took[h] + 1 /\ buf'[h] = Items(took[h] + 1, made[h])
        BY <1>2, <1>7, <3>3, <3>4, <3>7
      <3> DEFINE took2 == [took EXCEPT ![h] = took[h] + 1]
      <3>9. /\ took2 \in [1..MaxStages -> 0..NITEMS] /\ took2[h] = took[h] + 1
            /\ \A j \in 1..MaxStages : j # h => took2[j] = took[j]
        BY <1>2, <3>3, <3>6
      <3> HIDE DEF took2
      <3>10. Taken(i, took) = took[h]
        BY <3>1, <3>4 DEF Taken
      <3>11. Ran(i, over, made, took2)'
        <4>1. Output' = Output /\ Runner(i)' = p /\ pc'[p] = "prog"
          BY <1>1, <1>3, <1>7, OutputKept DEF Runner
        <4>2. Taken(i, took2)' = took[h] + 1
          BY <1>7, <3>1, <3>9 DEF Taken, h
        <4>3. item'[p] = made[i] + 1 /\ item'[p] # 0 /\ Taken(i, took2)' = made[i] + 1
          BY <1>2, <3>3, <3>8, <3>10, <4>2
        <4> QED BY <1>1, <1>3, <1>7, <3>3, <4>1, <4>3 DEF Ran
      <3>12. Carried(h, over, made, took2)'
        <4>1. Runner(h + 1)' = p /\ pc'[p] = "prog"
          BY <1>1, <1>3, <1>7, <3>3 DEF Runner
        <4>2. took2[h] <= made[h]
          BY <3>6, <3>9
        <4> QED BY <1>7, <3>5, <3>8, <3>9, <4>1, <4>2 DEF Carried
      <3>13. i < Len(line) => Carried(i, over, made, took2)'
        <4>1. SUFFICES ASSUME i < Len(line) PROVE Carried(i, over, made, took2)'
          OBVIOUS
        <4>2. Carried(i, over, made, took)
          <5>1. i \in 1..(Len(line) - 1)
            BY <1>3, <4>1, Here
          <5> QED BY <3>2, <5>1 DEF Flow
        <4>3. buf'[i] = buf[i]
          BY <1>2, <1>3, <1>7, <3>4
        <4>4. took2[i] = took[i]
          BY <1>3, <3>4, <3>9
        <4> QED BY <1>3, <1>7, <4>2, <4>3, <4>4, CarriedKept
      <3>14. /\ \A j \in 1..MaxStages : j # i - 1 => took2[j] = took[j]
             /\ \A j \in 1..MaxStages : j # i /\ j # i - 1 => buf'[j] = buf[j]
             /\ \A j \in 1..MaxStages : j # i => made[j] = made[j] /\ written'[j] = written[j]
        BY <1>2, <1>7, <3>1, <3>9 DEF h
      <3>15. i > 1 => Carried(i - 1, over, made, took2)'
        BY <3>12 DEF h
      <3> QED BY <1>1, <1>7, <2>1, <3>2, <3>9, <3>11, <3>13, <3>14, <3>15, MovesItem DEF i
    <2> QED BY <1>1, <2>2, <2>3 DEF FlowInv
  <1>8. CASE /\ f[1] = "file" /\ n[p] < NITEMS
             /\ item' = [item EXCEPT ![p] = n[p] + 1]
             /\ n' = [n EXCEPT ![p] = @ + 1]
             /\ UNCHANGED <<line, pc, ofile, fd, buf, written>>
    <2>1. /\ \A q \in Proc : q # p => n'[q] = n[q] /\ item'[q] = item[q]
          /\ n'[p] = n[p] + 1 /\ item'[p] = n[p] + 1 /\ n[p] \in Nat
      BY <1>2, <1>8
    <2>2. Idle'
      BY <1>1, <1>8, <2>1, IdleMoves DEF FlowInv, Idle
    <2>3. ASSUME ~failed PROVE Flows'
      <3>1. line[i].infile
        BY <1>4, <1>8, <2>3, FileNames DEF From, StdIn
      <3>2. PICK over \in SUBSET (1..MaxStages), made, took \in [1..MaxStages -> 0..NITEMS] :
              Ended(over) /\ Flow(over, made, took)
        BY <2>3 DEF FlowInv, Flows
      <3>3. Taken(i, took) = made[i] /\ Ran(i, over, made, took)
        BY <1>6, <2>3, <3>2
      <3>4. made[i] = n[p]
        BY <1>3, <3>1, <3>3 DEF Taken
      <3>5. Ran(i, over, made, took)'
        <4>1. Output' = Output /\ Runner(i)' = p /\ pc'[p] = "prog"
          BY <1>1, <1>3, <1>8, OutputKept DEF Runner
        <4>2. Taken(i, took)' = n[p] + 1
          BY <1>8, <2>1, <3>1, <4>1 DEF Taken
        <4>3. item'[p] = made[i] + 1 /\ item'[p] # 0 /\ Taken(i, took)' = made[i] + 1
          BY <2>1, <3>4, <4>2
        <4> QED BY <1>1, <1>3, <1>8, <3>3, <4>1, <4>3 DEF Ran
      <3>6. i < Len(line) => Carried(i, over, made, took)'
        <4>1. SUFFICES ASSUME i < Len(line) PROVE Carried(i, over, made, took)'
          OBVIOUS
        <4>2. Carried(i, over, made, took)
          <5>1. i \in 1..(Len(line) - 1)
            BY <1>3, <4>1, Here
          <5> QED BY <3>2, <5>1 DEF Flow
        <4> QED BY <1>3, <1>8, <4>2, CarriedKept
      <3>7. i > 1 => Carried(i - 1, over, made, took)'
        <4>1. SUFFICES ASSUME i > 1 PROVE Carried(i - 1, over, made, took)'
          OBVIOUS
        <4>2. Carried(i - 1, over, made, took) /\ i - 1 \in Nat
          BY <1>6, <2>3, <3>2, <4>1
        <4> QED BY <1>8, <4>2, CarriedKept
      <3>8. /\ \A j \in 1..MaxStages : j # i - 1 => took[j] = took[j]
            /\ \A j \in 1..MaxStages : j # i /\ j # i - 1 => buf'[j] = buf[j]
            /\ \A j \in 1..MaxStages : j # i => made[j] = made[j] /\ written'[j] = written[j]
        BY <1>8
      <3> QED BY <1>1, <1>8, <2>1, <3>2, <3>5, <3>6, <3>7, <3>8, MovesItem DEF i
    <2> QED BY <1>1, <2>2, <2>3 DEF FlowInv
  <1>9. CASE /\ \/ f[1] = "r" /\ buf[f[2]] = <<>> /\ Refs(W(f[2])) = {}
                \/ f[1] = "file" /\ (n[p] = NITEMS \/ ~line[i].infile)
                \/ f[1] \in {"console", "closed", "w"}
             /\ exit(p)
    <2>1. ASSUME NEW over \in SUBSET (1..MaxStages), NEW made \in [1..MaxStages -> 0..NITEMS],
                 NEW took \in [1..MaxStages -> 0..NITEMS],
                 ~failed, Ended(over), Flow(over, made, took)
          PROVE  Finished(i, over, made)
      <3>1. Taken(i, took) = made[i] /\ Ran(i, over, made, took)
        BY <1>6, <2>1
      <3>2. /\ Output[i] = IF Source(i) THEN AllItems ELSE IF Passes(i) THEN Output[i - 1] ELSE <<>>
            /\ Len(AllItems) = NITEMS /\ Len(<<>>) = 0
        BY <1>3, OutputAt
      <3>3. CASE f[1] = "file" /\ (n[p] = NITEMS \/ ~line[i].infile)
        <4>1. line[i].infile
          BY <1>4, <2>1, <3>3, FileNames DEF From, StdIn
        <4>2. made[i] = NITEMS
          BY <1>3, <3>1, <3>3, <4>1 DEF Taken
        <4>3. Output[i] = AllItems
          BY <1>1, <3>2, <4>1 DEF Source
        <4> QED BY <3>2, <4>2, <4>3 DEF Finished
      <3>4. CASE f[1] \in {"console", "closed", "w"}
        <4>1. ~line[i].infile /\ ~(i > 1)
          BY <1>4, <2>1, <3>4, FileNames DEF From, StdIn
        <4>2. Output[i] = <<>>
          BY <1>1, <3>2, <4>1 DEF Source, Passes
        <4> QED BY <3>1, <3>2, <4>2 DEF Ran, Finished
      <3>5. CASE f[1] = "r" /\ buf[f[2]] = <<>> /\ Refs(W(f[2])) = {}
        <4>1. ~line[i].infile /\ i > 1 /\ f = R(i - 1) /\ f[2] = i - 1
          BY <1>4, <2>1, <3>5, FileNames DEF From, StdIn
        <4> DEFINE h == i - 1
        <4>2. /\ Carried(h, over, made, took) /\ h \in 1..MaxStages /\ h + 1 = i /\ h \in Nat
              /\ took[h] \in 0..NITEMS /\ made[h] \in 0..NITEMS
              /\ buf[h] = IF line[h].outfile THEN <<>> ELSE Items(took[h], made[h])
              /\ h \in 1..(Len(line) - 1) /\ pc[E(h)] \in HasRight
          BY <1>4, <1>6, <2>1, <4>1
        <4>3. Passes(i) <=> ~line[h].outfile
          BY <1>1, <4>1 DEF Passes
        <4>4. ~Source(i) /\ Taken(i, took) = took[h]
          BY <1>1, <4>1 DEF Source, Taken
        <4>5. f[2] = h /\ (Passes(i) => Output[i] = Output[h])
          BY <3>2, <4>1, <4>4
        <4> HIDE DEF h
        <4>6. CASE line[h].outfile
          BY <3>1, <3>2, <4>3, <4>4, <4>6 DEF Ran, Finished
        <4>7. CASE ~line[h].outfile
          <5>1. h \in over
            BY <2>1, <3>5, <4>2, <4>5, <4>7, NoWriters
          <5>2. took[h] = made[h]
            <6>1. took[h] \in Nat /\ made[h] \in Nat /\ took[h] <= made[h]
              BY <1>2, <4>2 DEF Carried
            <6> QED BY <3>5, <4>2, <4>5, <4>7, <6>1, ItemsEmpty
          <5>3. h \in 1..Len(line)
            BY <4>2, Here
          <5>4. Ran(h, over, made, took)
            BY <2>1, <5>3 DEF Flow
          <5>5. i \notin over
            BY <1>1, <1>3, <2>1 DEF Ended
          <5>6. made[h] = Len(Output[h])
            BY <4>1, <4>2, <5>1, <5>4, <5>5 DEF Ran
          <5> QED BY <3>1, <4>3, <4>4, <4>5, <4>7, <5>2, <5>6 DEF Finished
        <4> QED BY <4>6, <4>7
      <3> QED BY <1>9, <3>3, <3>4, <3>5
    <2> QED BY <1>1, <1>3, <1>9, <2>1, EndsInv DEF i
  <1> QED BY <1>7, <1>8, <1>9 DEF read, f, i, Cmd

(* What a running program is about to write: the next item. *)
LEMMA NextItem ==
  ASSUME ShellInv, NEW p \in Proc \ {sh}, pc[p] = "prog", NEW i, i = Stage(p), NEW x,
         NEW over \in SUBSET (1..MaxStages), NEW made \in [1..MaxStages -> 0..NITEMS],
         NEW took \in [1..MaxStages -> 0..NITEMS], Flow(over, made, took),
         \/ line[i].prog = "cat" /\ item[p] # 0 /\ x = item[p]
         \/ line[i].prog = "gen" /\ n[p] < NITEMS /\ x = n[p] + 1
  PROVE  x = made[i] + 1 /\ made[i] + 1 \in 0..NITEMS /\ made[i] \in Nat /\ Output[i] # <<>>
  <1>1. i \in 1..Len(line) /\ p = Runner(i) /\ i \in Nat /\ i \in 1..MaxStages
    BY RunnerOf, Here DEF RunPc
  <1>2. n[p] \in 0..NITEMS /\ item[p] \in 0..NITEMS /\ NITEMS \in Nat
    BY ShellAssumption DEF ShellInv, Types
  <1>3. Ran(i, over, made, took) /\ made[i] \in 0..NITEMS /\ made[i] \in Nat
    BY <1>1, <1>2 DEF Flow
  <1>4. /\ Output[i] = IF Source(i) THEN AllItems ELSE IF Passes(i) THEN Output[i - 1] ELSE <<>>
        /\ AllItems = <<>> <=> NITEMS = 0
    BY <1>1, OutputAt
  <1>5. CASE line[i].prog = "gen" /\ n[p] < NITEMS /\ x = n[p] + 1
    <2>1. n[p] = made[i]
      BY <1>1, <1>3, <1>5 DEF Ran
    <2>2. Output[i] = AllItems
      BY <1>4, <1>5 DEF Source
    <2> QED BY <1>2, <1>3, <1>4, <1>5, <2>1, <2>2
  <1>6. CASE line[i].prog = "cat" /\ item[p] # 0 /\ x = item[p]
    <2>1. item[p] = made[i] + 1 /\ Taken(i, took) = made[i] + 1
      BY <1>1, <1>3, <1>6 DEF Ran
    <2>2. x = made[i] + 1 /\ made[i] + 1 \in 0..NITEMS /\ NITEMS # 0 /\ made[i] + 1 # 0
      BY <1>2, <1>3, <1>6, <2>1
    <2>3. CASE line[i].infile
      <3>1. Output[i] = AllItems
        BY <1>4, <1>6, <2>3 DEF Source
      <3> QED BY <1>3, <1>4, <2>2, <3>1
    <2>4. CASE ~line[i].infile
      <3>1. i > 1 /\ took[i - 1] = made[i] + 1
        BY <2>1, <2>2, <2>4 DEF Taken
      <3> DEFINE h == i - 1
      <3>2. h \in 1..(Len(line) - 1) /\ h \in 1..Len(line) /\ h \in 1..MaxStages
        BY <1>1, <3>1, Here
      <3>3. Carried(h, over, made, took) /\ Ran(h, over, made, took) /\ made[h] \in 0..NITEMS
        BY <3>2 DEF Flow
      <3>4. took[h] = made[i] + 1 /\ took[h] # 0
        BY <2>2, <3>1
      <3>5. ~line[h].outfile /\ took[h] <= made[h]
        BY <3>3, <3>4 DEF Carried
      <3>6. made[h] # 0
        BY <1>2, <1>3, <3>3, <3>4, <3>5
      <3>7. Output[h] # <<>>
        BY <3>3, <3>6 DEF Ran
      <3>8. Passes(i) /\ ~Source(i)
        BY <1>6, <2>4, <3>1, <3>5 DEF Passes, Source
      <3> QED BY <1>3, <1>4, <2>2, <3>7, <3>8
    <2> QED BY <2>3, <2>4
  <1> QED BY <1>5, <1>6

(* write() to descriptor 1: the item goes to the end of the pipe or of the   *)
(* file; an error means that nobody is left to read it.                      *)
LEMMA WriteFlow ==
  ASSUME ShellInv, FlowInv, NEW p \in Proc \ {sh}, write(p)
  PROVE  FlowInv'
  <1> DEFINE i == Stage(p)
             f == ofile[p][1]
             x == IF Cmd(p).prog = "gen" THEN n[p] + 1 ELSE item[p]
  <1>1. pc[p] = "prog" /\ failed' = failed
    BY DEF write, Running
  <1>2. /\ n \in [Proc -> 0..NITEMS] /\ item \in [Proc -> 0..NITEMS] /\ NITEMS \in Nat
        /\ buf \in [1..MaxStages -> Seq(1..NITEMS)]
    BY ShellAssumption DEF ShellInv, Types
  <1>3. i \in 1..Len(line) /\ p = Runner(i) /\ i \in Nat /\ i \in 1..MaxStages /\ pc[p] \in RunPc
    BY <1>1, RunnerOf, Here DEF RunPc
  <1>4. ~failed => /\ f = To(i)
                   /\ i < Len(line) => i \in 1..(Len(line) - 1) /\ pc[E(i)] \in HasLeft
    BY <1>1, RunningFacts
  <1>5. \/ line[i].prog = "cat" /\ item[p] # 0 /\ x = item[p]
        \/ line[i].prog = "gen" /\ n[p] < NITEMS /\ x = n[p] + 1
    BY DEF write, Running, Cmd
  <1>6. line[i].prog = "gen" <=> Cmd(p).prog = "gen"
    BY DEF Cmd
  <1> HIDE DEF i, f, x
  <1>7. CASE /\ \/ /\ f[1] = "w" /\ Refs(R(f[2])) # {}
                   /\ buf' = [buf EXCEPT ![f[2]] = Append(@, x)]
                   /\ UNCHANGED written
                \/ /\ f[1] \in {"console", "file"}
                   /\ written' = [written EXCEPT ![i] = Append(@, x)]
                   /\ UNCHANGED buf
             /\ item' = [item EXCEPT ![p] = 0]
             /\ n' = IF Cmd(p).prog = "gen" THEN [n EXCEPT ![p] = @ + 1] ELSE n
             /\ UNCHANGED <<line, pc, ofile, fd>>
    <2>1. /\ \A q \in Proc : q # p => n'[q] = n[q] /\ item'[q] = item[q]
          /\ item'[p] = 0 /\ n'[p] = IF line[i].prog = "gen" THEN n[p] + 1 ELSE n[p]
      BY <1>2, <1>6, <1>7
    <2>2. Idle' /\ written \in [1..MaxStages -> Seq(1..NITEMS)] /\ UNCHANGED <<line, pc>>
      <3>1. written \in [1..MaxStages -> Seq(1..NITEMS)]
        BY DEF FlowInv, Idle
      <3>2. x \in 1..NITEMS
        BY <1>2, <1>5
      <3>3. Append(written[i], x) \in Seq(1..NITEMS)
        BY <1>3, <3>1, <3>2
      <3>4. written' \in [1..MaxStages -> Seq(1..NITEMS)]
        BY <1>7, <3>1, <3>3
      <3> QED BY <1>1, <1>7, <2>1, <3>1, <3>4, IdleMoves DEF FlowInv
    <2>3. ASSUME ~failed PROVE Flows'
      <3>1. PICK over \in SUBSET (1..MaxStages), made, took \in [1..MaxStages -> 0..NITEMS] :
              Ended(over) /\ Flow(over, made, took)
        BY <2>3 DEF FlowInv, Flows
      <3>2. x = made[i] + 1 /\ made[i] + 1 \in 0..NITEMS /\ made[i] \in Nat /\ Output[i] # <<>>
        BY <1>1, <1>5, <3>1, NextItem DEF i
      <3>3. Ran(i, over, made, took)
        BY <1>3, <3>1 DEF Flow
      <3>4. i < Len(line) => /\ Carried(i, over, made, took) /\ pc[E(i)] \in Piped
                             /\ took[i] \in Nat /\ took[i] <= made[i]
                             /\ buf[i] = IF line[i].outfile THEN <<>> ELSE Items(took[i], made[i])
        <4>1. SUFFICES ASSUME i < Len(line)
                       PROVE  /\ Carried(i, over, made, took) /\ pc[E(i)] \in Piped
                              /\ took[i] \in Nat /\ took[i] <= made[i]
                              /\ buf[i] = IF line[i].outfile THEN <<>> ELSE Items(took[i], made[i])
          OBVIOUS
        <4>2. Carried(i, over, made, took) /\ pc[E(i)] \in Piped
          BY <1>4, <2>3, <3>1, <4>1 DEF Flow, Piped, HasLeft, HasRight
        <4>3. took[i] \in Nat
          BY <1>2, <1>3
        <4> QED BY <4>2, <4>3 DEF Carried
      <3> DEFINE made2 == [made EXCEPT ![i] = made[i] + 1]
      <3>5. /\ made2 \in [1..MaxStages -> 0..NITEMS] /\ made2[i] = made[i] + 1
            /\ \A j \in 1..MaxStages : j # i => made2[j] = made[j]
        BY <1>3, <3>2
      <3> HIDE DEF made2
      <3>6. \/ /\ f[1] = "w" /\ f[2] = i /\ i < Len(line) /\ ~line[i].outfile
               /\ buf' = [buf EXCEPT ![i] = Append(@, x)] /\ written' = written
            \/ /\ f[1] \in {"console", "file"} /\ (line[i].outfile \/ i = Len(line))
               /\ written' = [written EXCEPT ![i] = Append(@, x)] /\ buf' = buf
        <4>1. line[i].outfile => f = File(i)
          BY <1>4, <2>3 DEF To
        <4>2. ~line[i].outfile /\ i < Len(line) => f = W(i)
          BY <1>4, <2>3 DEF To, StdOut
        <4>3. ~line[i].outfile /\ ~(i < Len(line)) => f = Console /\ i = Len(line)
          BY <1>3, <1>4, <2>3, Here DEF To, StdOut
        <4> QED BY <1>7, <4>1, <4>2, <4>3, FileNames
      <3>7. written'[i] = IF line[i].outfile \/ i = Len(line) THEN Items(0, made2[i]) ELSE <<>>
        <4>1. CASE f[1] = "w"
          BY <3>3, <3>6, <4>1 DEF Ran
        <4>2. CASE f[1] \in {"console", "file"}
          <5>1. written[i] = Items(0, made[i])
            BY <3>3, <3>6, <4>2 DEF Ran
          <5>2. Append(Items(0, made[i]), made[i] + 1) = Items(0, made[i] + 1)
            <6>1. 0 \in Nat /\ 0 <= made[i]
              BY <3>2
            <6> QED BY <3>2, <6>1, ItemsAppend
          <5>3. written'[i] = Append(written[i], x)
            BY <1>3, <2>2, <3>6, <4>2
          <5> QED BY <3>2, <3>5, <3>6, <4>2, <5>1, <5>2, <5>3
        <4> QED BY <3>6, <4>1, <4>2
      <3>8. i \notin over
        BY <1>1, <1>3, <3>1 DEF Ended
      <3>9. Ran(i, over, made2, took)'
        <4>1. Output' = Output /\ Runner(i)' = p /\ pc'[p] = "prog"
          BY <1>1, <1>3, <1>7, OutputKept DEF Runner
        <4>2. line[i].prog = "cat" => Taken(i, took)' = made2[i]
          <5>1. SUFFICES ASSUME line[i].prog = "cat" PROVE Taken(i, took)' = made2[i]
            OBVIOUS
          <5>2. n'[p] = n[p]
            BY <2>1, <5>1
          <5>3. Taken(i, took)' = Taken(i, took)
            BY <1>3, <1>7, <4>1, <5>2 DEF Taken
          <5>4. item[p] # 0
            BY <1>5, <5>1
          <5>5. Taken(i, took) = made[i] + 1
            BY <1>1, <1>3, <3>3, <5>1, <5>4 DEF Ran
          <5> QED BY <3>5, <5>3, <5>5
        <4>3. line[i].prog = "gen" => n'[p] = made2[i]
          BY <1>1, <1>3, <2>1, <3>3, <3>5 DEF Ran
        <4> QED BY <1>7, <2>1, <3>2, <3>7, <3>8, <4>1, <4>2, <4>3 DEF Ran
      <3>10. i < Len(line) => Carried(i, over, made2, took)'
        <4>1. SUFFICES ASSUME i < Len(line) PROVE Carried(i, over, made2, took)'
          OBVIOUS
        <4>2. Runner(i + 1)' = Runner(i + 1) /\ pc' = pc /\ line' = line
          BY <1>7 DEF Runner
        <4>3. took[i] <= made2[i]
          BY <3>2, <3>4, <3>5, <4>1
        <4>4. buf'[i] = IF line[i].outfile THEN <<>> ELSE Items(took[i], made2[i])
          <5>1. CASE f[1] = "w"
            <6>1. buf'[i] = Append(buf[i], x)
              BY <1>2, <1>3, <3>6, <5>1
            <6>2. Append(Items(took[i], made[i]), made[i] + 1) = Items(took[i], made[i] + 1)
              BY <3>2, <3>4, <4>1, ItemsAppend
            <6> QED BY <3>2, <3>4, <3>5, <3>6, <4>1, <5>1, <6>1, <6>2
          <5>2. CASE f[1] \in {"console", "file"}
            BY <1>3, <3>4, <3>6, <4>1, <5>2, Here
          <5> QED BY <3>6, <5>1, <5>2
        <4> QED BY <3>4, <4>1, <4>2, <4>3, <4>4 DEF Carried
      <3>11. i > 1 => Carried(i - 1, over, made2, took)'
        <4>1. SUFFICES ASSUME i > 1 PROVE Carried(i - 1, over, made2, took)'
          OBVIOUS
        <4>2. /\ i - 1 \in 1..(Len(line) - 1) /\ i - 1 \in 1..MaxStages
              /\ i - 1 \in Nat /\ i - 1 # i
          BY <1>3, <4>1, Here
        <4>3. Carried(i - 1, over, made, took)
          BY <3>1, <4>2 DEF Flow
        <4>4. buf'[i - 1] = buf[i - 1]
          BY <1>2, <3>6, <4>2
        <4> QED BY <1>7, <3>5, <4>2, <4>3, <4>4, CarriedKept
      <3>12. /\ \A j \in 1..MaxStages : j # i => made2[j] = made[j] /\ written'[j] = written[j]
             /\ \A j \in 1..MaxStages : j # i - 1 => took[j] = took[j]
             /\ \A j \in 1..MaxStages : j # i /\ j # i - 1 => buf'[j] = buf[j]
        BY <1>2, <2>2, <3>5, <3>6
      <3>13. UNCHANGED <<line, pc>> /\ \A q \in Proc : q # p => n'[q] = n[q] /\ item'[q] = item[q]
        BY <2>1, <2>2
      <3>14. \A j \in 1..MaxStages : j # i - 1 => took[j] = took[j]
        OBVIOUS
      <3>15. \A j \in 1..MaxStages : j # i /\ j # i - 1 => buf'[j] = buf[j]
        BY <3>12
      <3> QED BY <1>1, <3>1, <3>5, <3>9, <3>10, <3>11, <3>12, <3>13, <3>14, <3>15, MovesItem DEF i
    <2> QED BY <1>1, <2>2, <2>3 DEF FlowInv
  <1>8. CASE /\ \/ f[1] \in {"closed", "r"}
                \/ f[1] = "w" /\ Refs(R(f[2])) = {}
             /\ exit(p)
    <2>1. ASSUME NEW over \in SUBSET (1..MaxStages), NEW made \in [1..MaxStages -> 0..NITEMS],
                 NEW took \in [1..MaxStages -> 0..NITEMS],
                 ~failed, Ended(over), Flow(over, made, took)
          PROVE  Finished(i, over, made)
      <3>1. f = W(i) /\ f[2] = i /\ i < Len(line) /\ ~line[i].outfile /\ Refs(R(i)) = {}
        BY <1>4, <1>8, <2>1, FileNames DEF To, StdOut
      <3>2. i \in 1..(Len(line) - 1) /\ pc[E(i)] \in HasLeft
        BY <1>4, <2>1, <3>1
      <3>3. i + 1 \in over \/ line[i + 1].infile
        BY <2>1, <3>1, <3>2, NoReaders
      <3> QED BY <3>1, <3>3 DEF Finished
    <2> QED BY <1>1, <1>3, <1>8, <2>1, EndsInv DEF i
  <1> QED BY <1>7, <1>8 DEF write, f, x, i

(* Nobody is left, and the shell has reaped the first process. *)
LEMMA EndedAlone ==
  ASSUME ShellInv, line' = line, pc'[sh] # "fork", \A q \in Proc \ {sh} : pc'[q] = "none",
         NEW over, \A j \in 1..Len(line) : j \in over
  PROVE  Ended(over)'
  <1>1. \A i : Runner(i)' = Runner(i)
    BY DEF Runner
  <1>2. \A i \in 1..Len(line) : pc'[Runner(i)] = "none" /\ pc'[E(i)] = "none"
    BY Here
  <1>3. \A i \in 1..(Len(line) - 1) : pc'[E(i)] = "none"
    BY <1>2, Here
  <1> QED BY <1>1, <1>2, <1>3 DEF Ended, HasLeft, HasRight, Early, RightPc

(* The shell reaps the first process: every command of the line has ended. *)
LEMMA MainWaitFlow ==
  ASSUME ShellInv, FlowInv, main_wait
  PROVE  FlowInv'
  <1>1. pc[sh] = "wait" /\ UNCHANGED <<line, buf, n, item, written, failed>>
    BY DEF main_wait, wait
  <1>2. E(1) \in Proc \ {sh} /\ sh \in Proc /\ 1 \in 1..Len(line) /\ pc \in [Proc -> Labels]
    BY Here, Names
  <1>3. /\ pc[E(1)] \in {"none", "zombie"}
        /\ pc' = [pc EXCEPT ![sh] = "prompt", ![E(1)] = "none"]
    <2> DEFINE children == {q \in Proc \ {sh} : Parent(q) = sh /\ pc[q] # "none"}
    <2>1. CASE children = {} /\ Goto(sh, "prompt")
      <3>1. pc[E(1)] = "none"
        BY <1>2, <2>1, Children
      <3>2. [pc EXCEPT ![sh] = "prompt", ![E(1)] = "none"] = [pc EXCEPT ![sh] = "prompt"]
        BY <1>2, <3>1
      <3> QED BY <2>1, <3>1, <3>2 DEF Goto
    <2>2. CASE \E q \in children : /\ pc[q] = "zombie"
                                   /\ pc' = [pc EXCEPT ![sh] = "prompt", ![q] = "none"]
      BY <2>2, Children
    <2> QED BY <2>1, <2>2 DEF main_wait, wait
  <1>4. \A q \in Proc : pc'[q] = IF q = sh THEN "prompt" ELSE IF q = E(1) THEN "none" ELSE pc[q]
    BY <1>2, <1>3
  <1>5. Idle' /\ \A q \in Proc : pc'[q] = "prog" <=> pc[q] = "prog"
    <2>1. pc'[sh] = "prompt" /\ pc'[E(1)] = "none"
      BY <1>2, <1>4
    <2>2. \A q \in Proc : q # sh /\ q # E(1) => pc'[q] = pc[q]
      BY <1>4
    <2>3. pc[E(1)] # "prog" /\ pc[sh] # "prog"
      BY <1>1, <1>3
    <2>4. \A q \in Proc : pc'[q] = "prog" <=> pc[q] = "prog"
      BY <2>1, <2>2, <2>3
    <2> QED BY <1>1, <2>4, IdleKept DEF FlowInv
  <1>6. \A q \in Proc \ {sh} : pc'[q] = "none"
    <2>1. ShellInv'
      BY MainWaitStep
    <2>2. pc'[sh] = "prompt"
      BY <1>2, <1>4
    <2> QED BY <2>1, <2>2 DEF ShellInv, Family
  <1>7. ASSUME ~failed PROVE Flows'
    <2>1. PICK over \in SUBSET (1..MaxStages), made, took \in [1..MaxStages -> 0..NITEMS] :
            Ended(over) /\ Flow(over, made, took)
      BY <1>7 DEF FlowInv, Flows
    <2>2. \A j \in 1..Len(line) : j \in over
      <3>1. CASE pc[E(1)] = "none"
        BY <1>1, <2>1, <3>1 DEF Ended
      <3>2. CASE pc[E(1)] = "zombie"
        BY <1>2, <2>1, <3>2 DEF Ended
      <3> QED BY <1>3, <3>1, <3>2
    <2>3. Flow(over, made, took)'
      BY <1>1, <1>5, <1>6, <2>1, FlowKept DEF Piped, HasRight
    <2>4. Ended(over)'
      BY <1>1, <1>2, <1>4, <1>6, <2>2, EndedAlone
    <2> QED BY <2>3, <2>4 DEF Flows
  <1> QED BY <1>1, <1>5, <1>7 DEF FlowInv

(* The shell ends, and init starts another one: both between two lines. *)
LEMMA RestartFlow ==
  ASSUME ShellInv, FlowInv, main_exit \/ init_restart
  PROVE  FlowInv'
  <1>1. PICK l \in {"prompt", "zombie"} : pc[sh] \in {"prompt", "zombie"} /\ pc' = [pc EXCEPT ![sh] = l]
    BY DEF main_exit, init_restart, exit, Goto
  <1>2. sh \in Proc /\ pc \in [Proc -> Labels] /\ \A q \in Proc \ {sh} : pc[q] = "none"
    BY <1>1, Here, Names, Alone
  <1>3. pc'[sh] = l /\ \A q \in Proc \ {sh} : pc'[q] = "none"
    BY <1>1, <1>2
  <1>4. UNCHANGED <<line, buf, written, failed>>
    BY DEF main_exit, init_restart, exit
  <1>5. UNCHANGED <<n, item>>
    <2>1. /\ n \in [Proc -> 0..NITEMS] /\ item \in [Proc -> 0..NITEMS]
          /\ n[sh] = 0 /\ item[sh] = 0
      BY <1>1, <1>2 DEF ShellInv, Types, FlowInv, Idle
    <2>2. [n EXCEPT ![sh] = 0] = n /\ [item EXCEPT ![sh] = 0] = item
      BY <2>1
    <2> QED BY <2>2 DEF main_exit, init_restart, exit
  <1>6. \A q \in Proc : pc'[q] # "prog" /\ pc[q] # "prog"
    BY <1>1, <1>2, <1>3
  <1>7. Idle'
    BY <1>4, <1>5, <1>6, IdleKept DEF FlowInv
  <1>8. ASSUME ~failed PROVE Flows'
    <2>1. PICK over \in SUBSET (1..MaxStages), made, took \in [1..MaxStages -> 0..NITEMS] :
            Ended(over) /\ Flow(over, made, took)
      BY <1>8 DEF FlowInv, Flows
    <2>2. \A j \in 1..Len(line) : j \in over
      BY <1>1, <2>1 DEF Ended
    <2>3. Flow(over, made, took)'
      BY <1>3, <1>4, <1>5, <1>6, <2>1, FlowKept DEF Piped, HasRight
    <2>4. Ended(over)'
      BY <1>3, <1>4, <2>2, EndedAlone
    <2> QED BY <2>3, <2>4 DEF Flows
  <1> QED BY <1>4, <1>7, <1>8 DEF FlowInv

(* A new line: no command has started and nothing is written. *)
LEMMA GetcmdFlow ==
  ASSUME ShellInv, FlowInv, getcmd
  PROVE  FlowInv'
  <1>1. /\ pc[sh] = "prompt" /\ pc' = [pc EXCEPT ![sh] = "fork"] /\ line' \in Lines
        /\ written' = [i \in 1..MaxStages |-> <<>>] /\ UNCHANGED <<n, item>>
    BY DEF getcmd, Goto
  <1>2. sh \in Proc /\ pc \in [Proc -> Labels] /\ \A q \in Proc \ {sh} : pc[q] = "none"
    BY <1>1, Here, Names, Alone
  <1>3. pc'[sh] = "fork" /\ \A q \in Proc \ {sh} : pc'[q] = "none"
    BY <1>1, <1>2
  <1>4. Idle'
    <2>1. written' \in [1..MaxStages -> Seq(1..NITEMS)]
      BY <1>1
    <2>2. \A q \in Proc : n[q] = 0 /\ item[q] = 0
      BY <1>1, <1>2 DEF FlowInv, Idle
    <2> QED BY <1>1, <2>1, <2>2 DEF Idle
  <1> DEFINE none == [i \in 1..MaxStages |-> 0]
  <1>5. none \in [1..MaxStages -> 0..NITEMS] /\ \A i \in 1..MaxStages : none[i] = 0
    BY ShellAssumption
  <1> HIDE DEF none
  <1>6. Len(line') \in Nat /\ 1 <= Len(line') /\ Len(line') <= MaxStages /\ MaxStages \in Nat
    BY <1>1, Stages
  <1>7. \A i \in 1..Len(line') :
          i \in Nat /\ i \in 1..MaxStages /\ pc'[Runner(i)'] = "none" /\ pc'[E(i)] = "none"
    <2>1. TAKE i \in 1..Len(line')
    <2>2. i \in Nat /\ i \in 1..MaxStages /\ (i < Len(line') => i \in 1..(MaxStages - 1))
      BY <1>6
    <2>3. E(i) \in Proc \ {sh} /\ (i < Len(line') => L(i) \in Proc \ {sh})
      BY <2>2, Names
    <2> QED BY <1>3, <2>2, <2>3 DEF Runner
  <1>8. ASSUME NEW i \in 1..Len(line') PROVE Ran(i, {}, none, none)'
    <2>1. Items(0, 0) = <<>>
      BY ItemsEmpty
    <2>2. none[i] = 0 /\ written'[i] = <<>> /\ pc'[Runner(i)'] = "none"
      BY <1>1, <1>5, <1>7
    <2> QED BY <2>1, <2>2 DEF Ran
  <1>9. ASSUME NEW i \in 1..(Len(line') - 1) PROVE Carried(i, {}, none, none)'
    <2>1. i \in 1..Len(line')
      BY <1>6
    <2>2. none[i] = 0 /\ pc'[E(i)] = "none"
      BY <1>5, <1>7, <2>1
    <2> QED BY <2>2 DEF Carried, Piped, HasRight
  <1>10. Ended({})'
    <2>1. \A i \in 1..(Len(line') - 1) : pc'[E(i)] = "none"
      BY <1>6, <1>7
    <2> QED BY <1>3, <1>7, <2>1 DEF Ended, HasLeft, HasRight
  <1>11. Flows'
    <2>1. Flow({}, none, none)'
      BY <1>8, <1>9 DEF Flow
    <2> QED BY <1>5, <1>10, <2>1 DEF Flows
  <1> QED BY <1>4, <1>11 DEF FlowInv

(* A step of nobody. *)
LEMMA StutterFlow ==
  ASSUME ShellInv, FlowInv, UNCHANGED vars
  PROVE  FlowInv'
  <1>1. UNCHANGED <<line, pc, buf, n, item, written, failed>>
    BY DEF vars
  <1>2. Idle'
    BY <1>1, IdleKept DEF FlowInv
  <1>3. ASSUME ~failed PROVE Flows'
    <2>1. PICK over \in SUBSET (1..MaxStages), made, took \in [1..MaxStages -> 0..NITEMS] :
            Ended(over) /\ Flow(over, made, took)
      BY <1>3 DEF FlowInv, Flows
    <2>2. Flow(over, made, took)'
      BY <1>1, <2>1, FlowKept
    <2>3. Ended(over)'
      BY <1>1, <2>1 DEF Ended, Runner
    <2> QED BY <2>2, <2>3 DEF Flows
  <1> QED BY <1>1, <1>2, <1>3 DEF FlowInv

(* Every step keeps the account of the items: one step per action. *)
LEMMA FlowStep ==
  ASSUME ShellInv, FlowInv, [Next]_vars
  PROVE  FlowInv'
  <1>1. CASE getcmd BY <1>1, GetcmdFlow
  <1>2. CASE main_exit \/ init_restart BY <1>2, RestartFlow
  <1>3. CASE main_fork BY <1>3, MainForkFlow
  <1>4. CASE main_wait BY <1>4, MainWaitFlow
  <1>5. ASSUME NEW p \in Proc \ {sh}, Step(p) PROVE FlowInv'
    <2>1. CASE execline(p) BY <2>1, ExeclineFlow
    <2>2. CASE execline_pipe(p) BY <2>2, ExeclinePipeFlow
    <2>3. CASE execline_fork1(p) BY <2>3, ExeclineFork1Flow
    <2>4. CASE execline_fork2(p) BY <2>4, ExeclineFork2Flow
    <2>5. CASE left_child(p) \/ right_child(p) \/ execline_close(p) BY <2>5, ChildFlow
    <2>6. CASE execline_wait(p) BY <2>6, ExeclineWaitFlow
    <2>7. CASE execline_exit(p) BY <2>7, ExeclineExitFlow
    <2>8. CASE runcmd_empty(p) BY <2>8, RuncmdEmptyFlow
    <2>9. CASE runcmd(p) \/ runcmd_in(p) \/ runcmd_out(p) BY <2>9, RuncmdFlow
    <2>10. CASE runcmd_exec(p) BY <2>10, RuncmdExecFlow
    <2>11. CASE prog_exit(p) BY <2>11, ProgExitFlow
    <2>12. CASE read(p) BY <2>12, ReadFlow
    <2>13. CASE write(p) BY <2>13, WriteFlow
    <2> QED BY <1>5, <2>1, <2>2, <2>3, <2>4, <2>5, <2>6, <2>7, <2>8, <2>9, <2>10, <2>11,
               <2>12, <2>13 DEF Step
  <1>6. CASE UNCHANGED vars
    BY <1>6, StutterFlow
  <1> QED BY <1>1, <1>2, <1>3, <1>4, <1>5, <1>6 DEF Next, Main

(* A function on 1..m is a sequence of length m. *)
LEMMA AsSequence ==
  ASSUME NEW S, NEW m \in Nat, NEW g \in [1..m -> S]
  PROVE  g \in Seq(S) /\ Len(g) = m
OBVIOUS

(* What is written over a file is a file. *)
LEMMA OverType ==
  ASSUME NEW s \in Seq(Int), NEW t \in Seq(Int)
  PROVE  /\ Over(s, t) \in Seq(Int)
         /\ Len(Over(s, t)) = IF Len(s) < Len(t) THEN Len(t) ELSE Len(s)
  <1> DEFINE m == IF Len(s) < Len(t) THEN Len(t) ELSE Len(s)
  <1>1. m \in Nat /\ Len(s) \in Nat /\ Len(t) \in Nat /\ (m = Len(t) \/ m = Len(s))
    OBVIOUS
  <1>2. ASSUME NEW k \in 1..m PROVE (IF k <= Len(s) THEN s[k] ELSE t[k]) \in Int
    <2>1. k <= Len(s) => k \in 1..Len(s)
      BY <1>1
    <2>2. ~(k <= Len(s)) => k \in 1..Len(t)
      BY <1>1
    <2> QED BY <2>1, <2>2
  <1>3. Over(s, t) \in [1..m -> Int]
    BY <1>2 DEF Over
  <1> HIDE DEF m
  <1>4. Over(s, t) \in Seq(Int) /\ Len(Over(s, t)) = m
    BY <1>1, <1>3, AsSequence
  <1> QED BY <1>4 DEF m

(* Writing the next item at the offset that has been reached. *)
LEMMA PutOver ==
  ASSUME NEW s \in Seq(Int), NEW t \in Seq(Int), NEW x \in Int
  PROVE  Put(Over(s, t), Len(s), x) = Over(Append(s, x), t)
  <1> DEFINE u == Append(s, x)
             c == Over(s, t)
             m == IF Len(s) < Len(t) THEN Len(t) ELSE Len(s)
             w == IF Len(s) < m THEN m ELSE Len(s) + 1
  <1>1. Len(s) \in Nat /\ Len(t) \in Nat /\ m \in Nat /\ w \in Nat /\ Len(s) <= m
    OBVIOUS
  <1>2. Len(u) = Len(s) + 1 /\ \A k \in 1..Len(u) : u[k] = IF k = Len(s) + 1 THEN x ELSE s[k]
    OBVIOUS
  <1>3. c = [k \in 1..m |-> IF k <= Len(s) THEN s[k] ELSE t[k]]
    BY DEF Over
  <1>4. Len(c) = m
    BY OverType
  <1>5. Put(c, Len(s), x) = [k \in 1..w |-> IF k = Len(s) + 1 THEN x ELSE c[k]]
    BY <1>4 DEF Put
  <1>6. w = IF Len(u) < Len(t) THEN Len(t) ELSE Len(u)
    BY <1>1, <1>2
  <1>7. Over(u, t) = [k \in 1..w |-> IF k <= Len(u) THEN u[k] ELSE t[k]]
    BY <1>6 DEF Over
  <1> HIDE DEF u, c
  <1>8. ASSUME NEW k \in 1..w
        PROVE  (IF k = Len(s) + 1 THEN x ELSE c[k]) = IF k <= Len(u) THEN u[k] ELSE t[k]
    <2>1. CASE k = Len(s) + 1
      <3>1. k \in 1..Len(u) /\ k <= Len(u)
        BY <1>1, <1>2, <2>1
      <3> QED BY <1>2, <2>1, <3>1
    <2>2. CASE k # Len(s) + 1
      <3>1. k \in 1..m /\ k \in Nat
        BY <1>1, <2>2
      <3>2. c[k] = IF k <= Len(s) THEN s[k] ELSE t[k]
        BY <1>3, <3>1
      <3>3. k <= Len(u) <=> k <= Len(s)
        BY <1>1, <1>2, <2>2, <3>1
      <3>4. k <= Len(s) => k \in 1..Len(u) /\ u[k] = s[k]
        BY <1>1, <1>2, <2>2, <3>1
      <3> QED BY <2>2, <3>2, <3>3, <3>4
    <2> QED BY <2>1, <2>2
  <1> QED BY <1>5, <1>7, <1>8 DEF c, u

(* Nothing written yet. *)
LEMMA NothingOver ==
  ASSUME NEW t \in Seq(Int)
  PROVE  Over(<<>>, t) = t
  <1>1. Len(<<>>) = 0 /\ Len(t) \in Nat /\ t = [k \in 1..Len(t) |-> t[k]]
    OBVIOUS
  <1>2. (IF 0 < Len(t) THEN Len(t) ELSE 0) = Len(t)
    BY <1>1
  <1>3. Over(<<>>, t) = [k \in 1..Len(t) |-> IF k <= 0 THEN <<>>[k] ELSE t[k]]
    BY <1>1, <1>2 DEF Over
  <1>4. \A k \in 1..Len(t) : ~(k <= 0)
    BY <1>1
  <1> QED BY <1>1, <1>3, <1>4

(* A step that writes nothing. *)
LEMMA FilesKept ==
  ASSUME FilesInv, UNCHANGED <<line, written, files>>, ~failed' => ~failed
  PROVE  FilesInv'
BY DEF FilesInv, files

(* getcmd(): the files of the new line are as they are. *)
LEMMA GetcmdFiles ==
  ASSUME ShellInv, FilesInv, getcmd
  PROVE  FilesInv'
  <1>1. /\ line' \in Lines /\ disk' = old' /\ old' \in [1..MaxStages -> OldFiles]
        /\ written' = [i \in 1..MaxStages |-> <<>>]
    BY DEF getcmd
  <1>2. old' \in [1..MaxStages -> Seq(Int)]
    BY <1>1, ShellAssumption
  <1>3. ASSUME NEW i \in 1..Len(line') PROVE disk'[i] = Over(written'[i], old'[i])
    <2>1. i \in 1..MaxStages
      BY <1>1, Stages
    <2>2. written'[i] = <<>> /\ old'[i] \in Seq(Int)
      BY <1>1, <1>2, <2>1
    <2> QED BY <1>1, <2>2, NothingOver
  <1> QED BY <1>1, <1>2, <1>3 DEF FilesInv

(* write(): one more item of the file is new. *)
LEMMA WriteFiles ==
  ASSUME ShellInv, FlowInv, FilesInv, NEW p \in Proc \ {sh}, write(p), ~failed
  PROVE  FilesInv'
  <1> DEFINE i == Stage(p)
             f == ofile[p][1]
             x == IF Cmd(p).prog = "gen" THEN n[p] + 1 ELSE item[p]
  <1>1. pc[p] = "prog" /\ failed' = failed
    BY DEF write, Running
  <1>2. i \in 1..Len(line) /\ i \in 1..MaxStages /\ f = To(i)
    BY <1>1, RunningFacts
  <1>3. x \in Int
    <2>1. n[p] \in 0..NITEMS /\ item[p] \in 0..NITEMS /\ NITEMS \in Nat
      BY ShellAssumption DEF ShellInv, Types
    <2> QED BY <2>1
  <1>4. /\ old \in [1..MaxStages -> Seq(Int)] /\ disk \in [1..MaxStages -> Seq(Int)]
        /\ \A j \in 1..Len(line) : line[j].outfile => disk[j] = Over(written[j], old[j])
    BY DEF FilesInv
  <1>5. written \in [1..MaxStages -> Seq(1..NITEMS)]
    BY DEF FlowInv, Idle
  <1>6. written[i] \in Seq(Int) /\ old[i] \in Seq(Int) /\ disk[i] \in Seq(Int)
    <2>1. written[i] \in Seq(1..NITEMS) /\ 1..NITEMS \subseteq Int
      BY <1>2, <1>5
    <2>2. written[i] \in Seq(Int)
      BY <2>1, SeqMonotonic
    <2> QED BY <1>2, <1>4, <2>2
  <1> HIDE DEF i, f, x
  <1>7. CASE UNCHANGED <<line, written, files>>
    BY <1>1, <1>7, FilesKept
  <1>8. CASE /\ f[1] \in {"console", "file"}
             /\ written' = [written EXCEPT ![i] = Append(@, x)]
             /\ disk' = IF f[1] = "console" THEN disk
                        ELSE [disk EXCEPT ![i] = Put(@, Len(written[i]), x)]
             /\ UNCHANGED <<line, old>>
    <2>1. \A j \in 1..MaxStages : j # i => written'[j] = written[j] /\ disk'[j] = disk[j]
      BY <1>4, <1>5, <1>8
    <2>2. CASE line[i].outfile
      <3>1. f[1] = "file" /\ "file" # "console"
        BY <1>2, <2>2, FileNames DEF To
      <3>2. /\ written'[i] = Append(written[i], x)
            /\ disk'[i] = Put(disk[i], Len(written[i]), x)
        BY <1>2, <1>4, <1>5, <1>8, <3>1
      <3>3. disk[i] = Over(written[i], old[i])
        BY <1>2, <1>4, <2>2
      <3>4. disk'[i] = Over(written'[i], old[i])
        BY <1>3, <1>6, <3>2, <3>3, PutOver
      <3>5. disk' \in [1..MaxStages -> Seq(Int)]
        <4>1. disk'[i] \in Seq(Int)
          <5>1. Append(written[i], x) \in Seq(Int)
            BY <1>3, <1>6
          <5> QED BY <1>6, <3>2, <3>4, <5>1, OverType
        <4>2. disk' = [disk EXCEPT ![i] = disk'[i]]
          BY <1>2, <1>4, <1>8, <3>1, <3>2
        <4> QED BY <1>2, <1>4, <4>1, <4>2
      <3>6. \A j \in 1..Len(line) : line[j].outfile => disk'[j] = Over(written'[j], old[j])
        <4>1. \A j \in 1..Len(line) : j \in 1..MaxStages
          BY Here
        <4> QED BY <1>4, <2>1, <3>4, <4>1
      <3> QED BY <1>4, <1>8, <3>5, <3>6 DEF FilesInv
    <2>3. CASE ~line[i].outfile
      <3>1. f[1] # "file"
        BY <1>2, <1>8, <2>3, FileNames DEF To, StdOut
      <3>2. disk' = disk
        BY <1>8, <3>1
      <3>3. \A j \in 1..Len(line) : line[j].outfile => disk'[j] = Over(written'[j], old[j])
        <4>1. \A j \in 1..Len(line) : j \in 1..MaxStages
          BY Here
        <4> QED BY <1>4, <2>1, <2>3, <4>1
      <3> QED BY <1>4, <1>8, <3>2, <3>3 DEF FilesInv
    <2> QED BY <2>2, <2>3
  <1>9. CASE exit(p)
    BY <1>7, <1>9 DEF exit, files
  <1> QED BY <1>7, <1>8, <1>9 DEF write, f, x, i, files

(* Every step keeps the account of the files. *)
LEMMA FilesStep ==
  ASSUME ShellInv, FlowInv, FilesInv, [Next]_vars
  PROVE  FilesInv'
  <1>1. CASE getcmd BY <1>1, GetcmdFiles
  <1>2. CASE main_exit \/ Main
    BY <1>2, FilesKept DEF main_exit, Main, main_fork, main_wait, init_restart, exit, fork, wait
  <1>3. ASSUME NEW p \in Proc \ {sh}, Step(p) PROVE FilesInv'
    <2>1. CASE write(p)
      <3>1. CASE ~failed BY <2>1, <3>1, WriteFiles
      <3>2. CASE failed
        BY <2>1, <3>2 DEF write, exit, files, FilesInv
      <3> QED BY <3>1, <3>2
    <2>2. CASE execline(p) \/ execline_pipe(p) \/ execline_fork1(p) \/ execline_fork2(p)
      BY <2>2, FilesKept DEF execline, execline_pipe, execline_fork1, execline_fork2, fork
    <2>3. CASE execline_close(p) \/ left_child(p) \/ right_child(p)
      BY <2>3, FilesKept DEF execline_close, left_child, right_child, FdStep
    <2>4. CASE execline_wait(p) \/ execline_exit(p)
      BY <2>4, FilesKept DEF execline_wait, execline_exit, wait, exit
    <2>5. CASE runcmd_empty(p) \/ runcmd(p) \/ runcmd_in(p) \/ runcmd_out(p) \/ runcmd_exec(p)
      <3>1. CASE runcmd_empty(p)
        BY <3>1, FilesKept DEF runcmd_empty, exit
      <3>2. CASE runcmd(p)
        BY <3>2, FilesKept DEF runcmd
      <3>3. CASE runcmd_in(p)
        BY <3>3, FilesKept DEF runcmd_in, open, FdStep, exit
      <3>4. CASE runcmd_out(p)
        BY <3>4, FilesKept DEF runcmd_out, open, FdStep, exit
      <3>5. CASE runcmd_exec(p)
        BY <3>5, FilesKept DEF runcmd_exec, exit
      <3> QED BY <2>5, <3>1, <3>2, <3>3, <3>4, <3>5
    <2>6. CASE prog_exit(p) \/ read(p)
      BY <2>6, FilesKept DEF prog_exit, read, exit
    <2> QED BY <1>3, <2>1, <2>2, <2>3, <2>4, <2>5, <2>6 DEF Step
  <1>4. CASE UNCHANGED vars
    BY <1>4, FilesKept DEF vars, files
  <1> QED BY <1>1, <1>2, <1>3, <1>4 DEF Next

(* As long as no call of the line has failed, every item put out by a        *)
(* command is in the next pipe, in the hand of its reader or put out again,  *)
(* in order; and a command has ended only with all of its output written or  *)
(* with nobody left to read it.                                              *)
THEOREM ItemsAccounted == Spec => []FlowInv
  <1>1. Init => FlowInv
    <2>1. SUFFICES ASSUME Init PROVE FlowInv
      OBVIOUS
    <2>2. failed = TRUE /\ Idle
      BY <2>1 DEF Init, Idle
    <2> QED BY <2>2 DEF FlowInv
  <1>2. ShellInv /\ FlowInv /\ [Next]_vars => FlowInv'
    BY FlowStep
  <1> QED BY <1>1, <1>2, ShellSafety, PTL DEF Spec

(* As long as no call of the line has failed, a file that a command writes   *)
(* holds what it has written so far over its contents before the line.       *)
THEOREM FilesAccounted == Spec => []FilesInv
  <1>1. Init => FilesInv
    <2>1. SUFFICES ASSUME Init PROVE FilesInv
      OBVIOUS
    <2>2. failed = TRUE /\ old = [i \in 1..MaxStages |-> <<>>]
      BY <2>1 DEF Init
    <2> QED BY <2>2 DEF FilesInv
  <1>2. ShellInv /\ FlowInv /\ FilesInv /\ [Next]_vars => FilesInv'
    BY FilesStep
  <1> QED BY <1>1, <1>2, ShellSafety, ItemsAccounted, PTL DEF Spec

(* Whatever the line, the sizes of the pipes, the contents of the files and  *)
(* the order in which its processes run: when no call failed, the shell      *)
(* finds at its next prompt what the commands compute, on the console and at *)
(* the beginning of each file, followed by what the file held beyond that.   *)
THEOREM LinesCompute == Spec => []LineComputes
  <1>1. ASSUME ShellInv, FlowInv, FilesInv PROVE LineComputes
    <2>1. SUFFICES ASSUME pc[sh] = "prompt", ~failed, NEW i \in 1..Len(line)
                   PROVE  /\ written[i] = IF line[i].outfile \/ i = Len(line)
                                          THEN Output[i] ELSE <<>>
                          /\ line[i].outfile => disk[i] = Over(Output[i], old[i])
      BY DEF LineComputes
    <2>2. PICK over \in SUBSET (1..MaxStages), made, took \in [1..MaxStages -> 0..NITEMS] :
            Ended(over) /\ Flow(over, made, took)
      BY <1>1, <2>1 DEF FlowInv, Flows
    <2>3. Ran(i, over, made, took) /\ i \in over
      BY <2>1, <2>2 DEF Flow, Ended
    <2>4. CASE line[i].outfile \/ i = Len(line)
      <3>1. made[i] = Len(Output[i])
        BY <1>1, <2>3, <2>4, Here DEF Ran
      <3>2. Output[i] = Items(0, Len(Output[i]))
        BY <1>1, OutputAt
      <3>3. written[i] = Output[i]
        BY <2>3, <2>4, <3>1, <3>2 DEF Ran
      <3>4. line[i].outfile => disk[i] = Over(written[i], old[i])
        BY <1>1, <2>1 DEF FilesInv
      <3> QED BY <2>4, <3>3, <3>4
    <2>5. CASE ~(line[i].outfile \/ i = Len(line))
      BY <2>3, <2>5 DEF Ran
    <2> QED BY <2>4, <2>5
  <1> QED BY <1>1, ShellSafety, ItemsAccounted, FilesAccounted, PTL
=============================================================================
