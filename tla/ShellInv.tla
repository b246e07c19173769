----------------------------- MODULE ShellInv -----------------------------
(***************************************************************************)
(* The inductive invariant of Shell: which processes of the line exist     *)
(* when their parents are at a given call, and which descriptors each of   *)
(* them has there, with and without failures; and, as long as nothing has  *)
(* failed, where the items are that the commands pass on.                  *)
(***************************************************************************)
EXTENDS Shell

-----------------------------------------------------------------------------
(* Where a process can be. *)

(* In the pipe branch of execline(), before and after its forks. *)
PipePc == {"pipe", "fork1", "fork2", "close0", "close1", "wait1", "wait2", "exit"}

(* The left and the right child, before they look at their commands. *)
LeftPc  == {"l_close1", "l_dup", "l_closer", "l_closew"}
RightPc == {"r_close0", "r_dup", "r_closer", "r_closew"}

(* In runcmd(). *)
RunPc == {"run", "in", "in_open", "out", "out_open", "exec", "prog"}

ShPc == {"prompt", "fork", "wait", "zombie"}
EPc  == {"none", "find", "zombie"} \cup RightPc \cup PipePc \cup RunPc
LPc  == {"none", "zombie"} \cup LeftPc \cup RunPc

(* The types. *)
Types ==
  /\ line \in Lines
  /\ pc \in [Proc -> ShPc \cup EPc \cup LPc]
  /\ ofile \in [Proc -> [Fd -> Files]]
  /\ fd \in [Proc -> (-1..4) \X (-1..4)]
  /\ buf \in [1..MaxStages -> Seq(1..NITEMS)]
  /\ \A i \in 1..MaxStages : Len(buf[i]) <= PIPESIZE
  /\ n \in [Proc -> 0..NITEMS] /\ item \in [Proc -> 0..NITEMS]
  /\ failed \in BOOLEAN

(* Which part of the line a process works on. *)
Place(p) ==
  /\ p[1] = "E" => pc[p] \in EPc
  /\ p[1] = "L" => pc[p] \in LPc
  /\ pc[p] # "none" => Stage(p) <= Len(line)
  /\ pc[p] \in PipePc \/ (p[1] = "L" /\ pc[p] # "none") => Stage(p) < Len(line)
  /\ pc[p] \in RightPc => Stage(p) > 1
  /\ pc[p] \in RunPc /\ p[1] = "E" => Stage(p) = Len(line)
  /\ pc[p] \in {"in", "in_open"} => Cmd(p).infile
  /\ pc[p] \in {"out", "out_open"} => Cmd(p).outfile

-----------------------------------------------------------------------------
(* Families. *)

(* While execline() is here it may have a left child, or a right one. *)
HasLeft  == {"fork2", "close0", "close1", "wait1", "wait2"}
HasRight == {"close0", "close1", "wait1", "wait2"}

(* Whoever exists has a parent that will wait for it, up to the shell; after *)
(* its first wait execline() has one child at most.                          *)
Family ==
  /\ \A p \in Proc \ {sh} : pc[p] # "none" => pc[sh] = "wait"
  /\ \A j \in 1..(MaxStages - 1) : pc[L(j)] # "none" => pc[E(j)] \in HasLeft
  /\ \A j, k \in 1..MaxStages :
       k < j /\ pc[E(j)] # "none" => pc[E(k)] \in HasRight
  /\ \A j \in 1..(MaxStages - 1) :
       pc[E(j)] = "wait2" => pc[L(j)] = "none" \/ pc[E(j + 1)] = "none"

-----------------------------------------------------------------------------
(* Descriptors. *)

Holds(p, f0, f1, f3, f4) ==
  /\ ofile[p][0] = f0 /\ ofile[p][1] = f1 /\ ofile[p][2] = Console
  /\ ofile[p][3] = f3 /\ ofile[p][4] = f4

(* Whatever failed: 3 and 4 are free again when the next pipe() or open()    *)
(* needs them, because only fd[] can be there; and what was closed to make   *)
(* room is still closed when the next call takes it.                         *)
Spare(p) ==
  /\ pc[p] \in {"none", "zombie"} => ofile[p] = AllClosed
  /\ \A d \in 3..4 : ofile[p][d] # Closed =>
       \/ /\ pc[p] \in {"fork1", "fork2", "close0"} \cup {"l_close1", "l_dup", "l_closer"}
                        \cup {"r_close0", "r_dup", "r_closer"}
          /\ d \in {fd[p][1], fd[p][2]}
       \/ pc[p] \in {"close1", "l_closew", "r_closew"} /\ d = fd[p][2]
  /\ pc[p] \in {"r_dup", "in_open"} => ofile[p][0] = Closed
  /\ pc[p] \in {"l_dup", "out_open"} => ofile[p][1] = Closed

(* What stage i reads and writes before its redirections, and after them. *)
StdIn(i)  == IF i > 1 THEN R(i - 1) ELSE Console
StdOut(i) == IF i < Len(line) THEN W(i) ELSE Console
From(i)   == IF line[i].infile THEN File(i) ELSE StdIn(i)
To(i)     == IF line[i].outfile THEN File(i) ELSE StdOut(i)

(* The descriptors of p when nothing has failed, call by call. *)
Wiring(p) ==
  LET i == Stage(p) IN
  /\ pc[p] \in {"find", "pipe"} => Holds(p, StdIn(i), Console, Closed, Closed)
  /\ pc[p] \in {"fork1", "fork2", "close0", "close1"} \cup LeftPc \cup RightPc =>
       fd[p] = <<3, 4>>
  /\ pc[p] \in {"fork1", "fork2", "close0", "l_close1"} =>
       Holds(p, StdIn(i), Console, R(i), W(i))
  /\ pc[p] = "close1"   => Holds(p, StdIn(i), Console, Closed, W(i))
  /\ pc[p] = "l_dup"    => Holds(p, StdIn(i), Closed, R(i), W(i))
  /\ pc[p] = "l_closer" => Holds(p, StdIn(i), W(i), R(i), W(i))
  /\ pc[p] = "l_closew" => Holds(p, StdIn(i), W(i), Closed, W(i))
  /\ pc[p] = "r_close0" => Holds(p, StdIn(i - 1), Console, R(i - 1), W(i - 1))
  /\ pc[p] = "r_dup"    => Holds(p, Closed, Console, R(i - 1), W(i - 1))
  /\ pc[p] = "r_closer" => Holds(p, R(i - 1), Console, R(i - 1), W(i - 1))
  /\ pc[p] = "r_closew" => Holds(p, R(i - 1), Console, Closed, W(i - 1))
  /\ pc[p] \in {"run", "in"} => Holds(p, StdIn(i), StdOut(i), Closed, Closed)
  /\ pc[p] = "in_open"  => Holds(p, Closed, StdOut(i), Closed, Closed)
  /\ pc[p] = "out"      => Holds(p, From(i), StdOut(i), Closed, Closed)
  /\ pc[p] = "out_open" => Holds(p, From(i), Closed, Closed, Closed)
  /\ pc[p] \in {"exec", "prog"} => Holds(p, From(i), To(i), Closed, Closed)

(* What is known of a process of the line. *)
Local(p) == Place(p) /\ Spare(p) /\ (~failed => Wiring(p))

(* The shell itself. *)
ShInv ==
  /\ pc[sh] \in ShPc
  /\ ofile[sh] = IF pc[sh] = "zombie" THEN AllClosed ELSE OnConsole

(* The invariant. *)
ShellInv ==
  /\ Types
  /\ ShInv
  /\ Family
  /\ \A p \in Proc \ {sh} : Local(p)

-----------------------------------------------------------------------------
(* What flows through the line. *)

(* execline() has not forked anybody yet. *)
Early == {"find", "pipe", "fork1"} \cup RightPc

(* The pipe of execline() has been made, and some process has an end of it. *)
Piped == {"fork1", "fork2"} \cup HasRight

(* The process that runs command i. *)
Runner(i) == IF i < Len(line) THEN L(i) ELSE E(i)

(* Which commands have ended, seen from the processes: over is the set of    *)
(* them.  A process that is gone leaves no trace of its own, so it is the    *)
(* place of its parent that tells "not started" from "reaped".               *)
Ended(over) ==
  /\ \A i \in 1..Len(line) : pc[Runner(i)] \notin {"none", "zombie"} => i \notin over
  /\ \A i \in 1..Len(line) : pc[Runner(i)] = "zombie" => i \in over
  /\ \A i \in 1..(Len(line) - 1) :
       pc[E(i)] \in HasLeft \cup {"exit"} /\ pc[L(i)] = "none" => i \in over
  /\ \A i \in 1..Len(line) : pc[E(i)] = "zombie" => \A j \in i..Len(line) : j \in over
  /\ \A i \in 1..(Len(line) - 1) :
       pc[E(i)] \in HasRight \cup {"exit"} /\ pc[E(i + 1)] = "none" =>
         \A j \in (i + 1)..Len(line) : j \in over
  /\ pc[sh] \in {"prompt", "zombie"} \/ (pc[sh] = "wait" /\ pc[E(1)] = "none") =>
       \A j \in 1..Len(line) : j \in over
  /\ \A i \in 1..Len(line) : pc[E(i)] \in Early =>
       \A j \in i..Len(line) : j \notin over
  /\ \A i \in 1..Len(line) : pc[E(i)] = "fork2" =>
       \A j \in (i + 1)..Len(line) : j \notin over
  /\ pc[sh] = "fork" => \A j \in 1..Len(line) : j \notin over

(* The items a + 1, ..., b. *)
Items(a, b) == [k \in 1..(b - a) |-> a + k]

(* How many items command i has read, when took[j] of them have been taken   *)
(* out of pipe j. *)
Taken(i, took) ==
  IF line[i].infile THEN n[Runner(i)] ELSE IF i > 1 THEN took[i - 1] ELSE 0

(* Command i has put made[i] items out, in order and without a gap, and has  *)
(* at most one item in hand.  When it has ended it has put out everything,   *)
(* or nobody was left to read it.                                            *)
Ran(i, over, made, took) ==
  LET p == Runner(i) IN
  /\ Output[i] = <<>> => made[i] = 0
  /\ written[i] = IF line[i].outfile \/ i = Len(line) THEN Items(0, made[i]) ELSE <<>>
  /\ pc[p] = "prog" /\ line[i].prog = "gen" => n[p] = made[i]
  /\ pc[p] = "prog" /\ line[i].prog = "cat" =>
       /\ item[p] = 0 => Taken(i, took) = made[i]
       /\ item[p] # 0 => item[p] = made[i] + 1 /\ Taken(i, took) = made[i] + 1
  /\ i \notin over /\ pc[p] # "prog" => made[i] = 0
  /\ i \in over => \/ made[i] = Len(Output[i])
                   \/ /\ i < Len(line) /\ ~line[i].outfile
                      /\ i + 1 \in over \/ line[i + 1].infile

(* The pipe after command i: what was put in and not taken out yet. *)
Carried(i, over, made, took) ==
  /\ took[i] <= made[i]
  /\ line[i].outfile => took[i] = 0
  /\ pc[E(i)] \in Piped =>
       buf[i] = IF line[i].outfile THEN <<>> ELSE Items(took[i], made[i])
  /\ i + 1 \notin over /\ pc[Runner(i + 1)] # "prog" => took[i] = 0

Flow(over, made, took) ==
  /\ \A i \in 1..Len(line) : Ran(i, over, made, took)
  /\ \A i \in 1..(Len(line) - 1) : Carried(i, over, made, took)

(* A program that has not started, or has ended, counts from 0. *)
Idle ==
  /\ written \in [1..MaxStages -> Seq(1..NITEMS)]
  /\ \A p \in Proc : pc[p] # "prog" => n[p] = 0 /\ item[p] = 0

(* As long as nothing fails there are such an over, made and took. *)
Flows ==
  \E over \in SUBSET (1..MaxStages), made, took \in [1..MaxStages -> 0..NITEMS] :
    Ended(over) /\ Flow(over, made, took)

FlowInv == Idle /\ (~failed => Flows)

(* What is in the files that the commands write: what they have written so   *)
(* far, over what was there before the line.                                 *)
FilesInv ==
  /\ old \in [1..MaxStages -> Seq(Int)]
  /\ ~failed =>
       /\ disk \in [1..MaxStages -> Seq(Int)]
       /\ \A i \in 1..Len(line) : line[i].outfile => disk[i] = Over(written[i], old[i])
=============================================================================
