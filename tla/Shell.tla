------------------------------- MODULE Shell -------------------------------
(***************************************************************************)
(* The shell of Proyecto1 (user/sh.c and user/commands.c): main() forks a  *)
(* process per line, execline() splits the line at its first pipe, forks a *)
(* process for the left command and one that calls execline() again on the *)
(* right, and runcmd() redirects and executes one command.                 *)
(*                                                                         *)
(* A line of n commands makes the processes E(1)..E(n), which run          *)
(* execline(), and L(1)..L(n-1), which run the left commands; E(n) becomes *)
(* the last command itself.  Every system call is one step.  Descriptors,  *)
(* pipes, fork, wait and exit are the kernel's, modelled from how the      *)
(* shell uses them: the lowest free descriptor is taken, a pipe reports    *)
(* end of file when it is empty and nobody can write to it, a write fails  *)
(* when nobody can read it.  Any fork, pipe, open or exec may fail.        *)
(*                                                                         *)
(* A parsed command is a record: the program and whether its input and     *)
(* output are redirected; parser.c is not part of this module.             *)
(***************************************************************************)
EXTENDS Integers, Sequences, FiniteSets

CONSTANTS
  Lines,      \* the command lines a user may type
  NITEMS,     \* how many items an input file holds and the program "gen" writes
  OldFiles,   \* what a file may hold before a command is redirected to it
  PIPESIZE,   \* how many items fit in a pipe
  Fallible    \* bound: the lines during which fork, pipe, open and exec may fail

Commands == [prog : {"", "gen", "cat", "quit"}, infile : BOOLEAN, outfile : BOOLEAN]

ASSUME ShellAssumption ==
  /\ Lines \subseteq Seq(Commands) \ {<<>>}
  /\ \E cmds \in Lines : \A other \in Lines : Len(other) <= Len(cmds)
                                      \* the buffer of main() is bounded
  /\ NITEMS \in Nat
  /\ PIPESIZE \in Nat \ {0}
  /\ OldFiles \subseteq Seq(Int) /\ <<>> \in OldFiles
  /\ Fallible \subseteq Lines

MaxStages == CHOOSE k \in {Len(cmds) : cmds \in Lines} :
               \A cmds \in Lines : Len(cmds) <= k

sh   == <<"sh", 0>>
E(i) == <<"E", i>>
L(i) == <<"L", i>>
Proc == {sh} \cup {E(i) : i \in 1..MaxStages} \cup {L(i) : i \in 1..(MaxStages - 1)}

(* The command of the line that p stands for. *)
Stage(p) == p[2]

Parent(p) == IF p = E(1) THEN sh
             ELSE IF p[1] = "L" THEN E(Stage(p)) ELSE E(Stage(p) - 1)

(* Open files: the console, the file that the command of stage i reads or    *)
(* the other one that it writes, the two ends of the pipe after stage i.     *)
Closed  == <<"closed", 0>>
Console == <<"console", 0>>
File(i) == <<"file", i>>
R(i)    == <<"r", i>>
W(i)    == <<"w", i>>

Fd == 0..4   \* 0, 1, 2 and the two of pipe(): the shell never has more open

VARIABLES
  line,     \* the command line being executed
  pc,
  ofile,    \* ofile[p][d]: what descriptor d of p refers to
  fd,       \* the local array fd[2] of execline()
  buf,      \* buf[i]: the items in the pipe after stage i
  n,        \* how many items p has read from its file, or written as "gen"
  item,     \* the item that a "cat" has read and not written yet, 0 when none
  written,  \* written[i]: what stage i has written to the console or its file
  disk,     \* disk[i]: the contents of the file that stage i writes, if any
  old,      \* history: those contents before the line
  failed    \* history: a call failed during this line

files == <<disk, old>>
vars == <<line, pc, ofile, fd, buf, n, item, written, disk, old, failed>>

OnConsole == [d \in Fd |-> IF d <= 2 THEN Console ELSE Closed]
AllClosed == [d \in Fd |-> Closed]

(* init starts the shell with the console as 0, 1 and 2. *)
Init ==
  /\ line \in Lines
  /\ pc = [p \in Proc |-> IF p = sh THEN "prompt" ELSE "none"]
  /\ ofile = [p \in Proc |-> IF p = sh THEN OnConsole ELSE AllClosed]
  /\ fd = [p \in Proc |-> <<-1, -1>>]
  /\ buf = [i \in 1..MaxStages |-> <<>>]
  /\ n = [p \in Proc |-> 0]
  /\ item = [p \in Proc |-> 0]
  /\ written = [i \in 1..MaxStages |-> <<>>]
  /\ old = [i \in 1..MaxStages |-> <<>>] /\ disk = old
  /\ failed = TRUE                  \* no line has been executed

-----------------------------------------------------------------------------
(* The kernel, as the shell uses it. *)

Free(p)   == {d \in Fd : ofile[p][d] = Closed}
Lowest(S) == CHOOSE d \in S : \A e \in S : d <= e
Refs(f)   == {pd \in Proc \X Fd : ofile[pd[1]][pd[2]] = f}

MayFail == line \in Fallible

Goto(p, l) == pc' = [pc EXCEPT ![p] = l]

close(p, d) ==
  ofile' = IF d \in Fd THEN [ofile EXCEPT ![p][d] = Closed] ELSE ofile

dup(p, d) ==
  ofile' = IF d \in Fd /\ ofile[p][d] # Closed /\ Free(p) # {}
           THEN [ofile EXCEPT ![p][Lowest(Free(p))] = ofile[p][d]] ELSE ofile

(* exit() closes every descriptor; the process waits to be reaped. *)
exit(p) ==
  /\ Goto(p, "zombie")
  /\ ofile' = [ofile EXCEPT ![p] = AllClosed]
  /\ fd' = [fd EXCEPT ![p] = <<-1, -1>>]
  /\ n' = [n EXCEPT ![p] = 0]
  /\ item' = [item EXCEPT ![p] = 0]
  /\ UNCHANGED <<line, buf, written, files>>

(* fork(): the child has a copy of the descriptors and of fd[]. *)
fork(p, child, l, next) ==
  /\ \/ /\ pc' = [pc EXCEPT ![p] = next, ![child] = l]
        /\ ofile' = [ofile EXCEPT ![child] = ofile[p]]
        /\ fd' = [fd EXCEPT ![child] = fd[p]]
        /\ UNCHANGED failed
     \/ /\ MayFail
        /\ Goto(p, next)
        /\ failed' = TRUE
        /\ UNCHANGED <<ofile, fd>>
  /\ UNCHANGED <<line, buf, n, item, written, files>>

(* wait(0): reaps a child, or returns -1 at once when there is none. *)
wait(p, next) ==
  LET children == {q \in Proc \ {sh} : Parent(q) = p /\ pc[q] # "none"} IN
  /\ \/ /\ children = {}
        /\ Goto(p, next)
     \/ \E q \in children :
          /\ pc[q] = "zombie"
          /\ pc' = [pc EXCEPT ![p] = next, ![q] = "none"]
  /\ UNCHANGED <<line, ofile, fd, buf, n, item, written, files, failed>>

(* One of the calls that only change the descriptors. *)
FdStep(p, l, next) ==
  /\ pc[p] = l
  /\ Goto(p, next)
  /\ UNCHANGED <<line, fd, buf, n, item, written, files, failed>>

-----------------------------------------------------------------------------
(* main() of sh.c. *)

(* The commands of a line whose output goes to a file. *)
Redirected(cmds) == {i \in 1..Len(cmds) : cmds[i].outfile}

(* getcmd() returns a line; the processes of the last one are gone.  The     *)
(* line names any files, so they hold anything.                              *)
getcmd ==
  /\ pc[sh] = "prompt"
  /\ line' \in Lines
  /\ Goto(sh, "fork")
  /\ written' = [i \in 1..MaxStages |-> <<>>]
  /\ old' \in [1..MaxStages -> OldFiles]
  /\ \A i \in 1..MaxStages : i \notin Redirected(line') => old'[i] = <<>>
  /\ disk' = old'
  /\ failed' = FALSE
  /\ UNCHANGED <<ofile, fd, buf, n, item>>

main_fork == pc[sh] = "fork" /\ fork(sh, E(1), "find", "wait")

main_wait == pc[sh] = "wait" /\ wait(sh, "prompt")

(* The line is "exit", or getcmd() is at the end of the input. *)
main_exit ==
  /\ pc[sh] = "prompt"
  /\ exit(sh)
  /\ UNCHANGED failed

(* External, init.c: init waits for the shell and starts another one. *)
init_restart ==
  /\ pc[sh] = "zombie"
  /\ Goto(sh, "prompt")
  /\ ofile' = [ofile EXCEPT ![sh] = OnConsole]
  /\ UNCHANGED <<line, fd, buf, n, item, written, files, failed>>

-----------------------------------------------------------------------------
(* execline() in E(i). *)

(* findpipe(): the left part is command i, the right part is what follows. *)
execline(p) ==
  /\ p[1] = "E" /\ pc[p] = "find"
  /\ Goto(p, IF Stage(p) < Len(line) THEN "pipe" ELSE "run")
  /\ UNCHANGED <<line, ofile, fd, buf, n, item, written, files, failed>>

(* What an uninitialised fd[] may hold: a descriptor that is open or not. *)
Garbage == {<<-1, -1>>, <<0, 1>>, <<1, 0>>}

(* pipe(fd), whose result is not looked at. *)
execline_pipe(p) ==
  LET a == Lowest(Free(p))
      b == Lowest(Free(p) \ {a})
  IN
  /\ pc[p] = "pipe"
  /\ Goto(p, "fork1")
  /\ \/ /\ ofile' = [ofile EXCEPT ![p][a] = R(Stage(p)), ![p][b] = W(Stage(p))]
        /\ fd' = [fd EXCEPT ![p] = <<a, b>>]
        /\ buf' = [buf EXCEPT ![Stage(p)] = <<>>]
        /\ UNCHANGED failed
     \/ /\ MayFail
        /\ fd' \in {[fd EXCEPT ![p] = g] : g \in Garbage}
        /\ failed' = TRUE
        /\ UNCHANGED <<ofile, buf>>
  /\ UNCHANGED <<line, n, item, written, files>>

execline_fork1(p) == pc[p] = "fork1" /\ fork(p, L(Stage(p)), "l_close1", "fork2")

execline_fork2(p) == pc[p] = "fork2" /\ fork(p, E(Stage(p) + 1), "r_close0", "close0")

\* Mutant: the original of the write end stays open.
left_child_keeps(p) ==
  \/ FdStep(p, "l_close1", "l_dup")     /\ close(p, 1)
  \/ FdStep(p, "l_dup", "l_closer")     /\ dup(p, fd[p][2])
  \/ FdStep(p, "l_closer", "run")       /\ close(p, fd[p][1])

(* The left child, up to its runcmd(). *)
left_child(p) ==
  \/ FdStep(p, "l_close1", "l_dup")     /\ close(p, 1)
  \/ FdStep(p, "l_dup", "l_closer")     /\ dup(p, fd[p][2])
  \/ FdStep(p, "l_closer", "l_closew")  /\ close(p, fd[p][1])
  \/ FdStep(p, "l_closew", "run")       /\ close(p, fd[p][2])

\* Mutant: the copy is made before descriptor 0 is closed.
right_child_late(p) ==
  \/ FdStep(p, "r_close0", "r_dup")     /\ dup(p, fd[p][1])
  \/ FdStep(p, "r_dup", "r_closer")     /\ close(p, 0)
  \/ FdStep(p, "r_closer", "r_closew")  /\ close(p, fd[p][1])
  \/ FdStep(p, "r_closew", "find")      /\ close(p, fd[p][2])

(* The right child, up to its execline(). *)
right_child(p) ==
  \/ FdStep(p, "r_close0", "r_dup")     /\ close(p, 0)
  \/ FdStep(p, "r_dup", "r_closer")     /\ dup(p, fd[p][1])
  \/ FdStep(p, "r_closer", "r_closew")  /\ close(p, fd[p][1])
  \/ FdStep(p, "r_closew", "find")      /\ close(p, fd[p][2])

\* Mutant: the parent keeps the write end.
execline_close_one(p) == FdStep(p, "close0", "wait1") /\ close(p, fd[p][1])

(* The parent closes both ends of the pipe and waits for two children. *)
execline_close(p) ==
  \/ FdStep(p, "close0", "close1")      /\ close(p, fd[p][1])
  \/ FdStep(p, "close1", "wait1")       /\ close(p, fd[p][2])

\* Mutant: the parent waits for one child only.
execline_wait_one(p) == pc[p] = "wait1" /\ wait(p, "exit")

execline_wait(p) ==
  \/ pc[p] = "wait1" /\ wait(p, "wait2")
  \/ pc[p] = "wait2" /\ wait(p, "exit")

(* exit(0) after execline() has returned. *)
execline_exit(p) == pc[p] = "exit" /\ exit(p) /\ UNCHANGED failed

-----------------------------------------------------------------------------
(* runcmd(): parse, redirect, execute. *)

Cmd(p) == line[Stage(p)]

AfterIn(p) == IF Cmd(p).outfile THEN "out" ELSE "exec"

(* parseline() finds no word: exit(0). *)
runcmd_empty(p) ==
  /\ pc[p] = "run"
  /\ Cmd(p).prog = ""
  /\ exit(p)
  /\ UNCHANGED failed

runcmd(p) ==
  /\ pc[p] = "run"
  /\ Cmd(p).prog # ""
  /\ Goto(p, IF Cmd(p).infile THEN "in" ELSE AfterIn(p))
  /\ UNCHANGED <<line, ofile, fd, buf, n, item, written, files, failed>>

(* open() takes the lowest descriptor that is free; reading or writing       *)
(* starts at the beginning of the file.                                      *)
open(p, l, next) ==
  /\ pc[p] = l
  /\ \/ /\ ofile' = [ofile EXCEPT ![p][Lowest(Free(p))] = File(Stage(p))]
        /\ Goto(p, next)
        /\ UNCHANGED <<line, fd, buf, n, item, written, files, failed>>
     \/ /\ MayFail
        /\ exit(p)
        /\ failed' = TRUE

runcmd_in(p) ==
  \/ FdStep(p, "in", "in_open") /\ close(p, 0)
  \/ open(p, "in_open", AfterIn(p))

\* Mutant: descriptor 1 is not closed.
runcmd_out_third(p) ==
  \/ FdStep(p, "out", "out_open") /\ UNCHANGED ofile
  \/ open(p, "out_open", "exec")

(* The flags are O_WRONLY | O_CREATE, not O_TRUNC: the contents stay.        *)
runcmd_out(p) ==
  \/ FdStep(p, "out", "out_open") /\ close(p, 1)
  \/ open(p, "out_open", "exec")

runcmd_exec(p) ==
  /\ pc[p] = "exec"
  /\ \/ /\ Goto(p, "prog")
        /\ UNCHANGED <<line, ofile, fd, buf, n, item, written, files, failed>>
     \/ /\ MayFail
        /\ exit(p)
        /\ failed' = TRUE

-----------------------------------------------------------------------------
(* External: the programs.  "gen" writes NITEMS items, "cat" copies its      *)
(* input to its output, "quit" does neither; all exit on an error.           *)

Running(p, prog) == pc[p] = "prog" /\ Cmd(p).prog = prog

prog_exit(p) ==
  /\ \/ Running(p, "quit")
     \/ Running(p, "gen") /\ n[p] = NITEMS
  /\ exit(p)
  /\ UNCHANGED failed

(* A read() of descriptor 0.  The console is at end of file; the file to     *)
(* write, which open() puts there when 0 was closed, cannot be read.         *)
read(p) ==
  LET f == ofile[p][0] IN
  /\ Running(p, "cat") /\ item[p] = 0
  /\ \/ /\ f[1] = "r" /\ buf[f[2]] # <<>>
        /\ item' = [item EXCEPT ![p] = Head(buf[f[2]])]
        /\ buf' = [buf EXCEPT ![f[2]] = Tail(@)]
        /\ UNCHANGED <<line, pc, ofile, fd, n, written, files>>
     \/ /\ f[1] = "file" /\ Cmd(p).infile /\ n[p] < NITEMS
        /\ item' = [item EXCEPT ![p] = n[p] + 1]
        /\ n' = [n EXCEPT ![p] = @ + 1]
        /\ UNCHANGED <<line, pc, ofile, fd, buf, written, files>>
     \/ /\ \/ f[1] = "r" /\ buf[f[2]] = <<>> /\ Refs(W(f[2])) = {}
           \/ f[1] = "file" /\ (n[p] = NITEMS \/ ~Cmd(p).infile)
           \/ f[1] \in {"console", "closed", "w"}
        /\ exit(p)
  /\ UNCHANGED failed

(* A file with the contents c after x was written at the offset o. *)
Put(c, o, x) ==
  [k \in 1..(IF o < Len(c) THEN Len(c) ELSE o + 1) |-> IF k = o + 1 THEN x ELSE c[k]]

(* A write() to descriptor 1; the offset in a file is what was written. *)
write(p) ==
  LET f == ofile[p][1]
      x == IF Cmd(p).prog = "gen" THEN n[p] + 1 ELSE item[p]
  IN
  /\ \/ Running(p, "cat") /\ item[p] # 0
     \/ Running(p, "gen") /\ n[p] < NITEMS
  /\ \/ /\ \/ /\ f[1] = "w" /\ Refs(R(f[2])) # {}
              /\ Len(buf[f[2]]) < PIPESIZE
              /\ buf' = [buf EXCEPT ![f[2]] = Append(@, x)]
              /\ UNCHANGED <<written, files>>
           \/ /\ f[1] \in {"console", "file"}
              /\ written' = [written EXCEPT ![Stage(p)] = Append(@, x)]
              /\ disk' = IF f[1] = "console" THEN disk
                         ELSE [disk EXCEPT ![Stage(p)] = Put(@, Len(written[Stage(p)]), x)]
              /\ UNCHANGED <<buf, old>>
        /\ item' = [item EXCEPT ![p] = 0]
        /\ n' = IF Cmd(p).prog = "gen" THEN [n EXCEPT ![p] = @ + 1] ELSE n
        /\ UNCHANGED <<line, pc, ofile, fd>>
     \/ /\ \/ f[1] \in {"closed", "r"}
           \/ f[1] = "w" /\ Refs(R(f[2])) = {}
        /\ exit(p)
  /\ UNCHANGED failed

-----------------------------------------------------------------------------
Step(p) ==
  \/ execline(p) \/ execline_pipe(p) \/ execline_fork1(p) \/ execline_fork2(p)
  \/ execline_close(p) \/ execline_wait(p) \/ execline_exit(p)
  \/ left_child(p) \/ right_child(p)
  \/ runcmd_empty(p) \/ runcmd(p) \/ runcmd_in(p) \/ runcmd_out(p) \/ runcmd_exec(p)
  \/ prog_exit(p) \/ read(p) \/ write(p)

Main == main_fork \/ main_wait \/ init_restart

Next == getcmd \/ main_exit \/ Main \/ \E p \in Proc \ {sh} : Step(p)

Spec == Init /\ [][Next]_vars

(* The kernel runs every process that can run (Proc). *)
FairSpec == Spec /\ WF_vars(Main) /\ \A p \in Proc \ {sh} : WF_vars(Step(p))

-----------------------------------------------------------------------------
(* The types; every descriptor that a call uses is one that exists. *)
Files == {Closed, Console} \cup {File(i) : i \in 1..MaxStages}
         \cup {R(i) : i \in 1..MaxStages} \cup {W(i) : i \in 1..MaxStages}

TypeOK ==
  /\ line \in Lines
  /\ ofile \in [Proc -> [Fd -> Files]]
  /\ \A p \in Proc : fd[p][1] \in -1..4 /\ fd[p][2] \in -1..4
  /\ \A i \in 1..MaxStages : Len(buf[i]) <= PIPESIZE
  /\ n \in [Proc -> 0..NITEMS] /\ item \in [Proc -> 0..NITEMS]
  /\ failed \in BOOLEAN

(* When nothing failed, a program starts with the descriptors its place in   *)
(* the line calls for, and with nothing else open: no stray end of a pipe    *)
(* can hold back the end of file of another command.                         *)
Wired ==
  /\ TypeOK
  /\ \A p \in Proc : pc[p] = "prog" /\ ~failed =>
       LET i == Stage(p) IN
       /\ ofile[p][0] = IF Cmd(p).infile THEN File(i)
                        ELSE IF i > 1 THEN R(i - 1) ELSE Console
       /\ ofile[p][1] = IF Cmd(p).outfile THEN File(i)
                        ELSE IF i < Len(line) THEN W(i) ELSE Console
       /\ ofile[p][2] = Console
       /\ \A d \in Fd : d > 2 => ofile[p][d] = Closed

(* The shell prompts again only when every process of the line has been      *)
(* reaped and every pipe is closed, also after a failed fork, pipe, open or  *)
(* exec.                                                                     *)
PromptAlone ==
  pc[sh] = "prompt" =>
    /\ \A p \in Proc \ {sh} : pc[p] = "none" /\ ofile[p] = AllClosed
    /\ ofile[sh] = OnConsole

(* What the commands of a line compute: a file goes out of a command that    *)
(* makes it or reads it, and on through every "cat" whose input is the pipe. *)
AllItems == [i \in 1..NITEMS |-> i]

Source(i) == line[i].prog = "gen" \/ (line[i].prog = "cat" /\ line[i].infile)
Passes(i) == line[i].prog = "cat" /\ ~line[i].infile /\ i > 1 /\ ~line[i - 1].outfile

Output[i \in 0..MaxStages] ==
  IF i = 0 \/ i > Len(line) THEN <<>>
  ELSE IF Source(i) THEN AllItems
  ELSE IF Passes(i) THEN Output[i - 1] ELSE <<>>

(* The contents t after s was written over their beginning. *)
Over(s, t) ==
  [k \in 1..(IF Len(s) < Len(t) THEN Len(t) ELSE Len(s)) |->
     IF k <= Len(s) THEN s[k] ELSE t[k]]

(* On a line on which nothing failed the commands write to the console and   *)
(* to the files of their redirections exactly what they compute: nothing is  *)
(* lost, doubled or out of order in the pipes.  A file that held no more     *)
(* than that has it as its contents; of a longer one the tail stays, since   *)
(* runcmd() does not truncate it.                                            *)
LineComputes ==
  pc[sh] = "prompt" /\ ~failed =>
    \A i \in 1..Len(line) :
      /\ written[i] = IF line[i].outfile \/ i = Len(line) THEN Output[i] ELSE <<>>
      /\ line[i].outfile => disk[i] = Over(Output[i], old[i])

(* The shell always comes back to its prompt: no command waits for ever for  *)
(* the end of a pipe, although the processes between two pipes keep a read   *)
(* end open while they wait for their children.                              *)
PromptReturns == (pc[sh] = "fork") ~> (pc[sh] = "prompt")
=============================================================================
