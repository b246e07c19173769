-------------------------------- MODULE Line --------------------------------
(***************************************************************************)
(* A command line of the shell, from the keyboard to argv: getcmd() of     *)
(* sh.c and gets() of the library fill a buffer, execline() of commands.c  *)
(* cuts it at the pipes (findpipe() of parser.c) and runcmd() cuts each    *)
(* command into words and file names (parseline()) by writing NULs into    *)
(* the same buffer.                                                        *)
(*                                                                         *)
(* main() and execline() fork, and every process has a copy of the buffer  *)
(* of its own, so that one process at a time is followed: at a fork the    *)
(* behaviours split into those of the parent and of the children.          *)
(***************************************************************************)
EXTENDS Integers, Sequences, SequencesExt, FiniteSetsExt

CONSTANTS
  NBUF,      \* sizeof(buf) in main()
  ArgvSizes, \* the values of MAXARGS that the shell may be compiled with
  Letters,   \* the characters with no meaning for the shell
  EXIT,      \* the string "exit"
  Keys,      \* the characters that are typed
  MaxTyped   \* bound on the characters that are typed

ASSUME LineAssumption ==
  /\ NBUF \in Nat \ {0}
  /\ ArgvSizes \subseteq Nat \ {0}
  /\ MaxTyped \in Nat

NUL == "nul"
SP  == "space"
NL  == "newline"
CR  == "return"
Blank == {SP, NL}

Char == Letters \cup Blank \cup {CR, "<", ">", "|"}

ASSUME CharAssumption ==
  /\ Letters \cap {NUL, NL, CR, SP, "<", ">", "|"} = {}
  /\ Keys \subseteq Char
  /\ EXIT \in Seq(Letters)

NoFile == -1

VARIABLES
  buf,              \* the buffer
  pc,
  i,                \* i of gets(), p of parseline()
  cmdline,          \* where the command of this process starts
  argv,             \* where the words that parseline() stored start
  room,             \* MAXARGS, the entries of argv[]
  infile, outfile,  \* where the file names start, or NoFile
  typed,            \* the number of characters read so far (bound)
  line,             \* history: the characters that the last gets() read
  nth               \* history: which command of the line this process has

parse == <<argv, room, infile, outfile>>
lvars == <<buf, pc, i, cmdline, argv, room, infile, outfile, typed, line, nth>>

LInit ==
  /\ buf = [k \in 0..(NBUF - 1) |-> NUL]
  /\ pc = "getcmd"
  /\ i = 0 /\ cmdline = 0
  /\ argv = <<>> /\ room = 0 /\ infile = NoFile /\ outfile = NoFile
  /\ typed = 0
  /\ line = <<>> /\ nth = 1

(* The first position from k on that holds one of the characters in S. *)
Find(b, k, S) == Min({j \in k..(NBUF - 1) : b[j] \in S})

-----------------------------------------------------------------------------
(* getcmd() and gets(). *)

(* memset(buf, 0, nbuf); gets(buf, nbuf); *)
getcmd ==
  /\ pc = "getcmd"
  /\ buf' = [k \in 0..(NBUF - 1) |-> NUL]
  /\ i' = 0
  /\ line' = <<>>
  /\ pc' = "gets"
  /\ UNCHANGED <<cmdline, parse, typed, nth>>

(* read(0, &c, 1) gives a character. *)
gets_read(c) ==
  /\ pc = "gets"
  /\ i + 1 < NBUF
  /\ typed < MaxTyped
  /\ typed' = typed + 1
  /\ buf' = [buf EXCEPT ![i] = c]
  /\ i' = i + 1
  /\ line' = Append(line, c)
  /\ pc' = IF c \in {NL, CR} THEN "gets_end" ELSE "gets"
  /\ UNCHANGED <<cmdline, parse, nth>>

(* The end of the line, of the buffer or, at any time, of the input.  The    *)
(* shell exits when nothing was read.                                        *)
gets_end ==
  /\ pc \in {"gets", "gets_end"}
  /\ buf' = [buf EXCEPT ![i] = NUL]
  /\ pc' = IF buf'[0] = NUL THEN "exited" ELSE "main"
  /\ i' = 0
  /\ UNCHANGED <<cmdline, parse, typed, line, nth>>

-----------------------------------------------------------------------------
(* main() and execline(). *)

(* The string that starts at k in the buffer, as a C program sees it. *)
Str(k) == [j \in 1..(Find(buf, k, {NUL}) - k) |-> buf[k + j - 1]]

strcmp(k, t) == Str(k) = t       \* that is, strcmp() returns 0

IsExit == strcmp(0, EXIT) \/ strcmp(0, Append(EXIT, NL))

main_exit ==
  /\ pc = "main" /\ IsExit
  /\ pc' = "exited"
  /\ UNCHANGED <<buf, i, cmdline, parse, typed, line, nth>>

(* fork(): the child goes to execline(buf), the shell waits and asks again. *)
main_child ==
  /\ pc = "main" /\ ~IsExit
  /\ cmdline' = 0
  /\ nth' = 1
  /\ pc' = "execline"
  /\ UNCHANGED <<buf, i, parse, typed, line>>

main_shell ==
  /\ pc = "main" /\ ~IsExit
  /\ pc' = "getcmd"
  /\ UNCHANGED <<buf, i, cmdline, parse, typed, line, nth>>

(* findpipe(): the buffer cut at the first bar, and the right half if any. *)
findpipe(b, k) == LET bar == Find(b, k, {NUL, "|"}) IN
  [left |-> [b EXCEPT ![bar] = NUL], right |-> IF b[bar] = "|" THEN bar + 1 ELSE NoFile]

(* The process that runs the command: the one that called execline() when    *)
(* there is no pipe, the first child when there is one.                      *)
execline_left ==
  /\ pc = "execline"
  /\ buf' = findpipe(buf, cmdline).left
  /\ pc' = "runcmd"
  /\ UNCHANGED <<i, cmdline, parse, typed, line, nth>>

(* The second child: execline(right). *)
execline_right ==
  /\ pc = "execline"
  /\ findpipe(buf, cmdline).right # NoFile
  /\ buf' = findpipe(buf, cmdline).left
  /\ cmdline' = findpipe(buf, cmdline).right
  /\ nth' = nth + 1
  /\ UNCHANGED <<pc, i, parse, typed, line>>

-----------------------------------------------------------------------------
(* runcmd() and parseline(). *)

runcmd ==
  /\ pc = "runcmd"
  /\ i' = cmdline
  /\ argv' = <<>> /\ room' \in ArgvSizes
  /\ infile' = NoFile /\ outfile' = NoFile
  /\ pc' = "parseline"
  /\ UNCHANGED <<buf, cmdline, typed, line, nth>>

(* Blanks are overwritten with NULs. *)
parseline_blank ==
  /\ pc = "parseline"
  /\ buf[i] \in Blank
  /\ LET q == Find(buf, i, (Char \cup {NUL}) \ Blank) IN
     /\ buf' = [k \in 0..(NBUF - 1) |-> IF k \in i..(q - 1) THEN NUL ELSE buf[k]]
     /\ i' = q
  /\ UNCHANGED <<pc, cmdline, parse, typed, line, nth>>

(* Where the name after the arrow at i starts, and where it ends. *)
FileStart == Find(buf, i + 1, (Char \cup {NUL}) \ {SP})
FileEnd   == Find(buf, FileStart, Blank \cup {NUL})

\* Mutant: the arrow is not overwritten.
parseline_file_uncut(arrow) ==
  /\ pc = "parseline"
  /\ buf[i] = arrow
  /\ i' = FileEnd
  /\ UNCHANGED <<buf, pc, cmdline, argv, room, typed, line, nth>>

(* An arrow: it becomes a NUL and the next word is a file name, which ends   *)
(* only at a blank.                                                          *)
parseline_file(arrow) ==
  /\ pc = "parseline"
  /\ buf[i] = arrow
  /\ buf' = [buf EXCEPT ![i] = NUL]
  /\ i' = FileEnd
  /\ UNCHANGED <<pc, cmdline, argv, room, typed, line, nth>>

parseline_in  == parseline_file("<") /\ infile' = FileStart /\ UNCHANGED outfile
parseline_out == parseline_file(">") /\ outfile' = FileStart /\ UNCHANGED infile

\* Mutant: a word ends at a blank only.
WordEnd_blank == Find(buf, i, Blank \cup {NUL})

WordEnd == Find(buf, i, Blank \cup {NUL, "<", ">"})

(* argv[argc++] = p, wherever that is: what happens after a store outside of *)
(* argv[] is undefined.                                                      *)
parseline_word ==
  /\ pc = "parseline"
  /\ buf[i] \notin Blank \cup {NUL, "<", ">"}
  /\ IF Len(argv) < room
     THEN argv' = Append(argv, i) /\ UNCHANGED pc
     ELSE pc' = "overrun" /\ UNCHANGED argv
  /\ i' = WordEnd
  /\ UNCHANGED <<buf, cmdline, room, infile, outfile, typed, line, nth>>

(* argv[argc] = 0; a command without words does nothing. *)
parseline_end ==
  /\ pc = "parseline"
  /\ buf[i] = NUL
  /\ pc' = IF Len(argv) >= room THEN "overrun"
           ELSE IF argv = <<>>  THEN "empty" ELSE "exec"
  /\ i' = 0
  /\ UNCHANGED <<buf, cmdline, parse, typed, line, nth>>

-----------------------------------------------------------------------------
LNext ==
  \/ getcmd \/ gets_end \/ \E c \in Keys : gets_read(c)
  \/ main_exit \/ main_child \/ main_shell \/ execline_left \/ execline_right
  \/ runcmd \/ parseline_blank \/ parseline_in \/ parseline_out
  \/ parseline_word \/ parseline_end

LSpec == LInit /\ [][LNext]_lvars

-----------------------------------------------------------------------------
(* The reference: what a line means, read character by character. *)

(* A command of which nothing was read.  A file is a sequence of at most one *)
(* name; an empty name is a redirection too.                                 *)
Fresh(c) == [nth |-> c, mode |-> "gap", words |-> <<>>, infile |-> <<>>, outfile |-> <<>>]

(* The last one of some words goes on with c. *)
Longer(ws, c) == [ws EXCEPT ![Len(ws)] = Append(@, c)]

(* One more character of a command, c, after what was read of it, s.  Spaces *)
(* between an arrow and the name are skipped, and the last name counts.      *)
Lex(s, c) ==
  IF c = SP /\ s.mode \in {"<", ">"} THEN s
  ELSE IF c \in Blank            THEN [s EXCEPT !.mode = "gap"]
  ELSE IF s.mode \in {"<", "infile"}
                                 THEN [s EXCEPT !.mode = "infile", !.infile = Longer(s.infile, c)]
  ELSE IF s.mode \in {">", "outfile"}
                                 THEN [s EXCEPT !.mode = "outfile", !.outfile = Longer(s.outfile, c)]
  ELSE IF c = "<"                THEN [s EXCEPT !.mode = "<", !.infile = << <<>> >>]
  ELSE IF c = ">"                THEN [s EXCEPT !.mode = ">", !.outfile = << <<>> >>]
  ELSE IF s.mode = "word"        THEN [s EXCEPT !.words = Longer(s.words, c)]
  ELSE [s EXCEPT !.mode = "word", !.words = Append(s.words, <<c>>)]

(* What the first k characters of the line say about the command in which    *)
(* they end: a bar starts the next one.                                      *)
Read[k \in 0..(NBUF - 1)] ==
  IF k = 0 THEN Fresh(1)
  ELSE IF line[k] = "|" THEN Fresh(Read[k - 1].nth + 1)
  ELSE Lex(Read[k - 1], line[k])

(* What this process was asked to run: its command, read up to its end. *)
CommandEnd == Max({k \in 0..Len(line) : Read[k].nth = nth})
Asked == Read[CommandEnd]

-----------------------------------------------------------------------------
(* The types; in particular every pointer points into the buffer. *)
LTypeOK ==
  /\ DOMAIN buf = 0..(NBUF - 1)
  /\ i \in 0..(NBUF - 1) /\ cmdline \in 0..(NBUF - 1)
  /\ argv \in Seq(0..(NBUF - 1)) /\ Len(argv) <= room
  /\ {infile, outfile} \subseteq -1..(NBUF - 1)

(* A line that fits in the buffer is read up to its end and no further; a    *)
(* longer one is cut where the buffer is full.                               *)
LineCut ==
  pc = "main" =>
    /\ \A k \in 1..(Len(line) - 1) : line[k] \notin {NL, CR}
    /\ Len(line) \in 1..(NBUF - 1)
    /\ Str(0) = line

(* When runcmd() calls exec(), the strings behind argv, infile and outfile,  *)
(* read after all the NULs have been written, are the words and the files of *)
(* the command as it was typed: nothing of another command of the line, of   *)
(* an earlier line or of the redirections gets into them.  A command that    *)
(* does nothing has no words, and one with fewer words than argv[] has       *)
(* entries is parsed to its end.                                             *)
ParsedRight ==
  /\ LineCut
  /\ pc = "empty" => Asked.words = <<>>
  /\ pc = "overrun" => Len(Asked.words) >= room
  /\ pc = "exec" =>
    /\ [k \in DOMAIN argv |-> Str(argv[k])] = Asked.words
    /\ Asked.infile = IF infile = NoFile THEN <<>> ELSE <<Str(infile)>>
    /\ Asked.outfile = IF outfile = NoFile THEN <<>> ELSE <<Str(outfile)>>

(* MAXARGS is, for parser.h, the maximum number of arguments of a command:   *)
(* whatever is typed, parseline() stays within argv[].                       *)
ArgvHolds == pc # "overrun"
=============================================================================
