----------------------------- MODULE UaccessInv -----------------------------
(***************************************************************************)
(* The inductive invariant of Line and Uaccess: why every search of the    *)
(* shell ends inside its buffer, and how far a copy of the kernel has got. *)
(***************************************************************************)
EXTENDS Uaccess

(* The last byte of the buffer is a NUL at all times: gets() leaves room for *)
(* one, and whatever is written later is a NUL.                              *)
LineInv ==
  /\ buf \in [0..(NBUF - 1) -> Char \cup {NUL}]
  /\ buf[NBUF - 1] = NUL
  /\ i \in 0..(NBUF - 1) /\ cmdline \in 0..(NBUF - 1)
  /\ argv \in Seq(0..(NBUF - 1)) /\ room \in Nat /\ Len(argv) <= room
  /\ infile \in -1..(NBUF - 1) /\ outfile \in -1..(NBUF - 1)

(* No function of the kernel was called yet. *)
Idle ==
  /\ op = "none" /\ va = 0 /\ left = 0 /\ kbuf = <<>> /\ ret = Busy
  /\ len = 0 /\ faulted = {} /\ stored = {} /\ nomem = FALSE

(* The pages that vmfault() may map. *)
Lazy == {g \in 1..NPG : Layout[g] = {} /\ (g - 1) * PGSIZE < psz}

(* How many bytes have been copied. *)
Moved == len - left

(* While the copy runs: what it has moved is what the program had there, and *)
(* it goes on where it stopped.                                              *)
Running ==
  /\ nomem = FALSE
  /\ left > 0 => va = addr + Moved
  /\ kbuf = IF op = "copyout" THEN <<>> ELSE HadAt(addr, Moved)
  /\ op = "copyinstr" => \A j \in 0..(Moved - 1) : Had(addr + j) # NUL
  /\ op = "fetchaddr" => (addr + SIZEOF) % WORD <= psz

(* A call that was made: it has touched only what it was allowed to. *)
CopyInv ==
  /\ op \in {"copyin", "fetchaddr", "copyinstr", "copyout"}
  /\ addr \in 0..(WORD - 1) /\ len \in Nat /\ (op = "fetchaddr" => len = SIZEOF)
  /\ va \in 0..(WORD - 1) /\ left \in 0..len
  /\ faulted \subseteq Lazy
  /\ \A j \in 0..(Moved - 1) : Allowed(addr + j, op = "copyout")
  /\ stored = IF op = "copyout" THEN addr..(addr + Moved - 1) ELSE {}
  /\ ret = Busy => Running
  /\ ret # Busy => /\ CopyExact /\ StringExact
                   /\ ret \in {-1} \cup 0..len /\ Len(kbuf) <= len

(* The invariant. *)
UInv ==
  /\ LineInv
  /\ IF pc = "kernel" THEN CopyInv ELSE Idle

-----------------------------------------------------------------------------
(* What the shell has made of the line. *)

(* The characters a + 1, ..., b of the line are in the buffer, at their      *)
(* places; from a on there is nothing.                                       *)
Text(a, b) == \A k \in a..(b - 1) : buf[k] = line[k + 1]
Clear(a)   == \A k \in a..(NBUF - 1) : buf[k] = NUL

(* While gets() reads, and until execline() cuts the line. *)
GetsInv ==
  /\ line \in Seq(Char) /\ Len(line) <= NBUF - 1 /\ nth \in Nat
  /\ pc \in {"gets", "gets_end"} => i = Len(line)
  /\ pc \in {"gets", "gets_end", "main"} => Text(0, Len(line)) /\ Clear(Len(line))
  /\ pc = "gets" => \A k \in 1..Len(line) : line[k] \notin {NL, CR}
  /\ pc \in {"gets_end", "main"} =>
       1 <= Len(line) /\ \A k \in 1..(Len(line) - 1) : line[k] \notin {NL, CR}
  /\ pc = "execline" =>
       /\ cmdline <= Len(line) /\ Read[cmdline] = Fresh(nth)
       /\ Text(cmdline, Len(line)) /\ Clear(Len(line))

(* The command is in the buffer from k on, up to the NUL at its end. *)
Rest(k) ==
  /\ k <= CommandEnd /\ CommandEnd \in 0..Len(line)
  /\ Text(k, CommandEnd) /\ buf[CommandEnd] = NUL
  /\ \A j \in (k + 1)..CommandEnd : line[j] # "|"

(* The word w starts at a in the buffer b.  Until parseline(), now at p,      *)
(* goes on it may lack its NUL: then what was read last, in mode m, is this  *)
(* word.                                                                     *)
Kept(b, p, a, w, m) ==
  /\ w \in Seq(Char) /\ a \in Nat /\ a + Len(w) <= p
  /\ \A j \in 1..Len(w) : b[a + j - 1] = w[j]
  /\ b[a + Len(w)] = NUL \/ (a + Len(w) = p /\ m # "gap")

(* parseline() stops only where the reading of characters starts something   *)
(* new: c is the character there.                                            *)
AtBreak(c, m) ==
  \/ m = "gap"
  \/ m = "word" /\ c \in Blank \cup {NUL, "<", ">"}
  \/ m \in {"infile", "outfile"} /\ c \in Blank \cup {NUL}
  \/ m \in {"<", ">"} /\ c \in {NL, NUL}

(* parseline() has found the words ws. *)
KeptAll(b, p, av, ws, m) ==
  /\ Len(av) = Len(ws)
  /\ \A k \in 1..Len(av) : Kept(b, p, av[k], ws[k], m)

(* It has found the file, if any, at f. *)
KeptFile(b, p, f, fs, m) ==
  /\ f = NoFile => fs = <<>>
  /\ f # NoFile => fs = <<fs[1]>> /\ Kept(b, p, f, fs[1], m)

(* It has found what s says. *)
Parsed(s) ==
  /\ AtBreak(buf[i], s.mode)
  /\ KeptAll(buf, i, argv, s.words, s.mode)
  /\ KeptFile(buf, i, infile, s.infile, s.mode)
  /\ KeptFile(buf, i, outfile, s.outfile, s.mode)

(* The word w starts at a and ends with a NUL. *)
Stored(b, a, w) ==
  /\ w \in Seq(Char) /\ a \in Nat /\ a + Len(w) <= NBUF - 1
  /\ \A j \in 1..Len(w) : b[a + j - 1] = w[j]
  /\ b[a + Len(w)] = NUL

(* All words, and a file. *)
StoredAll(b, av, ws) ==
  /\ ws \in Seq(Seq(Char)) /\ Len(av) = Len(ws)
  /\ \A k \in 1..Len(av) : Stored(b, av[k], ws[k])

StoredFile(b, f, fs) ==
  /\ f = NoFile => fs = <<>>
  /\ f # NoFile => fs = <<fs[1]>> /\ Stored(b, f, fs[1])

(* While a command is parsed, and when it was. *)
ParseInv ==
  /\ pc = "runcmd" => Rest(cmdline) /\ Read[cmdline] = Fresh(nth)
  /\ pc = "parseline" => Rest(i) /\ Parsed(Read[i])
  /\ pc = "empty" => Asked.words = <<>>
  /\ pc = "overrun" => Len(Asked.words) >= room
  /\ pc = "exec" =>
       /\ Len(argv) \in 1..(room - 1)
       /\ StoredAll(buf, argv, Asked.words)
       /\ StoredFile(buf, infile, Asked.infile) /\ StoredFile(buf, outfile, Asked.outfile)

(* A word that the kernel was given is in the buffer, and so in pages that   *)
(* are mapped.                                                               *)
WordInv ==
  word # 0 => /\ pc = "kernel" /\ op = "copyinstr" /\ nomem = FALSE
              /\ addr = BUF + argv[word] /\ Stored(buf, argv[word], Asked.words[word])

MeantInv == GetsInv /\ ParseInv /\ WordInv
=============================================================================
