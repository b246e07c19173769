--------------------------- MODULE UaccessProofs ---------------------------
(***************************************************************************)
(* The theorems about Line and Uaccess, for every size of buffers, pages,  *)
(* words and strings: every pointer of the shell stays in its buffer, the  *)
(* kernel copies exactly the bytes that a program may pass, and what was   *)
(* typed is what the programs get.                                         *)
(***************************************************************************)
EXTENDS UaccessInv, SequenceTheorems, WellFoundedInduction, TLAPS

-----------------------------------------------------------------------------
(* Least and greatest numbers. *)

(* A set of naturals has a least element. *)
LEMMA MinFacts ==
  ASSUME NEW S \in SUBSET Nat, S # {}
  PROVE  Min(S) \in S /\ \A y \in S : Min(S) <= y
  <1>1. PICK x \in S : \A y \in S : ~(<<y, x>> \in OpToRel(<, Nat))
    BY NatLessThanWellFounded, WFMin
  <1>2. ASSUME NEW y \in S PROVE x <= y
    <2>1. x \in Nat /\ y \in Nat /\ ~(<<y, x>> \in OpToRel(<, Nat))
      BY <1>1
    <2> QED BY <2>1 DEF OpToRel
  <1> QED BY <1>2 DEF Min

(* An element below all others is the least one. *)
LEMMA MinIs ==
  ASSUME NEW S \in SUBSET Nat, NEW x \in S, \A y \in S : x <= y
  PROVE  Min(S) = x
  <1>1. Min(S) \in S /\ Min(S) <= x
    BY MinFacts
  <1>2. Min(S) \in Nat /\ x \in Nat /\ x <= Min(S)
    BY <1>1
  <1> QED BY <1>1, <1>2

(* An element above all others is the greatest one. *)
LEMMA MaxIs ==
  ASSUME NEW S \in SUBSET Nat, NEW x \in S, \A y \in S : y <= x
  PROVE  Max(S) = x
  <1>1. Max(S) \in S /\ Max(S) >= x
    <2>1. \A y \in S : y \in Nat /\ x \in Nat
      OBVIOUS
    <2>2. \A y \in S : x >= y
      BY <2>1
    <2> QED BY <2>2 DEF Max
  <1>2. Max(S) \in Nat /\ x \in Nat /\ Max(S) <= x
    BY <1>1
  <1> QED BY <1>1, <1>2

-----------------------------------------------------------------------------
(* The shell's buffer. *)

(* A search that also stops at a NUL ends inside the buffer. *)
LEMMA FindFacts ==
  ASSUME NEW b, b[NBUF - 1] = NUL, NEW k \in 0..(NBUF - 1), NEW S, NUL \in S
  PROVE  Find(b, k, S) \in k..(NBUF - 1) /\ b[Find(b, k, S)] \in S
  <1> DEFINE T == {j \in k..(NBUF - 1) : b[j] \in S}
  <1>1. NBUF - 1 \in T /\ T \in SUBSET Nat
    BY LineAssumption
  <1>2. Min(T) \in T
    BY <1>1, MinFacts
  <1> QED BY <1>2 DEF Find

(* The characters that end a search are what they look like. *)
LEMMA CharFacts ==
  /\ NUL \notin Blank /\ NUL # "|" /\ NUL # "<" /\ NUL # ">" /\ NUL # SP
  /\ Keys \subseteq Char
BY CharAssumption DEF NUL, SP, NL, Blank

(* The buffer and the pointers into it, before the kernel is called. *)
LEMMA LineStep ==
  ASSUME LineInv, LNext
  PROVE  LineInv'
  <1>1. /\ buf \in [0..(NBUF - 1) -> Char \cup {NUL}] /\ buf[NBUF - 1] = NUL
        /\ i \in 0..(NBUF - 1) /\ cmdline \in 0..(NBUF - 1)
        /\ argv \in Seq(0..(NBUF - 1)) /\ room \in Nat /\ Len(argv) <= room
        /\ infile \in -1..(NBUF - 1) /\ outfile \in -1..(NBUF - 1)
        /\ NBUF \in Nat /\ NBUF >= 1 /\ NBUF - 1 \in 0..(NBUF - 1) /\ 0 \in 0..(NBUF - 1)
    BY LineAssumption DEF LineInv
  <1>2. CASE getcmd
    BY <1>1, <1>2 DEF getcmd, parse, LineInv
  <1>3. ASSUME NEW c \in Keys, gets_read(c) PROVE LineInv'
    <2>1. /\ i + 1 < NBUF /\ i' = i + 1 /\ buf' = [buf EXCEPT ![i] = c]
          /\ UNCHANGED <<cmdline, argv, room, infile, outfile>>
      BY <1>3 DEF gets_read, parse
    <2>2. i \in Nat /\ i # NBUF - 1 /\ i + 1 \in 0..(NBUF - 1)
      BY <1>1, <2>1
    <2>3. c \in Char \cup {NUL}
      BY <1>3, CharFacts
    <2>4. buf' \in [0..(NBUF - 1) -> Char \cup {NUL}] /\ buf'[NBUF - 1] = NUL
      BY <1>1, <2>1, <2>2, <2>3
    <2> QED BY <1>1, <2>1, <2>2, <2>4 DEF LineInv
  <1>4. CASE gets_end
    BY <1>1, <1>4 DEF gets_end, parse, LineInv
  <1>5. CASE main_exit \/ main_child \/ main_shell
    BY <1>1, <1>5 DEF main_exit, main_child, main_shell, parse, LineInv
  <1>6. CASE execline_left \/ execline_right
    <2> DEFINE bar == Find(buf, cmdline, {NUL, "|"})
    <2>1. bar \in 0..(NBUF - 1)
      BY <1>1, FindFacts
    <2>2. findpipe(buf, cmdline).left = [buf EXCEPT ![bar] = NUL]
      BY DEF findpipe
    <2>3. findpipe(buf, cmdline).right # NoFile =>
            findpipe(buf, cmdline).right = bar + 1 /\ buf[bar] = "|"
      BY DEF findpipe
    <2> HIDE DEF bar
    <2>4. buf[bar] = "|" => bar + 1 \in 0..(NBUF - 1)
      <3>1. buf[bar] = "|" => bar # NBUF - 1
        BY <1>1, CharFacts
      <3> QED BY <1>1, <2>1, <3>1
    <2>5. CASE execline_left
      BY <1>1, <2>1, <2>2, <2>5 DEF execline_left, parse, LineInv
    <2>6. CASE execline_right
      <3>1. cmdline' = bar + 1 /\ buf[bar] = "|"
        BY <2>3, <2>6 DEF execline_right
      <3>2. cmdline' \in 0..(NBUF - 1)
        BY <2>4, <3>1
      <3> QED BY <1>1, <2>1, <2>2, <2>6, <3>2 DEF execline_right, parse, LineInv
    <2> QED BY <1>6, <2>5, <2>6
  <1>7. CASE runcmd
    BY <1>1, <1>7, LineAssumption DEF runcmd, NoFile, LineInv
  <1>8. CASE parseline_blank
    <2> DEFINE q == Find(buf, i, (Char \cup {NUL}) \ Blank)
    <2>1. q \in 0..(NBUF - 1)
      <3>1. NUL \in (Char \cup {NUL}) \ Blank
        BY CharFacts
      <3>2. q \in i..(NBUF - 1)
        BY <1>1, <3>1, FindFacts
      <3> QED BY <1>1, <3>2
    <2>2. /\ buf' = [k \in 0..(NBUF - 1) |-> IF k \in i..(q - 1) THEN NUL ELSE buf[k]]
          /\ i' = q
      BY <1>8 DEF parseline_blank
    <2> HIDE DEF q
    <2> QED BY <1>1, <1>8, <2>1, <2>2 DEF parseline_blank, parse, LineInv
  <1>9. CASE parseline_in \/ parseline_out
    <2>1. i + 1 \in 0..(NBUF - 1)
      <3>1. buf[i] = "<" \/ buf[i] = ">"
        BY <1>9 DEF parseline_in, parseline_out, parseline_file
      <3>2. i # NBUF - 1
        BY <1>1, <3>1, CharFacts
      <3> QED BY <1>1, <3>2
    <2>2. FileStart \in 0..(NBUF - 1)
      <3>1. NUL \in (Char \cup {NUL}) \ {SP}
        BY CharFacts
      <3>2. FileStart \in (i + 1)..(NBUF - 1)
        BY <1>1, <2>1, <3>1, FindFacts DEF FileStart
      <3> QED BY <1>1, <2>1, <3>2
    <2>3. FileEnd \in 0..(NBUF - 1)
      <3>1. FileEnd \in FileStart..(NBUF - 1)
        BY <1>1, <2>2, FindFacts DEF FileEnd
      <3> QED BY <1>1, <2>2, <3>1
    <2> QED BY <1>1, <1>9, <2>2, <2>3 DEF parseline_in, parseline_out, parseline_file, LineInv
  <1>10. CASE parseline_word
    <2>1. WordEnd \in 0..(NBUF - 1)
      BY <1>1, FindFacts DEF WordEnd
    <2>2. argv' \in Seq(0..(NBUF - 1)) /\ Len(argv') <= room
      <3>1. CASE Len(argv) < room /\ argv' = Append(argv, i)
        <4>1. Len(argv) \in Nat /\ argv' \in Seq(0..(NBUF - 1)) /\ Len(argv') = Len(argv) + 1
          BY <1>1, <3>1
        <4> QED BY <1>1, <3>1, <4>1
      <3>2. CASE argv' = argv
        BY <1>1, <3>2
      <3> QED BY <1>10, <3>1, <3>2 DEF parseline_word
    <2> QED BY <1>1, <1>10, <2>1, <2>2 DEF parseline_word, LineInv
  <1>11. CASE parseline_end
    BY <1>1, <1>11 DEF parseline_end, parse, LineInv
  <1> QED BY <1>2, <1>3, <1>4, <1>5, <1>6, <1>7, <1>8, <1>9, <1>10, <1>11 DEF LNext

-----------------------------------------------------------------------------
(* Pages. *)

(* The numbers of the layout. *)
LEMMA LayoutFacts ==
  /\ PGSIZE \in Nat /\ PGSIZE >= 2 /\ WORD \in Nat /\ WORD > MAXVA
  /\ NPG = 8 /\ MAXVA = 8 * PGSIZE /\ psz = 5 * PGSIZE + 1
  /\ MAXVA \in Nat /\ psz \in Nat /\ psz <= MAXVA
  /\ \A g \in 1..8 : /\ Layout[g] = {} <=> g \in {6, 7}
                     /\ "U" \in Layout[g] <=> g \in {1, 2, 3, 5, 8}
                     /\ "W" \in Layout[g] <=> g \in {2, 3, 4, 5}
  <1>1. NPG = 8
    BY DEF NPG, Layout
  <1>2. PGSIZE \in Nat /\ PGSIZE >= 2 /\ WORD \in Nat /\ WORD > MAXVA
    BY UaccessAssumption
  <1>3. MAXVA = 8 * PGSIZE /\ psz = 5 * PGSIZE + 1
    BY <1>1 DEF MAXVA, psz
  <1>4. MAXVA \in Nat /\ psz \in Nat /\ psz <= MAXVA
    BY <1>2, <1>3
  <1>5. ASSUME NEW g \in 1..8
        PROVE  /\ Layout[g] = {} <=> g \in {6, 7}
               /\ "U" \in Layout[g] <=> g \in {1, 2, 3, 5, 8}
               /\ "W" \in Layout[g] <=> g \in {2, 3, 4, 5}
    BY DEF Layout
  <1> QED BY <1>1, <1>2, <1>3, <1>4, <1>5

(* Quotient and remainder. *)
LEMMA DivMod ==
  ASSUME NEW P \in Nat \ {0}, NEW a \in Nat
  PROVE  /\ a \div P \in Nat /\ a % P \in 0..(P - 1)
         /\ a = P * (a \div P) + (a % P)
  <1>1. a \div P \in Nat
    OBVIOUS
  <1>2. a % P \in 0..(P - 1)
    OBVIOUS
  <1>3. a = P * (a \div P) + (a % P)
    OBVIOUS
  <1> QED BY <1>1, <1>2, <1>3

(* An address lies on its page. *)
LEMMA PageFacts ==
  ASSUME NEW a \in Nat
  PROVE  /\ PageOf(a) \in Nat /\ PageOf(a) >= 1
         /\ a \div PGSIZE = PageOf(a) - 1
         /\ a % PGSIZE \in 0..(PGSIZE - 1)
         /\ PageOf(a) * PGSIZE = a + PGSIZE - (a % PGSIZE)
  <1> DEFINE q == a \div PGSIZE
             e == a % PGSIZE
  <1>1. PGSIZE \in Nat /\ PGSIZE >= 2
    BY LayoutFacts
  <1>2. q \in Nat /\ e \in 0..(PGSIZE - 1) /\ a = PGSIZE * q + e
    <2>1. PGSIZE \in Nat \ {0}
      BY <1>1
    <2> QED BY <2>1, DivMod
  <1>3. PageOf(a) = q + 1
    BY DEF PageOf
  <1> HIDE DEF q, e
  <1>4. (q + 1) * PGSIZE = PGSIZE * q + PGSIZE
    BY <1>1, <1>2
  <1>5. PageOf(a) * PGSIZE = a + PGSIZE - e
    BY <1>1, <1>2, <1>3, <1>4
  <1>6. PageOf(a) \in Nat /\ PageOf(a) >= 1 /\ q = PageOf(a) - 1
    BY <1>2, <1>3
  <1> QED BY <1>2, <1>5, <1>6 DEF q, e

(* The rest of a page is on the same page. *)
LEMMA SamePage ==
  ASSUME NEW a \in Nat, NEW b \in a..(a + PGSIZE - (a % PGSIZE) - 1)
  PROVE  b \in Nat /\ PageOf(b) = PageOf(a)
  <1> DEFINE q == PageOf(a)
             r == PageOf(b)
  <1>1. PGSIZE \in Nat /\ PGSIZE >= 2
    BY LayoutFacts
  <1>2. q \in Nat /\ a % PGSIZE \in 0..(PGSIZE - 1) /\ q * PGSIZE = a + PGSIZE - (a % PGSIZE)
    BY PageFacts
  <1>3. b \in Nat
    BY <1>1, <1>2
  <1>4. r \in Nat /\ b % PGSIZE \in 0..(PGSIZE - 1) /\ r * PGSIZE = b + PGSIZE - (b % PGSIZE)
    BY <1>3, PageFacts
  <1> HIDE DEF q, r
  <1>5. q * PGSIZE - PGSIZE <= b /\ b < q * PGSIZE
    BY <1>1, <1>2, <1>3
  <1>6. r * PGSIZE - PGSIZE <= b /\ b < r * PGSIZE
    BY <1>1, <1>3, <1>4
  <1>7. ASSUME q < r PROVE FALSE
    <2>1. (q + 1) * PGSIZE <= r * PGSIZE
      BY <1>1, <1>2, <1>4, <1>7
    <2>2. (q + 1) * PGSIZE = q * PGSIZE + PGSIZE
      BY <1>1, <1>2
    <2> QED BY <1>1, <1>2, <1>3, <1>4, <1>5, <1>6, <2>1, <2>2
  <1>8. ASSUME r < q PROVE FALSE
    <2>1. (r + 1) * PGSIZE <= q * PGSIZE
      BY <1>1, <1>2, <1>4, <1>8
    <2>2. (r + 1) * PGSIZE = r * PGSIZE + PGSIZE
      BY <1>1, <1>4
    <2> QED BY <1>1, <1>2, <1>3, <1>4, <1>5, <1>6, <2>1, <2>2
  <1>9. q = r
    BY <1>2, <1>4, <1>7, <1>8
  <1> QED BY <1>3, <1>9 DEF q, r

(* A page ends below a limit exactly when all of it is below. *)
LEMMA PageLimit ==
  ASSUME NEW a \in Nat, NEW k \in Nat
  PROVE  /\ a < k * PGSIZE <=> PageOf(a) <= k
         /\ a < k * PGSIZE => PageOf(a) * PGSIZE <= k * PGSIZE
         /\ (PageOf(a) - 1) * PGSIZE < k * PGSIZE + 1 <=> PageOf(a) <= k + 1
  <1> DEFINE q == PageOf(a)
  <1>1. PGSIZE \in Nat /\ PGSIZE >= 2
    BY LayoutFacts
  <1>2. q \in Nat /\ q >= 1 /\ a % PGSIZE \in 0..(PGSIZE - 1) /\ q * PGSIZE = a + PGSIZE - (a % PGSIZE)
    BY PageFacts
  <1> HIDE DEF q
  <1>3. (q - 1) * PGSIZE = q * PGSIZE - PGSIZE /\ (k + 1) * PGSIZE = k * PGSIZE + PGSIZE
        /\ k * PGSIZE \in Nat /\ q * PGSIZE \in Nat
    BY <1>1, <1>2
  <1>4. q <= k => q * PGSIZE <= k * PGSIZE
    BY <1>1, <1>2
  <1>5. q >= k + 1 => q * PGSIZE >= (k + 1) * PGSIZE
    BY <1>1, <1>2
  <1>6. q >= k + 2 => q * PGSIZE >= (k + 2) * PGSIZE
    BY <1>1, <1>2
  <1>7. q <= k + 1 => q * PGSIZE <= (k + 1) * PGSIZE
    BY <1>1, <1>2
  <1>8. (k + 2) * PGSIZE = k * PGSIZE + PGSIZE + PGSIZE
    BY <1>1, <1>2
  <1>9. q > k => q >= k + 1
    BY <1>2
  <1>10. q > k + 1 => q >= k + 2
    BY <1>2
  <1>11. a < k * PGSIZE <=> q <= k
    BY <1>1, <1>2, <1>3, <1>4, <1>5, <1>9
  <1>12. (q - 1) * PGSIZE < k * PGSIZE + 1 <=> q <= k + 1
    BY <1>1, <1>2, <1>3, <1>6, <1>7, <1>8, <1>10
  <1> QED BY <1>4, <1>11, <1>12 DEF q

(* What the program may pass to the kernel, by pages: all of its own, and    *)
(* the heap page that sbrk() promised.                                       *)
LEMMA AllowedPages ==
  ASSUME NEW a \in Nat, NEW w \in BOOLEAN
  PROVE  /\ Allowed(a, w) <=> PageOf(a) \in {2, 3, 5, 6} \/ (~w /\ PageOf(a) \in {1, 8})
         /\ a < MAXVA <=> PageOf(a) <= 8
         /\ (a \div PGSIZE) * PGSIZE < psz <=> PageOf(a) <= 6
  <1>1. PageOf(a) \in Nat /\ PageOf(a) >= 1 /\ a \div PGSIZE = PageOf(a) - 1
    BY PageFacts
  <1>2. a < MAXVA <=> PageOf(a) <= 8
    BY PageLimit, LayoutFacts
  <1>3. (a \div PGSIZE) * PGSIZE < psz <=> PageOf(a) <= 6
    <2>1. (PageOf(a) - 1) * PGSIZE < 5 * PGSIZE + 1 <=> PageOf(a) <= 5 + 1
      BY PageLimit
    <2> QED BY <1>1, <2>1, LayoutFacts
  <1>4. CASE PageOf(a) \in 1..8
    <2>1. a < MAXVA
      BY <1>2, <1>4
    <2>2. /\ Layout[PageOf(a)] = {} <=> PageOf(a) \in {6, 7}
          /\ "U" \in Layout[PageOf(a)] <=> PageOf(a) \in {1, 2, 3, 5, 8}
          /\ "W" \in Layout[PageOf(a)] <=> PageOf(a) \in {2, 3, 4, 5}
      BY <1>4, LayoutFacts
    <2>3. Allowed(a, w) <=> \/ "U" \in Layout[PageOf(a)] /\ (w => "W" \in Layout[PageOf(a)])
                            \/ Layout[PageOf(a)] = {} /\ PageOf(a) <= 6
      BY <1>3, <2>1, Zenon DEF Allowed
    <2>4. Allowed(a, w) <=> PageOf(a) \in {2, 3, 5, 6} \/ (~w /\ PageOf(a) \in {1, 8})
      BY <1>4, <2>2, <2>3
    <2> QED BY <1>2, <1>3, <2>4
  <1>5. CASE ~(PageOf(a) \in 1..8)
    <2>1. ~(a < MAXVA) /\ PageOf(a) > 8
      BY <1>1, <1>2, <1>5
    <2>2. ~Allowed(a, w)
      BY <2>1 DEF Allowed
    <2>3. PageOf(a) \notin {1, 2, 3, 5, 6, 8}
      BY <1>1, <2>1
    <2> QED BY <1>2, <1>3, <2>2, <2>3
  <1> QED BY <1>4, <1>5

(* The page that vmfault() may map. *)
LEMMA LazyPage == Lazy = {6}
  <1>1. ASSUME NEW g \in 1..8 PROVE g \in Lazy <=> g = 6
    <2>1. Layout[g] = {} <=> g \in {6, 7}
      BY <1>1, LayoutFacts
    <2>2. (6 - 1) * PGSIZE < psz /\ ~((7 - 1) * PGSIZE < psz)
      BY LayoutFacts
    <2> QED BY <1>1, <2>1, <2>2, LayoutFacts DEF Lazy
  <1> QED BY <1>1, LayoutFacts DEF Lazy

(* The kernel reaches a page, mapped or promised, exactly when the program   *)
(* may use it.                                                               *)
LEMMA PageReached ==
  ASSUME NEW a \in Nat, faulted \subseteq Lazy, NEW w \in BOOLEAN
  PROVE  /\ ~w => (walkaddr(a) \/ Promised(a) <=> Allowed(a, w))
         /\ w => (CanWrite(a) \/ Promised(a) <=> Allowed(a, w))
         /\ Promised(a) => PageOf(a) \in Lazy
  <1>1. PageOf(a) \in Nat /\ PageOf(a) >= 1
    BY PageFacts
  <1>2. faulted \subseteq {6}
    BY LazyPage
  <1>3. /\ walkaddr(a) <=> PageOf(a) <= 8 /\ "U" \in Flags(a)
        /\ Promised(a) <=> PageOf(a) <= 6 /\ ~(PageOf(a) <= 8 /\ Flags(a) # {})
        /\ CanWrite(a) <=> PageOf(a) <= 8 /\ "U" \in Flags(a) /\ "W" \in Flags(a)
    BY AllowedPages DEF walkaddr, ismapped, Promised, CanWrite
  <1>4. Allowed(a, w) <=> PageOf(a) \in {2, 3, 5, 6} \/ (~w /\ PageOf(a) \in {1, 8})
    BY AllowedPages
  <1>5. CASE PageOf(a) \in faulted
    <2>1. PageOf(a) = 6 /\ Flags(a) = {"R", "W", "U"}
      BY <1>2, <1>5 DEF Flags
    <2> QED BY <1>3, <1>4, <2>1, LazyPage
  <1>6. CASE PageOf(a) \notin faulted /\ PageOf(a) <= 8
    <2>1. PageOf(a) \in 1..8 /\ Flags(a) = Layout[PageOf(a)]
      BY <1>1, <1>6 DEF Flags
    <2>2. /\ Flags(a) = {} <=> PageOf(a) \in {6, 7}
          /\ "U" \in Flags(a) <=> PageOf(a) \in {1, 2, 3, 5, 8}
          /\ "W" \in Flags(a) <=> PageOf(a) \in {2, 3, 4, 5}
      BY <2>1, LayoutFacts
    <2> QED BY <1>3, <1>4, <2>1, <2>2, LazyPage
  <1>7. CASE ~(PageOf(a) <= 8)
    BY <1>1, <1>3, <1>4, <1>7
  <1> QED BY <1>5, <1>6, <1>7

(* How many bytes a step of a copy moves: at least one, all on one page, and *)
(* when there are more to move the next page is reached.                     *)
LEMMA ChunkFacts ==
  ASSUME NEW v \in Nat, va = v, left \in Nat, left > 0
  PROVE  /\ Chunk \in 1..left
         /\ \A j \in 0..(Chunk - 1) : v + j \in Nat /\ PageOf(v + j) = PageOf(v)
         /\ Chunk < left => PageOf(v) * PGSIZE = v + Chunk
  <1> DEFINE e == v % PGSIZE
             S == {PGSIZE - e, left}
  <1>1. PGSIZE \in Nat /\ e \in 0..(PGSIZE - 1) /\ PageOf(v) * PGSIZE = v + PGSIZE - e
    BY PageFacts, LayoutFacts
  <1>2. \A b \in v..(v + PGSIZE - e - 1) : b \in Nat /\ PageOf(b) = PageOf(v)
    BY SamePage
  <1>3. Chunk = Min(S)
    BY DEF Chunk
  <1> HIDE DEF e
  <1>4. S \in SUBSET Nat /\ S # {}
    BY <1>1
  <1>5. Min(S) \in S /\ Min(S) <= PGSIZE - e /\ Min(S) <= left
    BY <1>4, MinFacts
  <1>6. Chunk \in 1..left /\ Chunk <= PGSIZE - e /\ (Chunk < left => Chunk = PGSIZE - e)
    BY <1>1, <1>3, <1>5
  <1>7. ASSUME NEW j \in 0..(Chunk - 1) PROVE v + j \in v..(v + PGSIZE - e - 1)
    BY <1>1, <1>6
  <1>8. Chunk < left => PageOf(v) * PGSIZE = v + Chunk
    BY <1>1, <1>6
  <1> QED BY <1>2, <1>6, <1>7, <1>8

-----------------------------------------------------------------------------
(* What is allowed and what was there. *)

(* A set of numbers up to n has a greatest element. *)
LEMMA MaxFacts ==
  ASSUME NEW n \in Nat, NEW S \in SUBSET (0..n), S # {}
  PROVE  Max(S) \in S /\ \A y \in S : y <= Max(S)
  <1> DEFINE T == {n - y : y \in S}
  <1>1. T \in SUBSET Nat /\ T # {}
    OBVIOUS
  <1>2. Min(T) \in T /\ \A t \in T : Min(T) <= t
    BY <1>1, MinFacts
  <1>3. PICK x \in S : Min(T) = n - x
    BY <1>2
  <1>4. ASSUME NEW y \in S PROVE y <= x
    <2>1. x \in Nat /\ y \in Nat /\ n - y \in T
      OBVIOUS
    <2> HIDE DEF T
    <2>2. n - x <= n - y
      BY <1>2, <1>3, <2>1
    <2> QED BY <2>1, <2>2
  <1>5. S \in SUBSET Nat /\ x \in S
    OBVIOUS
  <1>6. Max(S) = x
    BY <1>4, <1>5, MaxIs
  <1> QED BY <1>4, <1>6

(* When the first m bytes are allowed, the extent is m or more, and it is m  *)
(* when the next byte is not allowed.                                        *)
LEMMA ExtentFacts ==
  ASSUME NEW a \in Nat, NEW n \in Nat, NEW w \in BOOLEAN, NEW m \in 0..n,
         \A j \in 0..(m - 1) : Allowed(a + j, w)
  PROVE  /\ Extent(a, n, w) \in m..n
         /\ \A j \in 0..(Extent(a, n, w) - 1) : Allowed(a + j, w)
         /\ m < n /\ ~Allowed(a + m, w) => Extent(a, n, w) = m
  <1> DEFINE S == {k \in 0..n : \A j \in 0..(k - 1) : Allowed(a + j, w)}
             x == Extent(a, n, w)
  <1>1. m \in S /\ S \in SUBSET (0..n)
    OBVIOUS
  <1>2. x = Max(S)
    BY DEF Extent
  <1>3. x \in S /\ m <= x
    <2>1. Max(S) \in S /\ \A y \in S : y <= Max(S)
      BY <1>1, MaxFacts
    <2> HIDE DEF S
    <2> QED BY <1>1, <1>2, <2>1
  <1>4. x \in 0..n /\ \A j \in 0..(x - 1) : Allowed(a + j, w)
    BY <1>3
  <1> HIDE DEF S, x
  <1>5. m < n /\ ~Allowed(a + m, w) => x = m
    <2>1. m < x => m \in 0..(x - 1)
      BY <1>4
    <2> QED BY <1>3, <1>4, <2>1
  <1>6. x \in m..n
    BY <1>3, <1>4
  <1> QED BY <1>4, <1>5, <1>6 DEF x

(* What a byte of a program may be. *)
Content == Char \cup {NUL, UserByte}

(* The content of the memory, in any state in which the buffer is one. *)
LEMMA HadFacts ==
  ASSUME buf \in [0..(NBUF - 1) -> Char \cup {NUL}], NEW a \in Nat
  PROVE  Had(a) \in Content
  <1>1. NBUF \in Nat /\ BUF \in Nat
    BY LineAssumption, UaccessAssumption
  <1>2. CASE InBuf(a)
    <2>1. a - BUF \in 0..(NBUF - 1)
      BY <1>1, <1>2 DEF InBuf
    <2>2. buf[a - BUF] \in Char \cup {NUL}
      BY <2>1
    <2> QED BY <1>2, <2>2 DEF Had, Content
  <1>3. CASE ~InBuf(a)
    BY <1>3 DEF Had, Content
  <1> QED BY <1>2, <1>3

(* The bytes at an address are a sequence, and what follows a piece is the   *)
(* next piece.                                                               *)
LEMMA HadAtFacts ==
  ASSUME buf \in [0..(NBUF - 1) -> Char \cup {NUL}],
         NEW a \in Nat, NEW m \in Nat, NEW n \in Nat
  PROVE  /\ HadAt(a, m) \in Seq(Content) /\ Len(HadAt(a, m)) = m
         /\ HadAt(a, m) \o HadAt(a + m, n) = HadAt(a, m + n)
         /\ \A k \in 0..n : SubSeq(HadAt(a, n), 1, k) = HadAt(a, k)
  <1>1. ASSUME NEW b \in Nat, NEW k \in Nat
        PROVE  /\ HadAt(b, k) \in Seq(Content) /\ Len(HadAt(b, k)) = k
               /\ \A j \in 1..k : HadAt(b, k)[j] = Had(b + j - 1)
    <2>1. \A j \in 1..k : Had(b + j - 1) \in Content
      <3>1. ASSUME NEW j \in 1..k PROVE b + j - 1 \in Nat
        OBVIOUS
      <3> QED BY <3>1, HadFacts
    <2>2. HadAt(b, k) = [j \in 1..k |-> Had(b + j - 1)]
      BY DEF HadAt
    <2> QED BY <2>1, <2>2
  <1> DEFINE x == HadAt(a, m)
             y == HadAt(a + m, n)
             z == HadAt(a, m + n)
  <1>2. /\ x \in Seq(Content) /\ Len(x) = m /\ \A j \in 1..m : x[j] = Had(a + j - 1)
        /\ y \in Seq(Content) /\ Len(y) = n /\ \A j \in 1..n : y[j] = Had(a + m + j - 1)
        /\ z \in Seq(Content) /\ Len(z) = m + n /\ \A j \in 1..(m + n) : z[j] = Had(a + j - 1)
    <2>1. a + m \in Nat /\ m + n \in Nat
      OBVIOUS
    <2> QED BY <1>1, <2>1
  <1> HIDE DEF x, y, z
  <1>3. x \o y = z
    <2>1. /\ x \o y \in Seq(Content) /\ Len(x \o y) = m + n
          /\ \A j \in 1..(m + n) : (x \o y)[j] = IF j <= m THEN x[j] ELSE y[j - m]
      BY <1>2, ConcatProperties
    <2>2. ASSUME NEW j \in 1..(m + n) PROVE (x \o y)[j] = z[j]
      <3>1. CASE j <= m
        BY <1>2, <2>1, <3>1
      <3>2. CASE j > m
        <4>1. j - m \in 1..n /\ (x \o y)[j] = y[j - m]
          BY <2>1, <3>2
        <4>2. y[j - m] = Had(a + m + (j - m) - 1)
          BY <1>2, <4>1
        <4>3. a + m + (j - m) - 1 = a + j - 1
          OBVIOUS
        <4> QED BY <1>2, <4>1, <4>2, <4>3
      <3>3. j <= m \/ j > m
        OBVIOUS
      <3> QED BY <3>1, <3>2, <3>3, Zenon
    <2> QED BY <1>2, <2>1, <2>2, SeqEqual
  <1>4. ASSUME NEW k \in 0..n PROVE SubSeq(HadAt(a, n), 1, k) = HadAt(a, k)
    <2> DEFINE u == HadAt(a, n)
               v == HadAt(a, k)
    <2>1. /\ u \in Seq(Content) /\ Len(u) = n /\ \A j \in 1..n : u[j] = Had(a + j - 1)
          /\ v \in Seq(Content) /\ Len(v) = k /\ \A j \in 1..k : v[j] = Had(a + j - 1)
      <3>1. k \in Nat
        OBVIOUS
      <3> QED BY <1>1, <3>1
    <2> HIDE DEF u, v
    <2>2. SubSeq(u, 1, k) \in Seq(Content) /\ Len(SubSeq(u, 1, k)) = k
          /\ \A j \in 1..k : SubSeq(u, 1, k)[j] = u[j]
      BY <2>1
    <2>3. \A j \in 1..k : SubSeq(u, 1, k)[j] = v[j]
      BY <2>1, <2>2
    <2>4. SubSeq(u, 1, k) = v
      BY <2>1, <2>2, <2>3, SeqEqual
    <2> QED BY <2>4 DEF u, v
  <1> QED BY <1>2, <1>3, <1>4 DEF x, y, z

(* As long as copyout() did not run, the memory is as the program left it. *)
LEMMA BytesAre ==
  ASSUME stored = {}, NEW n \in Nat
  PROVE  Bytes(n) = HadAt(va, n)
BY DEF Bytes, HadAt, Byte

-----------------------------------------------------------------------------
(* A copy that runs. *)

(* Whether the copy writes to the memory of the program. *)
Way == (op = "copyout")

(* The facts about a copy that runs, spelled out. *)
LEMMA RunningFacts ==
  ASSUME LineInv, CopyInv, ret = Busy
  PROVE  /\ buf \in [0..(NBUF - 1) -> Char \cup {NUL}]
         /\ op \in {"copyin", "fetchaddr", "copyinstr", "copyout"}
         /\ addr \in Nat /\ addr < WORD /\ va \in Nat /\ va < WORD
         /\ len \in Nat /\ left \in Nat /\ left <= len
         /\ Moved \in 0..len /\ left = len - Moved
         /\ Way \in BOOLEAN
         /\ \A j \in 0..(Moved - 1) : Allowed(addr + j, Way)
         /\ faulted \subseteq Lazy /\ nomem = FALSE
         /\ left > 0 => va = addr + Moved
         /\ op # "copyout" => stored = {} /\ kbuf = HadAt(addr, Moved)
         /\ op = "copyout" => stored = addr..(addr + Moved - 1) /\ kbuf = <<>>
         /\ op = "fetchaddr" => len = SIZEOF /\ (addr + SIZEOF) % WORD <= psz
         /\ op = "copyinstr" => \A j \in 0..(Moved - 1) : Had(addr + j) # NUL
  <1>1. WORD \in Nat /\ WORD > 0
    BY LayoutFacts
  <1>2. /\ addr \in Nat /\ addr < WORD /\ va \in Nat /\ va < WORD
        /\ len \in Nat /\ left \in Nat /\ left <= len
    BY <1>1 DEF CopyInv
  <1>3. Moved \in 0..len /\ left = len - Moved
    BY <1>2 DEF Moved
  <1>4. buf \in [0..(NBUF - 1) -> Char \cup {NUL}]
    BY DEF LineInv
  <1>5. /\ op \in {"copyin", "fetchaddr", "copyinstr", "copyout"}
        /\ faulted \subseteq Lazy
        /\ op = "fetchaddr" => len = SIZEOF
        /\ op # "copyout" => stored = {}
        /\ op = "copyout" => stored = addr..(addr + Moved - 1)
        /\ Running
    BY DEF CopyInv
  <1>6. Way \in BOOLEAN /\ \A j \in 0..(Moved - 1) : Allowed(addr + j, Way)
    BY DEF CopyInv, Way
  <1>7. /\ nomem = FALSE
        /\ left > 0 => va = addr + Moved
        /\ op # "copyout" => kbuf = HadAt(addr, Moved)
        /\ op = "copyout" => kbuf = <<>>
        /\ op = "fetchaddr" => (addr + SIZEOF) % WORD <= psz
        /\ op = "copyinstr" => \A j \in 0..(Moved - 1) : Had(addr + j) # NUL
    BY <1>5 DEF Running
  <1> QED BY <1>2, <1>3, <1>4, <1>5, <1>6, <1>7

(* A page that may be used: all the bytes of the step may be used, and the   *)
(* next page starts where the step ends.                                     *)
LEMMA Progress ==
  ASSUME LineInv, CopyInv, ret = Busy, left > 0, Allowed(va, Way)
  PROVE  /\ Chunk \in 1..left
         /\ (PageOf(va) * PGSIZE) % WORD \in 0..(WORD - 1)
         /\ Chunk < left => (PageOf(va) * PGSIZE) % WORD = addr + Moved + Chunk
         /\ \A j \in 0..(Moved + Chunk - 1) : Allowed(addr + j, Way)
  <1>1. /\ addr \in Nat /\ va \in Nat /\ left \in Nat /\ Moved \in Nat
        /\ va = addr + Moved /\ Way \in BOOLEAN
        /\ \A j \in 0..(Moved - 1) : Allowed(addr + j, Way)
    BY RunningFacts
  <1>2. /\ Chunk \in 1..left
        /\ \A j \in 0..(Chunk - 1) : va + j \in Nat /\ PageOf(va + j) = PageOf(va)
        /\ Chunk < left => PageOf(va) * PGSIZE = va + Chunk
    BY <1>1, ChunkFacts
  <1>3. ASSUME NEW j \in 0..(Moved + Chunk - 1) PROVE Allowed(addr + j, Way)
    <2>1. CASE j < Moved
      BY <1>1, <2>1
    <2>2. CASE j >= Moved
      <3> DEFINE k == j - Moved
      <3>1. k \in 0..(Chunk - 1) /\ addr + j = va + k
        BY <1>1, <1>2, <2>2
      <3>2. va + k \in Nat /\ PageOf(va + k) = PageOf(va)
        BY <1>2, <3>1
      <3>3. Allowed(va + k, Way)
        BY <1>1, <3>2, AllowedPages
      <3> QED BY <3>1, <3>3
    <2> QED BY <1>1, <1>2, <2>1, <2>2
  <1>4. PageOf(va) <= 8 /\ PageOf(va) * PGSIZE <= 8 * PGSIZE
    <2>1. PageOf(va) <= 8
      BY <1>1, AllowedPages
    <2> QED BY <1>1, <2>1, PageLimit
  <1>5. PageOf(va) * PGSIZE \in Nat /\ PageOf(va) * PGSIZE < WORD
    <2>1. PageOf(va) \in Nat
      BY <1>1, PageFacts
    <2> QED BY <1>4, <2>1, LayoutFacts
  <1>6. (PageOf(va) * PGSIZE) % WORD = PageOf(va) * PGSIZE
    <2> DEFINE x == PageOf(va) * PGSIZE
    <2>1. x \in Nat /\ x < WORD /\ WORD \in Nat
      BY <1>5, LayoutFacts
    <2> HIDE DEF x
    <2>2. x % WORD = x
      BY <2>1
    <2> QED BY <2>2 DEF x
  <1>7. Chunk < left => (PageOf(va) * PGSIZE) % WORD = addr + Moved + Chunk
    BY <1>1, <1>2, <1>6
  <1>8. (PageOf(va) * PGSIZE) % WORD \in 0..(WORD - 1)
    <2>1. PageOf(va) * PGSIZE \in 0..(WORD - 1)
      BY <1>5, LayoutFacts
    <2> QED BY <1>6, <2>1
  <1> QED BY <1>2, <1>3, <1>7, <1>8

(* A step of a copy that goes on. *)
LEMMA GoesOn ==
  ASSUME LineInv, CopyInv, ret = Busy, left > 0, Allowed(va, Way),
         UNCHANGED <<lvars, op, ret, args, nomem>>, NextPage(Chunk), faulted' \subseteq Lazy,
         op # "copyout" => stored' = {} /\ kbuf' = HadAt(addr, Moved + Chunk),
         op = "copyout" => stored' = addr..(addr + Moved + Chunk - 1) /\ kbuf' = <<>>,
         op = "copyinstr" => \A j \in 0..(Moved + Chunk - 1) : Had(addr + j) # NUL
  PROVE  CopyInv'
  <1>1. /\ op' = op /\ ret' = Busy /\ addr' = addr /\ len' = len /\ nomem' = nomem /\ buf' = buf
        /\ left' = left - Chunk /\ va' = (PageOf(va) * PGSIZE) % WORD
    BY DEF lvars, args, NextPage
  <1>2. /\ Chunk \in 1..left
        /\ va' \in 0..(WORD - 1)
        /\ Chunk < left => va' = addr + Moved + Chunk
        /\ \A j \in 0..(Moved + Chunk - 1) : Allowed(addr + j, Way)
    BY <1>1, Progress
  <1>3. /\ op \in {"copyin", "fetchaddr", "copyinstr", "copyout"}
        /\ addr \in 0..(WORD - 1) /\ len \in Nat /\ left \in 0..len
        /\ op = "fetchaddr" => len = SIZEOF
    BY DEF CopyInv
  <1>4. /\ nomem = FALSE /\ Moved \in Nat /\ addr \in Nat
        /\ op = "fetchaddr" => (addr + SIZEOF) % WORD <= psz
    BY RunningFacts
  <1>5. Moved' = Moved + Chunk /\ Moved' \in Nat /\ Chunk \in Nat /\ left' \in 0..len
    BY <1>1, <1>2, <1>3 DEF Moved
  <1>6. left' > 0 => va' = addr' + Moved'
    BY <1>1, <1>2, <1>3, <1>4, <1>5
  <1>7. /\ kbuf' = IF op' = "copyout" THEN <<>> ELSE HadAt(addr, Moved)'
        /\ op' = "copyinstr" => \A j \in 0..(Moved' - 1) : Had(addr + j)' # NUL
    <2>1. \A a : Had(a)' = Had(a)
      BY <1>1 DEF Had, InBuf
    <2>2. HadAt(addr, Moved)' = HadAt(addr, Moved + Chunk)
      BY <1>1, <1>5, <2>1 DEF HadAt
    <2>3. op' = "copyinstr" => \A j \in 0..(Moved' - 1) : Had(addr + j)' # NUL
      <3>1. ASSUME NEW j \in 0..(Moved + Chunk - 1) PROVE Had(addr + j)' = Had(addr + j)
        BY <1>1 DEF Had, InBuf
      <3>2. op = "copyinstr" => \A j \in 0..(Moved + Chunk - 1) : Had(addr + j)' # NUL
        BY <3>1
      <3> QED BY <1>1, <1>4, <1>5, <3>2
    <2> QED BY <1>1, <2>2, <2>3
  <1>8. Running'
    BY <1>1, <1>4, <1>6, <1>7 DEF Running
  <1>9. \A j \in 0..(Moved' - 1) : Allowed(addr' + j, op' = "copyout")
    <2>1. ASSUME NEW j \in 0..(Moved' - 1) PROVE Allowed(addr' + j, op' = "copyout")
      <3>1. j \in 0..(Moved + Chunk - 1)
        BY <1>4, <1>5
      <3>2. Allowed(addr + j, Way)
        BY <1>2, <3>1
      <3>3. Allowed(addr + j, op = "copyout")
        BY <3>2 DEF Way
      <3> QED BY <1>1, <3>3, Zenon
    <2> QED BY <2>1
  <1>10. stored' = IF op' = "copyout" THEN addr'..(addr' + Moved' - 1) ELSE {}
    BY <1>1, <1>2, <1>4, <1>5
  <1>11. ret' = Busy /\ Lazy' = Lazy
    BY <1>1 DEF Lazy
  <1> QED BY <1>1, <1>2, <1>3, <1>5, <1>8, <1>9, <1>10, <1>11 DEF CopyInv

-----------------------------------------------------------------------------
(* A copy that returns. *)

(* The invariant after a return, from what it promises. *)
LEMMA Returns ==
  ASSUME CopyInv, ret = Busy, ret' # Busy,
         UNCHANGED <<op, va, left, args, stored>>, faulted' \subseteq Lazy,
         CopyExact', StringExact', ret' \in {-1} \cup 0..len, Len(kbuf') <= len
  PROVE  CopyInv'
  <1>1. /\ op' = op /\ va' = va /\ left' = left /\ addr' = addr /\ len' = len /\ stored' = stored
    BY DEF args
  <1>2. Moved' = Moved
    BY <1>1 DEF Moved
  <1>3. ASSUME NEW j \in 0..(Moved' - 1) PROVE Allowed(addr' + j, op' = "copyout")
    <2>1. j \in 0..(Moved - 1)
      BY <1>2
    <2>2. Allowed(addr + j, op = "copyout")
      BY <2>1 DEF CopyInv
    <2> QED BY <1>1, <2>2, Zenon
  <1>4. Lazy' = Lazy
    BY DEF Lazy
  <1> QED BY <1>1, <1>2, <1>3, <1>4 DEF CopyInv

(* copyin(), fetchaddr() and copyout() return 0 when nothing is left, and -1 *)
(* when the page at va may not be used or memory ran out.                    *)
LEMMA CopyReturns ==
  ASSUME LineInv, CopyInv, ret = Busy, op # "copyinstr",
         UNCHANGED <<lvars, op, va, left, kbuf, args, stored>>, faulted' \subseteq Lazy,
         \/ ret' = 0 /\ left = 0 /\ nomem' = FALSE
         \/ ret' = -1 /\ left > 0 /\ nomem' \in BOOLEAN /\ (nomem' \/ ~Allowed(va, Way))
  PROVE  CopyInv'
  <1> DEFINE n == Extent(addr, len, Way)
  <1>1. /\ op \in {"copyin", "fetchaddr", "copyout"}
        /\ buf \in [0..(NBUF - 1) -> Char \cup {NUL}]
        /\ addr \in Nat /\ addr < WORD /\ len \in Nat /\ left \in Nat /\ Moved \in 0..len
        /\ left = len - Moved /\ Way \in BOOLEAN
        /\ \A j \in 0..(Moved - 1) : Allowed(addr + j, Way)
        /\ left > 0 => va = addr + Moved
    BY RunningFacts
  <1>2. /\ op # "copyout" => stored = {} /\ kbuf = HadAt(addr, Moved)
        /\ op = "copyout" => stored = addr..(addr + Moved - 1) /\ kbuf = <<>>
        /\ op = "fetchaddr" => len = SIZEOF /\ (addr + SIZEOF) % WORD <= psz
    BY RunningFacts
  <1>3. /\ op' = op /\ left' = left /\ addr' = addr /\ len' = len /\ stored' = stored
        /\ buf' = buf /\ kbuf' = kbuf
    BY DEF args, lvars
  <1>4. /\ n \in Moved..len
        /\ \A j \in 0..(n - 1) : Allowed(addr + j, Way)
        /\ Moved < len /\ ~Allowed(addr + Moved, Way) => n = Moved
    BY <1>1, ExtentFacts
  <1>5. n' = n
    BY <1>3, Zenon DEF Way
  <1> HIDE DEF n
  <1>6. ret' = 0 => n = len /\ left = 0 /\ nomem' = FALSE
    BY <1>1, <1>4
  <1>7. ret' = -1 => n < len \/ nomem'
    BY <1>1, <1>4
  <1>8. op = "fetchaddr" => (ret' = 0 <=> (addr + SIZEOF <= psz /\ n = len /\ ~nomem'))
    <2>1. ASSUME op = "fetchaddr", ret' = 0 PROVE addr + SIZEOF <= psz
      <3>1. SIZEOF \in Nat /\ SIZEOF > 0 /\ len = SIZEOF /\ (addr + SIZEOF) % WORD <= psz
        BY <1>2, <2>1, UaccessAssumption
      <3>2. Allowed(addr + (len - 1), Way)
        <4>1. n = len /\ len - 1 \in 0..(n - 1)
          BY <1>1, <1>6, <2>1, <3>1
        <4> QED BY <1>4, <4>1
      <3>3. addr + (len - 1) < MAXVA
        BY <3>2 DEF Allowed
      <3>4. addr + SIZEOF \in Nat /\ addr + SIZEOF < WORD
        BY <1>1, <3>1, <3>3, LayoutFacts
      <3>5. (addr + SIZEOF) % WORD = addr + SIZEOF
        <4> DEFINE x == addr + SIZEOF
        <4>1. x \in Nat /\ x < WORD /\ WORD \in Nat
          BY <3>4, LayoutFacts
        <4> HIDE DEF x
        <4>2. x % WORD = x
          BY <4>1
        <4> QED BY <4>2 DEF x
      <3> QED BY <3>1, <3>5
    <2>2. n \in Nat /\ (n < len => n # len)
      BY <1>1, <1>4
    <2> QED BY <1>6, <1>7, <2>1, <2>2
  <1>9. op # "copyout" => /\ kbuf = HadAt(addr, Len(kbuf)) /\ Len(kbuf) = Moved
                          /\ ret' = 0 => Len(kbuf) = len
    <2>1. HadAt(addr, Moved) \in Seq(Content) /\ Len(HadAt(addr, Moved)) = Moved
      <3>1. Moved \in Nat /\ 0 \in Nat
        BY <1>1
      <3> QED BY <1>1, <3>1, HadAtFacts
    <2>2. ret' = 0 => Moved = len
      BY <1>1, <1>6
    <2> QED BY <1>2, <2>1, <2>2
  <1>10. HadAt(addr, Len(kbuf))' = HadAt(addr, Len(kbuf))
    BY <1>3 DEF HadAt, Had, InBuf
  <1>11. stored = IF op = "copyout" THEN addr..(addr + len - left - 1) ELSE {}
    <2>1. addr + Moved - 1 = addr + len - left - 1
      BY <1>1
    <2> QED BY <1>1, <1>2, <2>1
  <1>12. \A a \in stored : Allowed(a, TRUE)
    <2>1. ASSUME NEW a \in stored PROVE Allowed(a, TRUE)
      <3>1. op = "copyout" /\ a \in addr..(addr + Moved - 1)
        BY <1>1, <1>2, <2>1
      <3>2. a - addr \in 0..(Moved - 1) /\ addr + (a - addr) = a
        BY <1>1, <3>1
      <3>3. Allowed(a, Way)
        BY <1>1, <3>2
      <3> QED BY <3>1, <3>3, Zenon DEF Way
    <2> QED BY <2>1
  <1>13. CopyExact'
    BY <1>3, <1>5, <1>6, <1>7, <1>8, <1>9, <1>10, <1>11, <1>12 DEF CopyExact, n, Way
  <1>14. StringExact'
    BY <1>3 DEF StringExact, Returned
  <1>15. ret' # Busy /\ ret' \in {-1} \cup 0..len /\ Len(kbuf') <= len
    BY <1>1, <1>2, <1>3, <1>9 DEF Busy
  <1> QED BY <1>13, <1>14, <1>15, Returns

(* copyinstr() fails when nothing is left, or when the page at va may not be *)
(* used or memory ran out.                                                   *)
LEMMA StringFails ==
  ASSUME LineInv, CopyInv, ret = Busy, op = "copyinstr", ret' = -1,
         UNCHANGED <<lvars, op, va, left, kbuf, args, stored>>, faulted' \subseteq Lazy,
         nomem' \in BOOLEAN,
         \/ left = 0
         \/ left > 0 /\ (nomem' \/ ~Allowed(va, Way))
  PROVE  CopyInv'
  <1> DEFINE n == Extent(addr, len, FALSE)
  <1>1. /\ buf \in [0..(NBUF - 1) -> Char \cup {NUL}]
        /\ addr \in Nat /\ len \in Nat /\ left \in Nat /\ Moved \in 0..len
        /\ left = len - Moved /\ Way \in BOOLEAN
        /\ \A j \in 0..(Moved - 1) : Allowed(addr + j, Way)
        /\ left > 0 => va = addr + Moved
        /\ kbuf = HadAt(addr, Moved)
        /\ \A j \in 0..(Moved - 1) : Had(addr + j) # NUL
    BY RunningFacts
  <1>2. /\ op' = op /\ addr' = addr /\ len' = len /\ buf' = buf /\ kbuf' = kbuf
    BY DEF args, lvars
  <1>3. n = Extent(addr, len, Way)
    <2>1. Way = FALSE
      BY DEF Way
    <2> QED BY <2>1, Zenon
  <1> HIDE DEF n
  <1>4. /\ n \in Moved..len
        /\ Moved < len /\ ~Allowed(addr + Moved, Way) => n = Moved
    BY <1>1, <1>3, ExtentFacts
  <1>5. nomem' \/ n = Moved
    BY <1>1, <1>4
  <1>6. nomem' \/ \A k \in 0..(n - 1) : Had(addr + k) # NUL
    BY <1>1, <1>5
  <1>7. n' = n
    BY <1>2, Zenon DEF n
  <1>8. ASSUME NEW k PROVE Had(addr + k)' = Had(addr + k)
    BY <1>2 DEF Had, InBuf
  <1>9. ~nomem' => {k \in 0..(n - 1) : Had(addr + k) = NUL}' = {}
    BY <1>6, <1>7, <1>8
  <1>10. StringExact'
    BY <1>9 DEF StringExact, n
  <1>11. CopyExact'
    BY <1>2 DEF CopyExact, Returned
  <1>12. Len(kbuf') <= len
    <2>1. Moved \in Nat /\ 0 \in Nat
      BY <1>1
    <2>2. Len(kbuf) = Moved
      BY <1>1, <2>1, HadAtFacts
    <2> QED BY <1>1, <1>2, <2>2
  <1>13. ret' # Busy /\ ret' \in {-1} \cup 0..len
    BY <1>1 DEF Busy
  <1> QED BY <1>10, <1>11, <1>12, <1>13, Returns

(* copyinstr() finds the first NUL: the kernel has the string, its NUL and   *)
(* its length.                                                               *)
LEMMA StringFound ==
  ASSUME LineInv, CopyInv, ret = Busy, op = "copyinstr", left > 0, Allowed(va, Way),
         NEW k \in 1..Chunk, kbuf' = HadAt(addr, Moved + k), ret' = strlen(kbuf'),
         Had(va + k - 1) = NUL, \A j \in 1..(k - 1) : Had(va + j - 1) # NUL,
         UNCHANGED <<lvars, op, va, left, args, stored, nomem>>, faulted' \subseteq Lazy
  PROVE  CopyInv'
  <1> DEFINE n == Extent(addr, len, FALSE)
             r == Moved + k - 1
             ends == {e \in 0..(n - 1) : Had(addr + e) = NUL}
  <1>1. /\ buf \in [0..(NBUF - 1) -> Char \cup {NUL}]
        /\ addr \in Nat /\ len \in Nat /\ left \in Nat /\ Moved \in 0..len
        /\ left = len - Moved /\ Way \in BOOLEAN
        /\ va = addr + Moved /\ nomem = FALSE
        /\ \A j \in 0..(Moved - 1) : Had(addr + j) # NUL
    BY RunningFacts
  <1>2. /\ op' = op /\ addr' = addr /\ len' = len /\ buf' = buf /\ nomem' = FALSE
    BY <1>1 DEF args, lvars
  <1>3. Chunk \in 1..left /\ \A j \in 0..(Moved + Chunk - 1) : Allowed(addr + j, Way)
    BY Progress
  <1>4. n \in (Moved + Chunk)..len
    <2>1. n = Extent(addr, len, Way)
      <3>1. Way = FALSE
        BY DEF Way
      <3> QED BY <3>1, Zenon
    <2>2. Moved + Chunk \in 0..len
      BY <1>1, <1>3
    <2>3. Extent(addr, len, Way) \in (Moved + Chunk)..len
      <3> DEFINE m == Moved + Chunk
      <3>1. m \in 0..len /\ \A j \in 0..(m - 1) : Allowed(addr + j, Way)
        BY <1>1, <1>3, <2>2
      <3>2. addr \in Nat /\ len \in Nat /\ Way \in BOOLEAN
        BY <1>1
      <3> HIDE DEF m
      <3>3. Extent(addr, len, Way) \in m..len
        BY <3>1, <3>2, ExtentFacts
      <3> QED BY <3>3 DEF m
    <2> QED BY <2>1, <2>3
  <1> HIDE DEF n
  <1>5. k \in Nat /\ r \in Nat /\ r <= len - 1 /\ Moved \in Nat /\ Moved + k = r + 1 /\ n \in Nat
    BY <1>1, <1>3, <1>4
  <1>6. Had(addr + r) = NUL
    <2>1. addr + r = va + k - 1
      BY <1>1, <1>5
    <2> QED BY <2>1
  <1>7. ASSUME NEW j \in 0..(r - 1) PROVE Had(addr + j) # NUL
    <2>1. CASE j < Moved
      BY <1>1, <1>7, <2>1
    <2>2. CASE j >= Moved
      <3> DEFINE d == j - Moved + 1
      <3>1. d \in 1..(k - 1) /\ addr + j = va + d - 1
        BY <1>1, <1>5, <1>7, <2>2
      <3> HIDE DEF d
      <3> QED BY <3>1
    <2> QED BY <1>5, <2>1, <2>2
  <1>8. r \in ends /\ ends \in SUBSET Nat
    BY <1>3, <1>4, <1>5, <1>6
  <1>9. ASSUME NEW e \in ends PROVE r <= e
    <2>1. e \in Nat /\ Had(addr + e) = NUL
      BY <1>9
    <2>2. e < r => e \in 0..(r - 1)
      BY <1>5, <2>1
    <2> QED BY <1>5, <1>7, <2>1, <2>2
  <1>10. Min(ends) = r
    BY <1>8, <1>9, MinIs
  <1>11. ends # {}
    BY <1>8
  <1>12. Len(kbuf') = r + 1 /\ DOMAIN kbuf' = 1..(r + 1) /\ \A j \in 1..(r + 1) : kbuf'[j] = Had(addr + j - 1)
    <2>1. kbuf' \in Seq(Content) /\ Len(kbuf') = r + 1
      <3>1. r + 1 \in Nat /\ 0 \in Nat
        BY <1>5
      <3> QED BY <1>1, <1>5, <3>1, HadAtFacts
    <2>2. kbuf' = [j \in 1..(r + 1) |-> Had(addr + j - 1)]
      BY <1>5 DEF HadAt
    <2> QED BY <2>1, <2>2
  <1>13. ret' = r
    <2> DEFINE S == {j \in DOMAIN kbuf' : kbuf'[j] = NUL}
    <2>1. r + 1 \in S /\ S \in SUBSET Nat
      <3>1. addr + (r + 1) - 1 = addr + r
        BY <1>1, <1>5
      <3> QED BY <1>5, <1>6, <1>12, <3>1
    <2>2. ASSUME NEW j \in S PROVE r + 1 <= j
      <3>1. j \in 1..(r + 1) /\ Had(addr + j - 1) = NUL
        BY <1>12
      <3>2. j - 1 \in 0..(r - 1) \/ j = r + 1
        BY <1>5, <3>1
      <3>3. addr + (j - 1) = addr + j - 1
        BY <1>1, <3>1
      <3>4. j = r + 1
        BY <1>7, <3>1, <3>2, <3>3
      <3> QED BY <1>5, <3>4
    <2>3. Min(S) = r + 1
      BY <2>1, <2>2, MinIs
    <2>4. strlen(kbuf') = Min(S) - 1
      BY DEF strlen
    <2> HIDE DEF S
    <2> QED BY <1>5, <2>3, <2>4
  <1>14. ends' = ends
    <2>1. n' = n
      BY <1>2, Zenon DEF n
    <2>2. ASSUME NEW e PROVE Had(addr + e)' = Had(addr + e)
      BY <1>2 DEF Had, InBuf
    <2> QED BY <2>1, <2>2
  <1> HIDE DEF ends, r
  <1>15. HadAt(addr, ret + 1)' = kbuf'
    <2>1. HadAt(addr, ret + 1)' = HadAt(addr, r + 1)
      BY <1>2, <1>13 DEF HadAt, Had, InBuf
    <2> QED BY <1>5, <2>1
  <1>16. ends' # {} /\ ret' = Min(ends)' /\ kbuf' = HadAt(addr, ret + 1)'
    BY <1>10, <1>11, <1>13, <1>14, <1>15
  <1>17. StringExact'
    BY <1>2, <1>16 DEF StringExact, ends, n
  <1>18. CopyExact'
    BY <1>2 DEF CopyExact, Returned
  <1>19. ret' # Busy /\ ret' \in {-1} \cup 0..len /\ Len(kbuf') <= len
    BY <1>1, <1>5, <1>12, <1>13 DEF Busy
  <1> QED BY <1>17, <1>18, <1>19, Returns

-----------------------------------------------------------------------------
(* One lemma for each step of the kernel. *)

(* The page of a step was there or may be allocated. *)
LEMMA GotPage ==
  ASSUME LineInv, CopyInv, ret = Busy, GetPage
  PROVE  faulted' \subseteq Lazy /\ (walkaddr(va) \/ Promised(va))
  <1>1. va \in Nat /\ faulted \subseteq Lazy /\ Way \in BOOLEAN
    BY RunningFacts
  <1>2. Promised(va) => PageOf(va) \in Lazy
    BY <1>1, PageReached
  <1> QED BY <1>1, <1>2 DEF GetPage

LEMMA CopyFaultStep ==
  ASSUME LineInv, CopyInv, copy_fault
  PROVE  CopyInv'
  <1>1. /\ ret = Busy /\ left > 0 /\ ~walkaddr(va) /\ ret' = -1 /\ nomem' = Promised(va)
        /\ UNCHANGED <<lvars, op, va, left, kbuf, args, stored>> /\ faulted' = faulted
    BY DEF copy_fault, Copying, user
  <1>2. va \in Nat /\ faulted \subseteq Lazy /\ Way \in BOOLEAN
    BY <1>1, RunningFacts
  <1>3. ~Promised(va) => ~Allowed(va, Way)
    <2>1. ~CanWrite(va)
      BY <1>1 DEF CanWrite
    <2> QED BY <1>1, <1>2, <2>1, PageReached
  <1>4. nomem' \in BOOLEAN /\ (nomem' \/ ~Allowed(va, Way))
    <2>1. Promised(va) \in BOOLEAN
      BY DEF Promised
    <2> QED BY <1>1, <1>3, <2>1
  <1>5. CASE op = "copyinstr"
    BY <1>1, <1>2, <1>4, <1>5, StringFails
  <1>6. CASE op # "copyinstr"
    BY <1>1, <1>2, <1>4, <1>6, CopyReturns
  <1> QED BY <1>5, <1>6

LEMMA CopyDoneStep ==
  ASSUME LineInv, CopyInv, copy_done
  PROVE  CopyInv'
  <1>1. /\ ret = Busy /\ left = 0 /\ ret' = 0 /\ op # "copyinstr" /\ nomem' = nomem
        /\ UNCHANGED <<lvars, op, va, left, kbuf, args, stored>> /\ faulted' = faulted
    BY DEF copy_done, Copying, user
  <1>2. faulted \subseteq Lazy /\ nomem = FALSE
    BY <1>1, RunningFacts
  <1> QED BY <1>1, <1>2, CopyReturns

LEMMA CopyinstrLongStep ==
  ASSUME LineInv, CopyInv, copyinstr_long
  PROVE  CopyInv'
  <1>1. /\ ret = Busy /\ left = 0 /\ ret' = -1 /\ op = "copyinstr" /\ nomem' = nomem
        /\ UNCHANGED <<lvars, op, va, left, kbuf, args, stored>> /\ faulted' = faulted
    BY DEF copyinstr_long, Copying, user
  <1>2. faulted \subseteq Lazy /\ nomem = FALSE
    BY <1>1, RunningFacts
  <1>3. nomem' \in BOOLEAN
    BY <1>1, <1>2
  <1> QED BY <1>1, <1>2, <1>3, StringFails

(* What a step that reads has read. *)
LEMMA ReadPage ==
  ASSUME LineInv, CopyInv, ret = Busy, left > 0, op # "copyout", GetPage
  PROVE  /\ Allowed(va, Way)
         /\ Chunk \in 1..left /\ Bytes(Chunk) = HadAt(va, Chunk)
         /\ \A k \in 0..Chunk : kbuf \o HadAt(va, k) = HadAt(addr, Moved + k)
  <1>1. /\ buf \in [0..(NBUF - 1) -> Char \cup {NUL}]
        /\ va \in Nat /\ addr \in Nat /\ Moved \in Nat /\ left \in Nat /\ va = addr + Moved
        /\ faulted \subseteq Lazy /\ Way \in BOOLEAN
        /\ stored = {} /\ kbuf = HadAt(addr, Moved)
    BY RunningFacts
  <1>2. Allowed(va, Way)
    <2>1. ~Way
      BY DEF Way
    <2> QED BY <1>1, <2>1, GotPage, PageReached
  <1>3. Chunk \in 1..left
    BY <1>2, Progress
  <1>4. Bytes(Chunk) = HadAt(va, Chunk)
    <2>1. Chunk \in Nat
      BY <1>1, <1>3
    <2> QED BY <1>1, <2>1, BytesAre
  <1>5. ASSUME NEW k \in 0..Chunk PROVE kbuf \o HadAt(va, k) = HadAt(addr, Moved + k)
    <2>1. k \in Nat
      BY <1>1, <1>3
    <2> QED BY <1>1, <2>1, HadAtFacts
  <1> QED BY <1>2, <1>3, <1>4, <1>5

LEMMA CopyinPageStep ==
  ASSUME LineInv, CopyInv, copyin_page
  PROVE  CopyInv'
  <1>1. /\ ret = Busy /\ left > 0 /\ op # "copyout" /\ op # "copyinstr" /\ GetPage
        /\ kbuf' = kbuf \o Bytes(Chunk) /\ NextPage(Chunk) /\ stored' = stored
        /\ UNCHANGED <<lvars, op, ret, args, nomem>>
    BY DEF copyin_page, Copying
  <1>2. /\ Allowed(va, Way) /\ Chunk \in 1..left /\ Bytes(Chunk) = HadAt(va, Chunk)
        /\ \A k \in 0..Chunk : kbuf \o HadAt(va, k) = HadAt(addr, Moved + k)
    BY <1>1, ReadPage
  <1>3. left \in Nat /\ stored = {}
    BY <1>1, RunningFacts
  <1>4. Chunk \in 0..Chunk
    BY <1>2, <1>3
  <1>5. kbuf' = HadAt(addr, Moved + Chunk)
    BY <1>1, <1>2, <1>4
  <1>6. faulted' \subseteq Lazy
    BY <1>1, GotPage
  <1> QED BY <1>1, <1>2, <1>3, <1>5, <1>6, GoesOn

LEMMA CopyoutPageStep ==
  ASSUME LineInv, CopyInv, copyout_page
  PROVE  CopyInv'
  <1>1. /\ ret = Busy /\ left > 0 /\ op = "copyout" /\ GetPage
        /\ UNCHANGED <<lvars, op, kbuf, args, nomem>>
    BY DEF copyout_page, Copying
  <1>2. faulted' \subseteq Lazy
    BY <1>1, GotPage
  <1>3. /\ va \in Nat /\ addr \in Nat /\ Moved \in Nat /\ left \in Nat /\ va = addr + Moved
        /\ faulted \subseteq Lazy /\ Way \in BOOLEAN /\ nomem = FALSE
        /\ stored = addr..(addr + Moved - 1) /\ kbuf = <<>>
    BY <1>1, RunningFacts
  <1>4. Allowed(va, Way) <=> CanWrite(va) \/ Promised(va)
    <2>1. Way
      BY <1>1 DEF Way
    <2> QED BY <1>3, <2>1, PageReached
  <1>5. CASE CanWrite(va) \/ Promised(va)
    <2>1. /\ stored' = stored \cup va..(va + Chunk - 1) /\ NextPage(Chunk) /\ ret' = ret
      BY <1>5 DEF copyout_page
    <2>2. Chunk \in 1..left
      BY <1>1, <1>4, <1>5, Progress
    <2>3. stored' = addr..(addr + Moved + Chunk - 1)
      BY <1>3, <2>1, <2>2
    <2>4. UNCHANGED <<lvars, op, ret, args, nomem>> /\ kbuf' = <<>>
      BY <1>1, <1>3, <2>1
    <2> QED BY <1>1, <1>2, <1>4, <1>5, <2>1, <2>3, <2>4, GoesOn
  <1>6. CASE ~(CanWrite(va) \/ Promised(va))
    <2>1. ret' = -1 /\ UNCHANGED <<stored, va, left>>
      BY <1>6 DEF copyout_page
    <2>2. UNCHANGED <<lvars, op, va, left, kbuf, args, stored>>
      BY <1>1, <2>1
    <2>3. nomem' \in BOOLEAN /\ ~Allowed(va, Way) /\ op # "copyinstr"
      BY <1>1, <1>3, <1>4, <1>6
    <2> QED BY <1>1, <1>2, <2>1, <2>2, <2>3, CopyReturns
  <1> QED BY <1>5, <1>6

LEMMA CopyinstrPageStep ==
  ASSUME LineInv, CopyInv, copyinstr_page
  PROVE  CopyInv'
  <1> DEFINE chunk == Bytes(Chunk)
             nuls == {k \in DOMAIN chunk : chunk[k] = NUL}
  <1>1. /\ ret = Busy /\ left > 0 /\ op = "copyinstr" /\ op # "copyout" /\ GetPage
        /\ stored' = stored /\ UNCHANGED <<lvars, op, args, nomem>>
        /\ IF nuls = {}
           THEN kbuf' = kbuf \o chunk /\ NextPage(Chunk) /\ ret' = ret
           ELSE /\ kbuf' = kbuf \o SubSeq(chunk, 1, Min(nuls)) /\ ret' = strlen(kbuf')
                /\ left' = left /\ va' = va
    BY DEF copyinstr_page, Copying
  <1>2. /\ Allowed(va, Way) /\ Chunk \in 1..left /\ chunk = HadAt(va, Chunk)
        /\ \A k \in 0..Chunk : kbuf \o HadAt(va, k) = HadAt(addr, Moved + k)
    BY <1>1, ReadPage
  <1>3. /\ buf \in [0..(NBUF - 1) -> Char \cup {NUL}]
        /\ va \in Nat /\ addr \in Nat /\ Moved \in Nat /\ left \in Nat /\ va = addr + Moved
        /\ stored = {}
        /\ \A j \in 0..(Moved - 1) : Had(addr + j) # NUL
    BY <1>1, RunningFacts
  <1>4. faulted' \subseteq Lazy
    BY <1>1, GotPage
  <1>5. Chunk \in Nat /\ Chunk \in 0..Chunk
    BY <1>2, <1>3
  <1>6. DOMAIN chunk = 1..Chunk /\ \A k \in 1..Chunk : chunk[k] = Had(va + k - 1)
    BY <1>2, <1>5 DEF HadAt
  <1>7. nuls = {k \in 1..Chunk : Had(va + k - 1) = NUL}
    BY <1>6
  <1> HIDE DEF nuls, chunk
  <1>8. CASE nuls = {}
    <2>1. kbuf' = HadAt(addr, Moved + Chunk) /\ NextPage(Chunk) /\ ret' = ret
      BY <1>1, <1>2, <1>5, <1>8
    <2>2. ASSUME NEW j \in 0..(Moved + Chunk - 1) PROVE Had(addr + j) # NUL
      <3>1. CASE j < Moved
        BY <1>3, <3>1
      <3>2. CASE j >= Moved
        <4> DEFINE k == j - Moved + 1
        <4>1. k \in 1..Chunk /\ addr + j = va + k - 1
          BY <1>3, <1>5, <3>2
        <4> HIDE DEF k
        <4> QED BY <1>7, <1>8, <4>1
      <3> QED BY <1>3, <1>5, <3>1, <3>2
    <2>3. UNCHANGED <<lvars, op, ret, args, nomem>> /\ stored' = {}
      BY <1>1, <1>3, <2>1
    <2> QED BY <1>1, <1>2, <1>4, <2>1, <2>2, <2>3, GoesOn
  <1>9. CASE nuls # {}
    <2> DEFINE k == Min(nuls)
    <2>1. k \in nuls /\ \A y \in nuls : k <= y
      <3>1. nuls \in SUBSET Nat
        BY <1>5, <1>7
      <3> QED BY <1>9, <3>1, MinFacts
    <2>2. /\ kbuf' = kbuf \o SubSeq(chunk, 1, k) /\ ret' = strlen(kbuf')
          /\ left' = left /\ va' = va
      BY <1>1, <1>9
    <2> HIDE DEF k
    <2>3. k \in 1..Chunk /\ Had(va + k - 1) = NUL
      BY <1>7, <2>1
    <2>4. ASSUME NEW j \in 1..(k - 1) PROVE Had(va + j - 1) # NUL
      <3>1. j \in 1..Chunk /\ ~(k <= j)
        BY <1>5, <2>3
      <3> QED BY <1>7, <2>1, <3>1
    <2>5. SubSeq(chunk, 1, k) = HadAt(va, k)
      <3>1. k \in 0..Chunk
        BY <1>5, <2>3
      <3> QED BY <1>2, <1>3, <1>5, <3>1, HadAtFacts
    <2>6. kbuf' = HadAt(addr, Moved + k)
      <3>1. k \in 0..Chunk
        BY <1>5, <2>3
      <3> QED BY <1>2, <2>2, <2>5, <3>1
    <2>7. UNCHANGED <<lvars, op, va, left, args, stored, nomem>>
      BY <1>1, <2>2
    <2> QED BY <1>1, <1>2, <1>4, <2>2, <2>3, <2>4, <2>6, <2>7, StringFound
  <1> QED BY <1>8, <1>9

-----------------------------------------------------------------------------
(* A call of the kernel. *)

(* The call starts with nothing moved; one that returns at once has refused  *)
(* the address.                                                              *)
LEMMA CallStep ==
  ASSUME LineInv, Idle,
         NEW f \in {"copyin", "fetchaddr", "copyinstr", "copyout"},
         NEW a \in 0..(WORD - 1), NEW n \in Nat, NEW w, NEW r \in {Busy, -1}, Call(f, a, n, w, r),
         f = "fetchaddr" => n = SIZEOF /\ (r = Busy => (a + SIZEOF) % WORD <= psz),
         r # Busy => f = "fetchaddr" /\ ~(a + SIZEOF <= psz)
  PROVE  CopyInv'
  <1>1. /\ op' = f /\ va' = a /\ left' = n /\ kbuf' = <<>> /\ ret' = r
        /\ addr' = a /\ len' = n /\ nomem' = FALSE /\ faulted' = {} /\ stored' = {}
    BY DEF Call, Idle, user
  <1>2. Moved' = 0 /\ a \in Nat
    BY <1>1, LayoutFacts DEF Moved
  <1>3. \A b : HadAt(b, 0)' = <<>>
    BY DEF HadAt
  <1>4. HadAt(addr, Moved)' = <<>>
    BY <1>2 DEF HadAt
  <1>5. a..(a - 1) = {} /\ 0..(Moved' - 1) = {} /\ addr'..(addr' + Moved' - 1) = {}
    BY <1>1, <1>2
  <1>6. ret' = Busy => Running'
    BY <1>1, <1>2, <1>4, <1>5 DEF Running
  <1>7. ASSUME ret' # Busy PROVE CopyExact' /\ StringExact' /\ ret' \in {-1} \cup 0..len' /\ Len(kbuf') <= len'
    <2>1. r = -1 /\ f = "fetchaddr" /\ ~(a + SIZEOF <= psz)
      BY <1>1, <1>7
    <2>2. StringExact'
      BY <1>1, <2>1 DEF StringExact, Returned
    <2>3. HadAt(addr, Len(kbuf))' = <<>>
      <3>1. Len(kbuf') = 0
        BY <1>1
      <3> QED BY <3>1 DEF HadAt
    <2>4. CopyExact'
      BY <1>1, <2>1, <2>3 DEF CopyExact
    <2> QED BY <1>1, <2>1, <2>2, <2>4
  <1>8. stored' = IF op' = "copyout" THEN addr'..(addr' + Moved' - 1) ELSE {}
    BY <1>1, <1>5
  <1>9. /\ op' \in {"copyin", "fetchaddr", "copyinstr", "copyout"}
        /\ addr' \in 0..(WORD - 1) /\ len' \in Nat /\ (op' = "fetchaddr" => len' = SIZEOF)
        /\ va' \in 0..(WORD - 1) /\ left' \in 0..len'
        /\ faulted' \subseteq Lazy'
    BY <1>1
  <1>10. \A j \in 0..(Moved' - 1) : Allowed(addr' + j, op' = "copyout")
    BY <1>5
  <1> QED BY <1>6, <1>7, <1>8, <1>9, <1>10 DEF CopyInv

(* The system calls, from any state in which no call was made yet. *)
LEMMA SyscallStep ==
  ASSUME UInv, Syscall
  PROVE  UInv'
  <1>1. pc # "kernel" /\ LineInv /\ Idle
    BY DEF UInv, Syscall, argstr, fetchaddr, fetchstr, either_copyin, either_copyout, OtherProgram
  <1>2. SIZEOF \in Nat /\ Busy \in {Busy, -1} /\ -1 \in {Busy, -1}
    BY UaccessAssumption
  <1>3. ASSUME NEW f, NEW a, NEW n, NEW w, NEW r, Call(f, a, n, w, r), CopyInv' PROVE UInv'
    <2>1. pc' = "kernel" /\ UNCHANGED <<buf, i, cmdline, parse>>
      BY <1>3 DEF Call
    <2>2. LineInv'
      BY <1>1, <2>1 DEF LineInv, parse
    <2> QED BY <1>3, <2>1, <2>2 DEF UInv
  <1>4. ASSUME NEW k \in 1..NBUF, NEW max \in MaxStr, argstr(k, max) PROVE UInv'
    <2> DEFINE a == BUF + argv[k]
    <2>1. Call("copyinstr", a, max, k, Busy) /\ k \in DOMAIN argv /\ max \in Nat
      BY <1>4, UaccessAssumption DEF argstr
    <2>2. a \in 0..(WORD - 1)
      <3>1. argv[k] \in 0..(NBUF - 1)
        <4>1. argv \in Seq(0..(NBUF - 1))
          BY <1>1 DEF LineInv
        <4>2. k \in 1..Len(argv)
          BY <2>1, <4>1, LenProperties
        <4> QED BY <4>1, <4>2, ElementOfSeq
      <3>2. BUF \in Nat /\ NBUF \in Nat /\ BUF + NBUF <= 3 * PGSIZE
        BY LineAssumption, UaccessAssumption
      <3> QED BY <3>1, <3>2, LayoutFacts
    <2> HIDE DEF a
    <2>3. CopyInv'
      BY <1>1, <1>2, <2>1, <2>2, CallStep DEF Busy
    <2> QED BY <1>3, <2>1, <2>3
  <1>5. ASSUME NEW a \in 0..(WORD - 1), fetchaddr(a) PROVE UInv'
    <2> DEFINE r == IF a >= psz \/ (a + SIZEOF) % WORD > psz THEN -1 ELSE Busy
    <2>1. Call("fetchaddr", a, SIZEOF, 0, r)
      BY <1>5 DEF fetchaddr
    <2>2. a \in Nat /\ WORD \in Nat /\ WORD > 0 /\ psz \in Nat /\ SIZEOF > 0
      BY LayoutFacts, UaccessAssumption
    <2>3. (a + SIZEOF) % WORD \in Nat /\ (a + SIZEOF) % WORD <= a + SIZEOF
      <3> DEFINE x == a + SIZEOF
      <3>1. x \in Nat /\ WORD \in Nat \ {0}
        BY <1>2, <2>2
      <3> HIDE DEF x
      <3>2. x % WORD \in Nat /\ x % WORD <= x
        <4>1. x % WORD \in Nat
          BY <3>1
        <4>2. x \div WORD \in Nat /\ x = WORD * (x \div WORD) + (x % WORD)
          BY <3>1, DivMod
        <4>3. WORD * (x \div WORD) \in Nat
          BY <3>1, <4>2
        <4> QED BY <3>1, <4>1, <4>2, <4>3
      <3> QED BY <3>2 DEF x
    <2>4. r \in {Busy, -1} /\ (r = Busy => (a + SIZEOF) % WORD <= psz)
      <3>1. Busy # -1
        BY DEF Busy
      <3> QED BY <2>2, <2>3, <3>1
    <2>5. r # Busy => ~(a + SIZEOF <= psz)
      BY <1>2, <2>2, <2>3
    <2> HIDE DEF r
    <2>6. CopyInv'
      BY <1>1, <1>2, <2>1, <2>4, <2>5, CallStep
    <2> QED BY <1>3, <2>1, <2>6
  <1>6. ASSUME NEW a \in 0..(WORD - 1), NEW n \in 0..MaxLen,
               fetchstr(a, n) \/ either_copyin(a, n) \/ either_copyout(a, n)
        PROVE  UInv'
    <2>1. n \in Nat
      BY UaccessAssumption
    <2>2. PICK f \in {"copyinstr", "copyin", "copyout"} : Call(f, a, n, 0, Busy)
      BY <1>6 DEF fetchstr, either_copyin, either_copyout
    <2>3. f # "fetchaddr" /\ f \in {"copyin", "fetchaddr", "copyinstr", "copyout"}
      OBVIOUS
    <2>4. CopyInv'
      BY <1>1, <1>2, <2>1, <2>2, <2>3, CallStep
    <2> QED BY <1>3, <2>2, <2>4
  <1> QED BY <1>4, <1>5, <1>6 DEF Syscall

-----------------------------------------------------------------------------
(* All steps. *)

(* Every step of the shell and of the kernel keeps the invariant. *)
LEMMA StepInv ==
  ASSUME UInv, [UNext]_uvars
  PROVE  UInv'
  <1>1. CASE LNext /\ UNCHANGED <<user, op, va, left, kbuf, ret, args, nomem>>
    <2>1. pc # "kernel" /\ pc' # "kernel"
      BY <1>1 DEF LNext, getcmd, gets_end, gets_read, main_exit, main_child, main_shell,
           execline_left, execline_right, runcmd, parseline_blank, parseline_in,
           parseline_out, parseline_file, parseline_word, parseline_end
    <2>2. LineInv'
      BY <1>1, LineStep DEF UInv
    <2>3. Idle'
      BY <1>1, <2>1 DEF UInv, Idle, user, args
    <2> QED BY <2>1, <2>2, <2>3 DEF UInv
  <1>2. CASE Syscall
    BY <1>2, SyscallStep
  <1>3. CASE Kernel
    <2>1. pc = "kernel" /\ lvars' = lvars
      BY <1>3 DEF Kernel, Copying, copy_fault, copyin_page, copyout_page, copy_done,
           copyinstr_page, copyinstr_long
    <2>2. LineInv /\ CopyInv
      BY <2>1 DEF UInv
    <2>3. CopyInv'
      BY <1>3, <2>2, CopyFaultStep, CopyinPageStep, CopyoutPageStep, CopyDoneStep,
         CopyinstrPageStep, CopyinstrLongStep DEF Kernel
    <2>4. LineInv' /\ pc' = "kernel"
      BY <2>1, <2>2 DEF LineInv, lvars
    <2> QED BY <2>3, <2>4 DEF UInv
  <1>4. CASE UNCHANGED uvars
    <2>1. /\ UNCHANGED lvars /\ UNCHANGED <<faulted, stored, op, va, left, kbuf, ret, addr, len, word, nomem>>
      BY <1>4 DEF uvars
    <2>2. LineInv' /\ pc' = pc
      BY <2>1 DEF UInv, LineInv, lvars
    <2>3. pc # "kernel" => Idle'
      BY <2>1 DEF UInv, Idle
    <2>4. ASSUME CopyInv PROVE CopyInv'
      <3>1. buf' = buf
        BY <2>1 DEF lvars
      <3>2. Moved' = Moved /\ Lazy' = Lazy
        BY <2>1 DEF Moved, Lazy
      <3>3. Running <=> Running'
        BY <2>1, <3>1, <3>2 DEF Running, HadAt, Had, InBuf
      <3>4. CopyExact <=> CopyExact'
        BY <2>1, <2>2, <3>1 DEF CopyExact, Returned, HadAt, Had, InBuf
      <3>5. StringExact <=> StringExact'
        BY <2>1, <2>2, <3>1 DEF StringExact, Returned, HadAt, Had, InBuf
      <3> QED BY <2>1, <2>4, <3>2, <3>3, <3>4, <3>5 DEF CopyInv
    <2> QED BY <2>2, <2>3, <2>4 DEF UInv
  <1> QED BY <1>1, <1>2, <1>3, <1>4 DEF UNext

(* The shell asks for a line. *)
LEMMA InitInv == UInit => UInv
BY LineAssumption DEF UInit, LInit, UInv, LineInv, Idle, NoFile

(* The invariant gives the types and what the copies promise. *)
LEMMA Promises ==
  ASSUME UInv
  PROVE  UTypeOK /\ CopyExact /\ StringExact
  <1>1. LTypeOK
    BY DEF UInv, LineInv, LTypeOK
  <1>2. CASE pc # "kernel"
    <2>1. Idle
      BY <1>2 DEF UInv
    <2>2. CopyExact /\ StringExact
      BY <1>2 DEF CopyExact, StringExact, Returned
    <2>3. UTypeOK
      BY <1>1, <2>1, LayoutFacts DEF Idle, UTypeOK, Busy
    <2> QED BY <2>2, <2>3
  <1>3. CASE pc = "kernel"
    <2>1. LineInv /\ CopyInv
      BY <1>3 DEF UInv
    <2>2. faulted \subseteq 1..NPG /\ va \in 0..(WORD - 1) /\ left \in 0..len /\ len \in Nat
      BY <2>1 DEF CopyInv, Lazy
    <2>3. stored \subseteq Addr
      <3>1. ASSUME NEW a \in stored PROVE a \in Addr
        <4>1. op = "copyout" /\ a \in addr..(addr + Moved - 1) /\ addr \in Nat /\ Moved \in Nat
          BY <2>1, <2>2, LayoutFacts DEF CopyInv, Moved
        <4>2. a - addr \in 0..(Moved - 1) /\ addr + (a - addr) = a /\ a \in Nat
          BY <4>1
        <4>3. Allowed(addr + (a - addr), Way)
          BY <2>1, <4>2 DEF CopyInv, Way
        <4>4. a < MAXVA
          BY <4>2, <4>3 DEF Allowed
        <4> QED BY <4>2, <4>4, LayoutFacts DEF Addr
      <3> QED BY <3>1
    <2>4. CASE ret = Busy
      <3>1. CopyExact /\ StringExact
        BY <2>4 DEF CopyExact, StringExact, Returned
      <3>2. Len(kbuf) <= len
        <4>1. Moved \in 0..len /\ Moved \in Nat /\ 0 \in Nat /\ addr \in Nat /\ len \in Nat
          BY <2>1, <2>4, RunningFacts
        <4>2. CASE op = "copyout"
          BY <2>1, <2>4, <4>1, <4>2, RunningFacts
        <4>3. CASE op # "copyout"
          <5>1. kbuf = HadAt(addr, Moved) /\ buf \in [0..(NBUF - 1) -> Char \cup {NUL}]
            BY <2>1, <2>4, <4>3, RunningFacts
          <5>2. Len(kbuf) = Moved
            BY <4>1, <5>1, HadAtFacts
          <5> QED BY <4>1, <5>2
        <4> QED BY <4>2, <4>3
      <3> QED BY <1>1, <2>2, <2>3, <2>4, <3>1, <3>2 DEF UTypeOK
    <2>5. CASE ret # Busy
      <3>1. CopyExact /\ StringExact /\ ret \in {-1} \cup 0..len /\ Len(kbuf) <= len
        BY <2>1, <2>5 DEF CopyInv
      <3> QED BY <1>1, <2>2, <2>3, <3>1 DEF UTypeOK
    <2> QED BY <2>4, <2>5
  <1> QED BY <1>2, <1>3

-----------------------------------------------------------------------------
(* The meaning of a line. *)

(* Induction over the numbers from a to b. *)
LEMMA RangeInduction ==
  ASSUME NEW a \in Nat, NEW b \in Nat, NEW G, a \in G,
         \A k \in a..(b - 1) : k \in G => k + 1 \in G
  PROVE  \A k \in a..b : k \in G
  <1> DEFINE S == {k \in a..b : k \notin G}
  <1>1. SUFFICES ASSUME S # {} PROVE FALSE
    OBVIOUS
  <1>2. S \in SUBSET Nat /\ \A y : y \in S <=> y \in a..b /\ y \notin G
    OBVIOUS
  <1> HIDE DEF S
  <1>3. PICK x \in S : \A y \in S : x <= y
    BY <1>1, <1>2, MinFacts
  <1>4. x \in a..b /\ x \notin G /\ x # a
    BY <1>2, <1>3
  <1>5. x - 1 \in a..(b - 1) /\ x - 1 \in a..b /\ (x - 1) + 1 = x /\ ~(x <= x - 1)
    BY <1>4
  <1>6. x - 1 \in G
    BY <1>2, <1>3, <1>5
  <1> QED BY <1>4, <1>5, <1>6

(* Read, with its recursion replaced by r. *)
ReadOf(r, k) ==
  IF k = 0 THEN Fresh(1)
  ELSE IF line[k] = "|" THEN Fresh(r[k - 1].nth + 1)
  ELSE Lex(r[k - 1], line[k])

(* The recursive definition has a solution, so Read is one. *)
LEMMA ReadUnfolds == \A k \in 0..(NBUF - 1) : Read[k] = ReadOf(Read, k)
  <1> DEFINE N == NBUF - 1
             Upto(m) == \E f : \A k \in 0..m : f[k] = ReadOf(f, k)
             G == {m \in 0..N : Upto(m)}
             Eqn(r) == r = [k \in 0..N |-> ReadOf(r, k)]
  <1>1. N \in Nat /\ 0 \in Nat
    BY LineAssumption
  <1>2. 0 \in G
    <2> DEFINE f == [k \in {0} |-> Fresh(1)]
    <2>1. \A k \in 0..0 : f[k] = ReadOf(f, k)
      BY DEF ReadOf
    <2> QED BY <1>1, <2>1
  <1>3. ASSUME NEW m \in 0..(N - 1), m \in G PROVE m + 1 \in G
    <2>1. PICK f : \A k \in 0..m : f[k] = ReadOf(f, k)
      BY <1>3
    <2> DEFINE g == [k \in 0..(m + 1) |-> IF k = m + 1 THEN ReadOf(f, m + 1) ELSE f[k]]
    <2>2. \A k \in 0..m : g[k] = f[k]
      BY <1>1
    <2>3. g[m + 1] = ReadOf(f, m + 1)
      BY <1>1
    <2> HIDE DEF g
    <2>4. ASSUME NEW k \in 0..(m + 1) PROVE ReadOf(g, k) = ReadOf(f, k)
      <3>1. k # 0 => k - 1 \in 0..m
        BY <1>1
      <3>2. k # 0 => g[k - 1] = f[k - 1]
        BY <2>2, <3>1
      <3> QED BY <3>2 DEF ReadOf
    <2>5. ASSUME NEW k \in 0..(m + 1) PROVE g[k] = ReadOf(g, k)
      <3>1. k \in 0..m \/ k = m + 1
        BY <1>1
      <3> QED BY <2>1, <2>2, <2>3, <2>4, <3>1
    <2>6. m + 1 \in 0..N /\ Upto(m + 1)
      BY <1>1, <2>5
    <2> QED BY <2>6
  <1>4. N \in G
    <2> HIDE DEF G
    <2>1. \A k \in 0..N : k \in G
      BY <1>1, <1>2, <1>3, RangeInduction
    <2> QED BY <1>1, <2>1
  <1>5. PICK f : \A k \in 0..N : f[k] = ReadOf(f, k)
    BY <1>4
  <1> DEFINE h == [k \in 0..N |-> f[k]]
  <1>6. \A k \in 0..N : h[k] = f[k]
    OBVIOUS
  <1>7. h = [k \in 0..N |-> h[k]]
    OBVIOUS
  <1> HIDE DEF h
  <1>8. ASSUME NEW k \in 0..N PROVE h[k] = ReadOf(h, k)
    <2>1. k # 0 => k - 1 \in 0..N
      BY <1>1
    <2>2. k # 0 => h[k - 1] = f[k - 1]
      BY <1>6, <2>1
    <2>3. ReadOf(h, k) = ReadOf(f, k)
      BY <2>2 DEF ReadOf
    <2> QED BY <1>5, <1>6, <2>3
  <1>9. Eqn(h)
    <2> DEFINE u == [k \in 0..N |-> ReadOf(h, k)]
    <2>1. \A k \in 0..N : u[k] = h[k]
      BY <1>8
    <2>2. u = [k \in 0..N |-> u[k]]
      OBVIOUS
    <2> HIDE DEF u
    <2>3. h = u
      BY <1>7, <2>1, <2>2
    <2> QED BY <2>3 DEF u
  <1>10. Read = CHOOSE r : Eqn(r)
    BY DEF Read, ReadOf
  <1>11. Eqn(Read)
    BY <1>9, <1>10
  <1> QED BY <1>11

(* What may have been read of a command: in a word there is one, after an    *)
(* arrow there is a name.                                                    *)
Rd(n, m, w, a, b) == [nth |-> n, mode |-> m, words |-> w, infile |-> a, outfile |-> b]

Names == Seq(Seq(Char))

Sound(n, m, w, a, b) ==
  /\ n \in Nat /\ w \in Names /\ a \in Names /\ b \in Names
  /\ m \in {"gap", "word", "<", ">", "infile", "outfile"}
  /\ m = "word" => Len(w) >= 1
  /\ m \in {"<", "infile"} => Len(a) = 1
  /\ m \in {">", "outfile"} => Len(b) = 1

(* A character that goes on with the last of some words. *)
LEMMA LongerFacts ==
  ASSUME NEW ws \in Names, Len(ws) >= 1, NEW c \in Char
  PROVE  /\ Longer(ws, c) \in Names /\ Len(Longer(ws, c)) = Len(ws)
         /\ \A k \in 1..Len(ws) :
              Longer(ws, c)[k] = IF k = Len(ws) THEN Append(ws[k], c) ELSE ws[k]
  <1>1. ws \in Seq(Seq(Char)) /\ Len(ws) \in Nat /\ Len(ws) \in 1..Len(ws) /\ ws[Len(ws)] \in Seq(Char)
    BY DEF Names
  <1>2. Append(ws[Len(ws)], c) \in Seq(Char)
    BY <1>1
  <1> QED BY <1>1, <1>2 DEF Longer, Names

(* A character of each kind, in each mode. *)
LEMMA LexIn ==
  ASSUME NEW n, NEW m \in {"<", "infile"}, NEW w, NEW a, NEW b, NEW c, c \notin Blank
  PROVE  Lex(Rd(n, m, w, a, b), c) = Rd(n, "infile", w, Longer(a, c), b)
BY DEF Lex, Rd, Blank

LEMMA LexOut ==
  ASSUME NEW n, NEW m \in {">", "outfile"}, NEW w, NEW a, NEW b, NEW c, c \notin Blank
  PROVE  Lex(Rd(n, m, w, a, b), c) = Rd(n, "outfile", w, a, Longer(b, c))
BY DEF Lex, Rd, Blank

LEMMA LexArrowIn ==
  ASSUME NEW n, NEW m \in {"gap", "word"}, NEW w, NEW a, NEW b, NEW c \in {"<"}
  PROVE  Lex(Rd(n, m, w, a, b), c) = Rd(n, "<", w, << <<>> >>, b)
BY DEF Lex, Rd, Blank, SP, NL

LEMMA LexArrowOut ==
  ASSUME NEW n, NEW m \in {"gap", "word"}, NEW w, NEW a, NEW b, NEW c \in {">"}
  PROVE  Lex(Rd(n, m, w, a, b), c) = Rd(n, ">", w, a, << <<>> >>)
BY DEF Lex, Rd, Blank, SP, NL

LEMMA LexStart ==
  ASSUME NEW n, NEW m \in {"gap"}, NEW w, NEW a, NEW b, NEW c, c \notin Blank \cup {"<", ">"}
  PROVE  Lex(Rd(n, m, w, a, b), c) = Rd(n, "word", Append(w, <<c>>), a, b)
BY DEF Lex, Rd, Blank

LEMMA LexMore ==
  ASSUME NEW n, NEW m \in {"word"}, NEW w, NEW a, NEW b, NEW c, c \notin Blank \cup {"<", ">"}
  PROVE  Lex(Rd(n, m, w, a, b), c) = Rd(n, "word", Longer(w, c), a, b)
BY DEF Lex, Rd, Blank

(* What is read stays sound. *)
LEMMA LexSound ==
  ASSUME NEW n, NEW m, NEW w, NEW a, NEW b, Sound(n, m, w, a, b), NEW c \in Char
  PROVE  \E m2, w2, a2, b2 :
           /\ Lex(Rd(n, m, w, a, b), c) = Rd(n, m2, w2, a2, b2)
           /\ Sound(n, m2, w2, a2, b2) /\ Len(w2) >= Len(w)
  <1>1. /\ n \in Nat /\ w \in Names /\ a \in Names /\ b \in Names
        /\ m \in {"gap", "word", "<", ">", "infile", "outfile"} /\ Len(w) \in Nat
    BY DEF Sound, Names
  <1>2. << <<>> >> \in Names /\ Len(<< <<>> >>) = 1
    BY DEF Names
  <1>3. CASE c \in {SP} /\ m \in {"<", ">"}
    <2>1. Lex(Rd(n, m, w, a, b), c) = Rd(n, m, w, a, b)
      BY <1>3 DEF Lex, Rd
    <2> QED BY <1>1, <2>1
  <1>4. CASE c \in Blank /\ (m \notin {"<", ">"} \/ c # SP)
    <2>1. Lex(Rd(n, m, w, a, b), c) = Rd(n, "gap", w, a, b)
      BY <1>4 DEF Lex, Rd
    <2>2. Sound(n, "gap", w, a, b)
      BY <1>1 DEF Sound
    <2> QED BY <1>1, <2>1, <2>2
  <1>5. CASE c \notin Blank /\ m \in {"<", "infile"}
    <2>1. Lex(Rd(n, m, w, a, b), c) = Rd(n, "infile", w, Longer(a, c), b)
      BY <1>5, LexIn
    <2>2. Len(a) = 1 /\ Len(a) >= 1
      BY <1>5 DEF Sound
    <2>3. Longer(a, c) \in Names /\ Len(Longer(a, c)) = 1
      BY <1>1, <2>2, LongerFacts
    <2>4. Sound(n, "infile", w, Longer(a, c), b)
      BY <1>1, <2>3 DEF Sound
    <2> QED BY <1>1, <2>1, <2>4
  <1>6. CASE c \notin Blank /\ m \in {">", "outfile"}
    <2>1. Lex(Rd(n, m, w, a, b), c) = Rd(n, "outfile", w, a, Longer(b, c))
      BY <1>6, LexOut
    <2>2. Len(b) = 1 /\ Len(b) >= 1
      BY <1>6 DEF Sound
    <2>3. Longer(b, c) \in Names /\ Len(Longer(b, c)) = 1
      BY <1>1, <2>2, LongerFacts
    <2>4. Sound(n, "outfile", w, a, Longer(b, c))
      BY <1>1, <2>3 DEF Sound
    <2> QED BY <1>1, <2>1, <2>4
  <1>7. CASE c \in {"<"} /\ m \in {"gap", "word"}
    <2>1. Lex(Rd(n, m, w, a, b), c) = Rd(n, "<", w, << <<>> >>, b)
      BY <1>7, LexArrowIn
    <2>2. Sound(n, "<", w, << <<>> >>, b)
      BY <1>1, <1>2 DEF Sound
    <2> QED BY <1>1, <2>1, <2>2
  <1>8. CASE c \in {">"} /\ m \in {"gap", "word"}
    <2>1. Lex(Rd(n, m, w, a, b), c) = Rd(n, ">", w, a, << <<>> >>)
      BY <1>8, LexArrowOut
    <2>2. Sound(n, ">", w, a, << <<>> >>)
      BY <1>1, <1>2 DEF Sound
    <2> QED BY <1>1, <2>1, <2>2
  <1>9. CASE c \notin Blank \cup {"<", ">"} /\ m \in {"gap"}
    <2>1. Lex(Rd(n, m, w, a, b), c) = Rd(n, "word", Append(w, <<c>>), a, b)
      BY <1>9, LexStart
    <2>2. <<c>> \in Seq(Char)
      OBVIOUS
    <2>3. Append(w, <<c>>) \in Names /\ Len(Append(w, <<c>>)) = Len(w) + 1
      BY <1>1, <2>2 DEF Names
    <2>4. Sound(n, "word", Append(w, <<c>>), a, b)
      BY <1>1, <2>3 DEF Sound
    <2>5. Len(Append(w, <<c>>)) >= Len(w)
      BY <1>1, <2>3
    <2> QED BY <2>1, <2>4, <2>5
  <1>10. CASE c \notin Blank \cup {"<", ">"} /\ m \in {"word"}
    <2>1. Lex(Rd(n, m, w, a, b), c) = Rd(n, "word", Longer(w, c), a, b)
      BY <1>10, LexMore
    <2>2. Len(w) >= 1
      BY <1>10 DEF Sound
    <2>3. Longer(w, c) \in Names /\ Len(Longer(w, c)) = Len(w)
      BY <1>1, <2>2, LongerFacts
    <2>4. Sound(n, "word", Longer(w, c), a, b)
      BY <1>1, <2>2, <2>3 DEF Sound
    <2> QED BY <1>1, <2>1, <2>3, <2>4
  <1> QED BY <1>1, <1>3, <1>4, <1>5, <1>6, <1>7, <1>8, <1>9, <1>10

(* The last of some words goes on. *)
LEMMA LongerLast ==
  ASSUME NEW ws \in Names, NEW u \in Seq(Char), NEW c \in Char
  PROVE  /\ Append(ws, u) \in Names /\ Append(u, c) \in Seq(Char)
         /\ Longer(Append(ws, u), c) = Append(ws, Append(u, c))
  <1> DEFINE x == Append(ws, u)
             y == Append(ws, Append(u, c))
             z == Longer(x, c)
  <1>1. ws \in Seq(Seq(Char)) /\ Len(ws) \in Nat /\ Append(u, c) \in Seq(Char)
    BY DEF Names
  <1>2. x \in Names /\ Len(x) = Len(ws) + 1 /\ x[Len(ws) + 1] = u
        /\ \A k \in 1..Len(ws) : x[k] = ws[k]
    BY <1>1 DEF Names
  <1>3. y \in Seq(Seq(Char)) /\ Len(y) = Len(ws) + 1 /\ y[Len(ws) + 1] = Append(u, c)
        /\ \A k \in 1..Len(ws) : y[k] = ws[k]
    BY <1>1
  <1> HIDE DEF x, y
  <1>4. z \in Names /\ Len(z) = Len(x)
        /\ \A k \in 1..Len(x) : z[k] = IF k = Len(x) THEN Append(x[k], c) ELSE x[k]
    <2>1. Len(x) >= 1
      BY <1>1, <1>2
    <2> QED BY <1>2, <2>1, LongerFacts
  <1> HIDE DEF z
  <1>5. z \in Seq(Seq(Char)) /\ Len(z) = Len(y)
    BY <1>2, <1>3, <1>4 DEF Names
  <1>6. ASSUME NEW k \in 1..Len(z) PROVE z[k] = y[k]
    <2>1. k \in 1..Len(ws) \/ k = Len(ws) + 1
      BY <1>1, <1>3, <1>5
    <2>2. k \in 1..Len(x) /\ (k \in 1..Len(ws) => k # Len(x))
      BY <1>1, <1>2, <1>3, <1>5
    <2> QED BY <1>2, <1>3, <1>4, <2>1, <2>2
  <1>7. z = y
    BY <1>3, <1>5, <1>6, SeqEqual
  <1> QED BY <1>1, <1>2, <1>7 DEF x, y, z

(* The reference does not change with the buffer. *)
LEMMA ReadStays ==
  ASSUME line' = line
  PROVE  Read' = Read /\ (nth' = nth => CommandEnd' = CommandEnd /\ Asked' = Asked)
  <1>1. Read' = Read
    BY DEF Read, Fresh, Lex, Longer
  <1>2. nth' = nth => CommandEnd' = CommandEnd
    BY <1>1 DEF CommandEnd
  <1> QED BY <1>1, <1>2 DEF Asked

(* The line fits in the buffer. *)
LineFits == line \in Seq(Char) /\ Len(line) <= NBUF - 1

LEMMA LineFacts ==
  ASSUME LineFits
  PROVE  /\ NBUF \in Nat /\ NBUF - 1 \in Nat /\ Len(line) \in 0..(NBUF - 1) /\ Len(line) \in Nat
         /\ \A k \in 0..(Len(line) - 1) : line[k + 1] \in Char
  <1>1. NBUF \in Nat /\ NBUF - 1 \in Nat /\ Len(line) \in Nat /\ Len(line) <= NBUF - 1
        /\ line \in Seq(Char)
    BY LineAssumption DEF LineFits
  <1>2. ASSUME NEW k \in 0..(Len(line) - 1) PROVE line[k + 1] \in Char
    <2>1. k + 1 \in 1..Len(line)
      BY <1>1
    <2> QED BY <1>1, <2>1
  <1> QED BY <1>1, <1>2

(* One more character of the line. *)
LEMMA ReadNext ==
  ASSUME LineFits, NEW k \in 0..(Len(line) - 1)
  PROVE  /\ line[k + 1] = "|" => Read[k + 1] = Fresh(Read[k].nth + 1)
         /\ line[k + 1] # "|" => Read[k + 1] = Lex(Read[k], line[k + 1])
  <1>1. k + 1 \in 0..(NBUF - 1) /\ k + 1 # 0 /\ (k + 1) - 1 = k
    BY LineFacts
  <1>2. Read[k + 1] = ReadOf(Read, k + 1)
    BY <1>1, ReadUnfolds
  <1> QED BY <1>1, <1>2 DEF ReadOf

(* The parts of what was read. *)
LEMMA RdFields ==
  ASSUME NEW n, NEW m, NEW w, NEW a, NEW b
  PROVE  /\ Rd(n, m, w, a, b).nth = n /\ Rd(n, m, w, a, b).mode = m
         /\ Rd(n, m, w, a, b).words = w
         /\ Rd(n, m, w, a, b).infile = a /\ Rd(n, m, w, a, b).outfile = b
BY DEF Rd

LEMMA FreshFacts ==
  ASSUME NEW n \in Nat
  PROVE  Fresh(n) = Rd(n, "gap", <<>>, <<>>, <<>>) /\ Sound(n, "gap", <<>>, <<>>, <<>>)
  <1>1. <<>> \in Names
    BY DEF Names
  <1> QED BY <1>1 DEF Fresh, Rd, Sound

(* What was read of a line is always of that shape. *)
LEMMA ReadSound ==
  ASSUME LineFits
  PROVE  \A k \in 0..Len(line) :
           \E n, m, w, a, b : Read[k] = Rd(n, m, w, a, b) /\ Sound(n, m, w, a, b)
  <1> DEFINE Shape(s) == \E n, m, w, a, b : s = Rd(n, m, w, a, b) /\ Sound(n, m, w, a, b)
             G == {k \in 0..Len(line) : Shape(Read[k])}
  <1>1. Len(line) \in Nat /\ 0 \in 0..Len(line) /\ 0 \in 0..(NBUF - 1)
    BY LineFacts
  <1>2. 0 \in G
    <2>1. Read[0] = Fresh(1)
      BY <1>1, ReadUnfolds DEF ReadOf
    <2>2. Shape(Fresh(1))
      <3>1. 1 \in Nat
        OBVIOUS
      <3> QED BY <3>1, FreshFacts
    <2> QED BY <1>1, <2>1, <2>2
  <1>3. ASSUME NEW k \in 0..(Len(line) - 1), k \in G PROVE k + 1 \in G
    <2>1. PICK n, m, w, a, b : Read[k] = Rd(n, m, w, a, b) /\ Sound(n, m, w, a, b)
      BY <1>3
    <2>2. k + 1 \in 0..Len(line) /\ line[k + 1] \in Char
      BY <1>1, LineFacts
    <2>3. CASE line[k + 1] = "|"
      <3>1. Read[k].nth = n /\ n \in Nat /\ n + 1 \in Nat
        BY <2>1, RdFields DEF Sound
      <3>2. Read[k + 1] = Fresh(n + 1)
        BY <2>3, <3>1, ReadNext
      <3>3. Shape(Fresh(n + 1))
        BY <3>1, FreshFacts
      <3> QED BY <2>2, <3>2, <3>3
    <2>4. CASE line[k + 1] # "|"
      <3>1. Read[k + 1] = Lex(Rd(n, m, w, a, b), line[k + 1])
        BY <2>1, <2>4, ReadNext
      <3>2. Shape(Lex(Rd(n, m, w, a, b), line[k + 1]))
        BY <2>1, <2>2, LexSound
      <3> QED BY <2>2, <3>1, <3>2
    <2> QED BY <2>3, <2>4
  <1> HIDE DEF G
  <1>4. \A k \in 0..Len(line) : k \in G
    BY <1>1, <1>2, <1>3, RangeInduction
  <1> QED BY <1>4 DEF G

(* The same without a bar: the command stays and has no fewer words. *)
LEMMA ReadGrows ==
  ASSUME LineFits, NEW k \in 0..(Len(line) - 1)
  PROVE  /\ Read[k].nth \in Nat /\ Read[k + 1].nth \in Nat
         /\ Len(Read[k].words) \in Nat /\ Len(Read[k + 1].words) \in Nat
         /\ line[k + 1] = "|" => Read[k + 1].nth = Read[k].nth + 1
         /\ line[k + 1] # "|" => /\ Read[k + 1].nth = Read[k].nth
                                 /\ Len(Read[k + 1].words) >= Len(Read[k].words)
  <1>1. k \in 0..Len(line) /\ k + 1 \in 0..Len(line) /\ line[k + 1] \in Char
    BY LineFacts
  <1>2. PICK n, m, w, a, b : Read[k] = Rd(n, m, w, a, b) /\ Sound(n, m, w, a, b)
    BY <1>1, ReadSound
  <1>3. Read[k].nth = n /\ Read[k].words = w /\ n \in Nat /\ w \in Names /\ Len(w) \in Nat
    BY <1>2, RdFields DEF Sound, Names
  <1>4. CASE line[k + 1] = "|"
    <2>1. n + 1 \in Nat /\ Read[k + 1] = Rd(n + 1, "gap", <<>>, <<>>, <<>>)
      BY <1>3, <1>4, ReadNext, FreshFacts
    <2>2. Read[k + 1].nth = n + 1 /\ Len(Read[k + 1].words) = 0
      BY <2>1, RdFields
    <2> QED BY <1>3, <1>4, <2>1, <2>2
  <1>5. CASE line[k + 1] # "|"
    <2>1. Read[k + 1] = Lex(Rd(n, m, w, a, b), line[k + 1])
      BY <1>2, <1>5, ReadNext
    <2>2. PICK m2, w2, a2, b2 :
            /\ Lex(Rd(n, m, w, a, b), line[k + 1]) = Rd(n, m2, w2, a2, b2)
            /\ Sound(n, m2, w2, a2, b2) /\ Len(w2) >= Len(w)
      BY <1>1, <1>2, LexSound
    <2>3. Read[k + 1].nth = n /\ Read[k + 1].words = w2 /\ Len(w2) \in Nat
      BY <2>1, <2>2, RdFields DEF Sound, Names
    <2> QED BY <1>3, <1>5, <2>2, <2>3
  <1> QED BY <1>4, <1>5

(* From one place of the line to a later one. *)
LEMMA ReadLater ==
  ASSUME LineFits, NEW j \in 0..Len(line), NEW k \in j..Len(line)
  PROVE  /\ Read[j].nth \in Nat /\ Read[k].nth \in Nat /\ Read[j].nth <= Read[k].nth
         /\ (\A x \in (j + 1)..k : line[x] # "|") =>
              /\ Read[k].nth = Read[j].nth /\ Len(Read[j].words) <= Len(Read[k].words)
  <1> DEFINE T(x) == Read[x].nth \in Nat /\ Len(Read[x].words) \in Nat
             C(x) == \A y \in (j + 1)..x : line[y] # "|"
             P(x) == /\ T(x) /\ Read[j].nth <= Read[x].nth
                     /\ C(x) => /\ Read[x].nth = Read[j].nth
                                /\ Len(Read[j].words) <= Len(Read[x].words)
             G == {x \in j..Len(line) : P(x)}
  <1>1. Len(line) \in Nat /\ j \in Nat /\ k \in Nat /\ k \in j..Len(line)
    BY LineFacts
  <1>2. ASSUME NEW x \in 0..Len(line) PROVE T(x)
    <2>1. PICK n, m, w, a, b : Read[x] = Rd(n, m, w, a, b) /\ Sound(n, m, w, a, b)
      BY <1>2, ReadSound
    <2> QED BY <2>1, RdFields DEF Sound, Names
  <1>3. j \in G
    <2>1. T(j) /\ j \in j..Len(line)
      BY <1>1, <1>2
    <2> HIDE DEF C
    <2> QED BY <2>1
  <1>4. ASSUME NEW x \in j..(Len(line) - 1), x \in G PROVE x + 1 \in G
    <2>1. P(x) /\ T(j) /\ x \in 0..(Len(line) - 1) /\ x + 1 \in j..Len(line)
      BY <1>1, <1>2, <1>4
    <2>2. /\ T(x) /\ T(x + 1)
          /\ line[x + 1] = "|" => Read[x + 1].nth = Read[x].nth + 1
          /\ line[x + 1] # "|" => /\ Read[x + 1].nth = Read[x].nth
                                  /\ Len(Read[x + 1].words) >= Len(Read[x].words)
      BY <2>1, ReadGrows
    <2>3. C(x + 1) => C(x) /\ line[x + 1] # "|"
      BY <1>1, <2>1
    <2> HIDE DEF C
    <2>4. Read[j].nth <= Read[x + 1].nth
      BY <2>1, <2>2
    <2>5. ASSUME C(x + 1) PROVE Read[x + 1].nth = Read[j].nth /\ Len(Read[j].words) <= Len(Read[x + 1].words)
      <3>1. /\ Read[x].nth = Read[j].nth /\ Len(Read[j].words) <= Len(Read[x].words)
            /\ Read[x + 1].nth = Read[x].nth /\ Len(Read[x + 1].words) >= Len(Read[x].words)
        BY <2>1, <2>2, <2>3, <2>5
      <3>2. /\ Len(Read[j].words) \in Nat /\ Len(Read[x].words) \in Nat
            /\ Len(Read[x + 1].words) \in Nat
        BY <2>1, <2>2
      <3>3. Len(Read[j].words) <= Len(Read[x + 1].words)
        <4> DEFINE u == Len(Read[j].words)
                   v == Len(Read[x].words)
                   z == Len(Read[x + 1].words)
        <4>1. u \in Nat /\ v \in Nat /\ z \in Nat /\ u <= v /\ v <= z
          BY <3>1, <3>2
        <4> HIDE DEF u, v, z
        <4>2. u <= z
          BY <4>1
        <4> QED BY <4>2 DEF u, v, z
      <3> QED BY <3>1, <3>3
    <2> QED BY <2>1, <2>2, <2>4, <2>5
  <1> HIDE DEF G
  <1>5. \A x \in j..Len(line) : x \in G
    BY <1>1, <1>3, <1>4, RangeInduction
  <1>6. P(k)
    BY <1>1, <1>5 DEF G
  <1> QED BY <1>2, <1>6

(* A search stops at the first character that it looks for. *)
LEMMA FindFirst ==
  ASSUME NEW b, b[NBUF - 1] = NUL, NEW k \in 0..(NBUF - 1), NEW S, NUL \in S
  PROVE  /\ \A j \in k..(Find(b, k, S) - 1) : b[j] \notin S
         /\ \A j \in k..(NBUF - 1) : b[j] \in S => Find(b, k, S) <= j
  <1> DEFINE T == {j \in k..(NBUF - 1) : b[j] \in S}
             q == Find(b, k, S)
  <1>1. NBUF - 1 \in T /\ T \in SUBSET Nat
    BY LineAssumption
  <1>2. Min(T) \in T /\ \A j \in T : Min(T) <= j
    BY <1>1, MinFacts
  <1>3. q = Min(T)
    BY DEF Find
  <1>4. q \in k..(NBUF - 1) /\ \A j \in k..(NBUF - 1) : b[j] \in S => q <= j
    BY <1>2, <1>3
  <1> HIDE DEF T, q
  <1>5. ASSUME NEW j \in k..(q - 1) PROVE b[j] \notin S
    <2>1. j \in k..(NBUF - 1) /\ ~(q <= j)
      BY <1>4, LineAssumption
    <2> QED BY <1>4, <2>1
  <1> QED BY <1>4, <1>5 DEF q

(* Where a command ends: at the end of the line or before a bar. *)
LEMMA CommandEnds ==
  ASSUME LineFits, NEW c \in 0..Len(line), NEW e \in c..Len(line), Read[c].nth = nth,
         \A x \in (c + 1)..e : line[x] # "|",
         e = Len(line) \/ line[e + 1] = "|"
  PROVE  CommandEnd = e
  <1> DEFINE S == {k \in 0..Len(line) : Read[k].nth = nth}
  <1>1. Len(line) \in Nat /\ e \in 0..Len(line) /\ S \in SUBSET Nat
    BY LineFacts
  <1>2. e \in S
    <2>1. Read[e].nth = nth
      BY ReadLater
    <2> QED BY <1>1, <2>1
  <1>3. ASSUME NEW k \in S PROVE k <= e
    <2>1. k \in 0..Len(line) /\ Read[k].nth = nth
      OBVIOUS
    <2>2. SUFFICES ASSUME ~(k <= e) PROVE FALSE
      OBVIOUS
    <2>3. e \in 0..(Len(line) - 1) /\ k \in (e + 1)..Len(line) /\ e + 1 \in 0..Len(line)
      BY <1>1, <2>1, <2>2
    <2>4. line[e + 1] = "|"
      BY <1>1, <2>3
    <2>5. Read[e + 1].nth = nth + 1 /\ nth \in Nat
      BY <1>2, <2>3, <2>4, ReadGrows
    <2>6. Read[e + 1].nth <= Read[k].nth
      BY <2>3, ReadLater
    <2> QED BY <2>1, <2>5, <2>6
  <1> HIDE DEF S
  <1>4. Max(S) = e
    BY <1>1, <1>2, <1>3, MaxIs
  <1> QED BY <1>4 DEF S, CommandEnd

(* The characters p + 1, ..., q of the line are all in S. *)
Run(p, q, S) == \A x \in p..(q - 1) : line[x + 1] \in S

(* The characters of a word, and those of a name. *)
WordChar == Char \ (Blank \cup {"<", ">", "|"})
NameChar == Char \ (Blank \cup {"|"})
Spaces   == {SP}

(* The name of a file before its first character. *)
Unnamed == << <<>> >>

(* Blanks end a word or a name. *)
LEMMA ReadBlanks ==
  ASSUME LineFits, NEW p \in 0..Len(line), NEW q \in (p + 1)..Len(line),
         NEW n, NEW m, NEW w, NEW a, NEW b, Read[p] = Rd(n, m, w, a, b),
         Run(p, q, Blank),
         m \notin {"<", ">"} \/ line[p + 1] # SP
  PROVE  Read[q] = Rd(n, "gap", w, a, b)
  <1> DEFINE G == {k \in (p + 1)..q : Read[k] = Rd(n, "gap", w, a, b)}
  <1>1. Len(line) \in Nat /\ p \in Nat /\ q \in Nat /\ p + 1 \in Nat
    BY LineFacts
  <1>2. ASSUME NEW x \in p..(q - 1) PROVE x \in 0..(Len(line) - 1) /\ line[x + 1] # "|"
    BY <1>1 DEF Run, Blank, SP, NL
  <1>3. p + 1 \in G
    <2>1. p \in p..(q - 1) /\ p + 1 \in (p + 1)..q
      BY <1>1
    <2>2. line[p + 1] \in Blank
      BY <2>1 DEF Run
    <2>3. Read[p + 1] = Lex(Rd(n, m, w, a, b), line[p + 1])
      BY <1>2, <2>1, ReadNext
    <2>4. Lex(Rd(n, m, w, a, b), line[p + 1]) = Rd(n, "gap", w, a, b)
      BY <2>2 DEF Lex, Rd
    <2> QED BY <2>1, <2>3, <2>4
  <1>4. ASSUME NEW k \in (p + 1)..(q - 1), k \in G PROVE k + 1 \in G
    <2>1. k \in p..(q - 1) /\ k + 1 \in (p + 1)..q
      BY <1>1
    <2>2. line[k + 1] \in Blank
      BY <2>1 DEF Run
    <2>3. Read[k + 1] = Lex(Rd(n, "gap", w, a, b), line[k + 1])
      BY <1>2, <1>4, <2>1, ReadNext
    <2>4. Lex(Rd(n, "gap", w, a, b), line[k + 1]) = Rd(n, "gap", w, a, b)
      BY <2>2 DEF Lex, Rd
    <2> QED BY <2>1, <2>3, <2>4
  <1> HIDE DEF G
  <1>5. \A k \in (p + 1)..q : k \in G
    BY <1>1, <1>3, <1>4, RangeInduction
  <1>6. q \in G
    BY <1>1, <1>5
  <1> QED BY <1>6 DEF G

(* Spaces after an arrow are skipped. *)
LEMMA ReadSpaces ==
  ASSUME LineFits, NEW p \in 0..Len(line), NEW q \in p..Len(line),
         NEW n, NEW m \in {"<", ">"}, NEW w, NEW a, NEW b, Read[p] = Rd(n, m, w, a, b),
         Run(p, q, Spaces)
  PROVE  Read[q] = Rd(n, m, w, a, b)
  <1> DEFINE G == {k \in p..q : Read[k] = Rd(n, m, w, a, b)}
  <1>1. Len(line) \in Nat /\ p \in Nat /\ q \in Nat /\ p \in p..q
    BY LineFacts
  <1>2. ASSUME NEW k \in p..(q - 1), k \in G PROVE k + 1 \in G
    <2>1. k \in 0..(Len(line) - 1) /\ k + 1 \in p..q
      BY <1>1
    <2>2. line[k + 1] = SP /\ SP # "|"
      BY DEF Run, Spaces, SP
    <2>3. Read[k + 1] = Lex(Rd(n, m, w, a, b), SP)
      BY <1>2, <2>1, <2>2, ReadNext
    <2>4. Lex(Rd(n, m, w, a, b), SP) = Rd(n, m, w, a, b)
      BY DEF Lex, Rd
    <2> QED BY <2>1, <2>3, <2>4
  <1>3. p \in G
    BY <1>1
  <1> HIDE DEF G
  <1>4. q \in G
    <2>1. \A k \in p..q : k \in G
      BY <1>1, <1>2, <1>3, RangeInduction
    <2> QED BY <1>1, <2>1
  <1> QED BY <1>4 DEF G

(* The characters p + 1, ..., q of the line. *)
Span(u, p, q) == u \in Seq(Char) /\ Len(u) = q - p /\ \A j \in 1..Len(u) : u[j] = line[p + j]

LEMMA SpanGrows ==
  ASSUME LineFits, NEW p \in 0..Len(line), NEW k \in p..(Len(line) - 1), NEW u, Span(u, p, k)
  PROVE  Span(Append(u, line[k + 1]), p, k + 1)
  <1>1. Len(line) \in Nat /\ p \in Nat /\ k \in Nat /\ k \in 0..(Len(line) - 1)
    BY LineFacts
  <1>2. line[k + 1] \in Char /\ u \in Seq(Char) /\ Len(u) = k - p
    BY <1>1, LineFacts DEF Span
  <1> DEFINE v == Append(u, line[k + 1])
  <1>3. v \in Seq(Char) /\ Len(v) = Len(u) + 1 /\ v[Len(u) + 1] = line[k + 1]
        /\ \A j \in 1..Len(u) : v[j] = u[j]
    BY <1>2
  <1> HIDE DEF v
  <1>4. ASSUME NEW j \in 1..Len(v) PROVE v[j] = line[p + j]
    <2>1. CASE j \in 1..Len(u)
      BY <1>3, <2>1 DEF Span
    <2>2. CASE j = Len(u) + 1
      <3>1. p + j = k + 1
        BY <1>1, <1>2, <2>2
      <3> QED BY <1>3, <2>2, <3>1
    <2>3. j \in 1..Len(u) \/ j = Len(u) + 1
      BY <1>1, <1>2, <1>3
    <2> QED BY <2>1, <2>2, <2>3
  <1>5. Len(v) = (k + 1) - p
    BY <1>1, <1>2, <1>3
  <1>6. Span(v, p, k + 1)
    BY <1>3, <1>4, <1>5 DEF Span
  <1> QED BY <1>6 DEF v

(* A word from its first character on. *)
LEMMA ReadWord ==
  ASSUME LineFits, NEW p \in 0..Len(line), NEW q \in (p + 1)..Len(line),
         NEW n, NEW w \in Names, NEW a, NEW b, Read[p] = Rd(n, "gap", w, a, b),
         Run(p, q, WordChar)
  PROVE  \E u : Span(u, p, q) /\ Read[q] = Rd(n, "word", Append(w, u), a, b)
  <1> DEFINE P(k) == \E u : Span(u, p, k) /\ Read[k] = Rd(n, "word", Append(w, u), a, b)
             G == {k \in (p + 1)..q : P(k)}
  <1>1. Len(line) \in Nat /\ p \in Nat /\ q \in Nat /\ p + 1 \in Nat
    BY LineFacts
  <1>2. ASSUME NEW x \in p..(q - 1)
        PROVE  /\ x \in 0..(Len(line) - 1) /\ line[x + 1] # "|"
               /\ line[x + 1] \in Char /\ line[x + 1] \notin Blank \cup {"<", ">"}
    BY <1>1 DEF Run, WordChar
  <1>3. p + 1 \in G
    <2>1. p \in p..(q - 1) /\ p + 1 \in (p + 1)..q
      BY <1>1
    <2> DEFINE c == line[p + 1]
    <2>2. Read[p + 1] = Lex(Rd(n, "gap", w, a, b), c)
      BY <1>2, <2>1, ReadNext
    <2>3. c \in Char /\ c \notin Blank \cup {"<", ">"}
      BY <1>2, <2>1
    <2>4. Span(<<c>>, p, p + 1)
      BY <1>1, <2>3 DEF Span
    <2> HIDE DEF c
    <2>5. Lex(Rd(n, "gap", w, a, b), c) = Rd(n, "word", Append(w, <<c>>), a, b)
      BY <2>3, LexStart
    <2>6. P(p + 1)
      BY <2>2, <2>4, <2>5
    <2> QED BY <2>1, <2>6
  <1>4. ASSUME NEW k \in (p + 1)..(q - 1), k \in G PROVE k + 1 \in G
    <2>1. k \in p..(q - 1) /\ k + 1 \in (p + 1)..q /\ k \in p..(Len(line) - 1)
      BY <1>1
    <2>2. PICK u : Span(u, p, k) /\ Read[k] = Rd(n, "word", Append(w, u), a, b)
      BY <1>4
    <2> DEFINE c == line[k + 1]
    <2>3. Read[k + 1] = Lex(Rd(n, "word", Append(w, u), a, b), c)
      BY <1>2, <2>1, <2>2, ReadNext
    <2>4. c \in Char /\ c \notin Blank \cup {"<", ">"}
      BY <1>2, <2>1
    <2>5. Span(Append(u, c), p, k + 1)
      BY <2>1, <2>2, SpanGrows
    <2> HIDE DEF c
    <2>6. Lex(Rd(n, "word", Append(w, u), a, b), c)
            = Rd(n, "word", Longer(Append(w, u), c), a, b)
      BY <2>4, LexMore
    <2>7. Longer(Append(w, u), c) = Append(w, Append(u, c))
      BY <2>2, <2>4, LongerLast DEF Span
    <2>8. P(k + 1)
      BY <2>3, <2>5, <2>6, <2>7
    <2> QED BY <2>1, <2>8
  <1> HIDE DEF G
  <1>5. \A k \in (p + 1)..q : k \in G
    BY <1>1, <1>3, <1>4, RangeInduction
  <1>6. q \in G
    BY <1>1, <1>5
  <1> QED BY <1>6 DEF G

(* The only name goes on. *)
LEMMA LongerOne ==
  ASSUME NEW u \in Seq(Char), NEW c \in Char
  PROVE  Longer(<<u>>, c) = <<Append(u, c)>>
  <1>1. <<>> \in Names
    BY DEF Names
  <1>2. Append(u, c) \in Seq(Char)
    OBVIOUS
  <1>3. Append(<<>>, u) = <<u>> /\ Append(<<>>, Append(u, c)) = <<Append(u, c)>>
    BY <1>2
  <1> QED BY <1>1, <1>3, LongerLast

(* In mode m, after the name u of a file was read between p and q. *)
InName(n, w, b, p, q, u, m) ==
  /\ Span(u, p, q) /\ Read[q] = Rd(n, m, w, <<u>>, b)
  /\ m \in {"<", "infile"} /\ (m = "<" => q = p)

(* The name of a file, empty when nothing follows the arrow. *)
LEMMA ReadIn ==
  ASSUME LineFits, NEW p \in 0..Len(line), NEW q \in p..Len(line),
         NEW n, NEW w, NEW b, Read[p] = Rd(n, "<", w, Unnamed, b),
         Run(p, q, NameChar)
  PROVE  \E u, m : InName(n, w, b, p, q, u, m)
  <1> DEFINE P(k) == \E u, m : InName(n, w, b, p, k, u, m)
             G == {k \in p..q : P(k)}
  <1>1. Len(line) \in Nat /\ p \in Nat /\ q \in Nat /\ p \in p..q
    BY LineFacts
  <1>2. ASSUME NEW x \in p..(q - 1)
        PROVE  /\ x \in 0..(Len(line) - 1) /\ line[x + 1] # "|"
               /\ line[x + 1] \in Char /\ line[x + 1] \notin Blank
    BY <1>1 DEF Run, NameChar
  <1>3. p \in G
    <2>1. Span(<<>>, p, p)
      BY <1>1 DEF Span
    <2>2. P(p)
      BY <2>1 DEF Unnamed, InName
    <2> QED BY <1>1, <2>2
  <1>4. ASSUME NEW k \in p..(q - 1), k \in G PROVE k + 1 \in G
    <2>1. k + 1 \in p..q /\ k \in p..(Len(line) - 1)
      BY <1>1
    <2>2. PICK u, m : InName(n, w, b, p, k, u, m)
      BY <1>4
    <2>3. Span(u, p, k) /\ Read[k] = Rd(n, m, w, <<u>>, b) /\ m \in {"<", "infile"}
      BY <2>2 DEF InName
    <2> DEFINE c == line[k + 1]
    <2>4. Read[k + 1] = Lex(Rd(n, m, w, <<u>>, b), c)
      BY <1>2, <2>1, <2>3, ReadNext
    <2>5. c \in Char /\ c \notin Blank
      BY <1>2
    <2>6. Span(Append(u, c), p, k + 1)
      BY <2>1, <2>3, SpanGrows
    <2> HIDE DEF c
    <2>7. Lex(Rd(n, m, w, <<u>>, b), c) = Rd(n, "infile", w, Longer(<<u>>, c), b)
      BY <2>3, <2>5, LexIn
    <2>8. Longer(<<u>>, c) = <<Append(u, c)>>
      BY <2>3, <2>5, LongerOne DEF Span
    <2>9. Read[k + 1] = Rd(n, "infile", w, <<Append(u, c)>>, b)
      BY <2>4, <2>7, <2>8
    <2>10. "infile" \in {"<", "infile"} /\ "infile" # "<"
      OBVIOUS
    <2>11. InName(n, w, b, p, k + 1, Append(u, c), "infile")
      BY <2>6, <2>9, <2>10 DEF InName
    <2>12. P(k + 1)
      BY <2>11
    <2> QED BY <2>1, <2>12
  <1> HIDE DEF G
  <1>5. \A k \in p..q : k \in G
    BY <1>1, <1>3, <1>4, RangeInduction
  <1>6. q \in G
    BY <1>1, <1>5
  <1> QED BY <1>6 DEF G

(* In mode m, after the name u of a file was read between p and q. *)
OutName(n, w, a, p, q, u, m) ==
  /\ Span(u, p, q) /\ Read[q] = Rd(n, m, w, a, <<u>>)
  /\ m \in {">", "outfile"} /\ (m = ">" => q = p)

LEMMA ReadOut ==
  ASSUME LineFits, NEW p \in 0..Len(line), NEW q \in p..Len(line),
         NEW n, NEW w, NEW a, Read[p] = Rd(n, ">", w, a, Unnamed),
         Run(p, q, NameChar)
  PROVE  \E u, m : OutName(n, w, a, p, q, u, m)
  <1> DEFINE P(k) == \E u, m : OutName(n, w, a, p, k, u, m)
             G == {k \in p..q : P(k)}
  <1>1. Len(line) \in Nat /\ p \in Nat /\ q \in Nat /\ p \in p..q
    BY LineFacts
  <1>2. ASSUME NEW x \in p..(q - 1)
        PROVE  /\ x \in 0..(Len(line) - 1) /\ line[x + 1] # "|"
               /\ line[x + 1] \in Char /\ line[x + 1] \notin Blank
    BY <1>1 DEF Run, NameChar
  <1>3. p \in G
    <2>1. Span(<<>>, p, p)
      BY <1>1 DEF Span
    <2>2. P(p)
      BY <2>1 DEF Unnamed, OutName
    <2> QED BY <1>1, <2>2
  <1>4. ASSUME NEW k \in p..(q - 1), k \in G PROVE k + 1 \in G
    <2>1. k + 1 \in p..q /\ k \in p..(Len(line) - 1)
      BY <1>1
    <2>2. PICK u, m : OutName(n, w, a, p, k, u, m)
      BY <1>4
    <2>3. Span(u, p, k) /\ Read[k] = Rd(n, m, w, a, <<u>>) /\ m \in {">", "outfile"}
      BY <2>2 DEF OutName
    <2> DEFINE c == line[k + 1]
    <2>4. Read[k + 1] = Lex(Rd(n, m, w, a, <<u>>), c)
      BY <1>2, <2>1, <2>3, ReadNext
    <2>5. c \in Char /\ c \notin Blank
      BY <1>2
    <2>6. Span(Append(u, c), p, k + 1)
      BY <2>1, <2>3, SpanGrows
    <2> HIDE DEF c
    <2>7. Lex(Rd(n, m, w, a, <<u>>), c) = Rd(n, "outfile", w, a, Longer(<<u>>, c))
      BY <2>3, <2>5 DEF Lex, Rd, Blank, SP, NL
    <2>8. Longer(<<u>>, c) = <<Append(u, c)>>
      BY <2>3, <2>5, LongerOne DEF Span
    <2>9. Read[k + 1] = Rd(n, "outfile", w, a, <<Append(u, c)>>)
      BY <2>4, <2>7, <2>8
    <2>10. "outfile" \in {">", "outfile"} /\ "outfile" # ">"
      OBVIOUS
    <2>11. OutName(n, w, a, p, k + 1, Append(u, c), "outfile")
      BY <2>6, <2>9, <2>10 DEF OutName
    <2>12. P(k + 1)
      BY <2>11
    <2> QED BY <2>1, <2>12
  <1> HIDE DEF G
  <1>5. \A k \in p..q : k \in G
    BY <1>1, <1>3, <1>4, RangeInduction
  <1>6. q \in G
    BY <1>1, <1>5
  <1> QED BY <1>6 DEF G

-----------------------------------------------------------------------------
(* What parseline() leaves in the buffer. *)

(* No character that is typed is a NUL. *)
LEMMA NulNotChar == NUL \notin Char /\ NL \in Char /\ SP \in Char /\ CR \in Char
  <1>1. NUL \notin Letters
    BY CharAssumption
  <1>2. NUL \notin Blank \cup {CR, "<", ">", "|"}
    BY DEF NUL, SP, NL, CR, Blank
  <1> QED BY <1>1, <1>2 DEF Char, Blank

(* parseline() goes on from p to q and writes nothing before p; what is at p *)
(* becomes a NUL unless nothing ends there.                                  *)
Goes(b, b2, p, q, m) ==
  /\ p \in Nat /\ q \in Nat /\ p <= q
  /\ \A j \in 0..(p - 1) : b2[j] = b[j]
  /\ b2[p] = NUL \/ (m = "gap" /\ b2[p] = b[p])

LEMMA KeptOn ==
  ASSUME NEW b, NEW b2, NEW p, NEW q, NEW a, NEW w, NEW m, NEW m2,
         Goes(b, b2, p, q, m), Kept(b, p, a, w, m)
  PROVE  Kept(b2, q, a, w, m2)
  <1>1. /\ p \in Nat /\ q \in Nat /\ p <= q /\ a \in Nat /\ w \in Seq(Char)
        /\ Len(w) \in Nat /\ a + Len(w) <= p
    BY DEF Goes, Kept
  <1>2. a + Len(w) \in 0..p /\ a + Len(w) <= q
    BY <1>1
  <1>3. ASSUME NEW j \in 1..Len(w) PROVE b2[a + j - 1] = w[j]
    <2>1. a + j - 1 \in 0..(p - 1)
      BY <1>1
    <2>2. b2[a + j - 1] = b[a + j - 1]
      BY <2>1 DEF Goes
    <2> QED BY <2>2 DEF Kept
  <1>4. b2[a + Len(w)] = NUL
    <2>1. CASE a + Len(w) = p
      <3>1. b[p] = NUL \/ m # "gap"
        BY <2>1 DEF Kept
      <3>2. b2[p] = NUL
        BY <3>1 DEF Goes
      <3> QED BY <2>1, <3>2
    <2>2. CASE a + Len(w) # p
      <3>1. a + Len(w) \in 0..(p - 1)
        BY <1>1, <1>2, <2>2
      <3>2. b[a + Len(w)] = NUL
        BY <2>2 DEF Kept
      <3> QED BY <3>1, <3>2 DEF Goes
    <2> QED BY <2>1, <2>2
  <1> QED BY <1>1, <1>2, <1>3, <1>4 DEF Kept

LEMMA KeptAllOn ==
  ASSUME NEW b, NEW b2, NEW p, NEW q, NEW av, NEW ws, NEW m, NEW m2,
         Goes(b, b2, p, q, m), KeptAll(b, p, av, ws, m)
  PROVE  KeptAll(b2, q, av, ws, m2)
BY KeptOn DEF KeptAll

LEMMA KeptFileOn ==
  ASSUME NEW b, NEW b2, NEW p, NEW q, NEW f, NEW fs, NEW m, NEW m2,
         Goes(b, b2, p, q, m), KeptFile(b, p, f, fs, m)
  PROVE  KeptFile(b2, q, f, fs, m2)
BY KeptOn DEF KeptFile

(* A word that was found between p and q. *)
LEMMA KeptNew ==
  ASSUME NEW b, NEW p \in Nat, NEW q \in Nat, p <= q, NEW u, Span(u, p, q),
         \A k \in p..(q - 1) : b[k] = line[k + 1],
         NEW m, m # "gap"
  PROVE  Kept(b, q, p, u, m)
  <1>1. u \in Seq(Char) /\ Len(u) = q - p /\ Len(u) \in Nat /\ p + Len(u) = q
    BY DEF Span
  <1>2. ASSUME NEW j \in 1..Len(u) PROVE b[p + j - 1] = u[j]
    <2>1. p + j - 1 \in p..(q - 1) /\ (p + j - 1) + 1 = p + j
      BY <1>1
    <2>2. b[p + j - 1] = line[p + j]
      BY <2>1
    <2> QED BY <2>2 DEF Span
  <1> QED BY <1>1, <1>2 DEF Kept

(* The places of a command. *)
LEMMA RestFacts ==
  ASSUME LineFits, NEW p \in Nat, Rest(p)
  PROVE  /\ CommandEnd \in Nat /\ CommandEnd \in p..Len(line) /\ CommandEnd \in p..(NBUF - 1)
         /\ p \in 0..Len(line) /\ p \in 0..(NBUF - 1)
         /\ buf[CommandEnd] = NUL
         /\ \A k \in p..(CommandEnd - 1) :
              buf[k] = line[k + 1] /\ buf[k] \in Char \ {"|"} /\ buf[k] # NUL
         /\ buf[p] = NUL => p = CommandEnd
  <1>1. /\ p <= CommandEnd /\ CommandEnd \in 0..Len(line) /\ buf[CommandEnd] = NUL
        /\ Len(line) \in Nat /\ NBUF \in Nat /\ Len(line) <= NBUF - 1
    BY LineFacts DEF Rest
  <1>2. /\ CommandEnd \in Nat /\ CommandEnd \in p..Len(line) /\ CommandEnd \in p..(NBUF - 1)
        /\ p \in 0..Len(line) /\ p \in 0..(NBUF - 1)
    BY <1>1
  <1>3. ASSUME NEW k \in p..(CommandEnd - 1)
        PROVE  buf[k] = line[k + 1] /\ buf[k] \in Char \ {"|"} /\ buf[k] # NUL
    <2>1. buf[k] = line[k + 1]
      BY DEF Rest, Text
    <2>2. k + 1 \in (p + 1)..CommandEnd /\ k \in 0..(Len(line) - 1)
      BY <1>2, LineFacts
    <2>3. line[k + 1] # "|" /\ line[k + 1] \in Char
      BY <2>2, LineFacts DEF Rest
    <2> QED BY <2>1, <2>3, NulNotChar
  <1>4. buf[p] = NUL => p = CommandEnd
    <2>1. p # CommandEnd => p \in p..(CommandEnd - 1)
      BY <1>2
    <2> QED BY <1>3, <2>1
  <1> QED BY <1>1, <1>2, <1>3, <1>4

(* A search from a place of the command ends in it. *)
LEMMA Search ==
  ASSUME LineInv, LineFits, NEW p \in Nat, Rest(p), NEW S, NUL \in S
  PROVE  /\ Find(buf, p, S) \in p..CommandEnd /\ Find(buf, p, S) \in Nat
         /\ buf[Find(buf, p, S)] \in S
         /\ Run(p, Find(buf, p, S), Char \ (S \cup {"|"}))
         /\ Rest(Find(buf, p, S))
  <1> DEFINE q == Find(buf, p, S)
  <1>1. /\ CommandEnd \in Nat /\ CommandEnd \in p..(NBUF - 1) /\ p \in 0..(NBUF - 1)
        /\ buf[CommandEnd] = NUL
    BY RestFacts
  <1>2. buf[NBUF - 1] = NUL
    BY DEF LineInv
  <1>3. q \in p..(NBUF - 1) /\ buf[q] \in S /\ q <= CommandEnd
        /\ \A j \in p..(q - 1) : buf[j] \notin S
    <2>1. q \in p..(NBUF - 1) /\ buf[q] \in S
      BY <1>1, <1>2, FindFacts
    <2>2. \A j \in p..(NBUF - 1) : buf[j] \in S => q <= j
      BY <1>1, <1>2, FindFirst
    <2>3. \A j \in p..(q - 1) : buf[j] \notin S
      BY <1>1, <1>2, FindFirst
    <2>4. q <= CommandEnd
      BY <1>1, <2>2
    <2> QED BY <2>1, <2>3, <2>4
  <1> HIDE DEF q
  <1>4. q \in p..CommandEnd /\ q \in Nat
    BY <1>1, <1>3
  <1>5. ASSUME NEW x \in p..(q - 1) PROVE line[x + 1] \in Char \ (S \cup {"|"})
    <2>1. x \in p..(CommandEnd - 1)
      BY <1>1, <1>4
    <2>2. buf[x] = line[x + 1] /\ buf[x] \in Char \ {"|"}
      BY <2>1, RestFacts
    <2> QED BY <1>3, <2>2
  <1>6. Run(p, q, Char \ (S \cup {"|"}))
    BY <1>5 DEF Run
  <1>7. Rest(q)
    <2>1. ASSUME NEW k \in q..(CommandEnd - 1) PROVE buf[k] = line[k + 1]
      <3>1. k \in p..(CommandEnd - 1)
        BY <1>1, <1>4
      <3> QED BY <3>1, RestFacts
    <2>2. ASSUME NEW j \in (q + 1)..CommandEnd PROVE line[j] # "|"
      <3>1. j \in (p + 1)..CommandEnd
        BY <1>1, <1>4
      <3> QED BY <3>1 DEF Rest
    <2>3. CommandEnd \in 0..Len(line) /\ q <= CommandEnd
      BY <1>3 DEF Rest
    <2> QED BY <1>1, <2>1, <2>2, <2>3 DEF Rest, Text
  <1> QED BY <1>3, <1>4, <1>6, <1>7 DEF q

LEMMA RunIn ==
  ASSUME NEW p, NEW q, NEW S, NEW T, Run(p, q, S), S \subseteq T
  PROVE  Run(p, q, T)
BY DEF Run

(* A later place of the command, when nothing was written after it. *)
LEMMA RestOn ==
  ASSUME LineFits, line' = line, nth' = nth, NEW q \in Nat, Rest(q), i' = q,
         \A k \in q..(NBUF - 1) : buf'[k] = buf[k]
  PROVE  Rest(i)'
  <1>1. CommandEnd' = CommandEnd
    BY ReadStays
  <1>2. CommandEnd \in Nat /\ CommandEnd \in q..(NBUF - 1) /\ NBUF \in Nat
    BY RestFacts, LineFacts
  <1>3. buf'[CommandEnd] = NUL
    BY <1>2, RestFacts
  <1>4. ASSUME NEW k \in q..(CommandEnd - 1) PROVE buf'[k] = line[k + 1]
    <2>1. k \in q..(NBUF - 1)
      BY <1>2
    <2>2. buf[k] = line[k + 1]
      BY DEF Rest, Text
    <2> QED BY <2>1, <2>2
  <1>5. q <= CommandEnd /\ CommandEnd \in 0..Len(line) /\ \A j \in (q + 1)..CommandEnd : line[j] # "|"
    BY DEF Rest
  <1> QED BY <1>1, <1>3, <1>4, <1>5 DEF Rest, Text

-----------------------------------------------------------------------------
(* The steps of parseline(). *)

(* Where parseline() is. *)
LEMMA InParse ==
  ASSUME LineInv, GetsInv, ParseInv, pc = "parseline"
  PROVE  /\ LineFits /\ i \in Nat /\ Rest(i)
         /\ \E n, m, w, a, b :
              /\ Read[i] = Rd(n, m, w, a, b) /\ Sound(n, m, w, a, b) /\ AtBreak(buf[i], m)
              /\ KeptAll(buf, i, argv, w, m)
              /\ KeptFile(buf, i, infile, a, m) /\ KeptFile(buf, i, outfile, b, m)
  <1>1. LineFits /\ i \in Nat /\ Rest(i) /\ Parsed(Read[i])
    BY LineAssumption DEF LineInv, GetsInv, LineFits, ParseInv
  <1>2. i \in 0..Len(line)
    BY <1>1, RestFacts
  <1>3. PICK n, m, w, a, b : Read[i] = Rd(n, m, w, a, b) /\ Sound(n, m, w, a, b)
    BY <1>1, <1>2, ReadSound
  <1>4. /\ Read[i].mode = m /\ Read[i].words = w
        /\ Read[i].infile = a /\ Read[i].outfile = b
    BY <1>3, RdFields
  <1>5. /\ AtBreak(buf[i], m) /\ KeptAll(buf, i, argv, w, m)
        /\ KeptFile(buf, i, infile, a, m) /\ KeptFile(buf, i, outfile, b, m)
    BY <1>1, <1>4 DEF Parsed
  <1> QED BY <1>1, <1>3, <1>5

(* parseline() goes on. *)
LEMMA ParseOn ==
  ASSUME GetsInv, line' = line, nth' = nth, pc' = "parseline", Rest(i)',
         NEW n, NEW m, NEW w, NEW a, NEW b, Read[i'] = Rd(n, m, w, a, b),
         AtBreak(buf'[i'], m), KeptAll(buf', i', argv', w, m),
         KeptFile(buf', i', infile', a, m), KeptFile(buf', i', outfile', b, m)
  PROVE  GetsInv' /\ ParseInv'
  <1>1. Read' = Read
    BY ReadStays
  <1>2. /\ Read[i'].mode = m /\ Read[i'].words = w
        /\ Read[i'].infile = a /\ Read[i'].outfile = b
    BY RdFields
  <1>3. Parsed(Read[i])'
    BY <1>1, <1>2 DEF Parsed
  <1>4. ParseInv'
    BY <1>3 DEF ParseInv
  <1>5. GetsInv'
    BY DEF GetsInv
  <1> QED BY <1>4, <1>5

(* There is a character at i that is not a NUL. *)
LEMMA AtChar ==
  ASSUME LineFits, NEW p \in Nat, Rest(p), buf[p] # NUL
  PROVE  /\ p \in 0..(Len(line) - 1) /\ p \in 0..(CommandEnd - 1)
         /\ buf[p] = line[p + 1] /\ line[p + 1] # "|" /\ line[p + 1] \in Char
         /\ p + 1 \in Nat /\ Rest(p + 1)
  <1>1. CommandEnd \in Nat /\ CommandEnd \in p..Len(line) /\ buf[CommandEnd] = NUL /\ Len(line) \in Nat
    BY RestFacts, LineFacts
  <1>2. p # CommandEnd
    BY <1>1
  <1>3. /\ p \in 0..(Len(line) - 1) /\ p \in p..(CommandEnd - 1) /\ p \in 0..(CommandEnd - 1)
        /\ p + 1 \in Nat /\ p + 1 <= CommandEnd
    BY <1>1, <1>2
  <1>4. buf[p] = line[p + 1] /\ buf[p] \in Char \ {"|"}
    BY <1>3, RestFacts
  <1>5. Rest(p + 1)
    <2>1. ASSUME NEW k \in (p + 1)..(CommandEnd - 1) PROVE buf[k] = line[k + 1]
      <3>1. k \in p..(CommandEnd - 1)
        BY <1>1
      <3> QED BY <3>1, RestFacts
    <2>2. ASSUME NEW j \in ((p + 1) + 1)..CommandEnd PROVE line[j] # "|"
      <3>1. j \in (p + 1)..CommandEnd
        BY <1>1
      <3> QED BY <3>1 DEF Rest
    <2>3. CommandEnd \in 0..Len(line)
      BY DEF Rest
    <2> QED BY <1>1, <1>3, <2>1, <2>2, <2>3 DEF Rest, Text
  <1> QED BY <1>3, <1>4, <1>5

(* Blanks become NULs. *)
LEMMA BlankStep ==
  ASSUME LineInv, GetsInv, ParseInv, parseline_blank
  PROVE  GetsInv' /\ ParseInv'
  <1> DEFINE S == (Char \cup {NUL}) \ Blank
             q == Find(buf, i, S)
  <1>1. /\ pc = "parseline" /\ buf[i] \in Blank /\ pc' = "parseline"
        /\ buf' = [k \in 0..(NBUF - 1) |-> IF k \in i..(q - 1) THEN NUL ELSE buf[k]] /\ i' = q
        /\ line' = line /\ nth' = nth /\ argv' = argv /\ infile' = infile /\ outfile' = outfile
    BY DEF parseline_blank, parse
  <1>2. LineFits /\ i \in Nat /\ Rest(i)
    BY <1>1, InParse
  <1>3. PICK n, m, w, a, b :
          /\ Read[i] = Rd(n, m, w, a, b) /\ Sound(n, m, w, a, b) /\ AtBreak(buf[i], m)
          /\ KeptAll(buf, i, argv, w, m)
          /\ KeptFile(buf, i, infile, a, m) /\ KeptFile(buf, i, outfile, b, m)
    BY <1>1, InParse
  <1>4. NUL \in S /\ buf[i] \notin S /\ buf[i] # NUL /\ Char \ (S \cup {"|"}) \subseteq Blank
    BY <1>1, CharFacts
  <1>5. /\ q \in i..CommandEnd /\ q \in Nat /\ buf[q] \in S
        /\ Run(i, q, Char \ (S \cup {"|"})) /\ Rest(q)
    BY <1>2, <1>4, Search
  <1> HIDE DEF S, q
  <1>6. Run(i, q, Blank)
    BY <1>4, <1>5, RunIn
  <1>7. /\ CommandEnd \in Nat /\ CommandEnd \in i..Len(line) /\ CommandEnd \in i..(NBUF - 1)
        /\ i \in 0..Len(line) /\ i \in 0..(NBUF - 1) /\ Len(line) \in Nat /\ NBUF \in Nat
    BY <1>2, RestFacts, LineFacts
  <1>8. q # i
    BY <1>4, <1>5
  <1>9. q \in (i + 1)..Len(line) /\ i <= q /\ i \in i..(q - 1)
    BY <1>2, <1>5, <1>7, <1>8
  <1>10. m \notin {"<", ">"} \/ line[i + 1] # SP
    <2>1. buf[i] = line[i + 1]
      BY <1>2, <1>4, AtChar
    <2>2. m \in {"<", ">"} => buf[i] \in {NL, NUL}
      BY <1>3 DEF AtBreak
    <2>3. SP \notin {NL, NUL}
      BY DEF SP, NL, NUL
    <2> QED BY <2>1, <2>2, <2>3
  <1>11. Read[q] = Rd(n, "gap", w, a, b)
    BY <1>2, <1>3, <1>6, <1>7, <1>9, <1>10, ReadBlanks
  <1>12. \A k \in q..(NBUF - 1) : buf'[k] = buf[k]
    BY <1>1, <1>5, <1>7, <1>2
  <1>13. Rest(i)'
    BY <1>1, <1>2, <1>5, <1>12, RestOn
  <1>14. Goes(buf, buf', i, q, m)
    BY <1>1, <1>2, <1>5, <1>7, <1>9 DEF Goes
  <1>15. /\ AtBreak(buf'[i'], "gap") /\ KeptAll(buf', q, argv, w, "gap")
         /\ KeptFile(buf', q, infile, a, "gap") /\ KeptFile(buf', q, outfile, b, "gap")
    BY <1>3, <1>14, KeptAllOn, KeptFileOn DEF AtBreak
  <1> QED BY <1>1, <1>11, <1>13, <1>15, ParseOn

(* A word is stored, or there is no place for it. *)
LEMMA WordStep ==
  ASSUME LineInv, GetsInv, ParseInv, parseline_word
  PROVE  GetsInv' /\ ParseInv'
  <1> DEFINE S == Blank \cup {NUL, "<", ">"}
             q == WordEnd
  <1>1. /\ pc = "parseline" /\ buf[i] \notin S /\ i' = q
        /\ line' = line /\ nth' = nth /\ buf' = buf /\ infile' = infile /\ outfile' = outfile
        /\ room' = room
        /\ \/ Len(argv) < room /\ argv' = Append(argv, i) /\ pc' = "parseline"
           \/ ~(Len(argv) < room) /\ pc' = "overrun"
    BY DEF parseline_word
  <1>2. LineFits /\ i \in Nat /\ Rest(i)
    BY <1>1, InParse
  <1>3. PICK n, m, w, a, b :
          /\ Read[i] = Rd(n, m, w, a, b) /\ Sound(n, m, w, a, b) /\ AtBreak(buf[i], m)
          /\ KeptAll(buf, i, argv, w, m)
          /\ KeptFile(buf, i, infile, a, m) /\ KeptFile(buf, i, outfile, b, m)
    BY <1>1, InParse
  <1>4. NUL \in S /\ buf[i] # NUL
    BY <1>1
  <1>5. m = "gap"
    <2>1. NL \in Blank
      BY DEF Blank
    <2> QED BY <1>1, <1>3, <2>1 DEF AtBreak
  <1>6. /\ q \in i..CommandEnd /\ q \in Nat /\ buf[q] \in S
        /\ Run(i, q, Char \ (S \cup {"|"})) /\ Rest(q)
    BY <1>2, <1>4, Search DEF WordEnd
  <1>7. /\ CommandEnd \in Nat /\ CommandEnd \in i..Len(line) /\ CommandEnd \in i..(NBUF - 1)
        /\ i \in 0..Len(line) /\ i \in 0..(NBUF - 1) /\ Len(line) \in Nat /\ NBUF \in Nat
    BY <1>2, RestFacts, LineFacts
  <1>8. Run(i, q, WordChar)
    <2>1. Char \ (S \cup {"|"}) \subseteq WordChar
      BY DEF WordChar
    <2> QED BY <1>6, <2>1, RunIn
  <1>9. q # i
    BY <1>1, <1>6
  <1> HIDE DEF S, q
  <1>10. q \in (i + 1)..Len(line) /\ i <= q
    BY <1>2, <1>6, <1>7, <1>9
  <1>11. w \in Names /\ argv \in Seq(0..(NBUF - 1)) /\ Len(argv) = Len(w) /\ Len(w) \in Nat /\ room \in Nat
    BY <1>3 DEF Sound, LineInv, KeptAll, Names
  <1>12. CASE Len(argv) < room /\ argv' = Append(argv, i) /\ pc' = "parseline"
    <2>1. PICK u : Span(u, i, q) /\ Read[q] = Rd(n, "word", Append(w, u), a, b)
      <3>1. Read[i] = Rd(n, "gap", w, a, b)
        BY <1>3, <1>5
      <3> QED BY <1>2, <1>7, <1>8, <1>10, <1>11, <3>1, ReadWord
    <2>2. Goes(buf, buf, i, q, "gap")
      BY <1>2, <1>6, <1>10 DEF Goes
    <2>3. /\ KeptAll(buf, q, argv, w, "word")
          /\ KeptFile(buf, q, infile, a, "word") /\ KeptFile(buf, q, outfile, b, "word")
      BY <1>3, <1>5, <2>2, KeptAllOn, KeptFileOn
    <2>4. Kept(buf, q, i, u, "word")
      <3>1. ASSUME NEW k \in i..(q - 1) PROVE buf[k] = line[k + 1]
        <4>1. k \in i..(CommandEnd - 1)
          BY <1>2, <1>6, <1>7
        <4> QED BY <1>2, <4>1, RestFacts
      <3>2. "word" # "gap"
        OBVIOUS
      <3> QED BY <1>2, <1>6, <1>10, <2>1, <3>1, <3>2, KeptNew
    <2>5. KeptAll(buf, q, Append(argv, i), Append(w, u), "word")
      <3> DEFINE av == Append(argv, i)
                 ws == Append(w, u)
      <3>1. u \in Seq(Char) /\ i \in 0..(NBUF - 1) /\ w \in Seq(Seq(Char))
        BY <1>7, <1>11, <2>1 DEF Span, Names
      <3>2. /\ Len(av) = Len(w) + 1 /\ Len(ws) = Len(w) + 1
            /\ av[Len(w) + 1] = i /\ ws[Len(w) + 1] = u
            /\ \A k \in 1..Len(w) : av[k] = argv[k] /\ ws[k] = w[k]
        BY <1>11, <3>1
      <3> HIDE DEF av, ws
      <3>3. ASSUME NEW k \in 1..Len(av) PROVE Kept(buf, q, av[k], ws[k], "word")
        <4>1. k \in 1..Len(w) \/ k = Len(w) + 1
          BY <1>11, <3>2
        <4>2. k \in 1..Len(w) => Kept(buf, q, argv[k], w[k], "word")
          BY <1>11, <2>3 DEF KeptAll
        <4> QED BY <2>4, <3>2, <4>1, <4>2
      <3> QED BY <3>2, <3>3 DEF KeptAll, av, ws
    <2>6. AtBreak(buf[q], "word")
      BY <1>6 DEF AtBreak, S
    <2>7. Rest(i)'
      BY <1>1, <1>2, <1>6, RestOn
    <2> QED BY <1>1, <1>12, <2>1, <2>3, <2>5, <2>6, <2>7, ParseOn
  <1>13. CASE ~(Len(argv) < room) /\ pc' = "overrun"
    <2>1. Asked' = Asked
      BY <1>1, ReadStays
    <2>2. Read[i].words = w
      BY <1>3, RdFields
    <2>3. Len(Read[i].words) <= Len(Asked.words)
      <3>1. \A x \in (i + 1)..CommandEnd : line[x] # "|"
        BY <1>2 DEF Rest
      <3> QED BY <1>2, <1>7, <3>1, ReadLater DEF Asked
    <2>4. Len(Asked.words) \in Nat
      <3>1. CommandEnd \in 0..Len(line)
        BY <1>7
      <3>2. PICK n2, m2, w2, a2, b2 : Asked = Rd(n2, m2, w2, a2, b2) /\ Sound(n2, m2, w2, a2, b2)
        BY <1>2, <3>1, ReadSound DEF Asked
      <3> QED BY <3>2, RdFields DEF Sound, Names
    <2>5. Len(Asked.words) >= room
      BY <1>11, <1>13, <2>2, <2>3, <2>4
    <2>6. ParseInv'
      BY <1>1, <1>13, <2>1, <2>5 DEF ParseInv
    <2>7. GetsInv'
      BY <1>1, <1>13 DEF GetsInv
    <2> QED BY <2>6, <2>7
  <1> QED BY <1>1, <1>12, <1>13

(* The name after the arrow at i: what is between the arrow and the name are *)
(* spaces, and the name goes on to the next blank.                           *)
LEMMA FileFacts ==
  ASSUME LineInv, LineFits, i \in Nat, Rest(i), NEW c \in {"<", ">"}, buf[i] = c
  PROVE  /\ i \in 0..(Len(line) - 1) /\ line[i + 1] = c /\ i + 1 \in 0..Len(line)
         /\ FileStart \in (i + 1)..Len(line) /\ FileStart \in Nat /\ FileStart \in 0..Len(line)
         /\ FileEnd \in FileStart..CommandEnd /\ FileEnd \in FileStart..Len(line)
         /\ FileEnd \in Nat /\ i < FileEnd
         /\ Run(i + 1, FileStart, Spaces) /\ Run(FileStart, FileEnd, NameChar)
         /\ buf[FileEnd] \in Blank \cup {NUL} /\ Rest(FileEnd)
         /\ FileEnd = FileStart => buf[FileEnd] \in {NL, NUL}
         /\ \A k \in FileStart..(FileEnd - 1) : buf[k] = line[k + 1]
  <1> DEFINE S == (Char \cup {NUL}) \ {SP}
             T == Blank \cup {NUL}
             s == FileStart
             e == FileEnd
  <1>1. buf[i] # NUL
    BY DEF NUL
  <1>2. /\ i \in 0..(Len(line) - 1) /\ buf[i] = line[i + 1]
        /\ i + 1 \in Nat /\ Rest(i + 1)
    BY <1>1, AtChar
  <1>3. NUL \in S /\ NUL \in T
    BY CharFacts
  <1>4. /\ s \in (i + 1)..CommandEnd /\ s \in Nat /\ buf[s] \in S
        /\ Run(i + 1, s, Char \ (S \cup {"|"})) /\ Rest(s)
    BY <1>2, <1>3, Search DEF FileStart
  <1>5. /\ e \in s..CommandEnd /\ e \in Nat /\ buf[e] \in T
        /\ Run(s, e, Char \ (T \cup {"|"})) /\ Rest(e)
    BY <1>3, <1>4, Search DEF FileEnd
  <1>6. /\ Char \ (S \cup {"|"}) \subseteq Spaces /\ Char \ (T \cup {"|"}) \subseteq NameChar
        /\ S \cap T \subseteq {NL, NUL}
    BY DEF NameChar, Spaces, Blank
  <1>7. Run(i + 1, s, Spaces) /\ Run(s, e, NameChar)
    BY <1>4, <1>5, <1>6, RunIn
  <1>8. e = s => buf[e] \in {NL, NUL}
    BY <1>4, <1>5, <1>6
  <1>9. buf[e] \in Blank \cup {NUL}
    BY <1>5
  <1> HIDE DEF S, T, s, e
  <1>10. CommandEnd \in Nat /\ CommandEnd \in s..Len(line) /\ Len(line) \in Nat
    BY <1>4, RestFacts, LineFacts
  <1>11. /\ s \in (i + 1)..Len(line) /\ s \in 0..Len(line) /\ e \in s..Len(line) /\ i < e
         /\ i + 1 \in 0..Len(line)
    BY <1>2, <1>4, <1>5, <1>10
  <1>12. ASSUME NEW k \in s..(e - 1) PROVE buf[k] = line[k + 1]
    <2>1. k \in s..(CommandEnd - 1)
      BY <1>4, <1>5, <1>10
    <2> QED BY <1>4, <2>1, RestFacts
  <1> QED BY <1>2, <1>4, <1>5, <1>7, <1>8, <1>9, <1>11, <1>12 DEF s, e

(* A file for the input. *)
LEMMA InStep ==
  ASSUME LineInv, GetsInv, ParseInv, parseline_in
  PROVE  GetsInv' /\ ParseInv'
  <1> DEFINE s == FileStart
             e == FileEnd
  <1>1. /\ pc = "parseline" /\ buf[i] = "<" /\ pc' = "parseline" /\ i' = e
        /\ buf' = [buf EXCEPT ![i] = NUL] /\ infile' = s /\ outfile' = outfile
        /\ line' = line /\ nth' = nth /\ argv' = argv
    BY DEF parseline_in, parseline_file
  <1>2. LineFits /\ i \in Nat /\ Rest(i)
    BY <1>1, InParse
  <1>3. PICK n, m, w, a, b :
          /\ Read[i] = Rd(n, m, w, a, b) /\ Sound(n, m, w, a, b) /\ AtBreak(buf[i], m)
          /\ KeptAll(buf, i, argv, w, m)
          /\ KeptFile(buf, i, infile, a, m) /\ KeptFile(buf, i, outfile, b, m)
    BY <1>1, InParse
  <1>4. m \in {"gap", "word"}
    BY <1>1, <1>3 DEF AtBreak, Blank, SP, NL, NUL
  <1>5. /\ i \in 0..(Len(line) - 1) /\ line[i + 1] = "<" /\ i + 1 \in 0..Len(line)
        /\ s \in (i + 1)..Len(line) /\ s \in Nat /\ s \in 0..Len(line)
        /\ e \in s..Len(line)
        /\ e \in Nat /\ i < e
        /\ Run(i + 1, s, Spaces) /\ Run(s, e, NameChar)
        /\ buf[e] \in Blank \cup {NUL} /\ Rest(e)
        /\ e = s => buf[e] \in {NL, NUL}
        /\ \A k \in s..(e - 1) : buf[k] = line[k + 1]
    <2>1. "<" \in {"<", ">"}
      OBVIOUS
    <2> QED BY <1>1, <1>2, <2>1, FileFacts
  <1> HIDE DEF s, e
  <1>6. Read[s] = Rd(n, "<", w, Unnamed, b)
    <2>1. Read[i + 1] = Lex(Rd(n, m, w, a, b), "<")
      <3>1. "<" # "|"
        OBVIOUS
      <3> QED BY <1>2, <1>3, <1>5, <3>1, ReadNext
    <2>2. Lex(Rd(n, m, w, a, b), "<") = Rd(n, "<", w, Unnamed, b)
      BY <1>4 DEF Lex, Rd, Blank, SP, NL, Unnamed
    <2>3. Read[i + 1] = Rd(n, "<", w, Unnamed, b) /\ "<" \in {"<", ">"}
      BY <2>1, <2>2
    <2> QED BY <1>2, <1>5, <2>3, ReadSpaces
  <1>7. PICK u, m2 : /\ Span(u, s, e) /\ Read[e] = Rd(n, m2, w, <<u>>, b)
                     /\ m2 \in {"<", "infile"} /\ (m2 = "<" => e = s)
    <2>1. \E u, m2 : InName(n, w, b, s, e, u, m2)
      BY <1>2, <1>5, <1>6, ReadIn
    <2> QED BY <2>1 DEF InName
  <1>8. buf \in [0..(NBUF - 1) -> Char \cup {NUL}] /\ i \in 0..(NBUF - 1) /\ NBUF \in Nat
    BY LineAssumption DEF LineInv
  <1>9. buf'[i] = NUL /\ \A k \in 0..(NBUF - 1) : k # i => buf'[k] = buf[k]
    BY <1>1, <1>8
  <1>10. Goes(buf, buf', i, e, m)
    BY <1>2, <1>5, <1>8, <1>9 DEF Goes
  <1>11. /\ KeptAll(buf', e, argv, w, m2) /\ KeptFile(buf', e, outfile, b, m2)
    BY <1>3, <1>10, KeptAllOn, KeptFileOn
  <1>12. \A k \in e..(NBUF - 1) : buf'[k] = buf[k]
    BY <1>2, <1>5, <1>8, <1>9
  <1>13. Rest(i)'
    BY <1>1, <1>2, <1>5, <1>12, RestOn
  <1>14. Kept(buf', e, s, u, m2)
    <2>1. ASSUME NEW k \in s..(e - 1) PROVE buf'[k] = line[k + 1]
      <3>1. k \in 0..(NBUF - 1) /\ k # i
        BY <1>2, <1>5, <1>8, LineFacts
      <3> QED BY <1>5, <1>9, <3>1
    <2>2. m2 # "gap"
      BY <1>7
    <2>3. s <= e
      BY <1>5
    <2> QED BY <1>5, <1>7, <2>1, <2>2, <2>3, KeptNew
  <1>15. KeptFile(buf', e, s, <<u>>, m2)
    <2>1. s # NoFile
      BY <1>5 DEF NoFile
    <2> QED BY <1>14, <2>1 DEF KeptFile
  <1>16. AtBreak(buf'[e], m2)
    <2>1. buf'[e] = buf[e]
      <3>1. e \in 0..(NBUF - 1) /\ e # i
        BY <1>2, <1>5, <1>8, LineFacts
      <3> QED BY <1>9, <3>1
    <2>2. CASE m2 = "<"
      BY <1>5, <1>7, <2>1, <2>2 DEF AtBreak
    <2>3. CASE m2 = "infile"
      BY <1>5, <2>1, <2>3 DEF AtBreak
    <2> QED BY <1>7, <2>2, <2>3
  <1> QED BY <1>1, <1>7, <1>11, <1>13, <1>15, <1>16, ParseOn

(* A file for the output. *)
LEMMA OutStep ==
  ASSUME LineInv, GetsInv, ParseInv, parseline_out
  PROVE  GetsInv' /\ ParseInv'
  <1> DEFINE s == FileStart
             e == FileEnd
  <1>1. /\ pc = "parseline" /\ buf[i] = ">" /\ pc' = "parseline" /\ i' = e
        /\ buf' = [buf EXCEPT ![i] = NUL] /\ outfile' = s /\ infile' = infile
        /\ line' = line /\ nth' = nth /\ argv' = argv
    BY DEF parseline_out, parseline_file
  <1>2. LineFits /\ i \in Nat /\ Rest(i)
    BY <1>1, InParse
  <1>3. PICK n, m, w, a, b :
          /\ Read[i] = Rd(n, m, w, a, b) /\ Sound(n, m, w, a, b) /\ AtBreak(buf[i], m)
          /\ KeptAll(buf, i, argv, w, m)
          /\ KeptFile(buf, i, infile, a, m) /\ KeptFile(buf, i, outfile, b, m)
    BY <1>1, InParse
  <1>4. m \in {"gap", "word"}
    BY <1>1, <1>3 DEF AtBreak, Blank, SP, NL, NUL
  <1>5. /\ i \in 0..(Len(line) - 1) /\ line[i + 1] = ">" /\ i + 1 \in 0..Len(line)
        /\ s \in (i + 1)..Len(line) /\ s \in Nat /\ s \in 0..Len(line)
        /\ e \in s..Len(line)
        /\ e \in Nat /\ i < e
        /\ Run(i + 1, s, Spaces) /\ Run(s, e, NameChar)
        /\ buf[e] \in Blank \cup {NUL} /\ Rest(e)
        /\ e = s => buf[e] \in {NL, NUL}
        /\ \A k \in s..(e - 1) : buf[k] = line[k + 1]
    <2>1. ">" \in {"<", ">"}
      OBVIOUS
    <2> QED BY <1>1, <1>2, <2>1, FileFacts
  <1> HIDE DEF s, e
  <1>6. Read[s] = Rd(n, ">", w, a, Unnamed)
    <2>1. Read[i + 1] = Lex(Rd(n, m, w, a, b), ">")
      <3>1. ">" # "|"
        OBVIOUS
      <3> QED BY <1>2, <1>3, <1>5, <3>1, ReadNext
    <2>2. Lex(Rd(n, m, w, a, b), ">") = Rd(n, ">", w, a, Unnamed)
      BY <1>4 DEF Lex, Rd, Blank, SP, NL, Unnamed
    <2>3. Read[i + 1] = Rd(n, ">", w, a, Unnamed) /\ ">" \in {"<", ">"}
      BY <2>1, <2>2
    <2> QED BY <1>2, <1>5, <2>3, ReadSpaces
  <1>7. PICK u, m2 : /\ Span(u, s, e) /\ Read[e] = Rd(n, m2, w, a, <<u>>)
                     /\ m2 \in {">", "outfile"} /\ (m2 = ">" => e = s)
    <2>1. \E u, m2 : OutName(n, w, a, s, e, u, m2)
      BY <1>2, <1>5, <1>6, ReadOut
    <2> QED BY <2>1 DEF OutName
  <1>8. buf \in [0..(NBUF - 1) -> Char \cup {NUL}] /\ i \in 0..(NBUF - 1) /\ NBUF \in Nat
    BY LineAssumption DEF LineInv
  <1>9. buf'[i] = NUL /\ \A k \in 0..(NBUF - 1) : k # i => buf'[k] = buf[k]
    BY <1>1, <1>8
  <1>10. Goes(buf, buf', i, e, m)
    BY <1>2, <1>5, <1>8, <1>9 DEF Goes
  <1>11. /\ KeptAll(buf', e, argv, w, m2) /\ KeptFile(buf', e, infile, a, m2)
    BY <1>3, <1>10, KeptAllOn, KeptFileOn
  <1>12. \A k \in e..(NBUF - 1) : buf'[k] = buf[k]
    BY <1>2, <1>5, <1>8, <1>9
  <1>13. Rest(i)'
    BY <1>1, <1>2, <1>5, <1>12, RestOn
  <1>14. Kept(buf', e, s, u, m2)
    <2>1. ASSUME NEW k \in s..(e - 1) PROVE buf'[k] = line[k + 1]
      <3>1. k \in 0..(NBUF - 1) /\ k # i
        BY <1>2, <1>5, <1>8, LineFacts
      <3> QED BY <1>5, <1>9, <3>1
    <2>2. m2 # "gap"
      BY <1>7
    <2>3. s <= e
      BY <1>5
    <2> QED BY <1>5, <1>7, <2>1, <2>2, <2>3, KeptNew
  <1>15. KeptFile(buf', e, s, <<u>>, m2)
    <2>1. s # NoFile
      BY <1>5 DEF NoFile
    <2> QED BY <1>14, <2>1 DEF KeptFile
  <1>16. AtBreak(buf'[e], m2)
    <2>1. buf'[e] = buf[e]
      <3>1. e \in 0..(NBUF - 1) /\ e # i
        BY <1>2, <1>5, <1>8, LineFacts
      <3> QED BY <1>9, <3>1
    <2>2. CASE m2 = ">"
      BY <1>5, <1>7, <2>1, <2>2 DEF AtBreak
    <2>3. CASE m2 = "outfile"
      BY <1>5, <2>1, <2>3 DEF AtBreak
    <2> QED BY <1>7, <2>2, <2>3
  <1> QED BY <1>1, <1>7, <1>11, <1>13, <1>15, <1>16, ParseOn

(* A word that is complete when parseline() is at a NUL. *)
LEMMA KeptStored ==
  ASSUME NEW b, NEW p \in Nat, p <= NBUF - 1, b[p] = NUL,
         NEW a, NEW w, NEW m, Kept(b, p, a, w, m)
  PROVE  Stored(b, a, w)
  <1>1. w \in Seq(Char) /\ Len(w) \in Nat /\ a \in Nat /\ a + Len(w) <= p /\ NBUF \in Nat
    BY LineAssumption DEF Kept
  <1>2. a + Len(w) <= NBUF - 1
    BY <1>1
  <1>3. b[a + Len(w)] = NUL
    BY DEF Kept
  <1> QED BY <1>1, <1>2, <1>3 DEF Kept, Stored

(* The end of the command. *)
LEMMA EndStep ==
  ASSUME LineInv, GetsInv, ParseInv, parseline_end
  PROVE  GetsInv' /\ ParseInv'
  <1>1. /\ pc = "parseline" /\ buf[i] = NUL
        /\ line' = line /\ nth' = nth /\ buf' = buf /\ argv' = argv /\ room' = room
        /\ infile' = infile /\ outfile' = outfile
        /\ pc' = IF Len(argv) >= room THEN "overrun"
                 ELSE IF argv = <<>>  THEN "empty" ELSE "exec"
    BY DEF parseline_end, parse
  <1>2. LineFits /\ i \in Nat /\ Rest(i)
    BY <1>1, InParse
  <1>3. PICK n, m, w, a, b :
          /\ Read[i] = Rd(n, m, w, a, b) /\ Sound(n, m, w, a, b) /\ AtBreak(buf[i], m)
          /\ KeptAll(buf, i, argv, w, m)
          /\ KeptFile(buf, i, infile, a, m) /\ KeptFile(buf, i, outfile, b, m)
    BY <1>1, InParse
  <1>4. i = CommandEnd /\ i \in 0..(NBUF - 1)
    BY <1>1, <1>2, RestFacts
  <1>5. Asked.words = w /\ Asked.infile = a /\ Asked.outfile = b /\ Asked' = Asked
    <2>1. Asked = Rd(n, m, w, a, b)
      BY <1>3, <1>4 DEF Asked
    <2>2. Asked' = Asked
      BY <1>1, ReadStays
    <2> QED BY <2>1, <2>2, RdFields
  <1>6. /\ Len(argv) = Len(w) /\ argv \in Seq(0..(NBUF - 1)) /\ Len(argv) \in Nat /\ room \in Nat
        /\ w \in Seq(Seq(Char)) /\ i <= NBUF - 1
    BY <1>3, <1>4, LineAssumption DEF KeptAll, LineInv, Sound, Names
  <1>7. StoredAll(buf, argv, w)
    BY <1>1, <1>2, <1>3, <1>6, KeptStored DEF KeptAll, StoredAll
  <1>8. StoredFile(buf, infile, a) /\ StoredFile(buf, outfile, b)
    BY <1>1, <1>2, <1>3, <1>6, KeptStored DEF KeptFile, StoredFile
  <1>9. GetsInv'
    BY <1>1 DEF GetsInv
  <1>10. CASE Len(argv) >= room
    <2>1. pc' = "overrun"
      BY <1>1, <1>10
    <2>2. Len(w) >= room
      BY <1>6, <1>10
    <2>3. Asked'.words = w
      BY <1>5
    <2>4. Len(Asked'.words) >= room'
      BY <1>1, <2>2, <2>3
    <2> QED BY <1>9, <2>1, <2>4 DEF ParseInv
  <1>11. CASE ~(Len(argv) >= room) /\ argv = <<>>
    <2>1. pc' = "empty" /\ w = <<>>
      BY <1>1, <1>6, <1>11
    <2> QED BY <1>5, <1>9, <2>1 DEF ParseInv
  <1>12. CASE ~(Len(argv) >= room) /\ argv # <<>>
    <2>1. pc' = "exec"
      BY <1>1, <1>12
    <2>2. Len(argv) # 0
      BY <1>6, <1>12
    <2>3. Len(argv) \in 1..(room - 1)
      BY <1>6, <1>12, <2>2
    <2> QED BY <1>1, <1>5, <1>7, <1>8, <1>9, <2>1, <2>3 DEF ParseInv
  <1> QED BY <1>10, <1>11, <1>12

(* parseline() starts. *)
LEMMA RuncmdStep ==
  ASSUME LineInv, GetsInv, ParseInv, runcmd
  PROVE  GetsInv' /\ ParseInv'
  <1>1. /\ pc = "runcmd" /\ pc' = "parseline" /\ i' = cmdline /\ argv' = <<>>
        /\ infile' = NoFile /\ outfile' = NoFile /\ buf' = buf /\ line' = line /\ nth' = nth
    BY DEF runcmd
  <1>2. /\ LineFits /\ cmdline \in Nat /\ nth \in Nat
        /\ Rest(cmdline) /\ Read[cmdline] = Fresh(nth)
    BY <1>1, LineAssumption DEF LineInv, GetsInv, LineFits, ParseInv
  <1>3. Read[i'] = Rd(nth, "gap", <<>>, <<>>, <<>>)
    BY <1>1, <1>2, FreshFacts
  <1>4. Rest(i)'
    BY <1>1, <1>2, RestOn
  <1>5. AtBreak(buf'[i'], "gap")
    BY DEF AtBreak
  <1>6. KeptAll(buf', i', argv', <<>>, "gap")
    BY <1>1 DEF KeptAll
  <1>7. KeptFile(buf', i', infile', <<>>, "gap") /\ KeptFile(buf', i', outfile', <<>>, "gap")
    BY <1>1 DEF KeptFile
  <1> QED BY <1>1, <1>3, <1>4, <1>5, <1>6, <1>7, ParseOn

-----------------------------------------------------------------------------
(* The steps before parseline(). *)

(* Where findpipe() cuts the line: at the end of this command. *)
LEMMA BarFacts ==
  ASSUME LineInv, GetsInv, pc = "execline", NEW bar, bar = Find(buf, cmdline, {NUL, "|"})
  PROVE  /\ LineFits /\ nth \in Nat /\ cmdline \in 0..Len(line)
         /\ bar \in cmdline..Len(line) /\ bar \in 0..(NBUF - 1) /\ CommandEnd = bar
         /\ Read[bar].nth = nth /\ Read[cmdline] = Fresh(nth)
         /\ \A k \in cmdline..(Len(line) - 1) : buf[k] = line[k + 1]
         /\ \A x \in (cmdline + 1)..bar : line[x] # "|"
         /\ buf[bar] = "|" => bar \in 0..(Len(line) - 1) /\ line[bar + 1] = "|"
  <1>1. /\ LineFits /\ nth \in Nat /\ cmdline \in 0..(NBUF - 1) /\ cmdline <= Len(line)
        /\ Read[cmdline] = Fresh(nth) /\ Text(cmdline, Len(line)) /\ Clear(Len(line))
        /\ buf[NBUF - 1] = NUL
    BY DEF LineInv, GetsInv, LineFits
  <1>2. /\ Len(line) \in Nat /\ Len(line) \in 0..(NBUF - 1) /\ NBUF \in Nat
        /\ cmdline \in Nat /\ cmdline \in 0..Len(line)
    BY <1>1, LineFacts
  <1>3. /\ \A k \in cmdline..(Len(line) - 1) : buf[k] = line[k + 1]
        /\ buf[Len(line)] = NUL
    BY <1>1, <1>2 DEF Text, Clear
  <1>4. /\ bar \in cmdline..(NBUF - 1) /\ buf[bar] \in {NUL, "|"}
        /\ \A j \in cmdline..(bar - 1) : buf[j] \notin {NUL, "|"}
        /\ \A j \in cmdline..(NBUF - 1) : buf[j] \in {NUL, "|"} => bar <= j
    BY <1>1, FindFacts, FindFirst
  <1>5. Len(line) \in cmdline..(NBUF - 1)
    BY <1>2
  <1>6. bar <= Len(line)
    BY <1>3, <1>4, <1>5
  <1>7. bar \in cmdline..Len(line) /\ bar \in 0..(NBUF - 1) /\ bar \in Nat
    BY <1>2, <1>4, <1>6
  <1>8. ASSUME NEW x \in (cmdline + 1)..bar PROVE line[x] # "|"
    <2>1. x - 1 \in cmdline..(bar - 1) /\ x - 1 \in cmdline..(Len(line) - 1) /\ (x - 1) + 1 = x
      BY <1>2, <1>7
    <2> QED BY <1>3, <1>4, <2>1
  <1>9. bar = Len(line) \/ (bar \in 0..(Len(line) - 1) /\ line[bar + 1] = "|")
    <2>1. CASE bar # Len(line)
      <3>1. bar \in 0..(Len(line) - 1) /\ bar \in cmdline..(Len(line) - 1)
        BY <1>2, <1>7, <2>1
      <3>2. buf[bar] = line[bar + 1] /\ line[bar + 1] \in Char
        BY <1>1, <1>3, <3>1, LineFacts
      <3> QED BY <1>4, <3>1, <3>2, NulNotChar
    <2> QED BY <2>1
  <1>10. Read[cmdline].nth = nth
    BY <1>1, FreshFacts, RdFields
  <1>11. CommandEnd = bar
    BY <1>1, <1>2, <1>7, <1>8, <1>9, <1>10, CommandEnds
  <1>12. Read[bar].nth = nth
    BY <1>1, <1>2, <1>7, <1>8, <1>10, ReadLater
  <1>13. buf[bar] = "|" => bar # Len(line)
    BY <1>3, CharFacts
  <1> QED BY <1>1, <1>2, <1>3, <1>7, <1>8, <1>9, <1>11, <1>12, <1>13

LEMMA ExeclineStep ==
  ASSUME LineInv, GetsInv, ParseInv, execline_left \/ execline_right
  PROVE  GetsInv' /\ ParseInv'
  <1> DEFINE bar == Find(buf, cmdline, {NUL, "|"})
  <1>1. pc = "execline" /\ buf' = [buf EXCEPT ![bar] = NUL] /\ line' = line
    BY DEF execline_left, execline_right, findpipe
  <1>2. /\ LineFits /\ nth \in Nat /\ cmdline \in 0..Len(line)
        /\ bar \in cmdline..Len(line) /\ bar \in 0..(NBUF - 1) /\ CommandEnd = bar
        /\ Read[bar].nth = nth /\ Read[cmdline] = Fresh(nth)
        /\ \A k \in cmdline..(Len(line) - 1) : buf[k] = line[k + 1]
        /\ \A x \in (cmdline + 1)..bar : line[x] # "|"
        /\ buf[bar] = "|" => bar \in 0..(Len(line) - 1) /\ line[bar + 1] = "|"
    BY <1>1, BarFacts
  <1>3. execline_right => buf[bar] = "|" /\ cmdline' = bar + 1
    BY DEF execline_right, findpipe
  <1> HIDE DEF bar
  <1>4. /\ Len(line) \in Nat /\ Len(line) \in 0..(NBUF - 1) /\ NBUF \in Nat /\ bar \in Nat
        /\ cmdline \in Nat
    BY <1>2, LineFacts
  <1>5. buf \in [0..(NBUF - 1) -> Char \cup {NUL}]
    BY DEF LineInv
  <1>6. buf'[bar] = NUL /\ \A k \in 0..(NBUF - 1) : k # bar => buf'[k] = buf[k]
    BY <1>1, <1>2, <1>5
  <1>7. Read' = Read
    BY <1>1, ReadStays
  <1>8. CASE execline_left
    <2>1. pc' = "runcmd" /\ cmdline' = cmdline /\ nth' = nth
      BY <1>8 DEF execline_left
    <2>2. CommandEnd' = bar
      BY <1>1, <1>2, <2>1, ReadStays
    <2>3. ASSUME NEW k \in cmdline..(bar - 1) PROVE buf'[k] = line[k + 1]
      <3>1. k \in 0..(NBUF - 1) /\ k # bar /\ k \in cmdline..(Len(line) - 1)
        BY <1>2, <1>4
      <3> QED BY <1>2, <1>6, <3>1
    <2>4. cmdline <= bar /\ bar \in 0..Len(line)
      BY <1>2, <1>4
    <2>5. Rest(cmdline)'
      BY <1>1, <1>2, <1>6, <2>1, <2>2, <2>3, <2>4 DEF Rest, Text
    <2>6. ParseInv'
      BY <1>2, <1>7, <2>1, <2>5 DEF ParseInv, Fresh
    <2>7. GetsInv'
      BY <1>1, <2>1 DEF GetsInv
    <2> QED BY <2>6, <2>7
  <1>9. CASE execline_right
    <2>1. pc' = "execline" /\ cmdline' = bar + 1 /\ nth' = nth + 1 /\ buf[bar] = "|"
      BY <1>1, <1>3, <1>9 DEF execline_right
    <2>2. Read[bar + 1] = Fresh(nth + 1)
      BY <1>2, <2>1, ReadNext
    <2>3. bar + 1 <= Len(line) /\ nth + 1 \in Nat
      BY <1>2, <1>4, <2>1
    <2>4. ASSUME NEW k \in (bar + 1)..(Len(line) - 1) PROVE buf'[k] = line[k + 1]
      <3>1. k \in 0..(NBUF - 1) /\ k # bar /\ k \in cmdline..(Len(line) - 1)
        BY <1>2, <1>4
      <3> QED BY <1>2, <1>6, <3>1
    <2>5. Text(cmdline, Len(line))'
      BY <1>1, <2>1, <2>4 DEF Text
    <2>6. ASSUME NEW k \in Len(line)..(NBUF - 1) PROVE buf'[k] = NUL
      <3>1. k \in 0..(NBUF - 1) /\ k # bar
        BY <1>4, <2>3
      <3>2. buf[k] = NUL
        BY <1>1 DEF GetsInv, Clear
      <3> QED BY <1>6, <3>1, <3>2
    <2>7. Clear(Len(line))'
      BY <1>1, <2>6 DEF Clear
    <2>8. (Read[cmdline] = Fresh(nth))'
      BY <1>7, <2>1, <2>2 DEF Fresh
    <2>9. GetsInv'
      BY <1>1, <1>2, <2>1, <2>3, <2>5, <2>7, <2>8 DEF GetsInv, LineFits
    <2>10. ParseInv'
      BY <2>1 DEF ParseInv
    <2> QED BY <2>9, <2>10
  <1> QED BY <1>8, <1>9

(* gets() reads a line into a buffer of NULs. *)
LEMMA GetsStep ==
  ASSUME LineInv, GetsInv, getcmd \/ gets_end \/ \E c \in Keys : gets_read(c)
  PROVE  GetsInv' /\ ParseInv'
  <1>1. /\ line \in Seq(Char) /\ Len(line) \in Nat /\ Len(line) <= NBUF - 1 /\ nth \in Nat
        /\ NBUF \in Nat /\ NBUF >= 1 /\ buf \in [0..(NBUF - 1) -> Char \cup {NUL}]
        /\ i \in 0..(NBUF - 1)
    BY LineAssumption DEF LineInv, GetsInv
  <1>2. CASE getcmd
    <2>1. /\ pc' = "gets" /\ i' = 0 /\ line' = <<>> /\ nth' = nth
          /\ buf' = [k \in 0..(NBUF - 1) |-> NUL]
      BY <1>2 DEF getcmd
    <2>2. line' \in Seq(Char) /\ Len(line') = 0 /\ Len(line') <= NBUF - 1
      BY <1>1, <2>1
    <2>3. Text(0, Len(line))' /\ Clear(Len(line))'
      BY <1>1, <2>1, <2>2 DEF Text, Clear
    <2>4. \A k \in 1..Len(line') : line'[k] \notin {NL, CR}
      BY <2>2
    <2>5. GetsInv'
      BY <1>1, <2>1, <2>2, <2>3, <2>4 DEF GetsInv
    <2>6. ParseInv'
      BY <2>1 DEF ParseInv
    <2> QED BY <2>5, <2>6
  <1>3. ASSUME NEW c \in Keys, gets_read(c) PROVE GetsInv' /\ ParseInv'
    <2>1. /\ pc = "gets" /\ i + 1 < NBUF /\ i' = i + 1 /\ line' = Append(line, c) /\ nth' = nth
          /\ buf' = [buf EXCEPT ![i] = c]
          /\ pc' = IF c \in {NL, CR} THEN "gets_end" ELSE "gets"
      BY <1>3 DEF gets_read
    <2>2. c \in Char
      BY CharFacts
    <2>3. /\ i = Len(line) /\ Text(0, Len(line)) /\ Clear(Len(line))
          /\ \A k \in 1..Len(line) : line[k] \notin {NL, CR}
      BY <2>1 DEF GetsInv
    <2>4. /\ line' \in Seq(Char) /\ Len(line') = Len(line) + 1 /\ line'[Len(line) + 1] = c
          /\ \A k \in 1..Len(line) : line'[k] = line[k]
      BY <1>1, <2>1, <2>2
    <2>5. Len(line') <= NBUF - 1 /\ i' = Len(line') /\ Len(line') \in Nat /\ 1 <= Len(line')
      BY <1>1, <2>1, <2>3, <2>4
    <2>6. buf'[i] = c /\ \A k \in 0..(NBUF - 1) : k # i => buf'[k] = buf[k]
      BY <1>1, <2>1
    <2>7. ASSUME NEW k \in 0..(Len(line') - 1) PROVE buf'[k] = line'[k + 1]
      <3>1. CASE k = i
        BY <2>3, <2>4, <2>6, <3>1
      <3>2. CASE k # i
        <4>1. k \in 0..(NBUF - 1) /\ k \in 0..(Len(line) - 1) /\ k + 1 \in 1..Len(line)
          BY <1>1, <2>3, <2>4, <3>2
        <4>2. buf[k] = line[k + 1]
          BY <2>3, <4>1 DEF Text
        <4> QED BY <2>4, <2>6, <3>2, <4>1, <4>2
      <3> QED BY <3>1, <3>2
    <2>8. ASSUME NEW k \in Len(line')..(NBUF - 1) PROVE buf'[k] = NUL
      <3>1. k \in 0..(NBUF - 1) /\ k # i /\ k \in Len(line)..(NBUF - 1)
        BY <1>1, <2>3, <2>4
      <3> QED BY <2>3, <2>6, <3>1 DEF Clear
    <2>9. Text(0, Len(line))' /\ Clear(Len(line))'
      BY <2>7, <2>8 DEF Text, Clear
    <2>10. \A k \in 1..(Len(line') - 1) : line'[k] \notin {NL, CR}
      <3>1. ASSUME NEW k \in 1..(Len(line') - 1) PROVE k \in 1..Len(line)
        BY <1>1, <2>4
      <3> QED BY <2>3, <2>4, <3>1
    <2>11. c \notin {NL, CR} => \A k \in 1..Len(line') : line'[k] \notin {NL, CR}
      <3>1. ASSUME NEW k \in 1..Len(line') PROVE k \in 1..(Len(line') - 1) \/ k = Len(line) + 1
        BY <1>1, <2>4
      <3> QED BY <2>4, <2>10, <3>1
    <2>12. CASE c \in {NL, CR}
      <3>1. pc' = "gets_end"
        BY <2>1, <2>12
      <3>2. GetsInv'
        BY <1>1, <2>1, <2>4, <2>5, <2>9, <2>10, <3>1 DEF GetsInv
      <3> QED BY <3>1, <3>2 DEF ParseInv
    <2>13. CASE c \notin {NL, CR}
      <3>1. pc' = "gets"
        BY <2>1, <2>13
      <3>2. GetsInv'
        BY <1>1, <2>1, <2>4, <2>5, <2>9, <2>11, <2>13, <3>1 DEF GetsInv
      <3> QED BY <3>1, <3>2 DEF ParseInv
    <2> QED BY <2>12, <2>13
  <1>4. CASE gets_end
    <2>1. /\ pc \in {"gets", "gets_end"} /\ buf' = [buf EXCEPT ![i] = NUL]
          /\ pc' = IF buf'[0] = NUL THEN "exited" ELSE "main"
          /\ line' = line /\ nth' = nth
      BY <1>4 DEF gets_end
    <2>2. /\ i = Len(line) /\ Text(0, Len(line)) /\ Clear(Len(line))
          /\ \A k \in 1..(Len(line) - 1) : line[k] \notin {NL, CR}
      BY <1>1, <2>1 DEF GetsInv
    <2>3. buf[i] = NUL
      <3>1. i \in Len(line)..(NBUF - 1)
        BY <1>1, <2>2
      <3> QED BY <2>2, <3>1 DEF Clear
    <2>4. buf' = buf
      BY <1>1, <2>1, <2>3
    <2>5. Text(0, Len(line))' /\ Clear(Len(line))'
      BY <2>1, <2>2, <2>4 DEF Text, Clear
    <2>6. pc' = "main" => 1 <= Len(line)
      <3>1. SUFFICES ASSUME Len(line) = 0 PROVE pc' = "exited"
        BY <1>1, <2>1
      <3>2. buf[0] = NUL
        BY <2>2, <2>3, <3>1
      <3> QED BY <2>1, <2>4, <3>2
    <2>7. pc' \in {"exited", "main"}
      BY <2>1
    <2>8. GetsInv'
      BY <1>1, <2>1, <2>2, <2>5, <2>6, <2>7 DEF GetsInv
    <2> QED BY <2>7, <2>8 DEF ParseInv
  <1> QED BY <1>2, <1>3, <1>4

(* main() forks a child for the line. *)
LEMMA MainStep ==
  ASSUME LineInv, GetsInv, main_exit \/ main_child \/ main_shell
  PROVE  GetsInv' /\ ParseInv'
  <1>1. pc = "main" /\ line' = line /\ buf' = buf
    BY DEF main_exit, main_child, main_shell
  <1>2. /\ line \in Seq(Char) /\ Len(line) \in Nat /\ Len(line) <= NBUF - 1 /\ nth \in Nat
        /\ Text(0, Len(line)) /\ Clear(Len(line))
    BY <1>1 DEF GetsInv
  <1>3. CASE main_child
    <2>1. pc' = "execline" /\ cmdline' = 0 /\ nth' = 1
      BY <1>3 DEF main_child
    <2>2. Read' = Read
      BY <1>1, ReadStays
    <2>3. Read[0] = Fresh(1)
      BY ReadUnfolds, LineAssumption DEF ReadOf
    <2>4. (Read[cmdline] = Fresh(nth))'
      BY <2>1, <2>2, <2>3 DEF Fresh
    <2>5. Text(cmdline, Len(line))' /\ Clear(Len(line))'
      BY <1>1, <1>2, <2>1 DEF Text, Clear
    <2>6. GetsInv'
      BY <1>1, <1>2, <2>1, <2>4, <2>5 DEF GetsInv
    <2> QED BY <2>1, <2>6 DEF ParseInv
  <1>4. CASE main_exit \/ main_shell
    <2>1. pc' \in {"exited", "getcmd"} /\ nth' = nth
      BY <1>4 DEF main_exit, main_shell
    <2>2. GetsInv'
      BY <1>1, <1>2, <2>1 DEF GetsInv
    <2> QED BY <2>1, <2>2 DEF ParseInv
  <1> QED BY <1>3, <1>4

(* All steps of the shell. *)
LEMMA MeantStep ==
  ASSUME LineInv, GetsInv, ParseInv, LNext
  PROVE  GetsInv' /\ ParseInv'
BY GetsStep, MainStep, ExeclineStep, RuncmdStep, BlankStep, InStep, OutStep, WordStep, EndStep
   DEF LNext

-----------------------------------------------------------------------------
(* The words that the kernel is given. *)

(* The buffer lies in the data pages. *)
LEMMA BufPage ==
  ASSUME NEW a \in BUF..(BUF + NBUF - 1)
  PROVE  a \in Nat /\ PageOf(a) \in {2, 3}
  <1>1. /\ BUF \in Nat /\ NBUF \in Nat /\ PGSIZE \in Nat /\ PGSIZE <= BUF
        /\ BUF + NBUF <= 3 * PGSIZE
    BY LineAssumption, UaccessAssumption
  <1>2. a \in Nat /\ a < 3 * PGSIZE /\ ~(a < 1 * PGSIZE)
    BY <1>1
  <1>3. PageOf(a) \in Nat /\ PageOf(a) <= 3 /\ ~(PageOf(a) <= 1)
    BY <1>2, PageLimit, PageFacts
  <1> QED BY <1>2, <1>3

(* A word in the buffer, as the kernel sees it. *)
LEMMA WordBytes ==
  ASSUME NEW a, NEW w, Stored(buf, a, w)
  PROVE  /\ w \in Seq(Char) /\ Len(w) \in Nat /\ BUF + a \in Nat
         /\ \A k \in 0..(Len(w) - 1) : Had(BUF + a + k) = w[k + 1] /\ Had(BUF + a + k) # NUL
         /\ Had(BUF + a + Len(w)) = NUL
         /\ \A k \in 0..Len(w) : BUF + a + k \in Nat /\ PageOf(BUF + a + k) \in {2, 3}
  <1>1. /\ w \in Seq(Char) /\ Len(w) \in Nat /\ a \in Nat /\ a + Len(w) <= NBUF - 1
        /\ buf[a + Len(w)] = NUL /\ \A j \in 1..Len(w) : buf[a + j - 1] = w[j]
        /\ BUF \in Nat /\ NBUF \in Nat
    BY LineAssumption, UaccessAssumption DEF Stored
  <1>2. ASSUME NEW k \in 0..Len(w)
        PROVE  BUF + a + k \in BUF..(BUF + NBUF - 1) /\ (BUF + a + k) - BUF = a + k
    BY <1>1
  <1>3. ASSUME NEW k \in 0..Len(w) PROVE Had(BUF + a + k) = buf[a + k]
    BY <1>2 DEF Had, InBuf
  <1>4. ASSUME NEW k \in 0..Len(w) PROVE BUF + a + k \in Nat /\ PageOf(BUF + a + k) \in {2, 3}
    BY <1>2, BufPage
  <1>5. ASSUME NEW k \in 0..(Len(w) - 1)
        PROVE  Had(BUF + a + k) = w[k + 1] /\ Had(BUF + a + k) # NUL
    <2>1. k \in 0..Len(w) /\ k + 1 \in 1..Len(w) /\ a + (k + 1) - 1 = a + k
      BY <1>1
    <2>2. buf[a + k] = w[k + 1]
      BY <1>1, <2>1
    <2>3. w[k + 1] \in Char
      BY <1>1, <2>1
    <2> QED BY <1>3, <2>1, <2>2, <2>3, NulNotChar
  <1>6. Had(BUF + a + Len(w)) = NUL
    <2>1. Len(w) \in 0..Len(w)
      BY <1>1
    <2> QED BY <1>1, <1>3, <2>1
  <1> QED BY <1>1, <1>4, <1>5, <1>6

(* A page of a word is always found. *)
LEMMA WordPage ==
  ASSUME LineInv, CopyInv, WordInv, word # 0, ret = Busy, left > 0
  PROVE  walkaddr(va)
  <1> DEFINE a == argv[word]
             w == Asked.words[word]
  <1>1. op = "copyinstr" /\ addr = BUF + a /\ Stored(buf, a, w)
    BY DEF WordInv
  <1> HIDE DEF a, w
  <1>2. /\ Len(w) \in Nat /\ Had(BUF + a + Len(w)) = NUL
        /\ \A k \in 0..Len(w) : BUF + a + k \in Nat /\ PageOf(BUF + a + k) \in {2, 3}
    BY <1>1, WordBytes
  <1>3. /\ addr \in Nat /\ va \in Nat /\ len \in Nat /\ Moved \in 0..len /\ va = addr + Moved
        /\ faulted \subseteq Lazy
    BY RunningFacts
  <1>4. \A j \in 0..(Moved - 1) : Had(addr + j) # NUL
    BY <1>1, RunningFacts
  <1>5. Moved \in 0..Len(w)
    <2>1. SUFFICES ASSUME ~(Moved <= Len(w)) PROVE FALSE
      BY <1>2, <1>3
    <2>2. Len(w) \in 0..(Moved - 1)
      BY <1>2, <1>3, <2>1
    <2> QED BY <1>1, <1>2, <1>4, <2>2
  <1>6. PageOf(va) \in {2, 3}
    BY <1>1, <1>2, <1>3, <1>5
  <1> DEFINE f == (PageOf(va) = 1)
  <1>7. f \in BOOLEAN /\ ~f
    BY <1>6
  <1> HIDE DEF f
  <1>8. Allowed(va, f)
    BY <1>3, <1>6, <1>7, AllowedPages
  <1>9. walkaddr(va) \/ Promised(va)
    BY <1>3, <1>7, <1>8, PageReached
  <1>10. ~Promised(va)
    <2>1. PageOf(va) \notin Lazy
      BY <1>6, LazyPage
    <2> QED BY <1>3, <1>7, <2>1, PageReached
  <1> QED BY <1>9, <1>10

(* Every step keeps what is known about the line and its words. *)
LEMMA MeantInvStep ==
  ASSUME UInv, MeantInv, [UNext]_uvars
  PROVE  MeantInv'
  <1>1. LineInv /\ GetsInv /\ ParseInv /\ WordInv
    BY DEF UInv, MeantInv
  <1>2. CASE LNext /\ UNCHANGED <<user, op, va, left, kbuf, ret, args, nomem>>
    <2>1. pc # "kernel"
      BY <1>2 DEF LNext, getcmd, gets_end, gets_read, main_exit, main_child, main_shell,
           execline_left, execline_right, runcmd, parseline_blank, parseline_in,
           parseline_out, parseline_file, parseline_word, parseline_end
    <2>2. word = 0 /\ word' = 0
      BY <1>1, <1>2, <2>1 DEF WordInv, args
    <2>3. WordInv'
      BY <2>2 DEF WordInv
    <2> QED BY <1>1, <1>2, <2>3, MeantStep DEF MeantInv
  <1>3. CASE Syscall
    <2>1. pc # "kernel" /\ Idle
      BY <1>3 DEF UInv, Syscall, argstr, fetchaddr, fetchstr, either_copyin, either_copyout,
           OtherProgram
    <2>2. PICK f, a, n, w, r : /\ Call(f, a, n, w, r)
                               /\ \/ w = 0
                                  \/ /\ pc = "exec" /\ w \in DOMAIN argv
                                     /\ f = "copyinstr" /\ a = BUF + argv[w]
      BY <1>3 DEF Syscall, argstr, fetchaddr, fetchstr, either_copyin, either_copyout
    <2>3. /\ pc' = "kernel" /\ word' = w /\ op' = f /\ addr' = a /\ nomem' = FALSE
          /\ line' = line /\ nth' = nth /\ argv' = argv /\ buf' = buf
      BY <2>1, <2>2 DEF Call, Idle, parse
    <2>4. GetsInv' /\ ParseInv'
      BY <1>1, <2>3 DEF GetsInv, ParseInv
    <2>5. ASSUME w # 0 PROVE WordInv'
      <3>1. pc = "exec" /\ w \in DOMAIN argv /\ f = "copyinstr" /\ a = BUF + argv[w]
        BY <2>2, <2>5
      <3>2. StoredAll(buf, argv, Asked.words)
        BY <1>1, <3>1 DEF ParseInv
      <3>3. w \in 1..Len(argv)
        BY <1>1, <3>1, LenProperties DEF LineInv
      <3>4. Stored(buf, argv[w], Asked.words[w])
        BY <3>2, <3>3 DEF StoredAll
      <3>5. Asked' = Asked
        BY <2>3, ReadStays
      <3> QED BY <2>3, <3>1, <3>4, <3>5 DEF WordInv
    <2>6. w = 0 => WordInv'
      BY <2>3 DEF WordInv
    <2> QED BY <2>4, <2>5, <2>6 DEF MeantInv
  <1>4. CASE Kernel
    <2>1. /\ pc = "kernel" /\ lvars' = lvars /\ op' = op /\ addr' = addr /\ word' = word
          /\ ret = Busy
      BY <1>4 DEF Kernel, Copying, copy_fault, copyin_page, copyout_page, copy_done,
           copyinstr_page, copyinstr_long, args
    <2>2. pc' = pc /\ line' = line /\ nth' = nth /\ argv' = argv /\ buf' = buf
      BY <2>1 DEF lvars
    <2>3. GetsInv' /\ ParseInv'
      BY <1>1, <2>1, <2>2 DEF GetsInv, ParseInv
    <2>4. CopyInv
      BY <2>1 DEF UInv
    <2>5. ASSUME word # 0 PROVE nomem' = nomem
      <3>1. ~copy_fault
        BY <1>1, <2>1, <2>4, <2>5, WordPage DEF copy_fault
      <3> QED BY <1>4, <3>1 DEF Kernel, copyin_page, copyout_page, copy_done,
                copyinstr_page, copyinstr_long
    <2>6. Asked' = Asked
      BY <2>2, ReadStays
    <2>7. WordInv'
      BY <1>1, <2>1, <2>2, <2>5, <2>6 DEF WordInv
    <2> QED BY <2>3, <2>7 DEF MeantInv
  <1>5. CASE UNCHANGED uvars
    <2>1. /\ UNCHANGED <<buf, pc, i, cmdline, argv, room, infile, outfile, line, nth>>
          /\ UNCHANGED <<op, addr, word, nomem>>
      BY <1>5 DEF uvars, lvars
    <2>2. Read' = Read /\ CommandEnd' = CommandEnd /\ Asked' = Asked
      BY <2>1, ReadStays
    <2>3. GetsInv'
      BY <1>1, <2>1, <2>2 DEF GetsInv, Text, Clear, Fresh
    <2>4. ParseInv'
      BY <1>1, <2>1, <2>2 DEF ParseInv, Rest, Text, Parsed, Fresh
    <2>5. WordInv'
      BY <1>1, <2>1, <2>2 DEF WordInv
    <2> QED BY <2>3, <2>4, <2>5 DEF MeantInv
  <1> QED BY <1>2, <1>3, <1>4, <1>5 DEF UNext

-----------------------------------------------------------------------------
(* What the invariant gives. *)

(* A word in the buffer is the string that starts there. *)
LEMMA StoredStr ==
  ASSUME LineInv, NEW a, NEW w, Stored(buf, a, w)
  PROVE  Str(a) = w
  <1>1. /\ w \in Seq(Char) /\ Len(w) \in Nat /\ a \in Nat /\ a + Len(w) <= NBUF - 1
        /\ buf[a + Len(w)] = NUL /\ \A j \in 1..Len(w) : buf[a + j - 1] = w[j]
        /\ NBUF \in Nat /\ buf[NBUF - 1] = NUL
    BY LineAssumption DEF Stored, LineInv
  <1> DEFINE q == Find(buf, a, {NUL})
  <1>2. a \in 0..(NBUF - 1) /\ a + Len(w) \in a..(NBUF - 1)
    BY <1>1
  <1>3. q \in a..(NBUF - 1) /\ buf[q] = NUL
    BY <1>1, <1>2, FindFacts
  <1>4. q <= a + Len(w)
    BY <1>1, <1>2, FindFirst
  <1> HIDE DEF q
  <1>5. q = a + Len(w)
    <2>1. SUFFICES ASSUME q # a + Len(w) PROVE FALSE
      OBVIOUS
    <2> DEFINE j == q - a + 1
    <2>2. j \in 1..Len(w) /\ a + j - 1 = q
      BY <1>1, <1>3, <1>4, <2>1
    <2> HIDE DEF j
    <2>3. buf[q] = w[j] /\ w[j] \in Char
      BY <1>1, <2>2
    <2> QED BY <1>3, <2>3, NulNotChar
  <1>6. q - a = Len(w)
    BY <1>1, <1>5
  <1>7. Str(a) = [j \in 1..Len(w) |-> buf[a + j - 1]]
    BY <1>6 DEF Str, q
  <1>8. [j \in 1..Len(w) |-> buf[a + j - 1]] = [j \in 1..Len(w) |-> w[j]]
    BY <1>1
  <1>9. w = [j \in 1..Len(w) |-> w[j]]
    BY <1>1
  <1> QED BY <1>7, <1>8, <1>9

(* What the shell hands to exec() is what was typed. *)
LEMMA RightlyParsed ==
  ASSUME UInv, MeantInv
  PROVE  ParsedRight
  <1>1. LineInv /\ GetsInv /\ ParseInv
    BY DEF UInv, MeantInv
  <1>2. LineCut
    <2>1. SUFFICES ASSUME pc = "main"
                   PROVE  /\ \A k \in 1..(Len(line) - 1) : line[k] \notin {NL, CR}
                          /\ Len(line) \in 1..(NBUF - 1) /\ Str(0) = line
      BY DEF LineCut
    <2>2. /\ line \in Seq(Char) /\ Len(line) \in Nat /\ Len(line) <= NBUF - 1 /\ 1 <= Len(line)
          /\ \A k \in 1..(Len(line) - 1) : line[k] \notin {NL, CR}
          /\ Text(0, Len(line)) /\ Clear(Len(line)) /\ NBUF \in Nat
      BY <1>1, <2>1, LineAssumption DEF GetsInv
    <2>3. buf[0 + Len(line)] = NUL
      <3>1. Len(line) \in Len(line)..(NBUF - 1) /\ 0 + Len(line) = Len(line)
        BY <2>2
      <3> QED BY <2>2, <3>1 DEF Clear
    <2>4. ASSUME NEW j \in 1..Len(line) PROVE buf[0 + j - 1] = line[j]
      <3>1. 0 + j - 1 \in 0..(Len(line) - 1) /\ (0 + j - 1) + 1 = j
        BY <2>2
      <3> QED BY <2>2, <3>1 DEF Text
    <2>5. Stored(buf, 0, line)
      BY <2>2, <2>3, <2>4 DEF Stored
    <2>6. Str(0) = line
      BY <1>1, <2>5, StoredStr
    <2> QED BY <2>2, <2>6
  <1>3. /\ pc = "empty" => Asked.words = <<>>
        /\ pc = "overrun" => Len(Asked.words) >= room
    BY <1>1 DEF ParseInv
  <1>4. ASSUME pc = "exec"
        PROVE  /\ [k \in DOMAIN argv |-> Str(argv[k])] = Asked.words
               /\ Asked.infile = IF infile = NoFile THEN <<>> ELSE <<Str(infile)>>
               /\ Asked.outfile = IF outfile = NoFile THEN <<>> ELSE <<Str(outfile)>>
    <2>1. /\ StoredAll(buf, argv, Asked.words)
          /\ StoredFile(buf, infile, Asked.infile) /\ StoredFile(buf, outfile, Asked.outfile)
      BY <1>1, <1>4 DEF ParseInv
    <2> DEFINE ws == Asked.words
    <2>2. /\ ws \in Seq(Seq(Char)) /\ Len(argv) = Len(ws) /\ DOMAIN argv = 1..Len(argv)
          /\ \A k \in 1..Len(argv) : Stored(buf, argv[k], ws[k])
      BY <1>1, <2>1, LenProperties DEF StoredAll, LineInv
    <2> HIDE DEF ws
    <2>3. \A k \in 1..Len(argv) : Str(argv[k]) = ws[k]
      BY <1>1, <2>2, StoredStr
    <2>4. [k \in DOMAIN argv |-> Str(argv[k])] = [k \in 1..Len(ws) |-> ws[k]]
      BY <2>2, <2>3
    <2>5. ws = [k \in 1..Len(ws) |-> ws[k]]
      BY <2>2
    <2>6. ASSUME NEW f, NEW fs, StoredFile(buf, f, fs)
          PROVE  fs = IF f = NoFile THEN <<>> ELSE <<Str(f)>>
      BY <1>1, <2>6, StoredStr DEF StoredFile
    <2> QED BY <2>1, <2>4, <2>5, <2>6 DEF ws
  <1> QED BY <1>2, <1>3, <1>4 DEF ParsedRight

(* A word arrives in the kernel as it was typed. *)
LEMMA ArrivesWhole ==
  ASSUME UInv, MeantInv
  PROVE  WordArrives
  <1> DEFINE w == Asked.words[word]
             a == argv[word]
             n == Extent(addr, len, FALSE)
             ends == {k \in 0..(n - 1) : Had(addr + k) = NUL}
  <1>1. SUFFICES ASSUME pc = "kernel", op = "copyinstr", ret # Busy, word # 0
                 PROVE  IF Len(w) < len THEN kbuf = Append(w, NUL) /\ ret = Len(w) ELSE ret = -1
    BY DEF WordArrives, Returned
  <1>2. addr = BUF + a /\ Stored(buf, a, w) /\ nomem = FALSE
    BY <1>1 DEF MeantInv, WordInv
  <1>3. CopyInv /\ LineInv /\ StringExact
    BY <1>1, Promises DEF UInv
  <1>4. addr \in Nat /\ len \in Nat /\ buf \in [0..(NBUF - 1) -> Char \cup {NUL}]
    BY <1>3, LayoutFacts DEF CopyInv, LineInv
  <1>5. IF ends # {} THEN ret = Min(ends) /\ kbuf = HadAt(addr, ret + 1) ELSE ret = -1
    BY <1>1, <1>2, <1>3 DEF StringExact, Returned
  <1> HIDE DEF w, a
  <1>6. /\ w \in Seq(Char) /\ Len(w) \in Nat
        /\ \A k \in 0..(Len(w) - 1) : Had(addr + k) = w[k + 1] /\ Had(addr + k) # NUL
        /\ Had(addr + Len(w)) = NUL
        /\ \A k \in 0..Len(w) : addr + k \in Nat /\ PageOf(addr + k) \in {2, 3}
    BY <1>2, WordBytes
  <1>7. n = Extent(addr, len, Way)
    <2>1. Way = FALSE
      BY <1>1 DEF Way
    <2> QED BY <2>1, Zenon
  <1> HIDE DEF n
  <1>8. Way \in BOOLEAN
    BY DEF Way
  <1>9. ASSUME NEW k \in 0..Len(w) PROVE Allowed(addr + k, Way)
    BY <1>6, <1>8, AllowedPages
  <1>10. CASE Len(w) < len
    <2>1. Len(w) + 1 \in 0..len /\ \A j \in 0..((Len(w) + 1) - 1) : Allowed(addr + j, Way)
      BY <1>4, <1>6, <1>9, <1>10
    <2>2. n \in (Len(w) + 1)..len
      <3> DEFINE m == Len(w) + 1
      <3>1. m \in 0..len /\ \A j \in 0..(m - 1) : Allowed(addr + j, Way)
        BY <2>1
      <3> HIDE DEF m
      <3>2. Extent(addr, len, Way) \in m..len
        BY <1>4, <1>8, <3>1, ExtentFacts
      <3> QED BY <1>7, <3>2 DEF m
    <2>3. Len(w) \in ends /\ ends \in SUBSET Nat
      BY <1>6, <2>2
    <2>4. ASSUME NEW e \in ends PROVE Len(w) <= e
      <3>1. e \in Nat /\ Had(addr + e) = NUL
        OBVIOUS
      <3>2. e < Len(w) => e \in 0..(Len(w) - 1)
        BY <1>6, <3>1
      <3> QED BY <1>6, <3>1, <3>2
    <2>5. Min(ends) = Len(w)
      BY <2>3, <2>4, MinIs
    <2>6. ret = Len(w) /\ kbuf = HadAt(addr, ret + 1)
      BY <1>5, <2>3, <2>5
    <2>7. HadAt(addr, Len(w) + 1) = Append(w, NUL)
      <3> DEFINE x == HadAt(addr, Len(w) + 1)
                 y == Append(w, NUL)
      <3>1. /\ x = [j \in 1..(Len(w) + 1) |-> Had(addr + j - 1)]
        BY DEF HadAt
      <3>2. x \in Seq(Content) /\ Len(x) = Len(w) + 1
        <4>1. Len(w) + 1 \in Nat /\ 0 \in Nat
          BY <1>6
        <4> QED BY <1>4, <4>1, HadAtFacts
      <3>3. \A j \in 1..(Len(w) + 1) : x[j] = Had(addr + j - 1)
        BY <3>1
      <3>4. /\ y \in Seq(Content) /\ Len(y) = Len(w) + 1 /\ y[Len(w) + 1] = NUL
            /\ \A j \in 1..Len(w) : y[j] = w[j]
        <4>1. w \in Seq(Content) /\ NUL \in Content
          BY <1>6 DEF Content
        <4> QED BY <1>6, <4>1
      <3> HIDE DEF x, y
      <3>5. ASSUME NEW j \in 1..(Len(w) + 1) PROVE x[j] = y[j]
        <4>1. CASE j = Len(w) + 1
          <5>1. addr + j - 1 = addr + Len(w)
            BY <1>4, <1>6, <4>1
          <5> QED BY <1>6, <3>3, <3>4, <4>1, <5>1
        <4>2. CASE j # Len(w) + 1
          <5>1. j \in 1..Len(w) /\ j - 1 \in 0..(Len(w) - 1) /\ addr + (j - 1) = addr + j - 1
                /\ (j - 1) + 1 = j
            BY <1>4, <1>6, <4>2
          <5>2. Had(addr + (j - 1)) = w[(j - 1) + 1]
            BY <1>6, <5>1
          <5> QED BY <3>3, <3>4, <5>1, <5>2
        <4> QED BY <4>1, <4>2
      <3>6. x = y
        BY <3>2, <3>4, <3>5, SeqEqual
      <3> QED BY <3>6 DEF x, y
    <2> QED BY <1>10, <2>6, <2>7
  <1>11. CASE ~(Len(w) < len)
    <2>1. n \in 0..len
      <3> DEFINE m == 0
      <3>1. m \in 0..len /\ \A j \in 0..(m - 1) : Allowed(addr + j, Way)
        BY <1>4
      <3>2. Extent(addr, len, Way) \in m..len
        BY <1>4, <1>8, <3>1, ExtentFacts
      <3> QED BY <1>7, <3>2
    <2>2. ASSUME NEW k \in 0..(n - 1) PROVE Had(addr + k) # NUL
      <3>1. k \in 0..(Len(w) - 1)
        BY <1>4, <1>6, <1>11, <2>1
      <3> QED BY <1>6, <3>1
    <2>3. ends = {}
      BY <2>2
    <2> QED BY <1>5, <1>11, <2>3
  <1> QED BY <1>10, <1>11

-----------------------------------------------------------------------------
(* The theorems. *)

(* Every reachable state satisfies the invariant. *)
THEOREM UaccessSafety == USpec => []UInv
  <1>1. UInit => UInv
    BY InitInv
  <1>2. UInv /\ [UNext]_uvars => UInv'
    BY StepInv
  <1> QED BY <1>1, <1>2, PTL DEF USpec

(* parseline() and gets() keep every pointer inside the buffer of the line,  *)
(* and copyin(), copyout() and copyinstr() stay inside the buffer that they  *)
(* were given, whatever address and length a program passes.                 *)
THEOREM PointersInBounds == USpec => []UTypeOK
  <1>1. UInv => UTypeOK
    BY Promises
  <1> QED BY <1>1, UaccessSafety, PTL

(* copyin(), copyout() and fetchaddr() move exactly the bytes that the       *)
(* program may pass, page by page, and succeed exactly when it may pass all. *)
THEOREM CopiesExact == USpec => []CopyExact
  <1>1. UInv => CopyExact
    BY Promises
  <1> QED BY <1>1, UaccessSafety, PTL

(* copyinstr() gives the kernel exactly the string that the program has      *)
(* there, and fails exactly when there is none that it may read.             *)
THEOREM StringsExact == USpec => []StringExact
  <1>1. UInv => StringExact
    BY Promises
  <1> QED BY <1>1, UaccessSafety, PTL

(* Every reachable state satisfies the invariant of the line's meaning. *)
THEOREM LineSafety == USpec => []MeantInv
  <1>1. UInit => MeantInv
    <2>1. ASSUME UInit PROVE GetsInv /\ ParseInv /\ WordInv
      <3>1. pc = "getcmd" /\ line = <<>> /\ nth = 1 /\ word = 0
        BY <2>1 DEF UInit, LInit
      <3>2. line \in Seq(Char) /\ Len(line) <= NBUF - 1
        BY <3>1, LineAssumption
      <3> QED BY <3>1, <3>2 DEF GetsInv, ParseInv, WordInv
    <2> QED BY <2>1 DEF MeantInv
  <1>2. UInv /\ MeantInv /\ [UNext]_uvars => MeantInv'
    BY MeantInvStep
  <1> QED BY <1>1, <1>2, UaccessSafety, PTL DEF USpec

(* The words and the files that runcmd() has when it calls exec() are those  *)
(* of the command as it was typed, for every line and every size of the      *)
(* buffer, gets() cuts the line where it says, and only a command with at    *)
(* least MAXARGS words leaves argv[].                                        *)
THEOREM LinesParsed == USpec => []ParsedRight
  <1>1. UInv /\ MeantInv => ParsedRight
    BY RightlyParsed
  <1> QED BY <1>1, UaccessSafety, LineSafety, PTL

(* exec() gets every word of argv as it was typed, through the buffer of     *)
(* the shell, parseline() and the pages that copyinstr() reads.              *)
THEOREM WordsArrive == USpec => []WordArrives
  <1>1. UInv /\ MeantInv => WordArrives
    BY ArrivesWhole
  <1> QED BY <1>1, UaccessSafety, LineSafety, PTL
=============================================================================
