------------------------------ MODULE Uaccess ------------------------------
(***************************************************************************)
(* How the kernel of Proyecto3 reads and writes the memory of a program:   *)
(* fetchaddr(), fetchstr() and argstr() of syscall.c and the page by page  *)
(* loops of copyin(), copyinstr() and copyout() of vm.c, which fault in a  *)
(* page that sbrk() promised.                                              *)
(*                                                                         *)
(* The program is a child of the shell (Line), which passes to the kernel  *)
(* the strings that parseline() left in its buffer; at the prompt it may   *)
(* be any other program, with any address and any length.                  *)
(***************************************************************************)
EXTENDS Line

CONSTANTS
  PGSIZE,     \* bytes in a page
  WORD,       \* uint64 arithmetic is modulo this
  BUF,        \* the address of buf
  MaxLen,     \* bound on the lengths that are passed
  MaxStr,     \* the sizes of the buffers that argstr() fills
  SIZEOF      \* sizeof(uint64)

(* The pages of the program: text, data, the guard page, the stack, a heap   *)
(* page that was not touched yet, a page beyond p->sz and USYSCALL.          *)
Layout ==
  << {"R", "X", "U"}, {"R", "W", "U"}, {"R", "W", "U"}, {"R", "W"}, {"R", "W", "U"},
     {}, {}, {"R", "U"} >>

NPG   == Len(Layout)
MAXVA == NPG * PGSIZE
psz   == 5 * PGSIZE + 1          \* p->sz ends inside the heap page
Addr  == 0..(MAXVA - 1)
UserByte   == "user"
KernelByte == "kernel"

ASSUME UaccessAssumption ==
  /\ PGSIZE \in Nat \ {0, 1}
  /\ WORD \in Nat /\ WORD > MAXVA /\ WORD % PGSIZE = 0
  /\ BUF \in Nat /\ PGSIZE <= BUF /\ BUF + NBUF <= 3 * PGSIZE   \* in the data pages
  /\ MaxLen \in Nat /\ MaxStr \subseteq Nat \ {0} /\ SIZEOF \in Nat \ {0}

VARIABLES
  faulted,  \* the pages that vmfault() has mapped
  stored,   \* the addresses that copyout() has stored to
  op,       \* the function of the kernel that copies
  va, left, \* its srcva or dstva, and its max or len
  kbuf,     \* the bytes that reached the buffer of the kernel
  ret,      \* what it returned
  \* history: the arguments, which word of the command they name (or 0), and
  \* whether there was no memory
  addr, len, word, nomem

user  == <<faulted, stored>>
args  == <<addr, len, word>>
uvars == <<lvars, faulted, stored, op, va, left, kbuf, ret, addr, len, word, nomem>>

Busy == -2                       \* ret while the call runs

(* The page of an address, its PTE flags, what the program put there and     *)
(* what is there.                                                            *)
PageOf(a)  == (a \div PGSIZE) + 1
Flags(a)   == IF PageOf(a) \in faulted THEN {"R", "W", "U"} ELSE Layout[PageOf(a)]
InBuf(a)   == a \in BUF..(BUF + NBUF - 1)
Had(a)     == CASE InBuf(a) -> buf[a - BUF]
                [] ~InBuf(a) /\ Layout[PageOf(a)] = {} -> NUL
                [] OTHER -> UserByte
Byte(a)    == IF a \in stored THEN KernelByte ELSE Had(a)

UInit ==
  /\ LInit
  /\ faulted = {} /\ stored = {}
  /\ op = "none" /\ va = 0 /\ left = 0 /\ kbuf = <<>> /\ ret = Busy
  /\ addr = 0 /\ len = 0 /\ word = 0 /\ nomem = FALSE

-----------------------------------------------------------------------------
(* System calls that are given an address. *)

(* The function f is called with address a and length n; r is Busy unless it *)
(* returns at once.                                                          *)
Call(f, a, n, w, r) ==
  /\ pc' = "kernel"
  /\ op' = f /\ va' = a /\ left' = n /\ kbuf' = <<>> /\ ret' = r
  /\ addr' = a /\ len' = n /\ word' = w
  /\ UNCHANGED <<buf, i, cmdline, parse, typed, line, nth, user, nomem>>

(* exec() of runcmd() passes a word of the command to argstr(), which has a  *)
(* buffer of size max for it.                                                *)
argstr(k, max) ==
  /\ pc = "exec"
  /\ k \in DOMAIN argv
  /\ Call("copyinstr", BUF + argv[k], max, k, Busy)

OtherProgram == pc = "getcmd" /\ typed = 0

fetchstr(a, max) == OtherProgram /\ Call("copyinstr", a, max, 0, Busy)

either_copyin(a, n) == OtherProgram /\ Call("copyin", a, n, 0, Busy)

either_copyout(a, n) == OtherProgram /\ Call("copyout", a, n, 0, Busy)

\* Mutant: only the first byte is compared with p->sz.
fetchaddr_first(a) ==
  /\ OtherProgram
  /\ Call("fetchaddr", a, SIZEOF, 0, IF a >= psz THEN -1 ELSE Busy)

(* A pointer that is not below p->sz is refused, also when the addition      *)
(* wraps around.                                                             *)
fetchaddr(a) ==
  /\ OtherProgram
  /\ Call("fetchaddr", a, SIZEOF, 0,
          IF a >= psz \/ (a + SIZEOF) % WORD > psz THEN -1 ELSE Busy)

-----------------------------------------------------------------------------
(* One page of a copy. *)

Copying(F) == pc = "kernel" /\ op \in F /\ ret = Busy

(* walkaddr() finds the page; or vmfault() may allocate it. *)
walkaddr(a) == a < MAXVA /\ "U" \in Flags(a)
ismapped(a) == a < MAXVA /\ Flags(a) # {}
Promised(a) == (a \div PGSIZE) * PGSIZE < psz /\ ~ismapped(a)

GetPage ==
  \/ walkaddr(va) /\ UNCHANGED faulted
  \/ ~walkaddr(va) /\ Promised(va) /\ faulted' = faulted \cup {PageOf(va)}

(* How many bytes of this page are wanted, and which. *)
Chunk == Min({PGSIZE - (va % PGSIZE), left})
Bytes(n) == [j \in 1..n |-> Byte(va + j - 1)]

\* Mutant: the next page is not read from its start.
NextPage_keeps(n) ==
  /\ left' = left - n
  /\ va' = (va + PGSIZE) % WORD

(* Go on with the next page. *)
NextPage(n) ==
  /\ left' = left - n
  /\ va' = (PageOf(va) * PGSIZE) % WORD

(* return -1: there is no page at va, or no memory for it. *)
copy_fault ==
  /\ Copying({"copyin", "fetchaddr", "copyinstr", "copyout"}) /\ left > 0
  /\ ~walkaddr(va)
  /\ ret' = -1
  /\ nomem' = Promised(va)
  /\ UNCHANGED <<lvars, user, op, va, left, kbuf, args>>

copyin_page ==
  /\ Copying({"copyin", "fetchaddr"}) /\ left > 0
  /\ GetPage
  /\ kbuf' = kbuf \o Bytes(Chunk)
  /\ NextPage(Chunk)
  /\ UNCHANGED <<lvars, stored, op, ret, args, nomem>>

(* The loop of copyin() and copyout() has ended. *)
copy_done ==
  /\ Copying({"copyin", "fetchaddr", "copyout"}) /\ left = 0
  /\ ret' = 0
  /\ UNCHANGED <<lvars, user, op, va, left, kbuf, args, nomem>>

(* A page that walkaddr() found must have PTE_W; one that vmfault() maps has. *)
CanWrite(a) == walkaddr(a) /\ "W" \in Flags(a)

copyout_page ==
  /\ Copying({"copyout"}) /\ left > 0
  /\ GetPage
  /\ IF CanWrite(va) \/ Promised(va)
     THEN /\ stored' = stored \cup va..(va + Chunk - 1)
          /\ NextPage(Chunk)
          /\ UNCHANGED ret
     ELSE ret' = -1 /\ UNCHANGED <<stored, va, left>>
  /\ UNCHANGED <<lvars, op, kbuf, args, nomem>>

(* External, string.c *)
strlen(s) == Min({k \in DOMAIN s : s[k] = NUL}) - 1

\* Mutant: the rest of max is not compared with the rest of the page.
copyinstr_page_whole ==
  /\ Copying({"copyinstr"}) /\ left > 0
  /\ GetPage
  /\ LET chunk == Bytes(PGSIZE - (va % PGSIZE))
         nuls == {k \in DOMAIN chunk : chunk[k] = NUL}
     IN IF nuls = {}
        THEN /\ kbuf' = kbuf \o chunk
             /\ left' = IF left > Len(chunk) THEN left - Len(chunk) ELSE 0
             /\ va' = (PageOf(va) * PGSIZE) % WORD
             /\ UNCHANGED ret
        ELSE /\ kbuf' = kbuf \o SubSeq(chunk, 1, Min(nuls))
             /\ ret' = strlen(kbuf')
             /\ UNCHANGED <<left, va>>
  /\ UNCHANGED <<lvars, stored, op, args, nomem>>

(* copyinstr() copies the page up to its first NUL, if it has one. *)
copyinstr_page ==
  /\ Copying({"copyinstr"}) /\ left > 0
  /\ GetPage
  /\ LET chunk == Bytes(Chunk)
         nuls == {k \in DOMAIN chunk : chunk[k] = NUL}
     IN IF nuls = {}
        THEN /\ kbuf' = kbuf \o chunk
             /\ NextPage(Chunk)
             /\ UNCHANGED ret
        ELSE /\ kbuf' = kbuf \o SubSeq(chunk, 1, Min(nuls))
             /\ ret' = strlen(kbuf')
             /\ UNCHANGED <<left, va>>
  /\ UNCHANGED <<lvars, stored, op, args, nomem>>

(* No NUL among the first max bytes. *)
copyinstr_long ==
  /\ Copying({"copyinstr"}) /\ left = 0
  /\ ret' = -1
  /\ UNCHANGED <<lvars, user, op, va, left, kbuf, args, nomem>>

-----------------------------------------------------------------------------
Syscall ==
  \/ \E k \in 1..NBUF, max \in MaxStr : argstr(k, max)
  \/ \E a \in 0..(WORD - 1) :
       \/ fetchaddr(a)
       \/ \E n \in 0..MaxLen : fetchstr(a, n) \/ either_copyin(a, n) \/ either_copyout(a, n)

Kernel ==
  \/ copy_fault \/ copyin_page \/ copyout_page \/ copy_done
  \/ copyinstr_page \/ copyinstr_long

UNext ==
  \/ LNext /\ UNCHANGED <<user, op, va, left, kbuf, ret, args, nomem>>
  \/ Syscall
  \/ Kernel

USpec == UInit /\ [][UNext]_uvars

-----------------------------------------------------------------------------
(* Whether the kernel may read, or write, a byte for the program: the page   *)
(* is the program's, or sbrk() has promised it.                              *)
Allowed(a, write) ==
  /\ a < MAXVA
  /\ LET f == Layout[PageOf(a)] IN
     \/ "U" \in f /\ (write => "W" \in f)
     \/ f = {} /\ (a \div PGSIZE) * PGSIZE < psz

(* How much of n bytes at a is allowed. *)
Extent(a, n, write) == Max({m \in 0..n : \A j \in 0..(m - 1) : Allowed(a + j, write)})

(* The n bytes that the program put there. *)
HadAt(a, n) == [j \in 1..n |-> Had(a + j - 1)]

Returned(F) == pc = "kernel" /\ op \in F /\ ret # Busy

(* The types; in particular every copy stays inside the buffer it was given. *)
UTypeOK ==
  /\ LTypeOK
  /\ faulted \subseteq 1..NPG
  /\ stored \subseteq Addr
  /\ va \in 0..(WORD - 1)
  /\ left \in 0..len
  /\ Len(kbuf) <= len
  /\ ret \in {Busy, -1} \cup 0..len

(* copyin() and copyout() succeed exactly when the program may use all the   *)
(* bytes (or memory ran out); a copy that fails has moved whole pages in     *)
(* order and has touched nothing else, and fetchaddr() accepts no pointer    *)
(* that is not below p->sz.                                                  *)
CopyExact ==
  Returned({"copyin", "fetchaddr", "copyout"}) =>
    LET n == Extent(addr, len, op = "copyout") IN
    /\ ret = 0 => n = len
    /\ ret = -1 => n < len \/ nomem \/ op = "fetchaddr"
    /\ op = "fetchaddr" => (ret = 0 <=> (addr + SIZEOF <= psz /\ n = len /\ ~nomem))
    /\ op # "copyout" => kbuf = HadAt(addr, Len(kbuf)) /\ (ret = 0 => Len(kbuf) = len)
    /\ stored = IF op = "copyout" THEN addr..(addr + len - left - 1) ELSE {}
    /\ \A a \in stored : Allowed(a, TRUE)

(* fetchstr() gives the kernel the string that the program has at the        *)
(* address, with its NUL and its length, across pages and in pages that were *)
(* never touched; it fails exactly when there is no NUL among the bytes that *)
(* fit and that the program may read (or memory ran out).                    *)
StringExact ==
  Returned({"copyinstr"}) =>
    LET ends == {k \in 0..(Extent(addr, len, FALSE) - 1) : Had(addr + k) = NUL} IN
    IF ends # {} /\ ~nomem
    THEN ret = Min(ends) /\ kbuf = HadAt(addr, ret + 1)
    ELSE ret = -1

(* From the keyboard to the kernel: exec() gets the words of the command as  *)
(* they were typed, or fails when a word is too long for it.                 *)
WordArrives ==
  Returned({"copyinstr"}) /\ word # 0 =>
    LET w == Asked.words[word] IN
    IF Len(w) < len THEN kbuf = Append(w, NUL) /\ ret = Len(w) ELSE ret = -1
=============================================================================
