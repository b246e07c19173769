# A TLA+ verification of oscraft

The repository holds three course projects on xv6-riscv:

* `Proyecto1` - a shell in user space (`sh.c`, `parser.c`, `commands.c`);
* `Proyecto2` - a kernel with two new system calls, `trace()` and `sysinfo()`
  (`syscall.c`, `sysproc.c`, `proc.c`, `kalloc.c`);
* `Proyecto3` - a kernel with a read-only USYSCALL page, `vmprint()` and
  `pgaccess()` (`proc.c`, `vm.c`, `sysproc.c`).

Both kernels use a process table with the two-step `sleep_prepare()`/`sleep()`
protocol.  `Proyecto2/kernel/proc.c` and `Proyecto3/kernel/proc.c` are the same
program but for the USYSCALL page and its address limit (P3), `traced_syscall`
and `get_runnable_count()` (P2), and the rejection of pid 0 in `kkill()` (P3).
The modules follow the P3 text where both have it.  Files that the repository
builds against but does not contain (`trap.c`, `spinlock.c`, `exec.c`, the file
system, `init`) are external: they appear only as the code here uses them.

## Inventory

| Component | State | Operations | Interacts through |
|---|---|---|---|
| Process table (`proc.c`, `sysproc.c`) | `proc[]` (state, chan, killed, xstate, pid, parent), `nextpid`, `wait_lock`, `tickslock`, `c->proc` | fork, exit, wait, kill, pause, sleep/wakeup, yield, scheduler | shared table, spinlocks, wakeups, the clock interrupt |
| Address spaces (`vm.c`, `proc.c`) | three-level page tables, `p->sz`, trapframe and USYSCALL pages | allocproc, proc_pagetable, uvmcopy, uvmalloc/uvmdealloc, vmfault, copyout/copyin, freeproc | the free list; fork copies one space into another |
| Page allocator (`kalloc.c`) | linked free list, `kmem.lock` | kalloc, kfree, get_free_memory | every CPU |
| `sysinfo()` | none of its own | get_runnable_count, get_free_memory, copyout | reads the table and the list while they change |
| `trace()` and dispatch (`syscall.c`) | `p->traced_syscall` | syscall, sys_trace, freeproc | process creation and reuse of slots |
| `pgaccess()` (`sysproc.c`) | the `PTE_A` bits | sys_pgaccess | hardware, fork, sbrk |
| Shell (`sh.c`, `commands.c`) | descriptors, pipes, child processes | getcmd, execline, runcmd | fork/exec/pipe/dup/wait |
| Command line (`sh.c`, `parser.c`, `gets()` of `ulib.c`) | the line buffer, `argv[]`, the file names | getcmd, gets, findpipe, parseline | all work in the one buffer; exec() and open() read it |
| User memory (`syscall.c`, `vm.c`) | the pages of the caller | fetchaddr, fetchstr, argstr, copyin, copyinstr, copyout | every system call that is given a pointer |
| `vmprint()` | none of its own | vmprint, vmprint_nivel | reads a page table |
| rest of `ulib.c`, `procdump()`, boot code | - | strings, printing, boot | - |

What is hard here: threads on several CPUs interleave at every point where no
lock is held; `sleep()` has no condition lock, so a wakeup can come before the
sleep; loops over `proc[]` see each slot at another instant; slots are reused;
memory can run out at every allocation; a copy to or from a program crosses pages
of which any may be missing, promised or read-only; the parser ends strings by
writing into the text it still reads; the system calls of a pipeline's
processes run in any order and end of file depends on every copy of a
descriptor.  `PROJECT.json` lists these hazards at their lines, with the
properties that cover them.

What makes each part correct: no lost wakeup, every zombie reaped by its parent
or by init, only the target of `kill()` killed, fork, exit and wait atomic to
everybody else (process table); every page owned
exactly once and clean when it changes owner (address spaces); the list behaves
as a set (allocator); reports are true (`sysinfo`, `trace`, `pgaccess`);
commands get the right descriptors and the prompt comes back (shell); the kernel
gets the words that were typed (command line, user memory).

## Modules

* **Proc** - the process table.  A section under `p->lock` runs with interrupts
  off and touches one slot, so it is one step; `wait_lock` and `tickslock`, which
  span several such sections, are variables; each loop over `proc[]` is one step
  per slot.  `pc[p]` says where the kernel thread of `p` is.  An action has the
  name of its function, with a suffix for the part of it (`kwait_scan`,
  `kwait_check`, `kwait_prepare`, `kwait_sleep`).  `acquire()` spins with
  interrupts off (`Spinning`), so such a thread is not preempted.  The clock
  interrupt is an actor of its own, which allows more interleavings than a
  handler tied to a CPU.  `RejectsPidZero` is the one difference between the two
  kernels.  Open files and the working directory are left out.
* **ProcInv** - the inductive invariant of Proc; **ProcProofs** - its theorems.
* **Tree** - what fork, exit and wait promise to programs: a tree of processes that
  changes in single steps.  **ProcTree** maps the table to it: fork takes effect
  when the child becomes RUNNABLE, wait when the zombie is freed, and exit when
  `kexit()` gets `wait_lock`; from then on its children count as init's, although
  `reparent()` reaches them one by one; **ProcProofs** proves it.
* **Vm** - physical pages, page tables with their directory pages, lazy and eager
  heaps, USYSCALL, TRAPFRAME and TRAMPOLINE pages, fork, faults, copies and the
  undoing of each partial failure.  Every allocation may fail, since the number
  of pages is a constant.  Page contents are tags (junk, zeroes, a pid, "written
  for process n").  `exec()` is external: init starts with a text and a guard page,
  and forks again only when its last child is gone, as `init.c` does.
  Which free page `kalloc()` returns does not matter here and is fixed.
  **VmInv** - its inductive invariant; **VmProofs** - its theorems.
* **Vmprint** - extends Vm with what `vmprint()` prints: the valid entries of the
  three levels in the order of the recursion, compared with what the table maps.
  It changes nothing, so it is an operator and its property an invariant of Vm.
* **FreePages**, **Kalloc** - what the allocator promises, and the list with every
  load and store a step.  `Kalloc` implements `FreePages` under the mapping from
  the list to the set of its pages; **KallocProofs** proves it.
* **Sysinfo** - extends Proc with the call `sysinfo()`, one in progress at a time;
  free memory is a number that others change.  **SysinfoProofs**.
* **Trace** - dispatch, `sys_trace()` and reports, with programs that make any
  call at any time (`trace.c` is one of them).  The table has eight of the
  twenty-four calls, at least one of each kind.  fork, exit, wait and kill are
  one step each here.  The name a process asked for is compared when the call
  has returned, as the code does; a process that monitors `trace` and asks for
  another name is therefore not reported for that call.  **TraceProofs**.
* **Pgaccess** - `PTE_A` bits, fork, sbrk and the two passes of `sys_pgaccess()`,
  with wrapping addresses.  The trampoline flushes the TLB at every return to user
  mode, so stale translations cannot hide an access and there is no TLB in the
  model; the call is one step because a process has one thread.
  **PgaccessProofs**.
* **Shell** - `main()`, `execline()` and `runcmd()`, one system call per step, with
  failing fork, pipe, open and exec.  After a failed `pipe()` the array `fd[]` is
  uninitialised; its possible values are invalid descriptors and the standard
  ones (`Garbage`).  A command is a record.  `runcmd()` opens the file of `>` with
  `O_WRONLY | O_CREATE` and no `O_TRUNC`, so the file may hold anything before
  (`old`, one of `OldFiles`), `write()` overwrites it from its start (`Put`), and
  `disk` is what it holds then.  Commands of one line read and write different files.
  **ShellInv** - its inductive invariants; **ShellProofs** - its theorems.
* **Line** - one command line from the keyboard to `argv`: `getcmd()` and `gets()`,
  the test for "exit", `findpipe()` in the processes that `execline()` forks, and
  `parseline()`, one step per word, all on one buffer.  A process has its own copy
  of the buffer after fork, so one process at a time is followed and a fork is a
  choice.  The reference (`Read`, one character at a time with `Lex`) reads the
  typed line from left to right and knows no buffer.  `MAXARGS` is chosen small when `runcmd()` starts, so that
  `argv[]` runs full; what happens after a store outside of it is undefined and
  the process stops there (`overrun`), which ArgvHolds finds.
* **Uaccess** - extends Line with the kernel's side: `argstr()` on the words that
  Line left in the buffer, and any other program that passes any address and
  length to `fetchstr()`, `fetchaddr()`, `copyin()` and `copyout()`.  One step
  copies what is wanted of one page.  The pages are those of a process: text, data,
  guard, stack, a promised heap page, a hole and USYSCALL.  Memory may run out at
  every fault.  The same loops are one step each in Vm, where page contents are
  tags.  **UaccessInv** - the inductive invariant of Line and Uaccess;
  **UaccessProofs** - their theorems.
* **MCProc, MCVm, MCKalloc, MCSysinfo, MCShell, MCLine** - model values and constant
  definitions for TLC.  Trace and Pgaccess need none.

## Runs

| Run | Question | Bounds |
|---|---|---|
| `proc_table` | fork, exit, wait and kill: lost wakeups, orphans, consistent scans, reuse of slots; the table implements the tree | 3 slots, 4 pids, 2 CPUs, kill() of 0, 2 and 3 |
| `proc_live` | waits return, who exits under init is reaped, no lost tick, pauses end, a killed sleeper dies | 3 slots, 3 pids, 1 CPU, one program a pid (below), pauses of -1 and 1, fair |
| `proc_kill_zero` | *violation*: kill(0) in P2 | 2 slots |
| `vm_memory` | pages through fork, sbrk, faults and exit when memory runs out anywhere; the heap, guard and USYSCALL pages; what vmprint() prints | 3 slots, 3 pids, 24 to 31 pages, 12-page space, increments of -5 and 5 |
| `kalloc_list` | list sound, refinement of FreePages | 4 pages, 2 CPUs |
| `sysinfo_report` | the report is regular | 3 slots, 3 pids, 2 CPUs, 2 pages |
| `trace_report` | reports are exact under reuse of slots | 2 slots, 3 pids |
| `pgaccess_mask` | masks exact, no panic | 2 processes, 3 pages, aligned and unaligned bases up to 2^w - PGSIZE |
| `pgaccess_own` | *violation*: a child reports its parent's accesses | 2 processes, 3 pages |
| `shell_lines` | redirections, to files that held nothing, less or more than the output; every failure; long pipelines with early stops | lines of 1 and 2 commands that may fail, of 3 and 4 that do not; pipes of 1 item, files of 2 items to read, of 0, 1 or 3 to overwrite |
| `line_exec` | words, files and pipes of every short line, as exec() gets them; every copy of every address and length | buffer of 6, 7 keys of 7 kinds, `argv[]` of 2 and 3, 8 pages of 5 bytes, lengths up to 11 |
| `line_argv` | *violation*: a command of exactly MAXARGS words | as `line_exec` |

The type invariants of Kalloc, Sysinfo, Shell and Pgaccess are conjuncts of the
invariants that rest on them, `LTypeOK` is one of `UTypeOK` and `LineCut` one of
`ParsedRight`; `LockDiscipline` and `PidUnique` are proved and need no run.

Why the bounds are enough for the interesting cases: three slots allow a
grandparent, a parent and a child that exit in any order, plus the reuse of a
slot (more pids than slots), and the theorems do not depend on their number; two CPUs make every pair of threads run at the same
time; the kernel holds between none and seven of 31 pages (`HeldPages`), so that fork and
sbrk run out of memory at each of their allocations; pipes of one item block a writer at once; four
commands give two processes that hold a read end while they wait; a buffer of six
holds two words or a word with a file on each side of a pipe, seven keys overflow
it and leave a second line, and lengths of eleven cross two page boundaries.  In
`line_exec` "exit" is a word of two letters, and there is no deadlock check because
processes end.  `MaxPid`,
`Fallible` (the lines during which calls may fail), `NITEMS`, `PIPESIZE`, `OldFiles`, the argument sets and the page numbers are the bounds, each
a named constant.  The layout of Vm (`FAN` = 3 entries a table, 12 pages) puts
the three fixed pages under one last-level table, apart from the text, as in Sv39.

In `proc_live` init starts a shell and waits for ever, the shell (pid 2) forks, waits
and pauses, its child (pid 3) kills it, and both may end by a fault (`Programs` of
MCProc): a parent killed in its `pause()` or `wait()`, a child left to init before or
after it exits, and every fork that fails.  With all programs free, as in `proc_table`, the
graph is too large for the liveness check.  One CPU is no restriction to the races of
`pause()` with the clock, which is no process of a CPU, and a thread that holds no
spinlock may be taken from the CPU between any two steps; a `kill()` that falls between
the test of `killed` and the release of `tickslock` needs a second CPU and is not in
the run.  NoLostTick is proved for any number of CPUs.

Fairness.  In Proc a thread in the kernel takes its next step, the timer now and then
reaches a thread that holds no spinlock, `scheduler()` goes round the table, a spinlock that
is free again and again is won, and the clock ticks; these are strong fairness
because `amoswap` spinlocks and the round over the table promise no less on the
hardware the code targets.  The init program calls `wait(0)` for ever, as a step of its
own thread (`GoesOn`).  Other programs are never assumed to do anything.
Shell assumes weak fairness of each process, which Proc's scheduler provides;
the user at the prompt owes nothing.

## What the violations show

* `kill(0)` of P2 sets `killed` in a free slot and ends the next process there.
* The first `pgaccess()` of a child reports what its parent had accessed.
* A command with as many words as `argv[]` has entries, the maximum that `parser.h`
  documents, makes `parseline()` store its null pointer behind `argv[]`; of a longer
  one words are stored there too.  No shorter command does it (a part of ParsedRight).

What the models show besides, and no run is about:

* `kill(1)` makes init exit and panics the kernel (theorem Panicless excludes it).
* A process killed between `killed(p)` and `sleep()` in `kwait()` sleeps on until a
  child exits; SleeperHasChild says that there is such a child.
* `cmd > file` leaves the tail of a file that was longer than the output, because
  `runcmd()` does not truncate it; LineComputes says what exactly the file holds.
* `copyout()` that fails has written the pages before the bad one (CopyExact).
* `sbrk(-n)` with `n` larger than the process is accepted and does nothing.
* `get_runnable_count()` locks one slot at a time, so its result may be the count
  of no instant; what does hold is ReportRegular.
* `syscall()` reports after the call has returned, so a monitored `exit()` is never
  reported; and `trace.c` kills itself before its `uptime()`, so `trace uptime`
  reports nothing.

## What is proved

`ProcProofs` proves, with TLAPS and for every number of slots, CPUs, pids and
every workload, from `ProcAssumption` alone:

* `TypeCorrect` - TypeOK, which is inductive by itself;
* `LocksHeldRunning`, `ParentsAlive`, `WakeupsNotLost`, `WaitSeesAll`,
  `ZombiesReapedByParent` - safety properties of `proc_table`;
* `SlotsFresh` (FreshSlot and PidUnique) - when `RejectsPidZero`; `proc_kill_zero`
  shows why this is needed;
* `Panicless` (NoPanic) - when 1 is not a target of `kill()`.

In the same generality it proves `OneProcessPerCpu` (OneCpuEach),
`TicksNotLost` (NoLostTick), `TargetsOnly` (OnlyTargetsKilled, when
`RejectsPidZero` and nobody ends by a fault, which sets `killed` without a
`kill()`), `SleepersHaveChildren` (SleeperHasChild) and
`TableImplementsTree`: Proc implements Tree under the mapping of ProcTree.

None of these properties is inductive.  The invariant (`ProcInv`) adds what the
threads in between know: `ControlInv` ties `state` to `pc` and each lock to its
holder; `Counters` says where a loop that is not running stands; `ParentInv` says
how far `reparent()` has got, so that the slots behind it are not children of the
exiting process; `WakeupInv` is the core of the sleep protocol: a thread that
sleeps in `kwait()`, or will without a further wakeup (`Blocked`), has no zombie
child, except init while `reparent()` is on its way to wake it, and an exiting
child that has passed its parent's slot in `wakeup()` finds it not blocked;
`WaitScan` says that what the scan saw still holds, which needs `wait_lock`.
`FamilyInv` adds that a USED slot with a parent is the one its parent is creating,
and that whoever is blocked in `kwait()` has a child: reparenting can only add
children to a blocked process, and only its own `kwait()` takes one away.
`TickInv` says that a thread in `pause()`, from `sleep_prepare()` on, has ticks
left or is still ahead of the clock interrupt; `KillInv` that a running `kkill()`
looks for a pid it was given.

The refinement has four steps that are not stutters of a simple kind:
`kfork_runnable` is Fork (its parent is the caller by `EmbryoParent`),
`kexit_acquire` is Exit (nobody else is exiting, because `wait_lock` was free),
`kwait_reap` is Wait, and `kexit_zombie` changes nothing because `OrphanScan` says
that no child is left and the status was already visible.  Every other action
keeps each node of the tree, `reparent` included: a child that it gives to init
was already init's in the tree.
Each induction step has one step per action; "quiet" lemmas cover the actions
that leave an invariant's variables alone.

The other theorem modules hold for every value of their constants as well.

* `KallocProofs`, from `KallocAssumption` (there is a page): `ListsSound` (ListSound)
  and `ListImplementsFreePages`.  The pages on the list are the least set that holds
  its head and is closed under the links (`Reach`), so the lemmas about a list whose
  head is pushed or popped follow from that minimality and need no induction over
  the list; only the list that `kinit()` leaves is found by the least-number
  principle.  `ListInv` says that one CPU is in the critical section (`LockInv`),
  every page is on the list or with one CPU (`Places`), the list is proper
  (`Proper`), and what the CPU in the critical section has read is still true
  (`Locals`): pages counted plus pages ahead is the length of the list.
* `PgaccessProofs`, from `PgaccessAssumption`: `MasksExact` (MaskExact) and
  `WalkInRange` (NoPanic).  The latter needs a word that holds twice the address
  space and `MAXPAGES` pages, which 64 bits do.  `MaskInv` says that a set `PTE_A`
  is an access by the process since it last got a mask or one inherited at fork,
  and that a free slot has no history.
* `TraceProofs`, from `TraceAssumption`: `ReportsExact` (ReportExact).  `TraceInv`
  says that pids differ and that `p->traced_syscall` stands for what the process
  with that pid asked, and is clear in a free slot; pids not yet given have asked
  nothing.
* `SysinfoProofs`, from `ProcAssumption` and `SysinfoAssumption`: `ReportsRegular`
  (ReportRegular).  `ReportInv` says that the slots counted so far are a set between
  those that were RUNNABLE all the time and those that were at some time.

* `VmProofs`, from `VmAssumption`: `NoPageLost` (PagesAccounted), `NeverPanics`
  (NoPanic), `OwnDataOnly` (NoForeignData), `BelowItsSize` (MappedBelowSz),
  `OwnPidAtUsyscall` (UsyscallTrue), `TypeCorrect` (TypeOK) and `ChildIsACopy`
  (ForkCopies), all from `VmSafety`, the invariant of VmInv.  The assumption says
  that there are pages for init, that the address space needs three levels and its
  three fixed pages share one page of last-level entries, as in Sv39, that a word
  holds twice the address space, and that a size plus an argument of `sbrk()`, an
  `int`, does not wrap.
  `Accounted` says that the places of the kernel which hold the address of a page
  (`Loc`, `Ref`), the free list and the kernel's own pages share no page and
  together have all of them.  `TableInv` says that `walk()` finds every page-table
  page.  `HeapInv` bounds what is mapped by the size or, in `uvmalloc()`, by how far
  it has got (`Top`): between two of its steps pages are mapped at and above the
  size, and only its undoing or the new size makes them legal again.  A slot that
  `kfork()` is filling has one owner (`ForkInv`), and `Progress` and `Copied` say how
  much of it exists at each step, which is what the clean-up of a failed step relies
  on: `freeproc()` of a table without all three fixed pages would panic.
  `ChildIsACopy` needs that the parent's pages do not change during the copy: they
  are its own by `Accounted`, and it is in `kfork()`.  The proof has a lemma per
  action; frame lemmas (`Assemble`, `OwnStep`, `ForkStep`) reduce an action to the
  slots that it touches, and `PageTaken` and `GiveBack` say what an allocation and a
  release do to the account.

* `ShellProofs`, from `ShellAssumption` (lines are bounded): `EveryProgramWired`
  (Wired), `PromptsAlone` (PromptAlone) and `LinesCompute` (LineComputes), from
  `ShellSafety`, `ItemsAccounted` and `FilesAccounted`, the three invariants of ShellInv.
  `Family` says that whoever exists has ancestors that are still to wait
  for it, up to the shell, and that `execline()` has at most one child after its
  first `wait()`; it speaks of all earlier stages, not only of the parent, so that
  no induction along the line is needed.  `Wiring` gives the five descriptors call
  by call when nothing has failed, with 3 and 4 for `pipe()`.  `Spare` is what is left
  of it after a failure: `fd[]` may be garbage and standard descriptors missing, but
  3 and 4 can only hold what `fd[]` names, so that both are free again for the next
  `pipe()` or `open()`.
  `FlowInv` is about the items, as long as nothing has failed.  A process that was
  reaped leaves no trace, so `Flows` says that there is a set of commands that have
  ended (`Ended`: the place of each parent tells "not started" from "reaped") and
  numbers of items that each has put out and that were taken out of each pipe
  (`Flow`), which agree with every buffer, hand and file.  A command has ended only
  with all of its output written, or when nobody could read it any more: end of file
  is reported when no process holds the write end (`NoWriters`), an error when none
  holds the read end (`NoReaders`), and both need `Wiring` of every process that may
  have inherited one.  `FilesInv` says that a file holds what was written to it so far
  over what it held before the line (`Over`); `PutOver` is the step of it.  `Output` is recursive along the line; that it satisfies its
  own equation is shown by the least-number principle.

* `UaccessProofs`, from `LineAssumption`, `CharAssumption` and `UaccessAssumption`
  (the buffer lies in the data pages, a word holds the address space):
  `PointersInBounds` (UTypeOK), `CopiesExact` (CopyExact) and `StringsExact`
  (StringExact), for every size of the buffer, of a page, of a word and of what is
  copied; the layout of the eight pages is fixed.  `LineInv` says that the last byte
  of the line buffer is a NUL at all times, so that each search of the shell ends
  in the buffer and what follows an arrow or a bar is still in it.  `CopyInv` says how
  far a copy has got: the bytes moved are what the program had there, all of them
  allowed, and while bytes are left `va` is where the last chunk ended.  That last
  part needs the wrapping arithmetic: a page that may be used ends below `MAXVA`, so
  the start of the next one does not wrap.  `fetchaddr()` compares a sum that may wrap;
  no pointer gets through because of that.

  `LinesParsed` (ParsedRight) and `WordsArrive` (WordArrives) are about what a line means, for every line, alphabet, buffer and
  `MAXARGS`, from a second invariant, `MeantInv`.  `GetsInv` follows the line into
  the buffer up to `findpipe()`, which cuts exactly where the reference starts the
  next command (`CommandEnd`).  `ParseInv` relates `parseline()` at position `i` to what
  the reference has read of the first `i` characters: it stops only where the
  reference starts something new (`AtBreak`), what lies ahead is still as typed
  (`Rest`), and every word or name found so far is in the buffer (`Kept`), where
  only the last one may lack its NUL, and only until the next step writes it.  That exception
  is needed: a word next to an arrow ends when the arrow is overwritten, and a name
  next to the end of the command ends with the NUL of `findpipe()`.  One step of `parseline()` is many
  of the reference, so the run lemmas (`ReadBlanks`, `ReadSpaces`, `ReadWord`,
  `ReadIn`, `ReadOut`) go along the characters by `RangeInduction`, which is the
  least-number principle on a set; `ReadUnfolds` shows with it that the recursive
  `Read` satisfies its equation.  `WordInv` says that the kernel copies a word from
  mapped pages, so that `copyinstr()` meets its NUL before it can fault.

Only model-checked: Vmprint (what a walk over nested sequences prints) and all
liveness, which is out of the prover's reach, as are ENABLED and the induction
theorems of the library (`Output` and `Read` are recursive over numbers, where the
least-number principle is enough).

## Not modelled

* The kernel page table (`kvmmake()`, `kvmmap()`, `kvminithart()`): built once at
  boot, a constant afterwards.
* `procdump()`, which prints without locks on purpose; `forkret()`, `mycpu()`,
  `myproc()` and `proc_mapstacks()`: boot code and constants of a CPU.
* `uvmclear()` with `exec()`, whose source is not in the repository.
* Open files and the working directory in fork and exit: the file system is not in
  the repository.
* The rest of `ulib.c`: string and memory helpers without state.  `argraw()`,
  `argint()` and `argaddr()` read a register.
* Headers, Makefiles and `usys.pl`: no state.

## Plan

Done: Proc with its invariant and theorems, the tree that it implements, Vm with
Vmprint, Kalloc over FreePages, Sysinfo, Trace, Pgaccess, Shell, Line and Uaccess.
Theorems exist for Proc (with its tree), Vm, Kalloc, Sysinfo, Trace, Pgaccess,
Shell and Uaccess with Line.
Every safety property of a run that passes is a theorem, but for VmprintExact.
