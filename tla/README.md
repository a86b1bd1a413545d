# Verification of xv6

TLA+ models of the kernel and the user programs in `src/` (xv6 for x86, with
`mprotect()`, `munprotect()`, an unmapped page 0 and a process limit called
`vlimit`), the TLC configurations that check them on small instances, and TLAPS proofs about the
log, the process table, the scheduler and pipes. Every definition is translated
from the C code; `PROJECT.json` maps each of them to the lines it stands for, lists
the runs, the hazards they are aimed at and the theorems.

    tlc -workers 2 -config MCPipe.cfg MCPipe    # one run
    tlapm LogProofs.tla                         # one module of proofs

## 1. The system and its models

| part | source | modules | status |
|---|---|---|---|
| redo log | `log.c` | `Log`, `LogInv`, `AtomicDisk` | modelled, proved |
| process table, scheduler | `proc.c`, `sysproc.c`, `trap.c` | `Proc` | modelled, proved |
| spinlocks, context switch, sleep and wakeup | `spinlock.c`, `proc.c`, `swtch.S`, `trap.c` | `Sched` | modelled, proved |
| buffer cache, sleep-locks, disk driver | `bio.c`, `sleeplock.c`, `ide.c` | `Bcache` | modelled (device set-up left out) |
| pipes | `pipe.c` | `Pipe`, `ByteStream` | modelled, proved |
| inodes, directories, path names | `fs.c` | `Inode`, `Sysfile` | modelled |
| blocks of files, block allocator | `fs.c`, `file.c` | `FileData`, `FileStore` | modelled |
| file table, system calls on files | `file.c`, `sysfile.c` | `Sysfile`, `FileData` | modelled |
| pages, address spaces, memory of fork/exec/exit | `kalloc.c`, `vm.c`, `exec.c`, `proc.c` | `Vm` | without the contents of pages |
| file system image | `mkfs.c` | `FileData` (`mkfs`) | modelled |
| console, keyboard, serial line | `console.c`, `kbd.c`, `uart.c` | `Console`, `LineDiscipline` | input side |
| start of the processors | `main.c`, `mp.c`, `lapic.c`, `entryother.S` | `Startup` | without device set-up |
| real-time clock | `lapic.c` | `Clock` | modelled |
| shell, init, `cat`, `echo` | `sh.c`, `init.c`, `cat.c`, `echo.c` | `ShellParse`, `Shell` | without `cd` |
| user memory allocator | `umalloc.c` | `Umalloc` | modelled |
| string routines, `printf`, `cprintf`, `grep`, `wc`, `skipelem`, argument checks, boot loader | `string.c`, `ulib.c`, `printf.c`, `console.c`, `grep.c`, `wc.c`, `fs.c`, `syscall.c`, `bootmain.c` | `Library`, `LibraryCalls` | operators |
| trap entry, memory disk, tests | | | not modelled, section 8 |

How the parts meet. A system call of `Sysfile` runs between `begin_op()` and
`end_op()` of `Log` and reads and writes its blocks through `Bcache`. All of them
sleep and wake up through `Sched`, on a process table whose entries come and go as
in `Proc` and whose memory is that of `Vm`. Each module takes the promise of the
layer below as its grain of atomicity:

* `Sched` shows at the level of instructions (and `SchedProofs` proves) that a critical section of a
  spinlock runs undisturbed on one CPU and that `sleep(chan, lk)` misses no
  `wakeup()`. The other modules therefore take one critical section as one step
  and `sleep()` as an atomic release-and-sleep.
* `Bcache` shows that a block's buffer behaves as the block, whatever is recycled
  and however the disk is scheduled. `Log` therefore sees a cache of blocks of
  which the unpinned, unlocked ones may vanish at any time.
* `Log` is shown to implement `AtomicDisk`, so `Sysfile` needs no crashes: a call
  is durable as a whole or not at all. `FileData` is built on the same promise: its
  disk has current and durable contents, and a crash goes back to the durable ones.
* `Log` in turn assumes that a call writes fewer than `MAXOPBLOCKS` blocks; that
  writes and truncations do is the property `WithinReservation` of `FileData`.
* `FileData` is shown to implement `FileStore`, `Pipe` to implement `ByteStream` and
  `Console` to implement `LineDiscipline`: what a program sees behind a descriptor.
  `Shell` starts from there: pipes that hold a bounded number of bytes and end when
  the last writing end is closed.

## 2. Modules

### Log, AtomicDisk, LogInv (`log.c`)

State: the on-disk header `head`, log blocks `logblk` and home locations `home`;
in memory the header `lh`, `outstanding`, `committing`, the cached contents
`cache`, the pinned blocks `dirty`, and for every process its program counter `pc`,
the buffers it holds and the blocks its call has logged (`wrote`, a history
variable that bounds what one call writes). Actions: `begin_op`, `end_op`, `bread`
and `modify` of a buffer, `log_write_check` (the tests of lines 218-221, made
*without* `log.lock`) and `log_write` (the locked part), `brelse`, `bget_recycle` of a
clean buffer, one block per step in `write_log` and `install_trans`, `write_head`, `commit_clear`, the same
for recovery, and `crash`, which is possible in every state and keeps only the
disk. A process may also read blocks outside any transaction (`peek`).

`AtomicDisk` is what the file system relies on: `current` contents that calls see,
`durable` contents that a crash falls back to, and a set of `active` calls; a group
becomes durable in one step, only when nobody is active. The refinement mapping
computes `durable` from the disk: once the header is written the logged blocks
count, before that the home locations.

### Proc (`proc.c`, `trap.c`)

State: per slot `state`, `pid`, `parent`, `chan`, `killed`, whether it owns a kernel
stack and a page table, and its `pc`; per CPU `c->proc` and the position of the loop
in `scheduler()`; and `nextpid`. Actions: `scheduler`, `scheduler_pass`, `yield`, `allocproc`
and `alloc_kstack` with its failing `kalloc()`, `fork_copy`, `fork_copyfail`,
`fork_publish` and `fork_return` (the child is an `EMBRYO`, worked on without
`ptable.lock`), `exit`, `wait` with its three outcomes, `kill`, a sleep in a device
and its wakeup, and the tests of `killed` in `trap()`. Orphans go to init.

### Sched (`spinlock.c`, `proc.c`, `trap.c`)

One thread per process and one per CPU's `scheduler()`. `acquire`, `release`,
`pushcli` and `popcli` are split into their instructions; `ncli` and `intena` belong
to a CPU, `sched()` saves and restores `intena` per thread. `swtch()` moves a CPU
between threads while `ptable.lock` stays held. Timer and device interrupts arrive
wherever interrupts are enabled, and run `yield()` or a handler that takes a lock.
The kernel's own `panic()` calls set `panicked`.

### Bcache (`bio.c`, `sleeplock.c`, `ide.c`)

State: the buffers in the order of the LRU list, each with block, `refcnt`, flags,
contents and sleep-lock; the queue of `ide.c` and the disk's contents. Actions:
`bget_hit`, `bget_recycle` (with its panic), `acquiresleep`, `bread`, `iderw`,
`ideintr` (which starts the next request), `modify`, `log_write`, `bwrite` (which
also unpins), `brelse` with the move to the front of the list.

### Pipe, ByteStream (`pipe.c`)

State: the ring, the counters `nread` and `nwrite` modulo `WORD` (2^32 in the
code), `readopen` and `writeopen`, who holds `p->lock`, and per process its place
in `piperead()` or `pipewrite()`. Ends are shared by `fork`, closed at any time by
their holders, and the page is freed and allocated again. A close is up to three
steps: `fileclose()` drops the reference (`close`), the last one of an end goes on to
the section of `pipeclose()` under `p->lock` (`pipeclose`), and the second of the two
frees the page after it has released the lock (`kfree`). `ByteStream` is a bounded FIFO
queue; the mapping reads the queue out of the ring with wrapping counters.

### Inode, Sysfile (`fs.c`, `file.c`, `sysfile.c`)

`Inode` holds the operators on the inode cache (`iget`, `iput`, `ilock`, `ialloc`
and directories); `Sysfile` composes them into system calls: one step per path
element of `namex()`, and one step between any two acquisitions of an inode's lock.
State: the inodes on disk, the cache with `ref`, `valid` and the lock of each entry,
the file table, descriptors and current directories, and per process the call it is
in with its local pointers. Every error exit of `sys_link`, `sys_unlink`, `create`,
`sys_open` and `sys_chdir` is there.

### Vm (`kalloc.c`, `vm.c`, `exec.c`, `proc.c`)

State: the set of free pages, and per process its page tables (which page backs
which user page, whether it is present, writable, user), `vlimit` and the kernel
stack. One `kalloc()` is one step, so the processes compete for the last page in
the middle of `allocuvm()`, `copyuvm()` and `exec()`, and each of these can fail at
each page. Unaligned limits and `PGROUNDUP`/`PGROUNDDOWN` are modelled with a page
size of 2.

### FileData, FileStore (`fs.c`, `file.c`, `mkfs.c`)

State: the disk (inodes, bitmap and blocks) as the calls see it and as it is durable,
the cached inodes with their locks, the open file structures with inode and
offset, the operations that are open in the log with the blocks each has
written, and per process its call. The initial disk is computed by `mkfs`, a
translation of `mkfs.c`. Actions: `sys_open` with `create`, `sys_unlink`, `fileclose`
with `iput`, `filewrite` (one operation of the log per piece, one step per block: `writei_balloc`,
`writei_copy`), `fileread`, `itrunc` one block at a time, and `Crash`. A process
that shares a `struct file` with another runs between any two of these steps.
`FileStore` knows files as sequences of bytes and open files as positions; a piece
of a write is one step.

### Console, LineDiscipline (`console.c`, `kbd.c`, `uart.c`)

State: the ring `input.buf` with `r`, `w` and `e` modulo `UINT`; the keys that are
down, the scan codes on their way and the flags `kbdgetc()` keeps between interrupts;
per reader its place in `consoleread()` and what it has copied. Actions: `press` and
`release` of a key (the hardware), `kbdintr`, `uartintr` with the editing characters,
`read_empty` (sleep, or return when killed), `read_char` with its treatment of
`^D`, `read_done`, `kill`. `LineDiscipline` is a line under edit and a queue of
entered characters.

### Startup and Clock (`main.c`, `mp.c`, `lapic.c`, `entryother.S`)

`Startup`: the boot processor reads the table of `mpinit()`, hands each processor a
stack through the one word at `code-4` and waits for `started`, then calls `kinit2()`
and `userinit()`; the messages of the APIC arrive late and in order, and STARTUP
comes twice. `Clock`: `cmostime()` reads six registers twice while the clock raises
its update bit and changes them one by one.

### ShellParse, Shell (`sh.c`, `init.c`, `cat.c`, `echo.c`)

`ShellParse` is the recursive-descent parser on lines of characters; a parsing
function returns the set of its results, empty when it calls `panic()`.
`nulterminate()` writes NULs into the line. `Shell` runs the trees: init, the shell
and their children as processes with descriptors, one step per system call or per
group of system calls of one process that nobody else observes (`close`, `dup`,
`open`); `fork()`, `exec()` and `pipe()` may fail. A program copies its input to its
output or writes its own bytes. Each process remembers its line and the path of its
command in the tree (history variables), which is what the descriptors are compared with.

### Umalloc (`umalloc.c`)

The circular free list with `freep`, in units of headers. `malloc` is split at the
call of `sbrk()`, and the program may call `sbrk()` itself. `nunits` wraps like the
unsigned arithmetic of the code.

### Library, LibraryCalls

Loops of sequential routines as operators, each beside a definition of what it
should compute: `grep` and `wc` for every way `read()` can cut the text, the
matcher of `grep` against a definition of matching, `printf`, `cprintf` and
`printint` with the smallest integer, `atoi`, `memmove` on overlapping ranges, the
`strn*` routines, `gets`, `skipelem`, the range checks of `fetchint`, `fetchstr` and
`argptr` with sums that wrap, and the sector arithmetic of `readseg()` and `bootmain()`.
`LibraryCalls` calls one of them with one input per step.

## 3. What the runs check

Every property has a comment in its module that states it in words. The type
invariant of a module is checked together with its first safety invariant.

| run | what it shows |
|---|---|
| `log` | A log two calls can fill, three calls and two crashes at any step. The inductive invariant of the proofs holds (`LogInvariant`), no panic included; a home location is overwritten only with what the committed log holds (`WriteAhead`); the log implements `AtomicDisk`; sleepers are admitted (`SleeperAdmitted`) and everything logged is installed and the header cleared (`LogDrains`). |
| `proc` | Four slots, two CPUs. Parents are alive and `fork()` returns the pid of a child nobody has reaped (`ParentsAlive`); `wait()` misses no exit (`NoLostExit`). |
| `proc_live` | Every runnable process runs (`RunnableRuns`); init reaps every orphan (`OrphansReaped`). |
| `pipe` | Two readers, two writers, kills and closes. Both ends sleep only when they must and a read returns 0 only at the end (`WaitsRight`), nobody else is in the pipe once `pipeclose()` has released the lock to free the page, nor after `kfree()` (`NoUseAfterFree`), bytes are neither lost, duplicated nor reordered (`ImplementsByteStream`). |
| `sched` | Two CPUs, two processes, interrupts wherever they are enabled. No lost wakeup (`NoLostWakeup`), no shared or freed kernel stack (`OneStack`), interrupts on and off where they must be, and so no panic of `acquire`, `release`, `popcli`, `sched` (`InterruptsRight`). |
| `bcache` | Two processes, four blocks, three buffers. A buffer keeps its block and its data while it is referenced, without a panic as long as there is a buffer for each process and each pin (`BufferKept`); nobody sleeps without a reason (`SleepersWaitForSomething`); only the owner of a buffer changes what a block contains, on a disk without read errors (`OnlyOwnersChange`). |
| `filedata` | Two processes, two shared open files, 14 blocks, crashes. Blocks are in one file, or free, or metadata (`BlocksPartitioned`); what is durable is a consistent file system (`CrashConsistent`); no operation fills its reservation (`WithinReservation`); files are byte sequences written piece by piece (`ImplementsFileStore`). |
| `sysfile` | Two processes, three inodes, one file. References to files and inodes are counted exactly, with no panic but that of a full disk when the cache has room for every inode and no path has `..` (`RefIsPointers`); the cache shows what the disk holds (`CacheCoherent`); link counts cover the names at every instant (`LinksCounted`); an inode is freed only when nothing names it or points to it (`FreedWhenUnused`). |
| `linkunlink` | violation, section 6 |
| `devices` | Console: readers and the buffer never wedge (`NeverWedged`), no modifier stays on (`NoStuckModifier`), input is an edited line and a queue (`ImplementsLineDiscipline`). Startup: own stacks, and the allocator is used by one processor until it has its lock (`StartsAlone`). Clock: no mixed time (`NoTornTime`). |
| `vm` | Two processes in 14 pages. Pages are neither lost nor used twice, wherever an allocation fails (`PagesPartitioned`); a process has exactly the pages below `vlimit`, and no panic but the page fault of `mprotect()` (`Mapped`); `fork()` copies pages and protection, `exec()` leaves one guard page below the stack (`ImagesRight`). |
| `user` | Shell: every program has the descriptors its line gives it (`StdioRight`), the prompt waits for the foreground (`PromptAfterForeground`), every line ends (`LineEnds`). The routines of `Library` compute what they are for, but for a case of `grep` and one of `memmove` in section 7 (`LibraryRight`), the parser accepts the grammar and keeps every word (`ParserRight`), the heap is shared out and free blocks are joined, for small requests (`HeapSound`). |

Each property of a passing run is also broken by a faulty variant of the code (the
`Faulty_` operators, for example a dropped wakeup or a missing `idup()`), so it
says something about the code.

## 4. Bounds

* `log`: the log holds two reservations of two blocks and a call writes one, so a
  second call is admitted beside the first and sleeps once a block is logged, calls
  share a commit of two blocks, and blocks are absorbed. Two crashes suffice for one
  in the middle of recovery. There is no symmetry, because of the liveness properties;
  the deadlock check is off because the workload ends.
* `proc`: four slots hold init, a child, a grandchild and a free one; `MaxPid`
  bounds the number of forks so that slots are reused once or twice. `kill()` names
  one pid that may be running, sleeping, a zombie or gone. `proc_live` has three
  slots, which suffices for an orphan that is a zombie when it is handed to init.
* `pipe`: a ring of two bytes, reads and writes of up to three, so a write is longer
  than the ring, counters that wrap after two rounds. `PIPESIZE` divides `WORD` as 512 divides 2^32; without it the ring index
  would jump at the wrap.
* `sched`: two processes and two CPUs suffice for a process that resumes on the
  other CPU and for one that reaps another which is still on its stack.
* `bcache`: one pin and one buffer for each process make exactly `NBUF` buffers,
  with one block more than buffers, so every `bget()` may have to recycle.
  The kernel has `NBUF` equal to `LOGSIZE`, which is less: a log that fills the pool
  makes `bget()` panic, and `BufferKept` does not cover that.
  `DiskErrors` is `FALSE`, see section 7.
* `sysfile`: calls are chosen from a small set (`MCCalls`) that has two names for
  one directory slot, a sub-directory, a link, and descriptors at their limit. Cache
  entries are as many as inodes, so `iget()` never runs out in the run; that panic is
  in the model. `MaxLinks` bounds the link counts. The calls really can deadlock or
  panic (section 6), so this run and `linkunlink` do not ask for the absence of
  deadlock.
* `vm`: pages of two bytes, three page tables of three entries, 14 pages: two small
  processes fit, a `fork()` or `exec()` of a grown one does not always, so every
  failure branch is taken. `sbrk()` grows by an unaligned amount and shrinks by
  more than a page. One range of `mprotect()` begins in the first page table, one is
  in the last, which only a grown process has, so that the page fault of section 7 is
  reached. A panic stops all processors (`frozen`).
* `filedata`: blocks of two bytes, one direct and two indirect blocks per file, so
  writes of five bytes cross from direct to indirect blocks in three operations; the disk
  gets full. `MaxCalls` bounds the calls.
* `devices`: a ring of three characters and indices that wrap after two rounds; a key
  with an extended code, so escapes and modifiers mix; tables with too many
  processors, with the boot processor last, and with an entry of unknown type;
  clocks that carry into every field. `MaxScan` and `MaxTicks` bound what the
  hardware does. Processors that halt or panic and a clock that has been read stop,
  so the deadlock check is off. The view leaves out cells of the ring that nothing
  reads again, readers are interchangeable, and there is no liveness property.
* `user`: one line has a list, a block, a pipe and two redirections, the other a
  background command; pipes hold less than goes through them, and six processes are
  too few for everything at once, so `fork()` fails. `MaxBack` bounds background processes. The inputs of
  `Library` are all short texts, patterns, formats, paths and command lines over
  small alphabets; `WORD` and `UINT` are 64.

## 5. Fairness

* `log`: the scheduler runs every runnable process again and again
  (`proc_live` checks it), which is weak fairness of the steps of a process in
  the kernel. A system call is a finite program, so a call that could end again and
  again ends: strong fairness of `end_op`. No fairness is assumed of new calls or
  crashes. `begin_op()` keeps no queue: with an endless stream of new calls a
  sleeper may be overtaken for ever, so the property is stated for a finite workload.
* `proc_live`: `scheduler()` is an endless loop (weak fairness for each CPU), the
  timer interrupts every running process (weak fairness of `yield`), a process that
  is run often enough makes progress in the kernel (strong fairness, since it loses
  the CPU in between), devices answer, and init calls `wait()` in a loop (`init.c`).

* `user`: some process that can take a step takes one. This is less than fair
  scheduling of each process: the processes of a line run to their end in any order.
  Nothing is assumed of the person who types lines.

## 6. Where the code disagrees with its documentation

* `linkunlink`: the concurrent calls of the test `linkunlink()` in `usertests.c` can
  deadlock. `create()` calls `iunlockput(dp)` (`sysfile.c:280`) with the new inode
  locked, and `iput()` takes the lock of `dp` again; a process that has locked `dp`
  meanwhile and goes for the file waits for ever. `unlink()` does the same at line 225.

## 7. Met while modelling, outside the runs

The kernel:

* `kill()` (`proc.c:488`) compares `pid` without looking at the state. A slot that has
  been reaped has pid 0, so `kill(0)` marks an unused slot, `allocproc()` does not
  clear `killed`, and the next process made in the slot dies on its first return to
  user space although nobody asked for it. `Proc` has this behaviour.
* A writer that has filled the ring and then finds itself killed returns at
  `pipe.c:86` without the `wakeup(&p->nread)` that every other way out makes; a
  reader that went to sleep on the empty pipe before keeps sleeping although the ring
  is full, until another writer comes or the last one closes. `Pipe` has this
  behaviour; `WaitsRight` states the reader's half only while no writer was killed.
* `log.c:218` panics at `log.size - 1`, one block before the log is full, while
  `begin_op()` hands out `LOGSIZE` blocks and `mkfs` makes `log.size` equal to
  `LOGSIZE`. `SpaceContract` (`LogInv`) therefore asks calls to write fewer than
  `MAXOPBLOCKS` blocks; without it the panic is reached.
* `ideintr()` sets `B_VALID` after a failed read. With `DiskErrors = TRUE` the model
  does so, and `OnlyOwnersChange` fails: `bread()` returns what
  the buffer held before.
* `link(f, "d/.")` waits for itself (`dirlink()` puts the existing entry with the
  directory locked), and `link(f, "d/..")` takes locks against the order of `namex()`.
  Two `unlink()` calls on two names of one inode in one directory can deadlock as
  in section 6.
* A directory removed between `nameiparent()` and `ilock(dp)` still accepts a new
  entry: the inode linked there keeps a link nobody can remove. This is why
  `LinksCounted` is an inequality.
* `..` of a removed current directory may name a freed inode; `ilock()` then panics
  with "no type". Paths with `..` are not among the calls of the runs.
* `fs.c:128-130` says that `iput()` clears `valid` when `ref` falls to zero; the code
  clears it only when it frees the inode. `iget()` clears it when it takes an entry,
  so nothing depends on the comment.
* An inode without links that is open at a crash is never freed.
* `growproc()` down to 0 frees every page, returns -1 and keeps `vlimit`.
* `mprotect()` and `munprotect()` join the two halves of a range test with `&&`
  (`vm.c:401`, `vm.c:431`), read `*pte` before they test `pte` (412, 441), and leave a
  prefix of the range changed, without `lcr3()`, when they fail half way. An address
  without a page table is a page fault in the kernel, for which `trap()` panics. `Vm`
  has this behaviour (`protect`), the run reaches it, and `Mapped` allows that one panic.
* A `kill()` between the test of `killed` and `sleep()` in a pipe is noticed only
  after the next wakeup. A reader of the console that is killed after it has taken
  characters returns -1, and the characters are gone.
* `mkfs` rounds the size of the root directory up by a whole block when it already
  fills its last one (`mkfs.c:161`), which leaves a hole that `readi()` would fill
  outside of an operation of the log. The images of the run avoid it.
* `mpinit()` never gets past an entry of unknown type, so its panic "Didn't find a
  suitable machine" is not reached for one; a boot processor listed behind `NCPU`
  others makes `mycpu()` panic. `Startup` has both.
* `argptr()` refuses a range of length 0 at `vbase`.
* `readseg()` rounds segments down to sectors and may overwrite what lies before
  them: right only when segments keep one distance between address and file offset
  and only the last has bss, as the linker makes them.
* If the fork of the shell fails in `init`, init exits and the kernel panics.

User programs:

* Of two redirections of one descriptor the first on the line wins.
* When the second `fork()` of a pipeline fails, the left side keeps running while the
  shell prompts.
* `grep()` forgets what it has read of a line when a read brings no newline
  (`grep.c:29`), so such a line is matched and printed without its beginning.
* `nunits` in `malloc()` wraps for requests close to 2^32 bytes, and from 2^31 bytes on
  `morecore()` passes a negative number to `sbrk()`. The requests of the run are small.
* `memmove()` of `ulib.c` copies upwards only, so an overlap with a higher
  destination is spoiled; `cprintf()` has no `%c`.

## 8. Abstractions, and what is not modelled

* Memory is sequentially consistent. One critical section is one step, except in
  `Sched`. Transfers of one disk block are atomic.
* `Log`: block contents are two values; the buffers of the log's own blocks are
  used by one process at a time and are not kept apart from the disk.
* `Sysfile`: `begin_op()`/`end_op()` and blocks belong to `Log` and `Bcache`. Steps
  between two acquisitions of an inode's lock are joined, because what they touch
  is protected by locks the process holds. `ialloc()` takes the lowest free inode in
  one step. A directory is a function from names to inode numbers. Device numbers
  and the sharing of files by `fork()` are left out; offsets and data are in `FileData`.
* `Vm`: the kernel half of a page directory is one page; the free list is a set; the
  TLB and page contents are left out; reading the ELF file and pushing arguments may
  fail at any point and change nothing else; a program is one segment. Init does not
  shrink itself.
* `FileData`: inodes are created and unlinked in one step, since `Sysfile` has those
  calls in detail; the log is the abstract one; a process has one descriptor per
  open file structure. Directories and devices as the target of `read()` and `write()`
  are left out.
* `Console`: each character has an interrupt of its own; the screen, the echo and
  `consolewrite()` are left out.
* `Shell`: bytes are counted, not kept; `cd`, messages and the search for programs
  are left out; a program is one that copies or one that writes.
* `Library`: `memset`, `memcmp`, `strlen`, `strcpy`, `strcmp` and `strchr` are loops of a
  line each and are left out.
* Not modelled because there is nothing for these tools to say: set-up of the
  interrupt controllers, the disk, the screen, segments and page directories
  (straight-line device access); trap entry, `swtch` and `entry.S` in assembly beyond
  their effect on threads; `memide.c` (a substitute of `ide.c` without interrupts);
  `ls`, `rm`, `mkdir`, `ln`, `kill` and `zombie` (one system call per argument); the tests
  (their scenarios are those of the runs).

## 9. Proofs

`tlapm` proves the following for every value of the constants that the named
assumptions allow: any number of processes, CPUs and blocks, any size of the log, of
the ring and of the process table.

| theorem | statement |
|---|---|
| `LogProofs!LogInvariantHolds` | `Spec => []LogInvariant` |
| `LogProofs!LogTypeCorrect` | `Spec => []TypeOK` |
| `LogProofs!LogNeverPanics` | `Spec => []NoPanic` |
| `LogProofs!LogLosesNoUpdate` | `Spec => []NoLostUpdate` |
| `LogProofs!LogCommitInstalls` | `Spec => []CommitInstallsAll` |
| `LogProofs!LogSleepersHaveWaker` | `Spec => []SleepersHaveWaker` |
| `LogProofs!LogWritesAhead` | `Spec => WriteAhead` |
| `LogProofs!LogImplementsAtomicDisk` | `Spec => ImplementsAtomicDisk` |
| `PipeProofs!PipeInvariantHolds` | `Spec => []PipeInv` |
| `PipeProofs!PipeWaitsRight` | `Spec => []WaitsRight` |
| `PipeProofs!PipeNoUseAfterFree` | `Spec => []NoUseAfterFree` |
| `PipeProofs!PipeImplementsByteStream` | `Spec => ImplementsByteStream` |
| `SchedProofs!SchedInvariantHolds` | `Spec => []SchedInv` |
| `SchedProofs!SchedNoLostWakeup` | `Spec => []NoLostWakeup` |
| `SchedProofs!SchedOneStack` | `Spec => []OneStack` |
| `SchedProofs!SchedInterruptsRight` | `Spec => []InterruptsRight` |
| `ProcProofs!ProcInvariantHolds` | `Spec => []ProcInv` |
| `ProcProofs!ProcParentsAlive` | `Spec => []ParentsAlive` |
| `ProcProofs!ProcNoLostExit` | `Spec => []NoLostExit` |

So every safety property of the runs `log`, `pipe`, `sched` and `proc` has a theorem.
None of these properties is inductive by itself; what follows is, for each
component, what it is assumed of the constants and what has to be added.

### Log

Assumptions: the typing of the constants (`LogAssumption`) and `SpaceContract`:
`OpBlocks < MAXOPBLOCKS`, `2 * MAXOPBLOCKS <= LOGSIZE <= NLOG`. The kernel's numbers
are 10, 30 and 30. That `filewrite()` and truncation keep below the reservation is
checked on a small disk by `WithinReservation`; link, unlink and create write a
handful of blocks each.

`LogInvariant` (in `LogInv`; the run `log` checks it) adds: who may be in `commit()`
or recovery and that nobody is in a transaction then (`ControlInv`); that a buffer
has one holder (`LockInv`); how the header in memory and the header on disk agree at
each place of `commit()` and recovery (`HeaderInv`); which buffers are pinned, and
which log blocks already hold what the cache holds (`DataInv`); and the space account
(`SpaceInv`): the length of the header plus the blocks the admitted calls may still
write stays below the panic at `log.size - 1`. The account counts a finite set of
pairs (call, block still allowed), since a sum over processes would need induction.

`LogDataProofs` has the types, the locks, the header and the data, system calls
first; `LogRefines` has the data during `commit()` and recovery and maps every step
to a step or a stutter of `AtomicDisk`: `write_head` is the commit, `crash` is the
crash, and installing, clearing and recovering are invisible. `LogProofs` has the
control and the space account and puts the parts together.

### Pipe

Assumptions (`PipeAssumption`): the ring size is positive and divides the range of the
counters, which is larger; there are readers, writers and bytes, and nobody is both.

`PipeInv` adds: `p->lock` is held by exactly the process inside a loop (`LockInv`);
who is inside has its end open, `readopen` and `writeopen` say that the `pipeclose()`
of the end is still to come, and at most one process is on its way to it per end and
at most one to `kfree()` (`OpenInv`); and a
sleeper has its reason to sleep, or the process that took the reason away is still
in its loop with the `wakeup()` ahead of it (`SleepInv`). The refinement rests on
lemmas about the free-running counters: the unsigned difference is the number of
bytes in the ring, a counter that wraps stays at the same place of the ring
(`RingWraps`), and two bytes in the ring have different places (`RingDistinct`), so
a store leaves what is queued alone. `MaxN` bounds a call and is arbitrary; the
exception for killed writers in `WaitsRight` (section 7) is part of what is proved.

### Sched

Assumptions (`SchedAssumption`): at least one process and one CPU, finitely many CPUs,
and names of CPUs that are not numbers of processes.

`SchedInv` reads everything off the labels of the threads: the locks a CPU holds and
the depth of its `pushcli()` (`LockInv`), which thread it runs and the state and label
that a process off the CPU left behind (`RunInv`), what an interrupt returns to
(`RetInv`), FL_IF with `intena` and its saved copies (`IntrInv`), and a sleeper's
missing condition or pending `wakeup()` (`WakeInv`). `SchedLockProofs` proves the locks
and that nothing panics: the labels under `ptable.lock` stay with the CPU when
`swtch()` changes the thread, which is how one thread releases what another acquired.
`SchedRunProofs` proves who runs where: half of the actions only move one thread on
(`Own`) and are treated once. `SchedProofs` proves the flags and the theorems.

### Proc

Assumptions (`ProcAssumption`): at least one slot and one CPU; nobody kills init (pid 1),
which the code does not survive. `MaxPid` is arbitrary.

`ProcInv` adds to the two properties: init lives and has no parent, nobody is its own
parent, and who is asleep or not alive has the label for it (`PlaceInv`); and the child that
`fork()` makes without `ptable.lock` is an `EMBRYO` that no other `fork()` works on, with
the parent set before it is published (`ForkInv`). Most actions make and end no
process; they are `Quiet` and treated by one lemma. `exit` is the step that needs the
most: it passes children on to init, wakes init when one of them is a zombie, and
wakes its own parent, all in one critical section.

`PipeInv`, `SchedInv` and `ProcInv` are stated in the modules of the proofs. They hold
in every state of the instances of the runs `pipe`, `sched` and `proc`; as the proofs
are for all constants, the runs do not repeat them.

### Only model-checked

* Liveness and everything about enabledness (`SleeperAdmitted`, `LogDrains`,
  `RunnableRuns`, `OrphansReaped`, `LineEnds`): beyond the proof system.
* `Library`, `ShellParse` and `Shell`, which uses it: recursive definitions; what a loop
  computes for every input needs induction over data, which the provers cannot do.
* `Bcache`, `Sysfile`, `FileData`, `Vm`, `Umalloc`, `Console`, `Startup` and `Clock`: not
  proved so far. Link counts, references and free pages are cardinalities and sums over
  processes; their step-by-step account needs the set of pairs used for the log.

## 10. Plan

1. Proofs: start-up (`StartsAlone`), the page allocator (`PagesPartitioned`), the
   buffer cache (`BufferKept`), the console's ring (line discipline).
2. Files shared by `fork()` and closed by `exit()` in `Sysfile`; `pipe()` with its
   descriptors.
3. The contents of pages: `loaduvm`, `copyout` and the arguments `exec()` pushes.
