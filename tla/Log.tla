-------------------------------- MODULE Log --------------------------------
(***************************************************************************)
(* The redo log of log.c together with the part of the buffer cache        *)
(* (bio.c) its correctness depends on: which blocks are cached, which are  *)
(* pinned by B_DIRTY and which are locked by a process.  A power failure   *)
(* may strike between any two disk writes, during recovery as well.        *)
(*                                                                         *)
(* A critical section of log.lock is one step.  So is one iteration of     *)
(* write_log() or install_trans(), which ends in one synchronous bwrite(). *)
(* A block write is atomic.  The buffers of the log's own blocks are used  *)
(* by the committing or recovering process only and always hold what is    *)
(* on the disk, so they are not modelled apart from the disk.              *)
(***************************************************************************)
EXTENDS Integers, Sequences, FiniteSets, Functions

CONSTANTS
  Procs,        \* processes that make file system calls
  Blocks,       \* blocks of the disk outside the log
  Data,         \* contents of a block
  Zero,         \* the contents mkfs gives a log block
  NoData,       \* not a block content: the block is not in the cache
  MAXOPBLOCKS,  \* param.h: blocks reserved for one system call
  LOGSIZE,      \* param.h: capacity of the in-memory header
  NLOG,         \* sb.nlog, read into log.size by initlog()
  OpBlocks      \* blocks one system call really writes, at most

ASSUME LogAssumption ==
  /\ IsFiniteSet(Procs) /\ Procs # {}
  /\ Zero \in Data /\ NoData \notin Data
  /\ MAXOPBLOCKS \in Nat /\ LOGSIZE \in Nat /\ NLOG \in Nat \ {0}
  /\ OpBlocks \in Nat /\ OpBlocks <= MAXOPBLOCKS

VARIABLES
  home,         \* disk: contents of each block at its home location
  logblk,       \* disk: contents of the log's data blocks, start+1 ...
  head,         \* disk: the block numbers in the log's header block
  lh,           \* log.lh: the block numbers in the in-memory header
  outstanding,  \* log.outstanding
  committing,   \* log.committing
  cache,        \* data of the B_VALID buffer of each block, or NoData
  dirty,        \* blocks whose buffer has B_DIRTY set
  held,         \* buffers each process has locked (bread ... brelse)
  wrote,        \* blocks the current system call of a process logged
  pc,           \* where each process is
  tail,         \* the loop variable of write_log() and install_trans()
  panicked      \* the kernel called panic()

disk == <<home, logblk, head>>
vars == <<home, logblk, head, lh, outstanding, committing, cache, dirty,
          held, wrote, pc, tail, panicked>>

\* Inside begin_op() ... end_op(): with no buffer, with a buffer just read,
\* with a buffer modified, past log_write()'s checks, after log_write().
OpPCs == {"op", "read", "modified", "checked", "logged"}
\* In commit(), called by the last end_op().
CommitPCs == {"write_log", "write_head", "install", "clear", "committed"}
\* In recover_from_log(), called when the machine starts.
RecoverPCs == {"read_head", "recover", "recovered"}
PCs == {"down", "idle", "peek", "sleeping", "woken"}
         \cup OpPCs \cup CommitPCs \cup RecoverPCs

NoLog == [i \in 1 .. NLOG - 1 |-> Zero]
Held(b) == \E q \in Procs : b \in held[q]

\* A machine that has just been switched on: one process runs the recovery.
Boot(p) ==
  /\ lh' = <<>> /\ outstanding' = 0 /\ committing' = FALSE
  /\ cache' = [b \in Blocks |-> NoData] /\ dirty' = {}
  /\ held' = [q \in Procs |-> {}] /\ wrote' = [q \in Procs |-> {}]
  /\ pc' = [q \in Procs |-> IF q = p THEN "read_head" ELSE "down"]
  /\ tail' = 0 /\ panicked' = FALSE

\* The disk is the image mkfs wrote.
Init ==
  /\ home \in [Blocks -> Data] /\ logblk = NoLog /\ head = <<>>
  /\ lh = <<>> /\ outstanding = 0 /\ committing = FALSE
  /\ cache = [b \in Blocks |-> NoData] /\ dirty = {}
  /\ held = [q \in Procs |-> {}] /\ wrote = [q \in Procs |-> {}]
  /\ \E p \in Procs :
       pc = [q \in Procs |-> IF q = p THEN "read_head" ELSE "down"]
  /\ tail = 0 /\ panicked = FALSE

-----------------------------------------------------------------------------
Goto(p, l) == pc' = [pc EXCEPT ![p] = l]

\* Faulty variant: nobody is woken.
Faulty_GotoAndWakeup(p, l) == Goto(p, l)

\* p goes to l and wakeup(&log) makes every sleeper test begin_op()'s
\* conditions again.
GotoAndWakeup(p, l) ==
  pc' = [q \in Procs |-> IF q = p THEN l
                         ELSE IF pc[q] = "sleeping" THEN "woken" ELSE pc[q]]

\* Faulty variant: the space reserved for the other system calls is forgotten.
Faulty_LogFull == Len(lh) + MAXOPBLOCKS > LOGSIZE

LogFull == Len(lh) + (outstanding + 1) * MAXOPBLOCKS > LOGSIZE

enter_op(p) ==
  /\ Goto(p, "op")
  /\ outstanding' = outstanding + 1
  /\ wrote' = [wrote EXCEPT ![p] = {}]

begin_op(p) ==
  /\ pc[p] \in {"idle", "woken"}
  /\ IF committing \/ LogFull
       THEN Goto(p, "sleeping") /\ UNCHANGED <<outstanding, wrote>>
       ELSE enter_op(p)
  /\ UNCHANGED <<disk, lh, committing, cache, dirty, held, tail, panicked>>

\* The last system call of the group commits it, if it logged anything.
end_op(p) ==
  /\ pc[p] = "op"
  /\ outstanding' = outstanding - 1
  /\ panicked' = committing
  /\ IF outstanding' = 0
       THEN /\ committing' = TRUE
            /\ Goto(p, IF lh = <<>> THEN "committed" ELSE "write_log")
       ELSE GotoAndWakeup(p, "idle") /\ UNCHANGED committing
  /\ UNCHANGED <<disk, lh, cache, dirty, held, wrote, tail>>

\* What bread(b) returns: the valid buffer, or the block read from the disk.
Contents(b) == IF cache[b] = NoData THEN home[b] ELSE cache[b]

\* Both system calls in a transaction and calls that only read (fileread,
\* filestat run without begin_op()) lock and read buffers.
bread(p, b) ==
  /\ pc[p] \in {"op", "idle"}
  /\ ~ Held(b)
  /\ cache' = [cache EXCEPT ![b] = Contents(b)]
  /\ held' = [held EXCEPT ![p] = {b}]
  /\ Goto(p, IF pc[p] = "op" THEN "read" ELSE "peek")
  /\ UNCHANGED <<disk, lh, outstanding, committing, dirty, wrote, tail, panicked>>

brelse(p) ==
  /\ pc[p] \in {"read", "logged", "peek"}
  /\ held' = [held EXCEPT ![p] = {}]
  /\ Goto(p, IF pc[p] = "peek" THEN "idle" ELSE "op")
  /\ UNCHANGED <<disk, lh, outstanding, committing, cache, dirty, wrote, tail, panicked>>

\* The caller modifies b->data between bread() and log_write(); it writes at
\* most OpBlocks different blocks in one system call.
modify(p, b, v) ==
  /\ pc[p] = "read" /\ b \in held[p]
  /\ Cardinality(wrote[p] \cup {b}) <= OpBlocks
  /\ cache' = [cache EXCEPT ![b] = v]
  /\ Goto(p, "modified")
  /\ UNCHANGED <<disk, lh, outstanding, committing, dirty, held, wrote, tail, panicked>>

\* log_write() tests the size of the log before it takes log.lock.
log_write_check(p) ==
  /\ pc[p] = "modified"
  /\ panicked' = (Len(lh) >= LOGSIZE \/ Len(lh) >= NLOG - 1 \/ outstanding < 1)
  /\ Goto(p, "checked")
  /\ UNCHANGED <<disk, lh, outstanding, committing, cache, dirty, held, wrote, tail>>

\* Log absorption, and the pin that prevents eviction.
record(b) ==
  /\ lh' = IF b \in Range(lh) THEN lh ELSE Append(lh, b)
  /\ dirty' = dirty \cup {b}

log_write(p, b) ==
  /\ pc[p] = "checked" /\ b \in held[p]
  /\ record(b)
  /\ wrote' = [wrote EXCEPT ![p] = @ \cup {b}]
  /\ Goto(p, "logged")
  /\ UNCHANGED <<disk, outstanding, committing, cache, held, tail, panicked>>

\* Faulty variant: B_DIRTY is not looked at.
Faulty_Recyclable(b) == cache[b] # NoData /\ ~ Held(b)

\* bget() recycles a buffer with refcnt 0 and without B_DIRTY.
Recyclable(b) == cache[b] # NoData /\ ~ Held(b) /\ b \notin dirty

bget_recycle(b) ==
  /\ Recyclable(b)
  /\ cache' = [cache EXCEPT ![b] = NoData]
  /\ UNCHANGED <<disk, lh, outstanding, committing, dirty, held, wrote, pc, tail, panicked>>

-----------------------------------------------------------------------------
\* The loop over lh: after the last block p goes to "next".
NextTail(p, next) ==
  IF tail + 1 < Len(lh) THEN tail' = tail + 1 /\ UNCHANGED pc
                        ELSE tail' = 0 /\ Goto(p, next)

\* One iteration: copy a modified block from the cache to the log.
write_log(p) ==
  LET b == lh[tail + 1] IN
  /\ pc[p] = "write_log"
  /\ ~ Held(b)
  /\ logblk' = [logblk EXCEPT ![tail + 1] = Contents(b)]
  /\ cache' = [cache EXCEPT ![b] = Contents(b)]
  /\ NextTail(p, "write_head")
  /\ UNCHANGED <<home, head, lh, outstanding, committing, dirty, held, wrote, panicked>>

\* Faulty variant: the header does not reach the disk.
Faulty_HeaderOnDisk == head

\* What the header block holds after write_head().
HeaderOnDisk == lh

\* The write of the header block that commits the group.
write_head(p) ==
  /\ pc[p] = "write_head"
  /\ head' = HeaderOnDisk
  /\ Goto(p, "install")
  /\ UNCHANGED <<home, logblk, lh, outstanding, committing, cache, dirty, held,
                 wrote, tail, panicked>>

\* One iteration: copy a block from the log to its home location.  iderw()
\* clears B_DIRTY once the block is written.
install_trans(p, from, next) ==
  LET b == lh[tail + 1] IN
  /\ pc[p] = from
  /\ ~ Held(b)
  /\ home' = [home EXCEPT ![b] = logblk[tail + 1]]
  /\ cache' = [cache EXCEPT ![b] = logblk[tail + 1]]
  /\ dirty' = dirty \ {b}
  /\ NextTail(p, next)
  /\ UNCHANGED <<logblk, head, lh, outstanding, committing, held, wrote, panicked>>

\* Faulty variant: log.lh.n keeps its value.
Faulty_clear_head ==
  /\ head' = <<>>
  /\ UNCHANGED <<home, logblk, lh, outstanding, committing, cache, dirty, held,
                 wrote, tail, panicked>>

\* log.lh.n = 0; write_head(): erase the transaction from the log.
clear_head ==
  /\ lh' = <<>>
  /\ head' = <<>>
  /\ UNCHANGED <<home, logblk, outstanding, committing, cache, dirty, held,
                 wrote, tail, panicked>>

commit_clear(p) == pc[p] = "clear" /\ clear_head /\ Goto(p, "committed")

\* The rest of end_op() after commit().
end_commit(p) ==
  /\ pc[p] = "committed"
  /\ committing' = FALSE
  /\ GotoAndWakeup(p, "idle")
  /\ UNCHANGED <<disk, lh, outstanding, cache, dirty, held, wrote, tail, panicked>>

commit(p) ==
  \/ write_log(p)
  \/ write_head(p)
  \/ install_trans(p, "install", "clear")
  \/ commit_clear(p)
  \/ end_commit(p)

-----------------------------------------------------------------------------
read_head(p) ==
  /\ pc[p] = "read_head"
  /\ lh' = head
  /\ Goto(p, IF head = <<>> THEN "recovered" ELSE "recover")
  /\ UNCHANGED <<disk, outstanding, committing, cache, dirty, held, wrote, tail, panicked>>

\* The log is cleared and the first process goes on to start the others.
recover_clear(p) ==
  /\ pc[p] = "recovered"
  /\ clear_head
  /\ pc' = [q \in Procs |-> "idle"]

recover_from_log(p) ==
  \/ read_head(p)
  \/ install_trans(p, "recover", "recovered")
  \/ recover_clear(p)

\* Power failure: memory is lost, the disk is not.
crash(p) == Boot(p) /\ UNCHANGED disk

SystemCall(p) ==
  \/ begin_op(p) \/ end_op(p) \/ brelse(p) \/ log_write_check(p)
  \/ \E b \in Blocks : bread(p, b) \/ log_write(p, b)
  \/ \E b \in Blocks, v \in Data : modify(p, b, v)

\* panic() stops the machine: only a restart is possible after it.
Run ==
  /\ ~ panicked
  /\ \/ \E p \in Procs : SystemCall(p) \/ commit(p) \/ recover_from_log(p)
     \/ \E b \in Blocks : bget_recycle(b)

Next == Run \/ \E p \in Procs : crash(p)

Spec == Init /\ [][Next]_vars

-----------------------------------------------------------------------------
(* Properties *)

TypeOK ==
  /\ home \in [Blocks -> Data]
  /\ logblk \in [1 .. NLOG - 1 -> Data]
  /\ head \in Seq(Blocks) /\ lh \in Seq(Blocks)
  /\ outstanding \in Nat /\ committing \in BOOLEAN
  /\ cache \in [Blocks -> Data \cup {NoData}]
  /\ dirty \in SUBSET Blocks
  /\ held \in [Procs -> SUBSET Blocks]
  /\ wrote \in [Procs -> SUBSET Blocks]
  /\ pc \in [Procs -> PCs]
  /\ tail \in Nat /\ panicked \in BOOLEAN

\* The panics of log.c ("too big a transaction", "log_write outside of
\* trans", "log.committing") are never reached: begin_op()'s reservation
\* covers every log_write() of every admitted system call.
NoPanic == ~ panicked

\* A buffer that differs from its home block is never lost before it is
\* logged: it is pinned by B_DIRTY, or locked by the process modifying it.
NoLostUpdate ==
  \A b \in Blocks :
    Contents(b) # home[b] =>
      \/ b \in dirty
      \/ \E p \in Procs : b \in held[p] /\ pc[p] \in {"modified", "checked"}

\* When commit() returns, everything the system calls of the group wrote is
\* at its home location and no buffer stays pinned.
CommitInstallsAll ==
  (\E p \in Procs : pc[p] = "committed") =>
    dirty = {} /\ \A b \in Blocks : Contents(b) = home[b]

\* A process asleep in begin_op() always has someone who will wake it: an
\* admitted system call or a commit is in progress.  With neither, the log is
\* empty, so that the next begin_op() is not refused.
SleepersHaveWaker ==
  ~ committing /\ outstanding = 0 =>
    /\ \A p \in Procs : pc[p] # "sleeping"
    /\ (\A p \in Procs : pc[p] \notin RecoverPCs) => lh = <<>>

\* Write-ahead rule: a home location changes only when the header on the disk
\* names the block, and then to the contents the log holds for it.
WriteAhead ==
  [][\A b \in Blocks : home'[b] # home[b] =>
       \E i \in DOMAIN head : head[i] = b /\ home'[b] = logblk[i]]_vars

\* What recovery would make of the disk as it is now.
Durable ==
  [b \in Blocks |->
     IF \E i \in DOMAIN head : head[i] = b
       THEN logblk[CHOOSE i \in DOMAIN head : head[i] = b]
       ELSE home[b]]
Recovering == \E p \in Procs : pc[p] \in RecoverPCs
Current == IF Recovering THEN Durable ELSE [b \in Blocks |-> Contents(b)]
Active == {p \in Procs : pc[p] \in OpPCs}

AD == INSTANCE AtomicDisk
        WITH durable <- Durable, current <- Current, active <- Active

\* log.c implements the atomic disk: a group of system calls becomes durable
\* in the one step that writes the header, a crash at any moment loses exactly
\* the uncommitted group, and recovery (itself interrupted any number of
\* times) restores the committed contents.
ImplementsAtomicDisk == AD!ASpec
=============================================================================
