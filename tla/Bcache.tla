------------------------------- MODULE Bcache -------------------------------
(***************************************************************************)
(* The buffer cache (bio.c), its sleep-locks (sleeplock.c) and the disk    *)
(* driver under it (ide.c).  Critical sections of bcache.lock, idelock and *)
(* of the spinlock in a sleep-lock are single steps.  The users of the     *)
(* cache do what the file system and the log do: read a block, change it,  *)
(* and either pin it (log_write) or write it through (bwrite) before       *)
(* brelse().                                                               *)
(***************************************************************************)
EXTENDS Integers, Sequences, FiniteSets, SequencesExt

CONSTANTS
  Procs, Blocks, Data,
  NBUF,        \* param.h: buffers in the cache
  MaxPinned,   \* bound: blocks the log keeps pinned at a time
  DiskErrors,  \* TRUE: a read may fail
  None         \* no process, no block

ASSUME BcacheAssumption ==
  /\ IsFiniteSet(Procs) /\ None \notin Procs \cup Blocks
  /\ NBUF \in Nat \ {0} /\ MaxPinned \in Nat /\ DiskErrors \in BOOLEAN

Bufs == 1 .. NBUF

VARIABLES
  blockno, refcnt, valid, dirty, data,  \* fields of struct buf
  slock,      \* the process that holds the sleep-lock of a buffer
  lru,        \* the list through prev/next, most recently used first
  idequeue,   \* the disk queue
  active,     \* the buffer the disk works on, 0 if it is idle
  disk,       \* contents of the blocks on the disk
  pc, want, buf,  \* where a process is, the block it asked for, its buffer
  panicked

bufvars == <<blockno, refcnt, valid, dirty, data>>
vars == <<blockno, refcnt, valid, dirty, data, slock, lru, idequeue, active,
          disk, pc, want, buf, panicked>>

\* "lockwait" and "io" are asleep, "getlock" and "iowoken" were woken.
PCs == {"idle", "getlock", "lockwait", "locked", "rw", "io", "iowoken", "use",
        "modified", "relse"}

Init ==
  /\ blockno = [b \in Bufs |-> None] /\ refcnt = [b \in Bufs |-> 0]
  /\ valid = [b \in Bufs |-> FALSE] /\ dirty = [b \in Bufs |-> FALSE]
  /\ disk \in [Blocks -> Data]
  /\ data = [b \in Bufs |-> CHOOSE v \in Data : TRUE]
  /\ slock = [b \in Bufs |-> None]
  /\ lru = [i \in Bufs |-> NBUF + 1 - i]
  /\ idequeue = <<>> /\ active = 0
  /\ pc = [p \in Procs |-> "idle"]
  /\ want = [p \in Procs |-> None] /\ buf = [p \in Procs |-> 0]
  /\ panicked = FALSE

Goto(p, l) == pc' = [pc EXCEPT ![p] = l]

-----------------------------------------------------------------------------
(* bio.c *)

\* The block is in the cache.
bget_hit(p, k) ==
  /\ pc[p] = "idle"
  /\ \E b \in Bufs :
       /\ blockno[b] = k
       /\ refcnt' = [refcnt EXCEPT ![b] = @ + 1]
       /\ buf' = [buf EXCEPT ![p] = b]
  /\ want' = [want EXCEPT ![p] = k]
  /\ Goto(p, "getlock")
  /\ UNCHANGED <<blockno, valid, dirty, data, slock, lru, idequeue, active, disk,
                 panicked>>

\* Faulty variant: a buffer somebody waits for may be taken.
Faulty_Unused(b) == slock[b] = None /\ ~ dirty[b]

\* b->refcnt == 0 && (b->flags & B_DIRTY) == 0
Unused(b) == refcnt[b] = 0 /\ ~ dirty[b]

\* Faulty variant: the flags of the old block are kept.
Faulty_clear_flags(b) == UNCHANGED valid

\* b->flags = 0
clear_flags(b) == valid' = [valid EXCEPT ![b] = FALSE]

\* The block is not cached: recycle the unused buffer that was released longest
\* ago.
bget_recycle(p, k) ==
  /\ pc[p] = "idle"
  /\ \A b \in Bufs : blockno[b] # k
  /\ IF \E b \in Bufs : Unused(b)
       THEN LET b == lru[CHOOSE i \in Bufs : Unused(lru[i]) /\
                           \A j \in Bufs : Unused(lru[j]) => j <= i] IN
            /\ blockno' = [blockno EXCEPT ![b] = k]
            /\ clear_flags(b)
            /\ refcnt' = [refcnt EXCEPT ![b] = 1]
            /\ buf' = [buf EXCEPT ![p] = b]
            /\ want' = [want EXCEPT ![p] = k]
            /\ Goto(p, "getlock")
            /\ UNCHANGED panicked
       ELSE panicked' = TRUE /\ UNCHANGED <<blockno, valid, refcnt, buf, want, pc>>
  /\ UNCHANGED <<dirty, data, slock, lru, idequeue, active, disk>>

\* bread() reads the block if the buffer has never been filled.
bread(p) ==
  /\ pc[p] = "locked"
  /\ Goto(p, IF valid[buf[p]] THEN "use" ELSE "rw")
  /\ UNCHANGED <<bufvars, slock, lru, idequeue, active, disk, want, buf, panicked>>

\* The owner of the buffer changes the block ...
modify(p, v) ==
  /\ pc[p] = "use"
  /\ data' = [data EXCEPT ![buf[p]] = v]
  /\ Goto(p, "modified")
  /\ UNCHANGED <<blockno, refcnt, valid, dirty, slock, lru, idequeue, active, disk,
                 want, buf, panicked>>

\* The buffers the log keeps in the cache.
Pinned == {b \in Bufs : dirty[b] /\ \A p \in Procs : buf[p] = b => pc[p] \notin {"rw", "io"}}

\* ... and pins it (b->flags |= B_DIRTY in log_write).
log_write(p) ==
  /\ pc[p] = "modified"
  /\ Cardinality(Pinned \cup {buf[p]}) <= MaxPinned
  /\ dirty' = [dirty EXCEPT ![buf[p]] = TRUE]
  /\ Goto(p, "use")
  /\ UNCHANGED <<blockno, refcnt, valid, data, slock, lru, idequeue, active, disk,
                 want, buf, panicked>>

\* bwrite() of a changed block, or of one that was pinned before.
bwrite(p) ==
  /\ pc[p] \in {"use", "modified"}
  /\ panicked' = (slock[buf[p]] # p)
  /\ dirty' = [dirty EXCEPT ![buf[p]] = TRUE]
  /\ Goto(p, "rw")
  /\ UNCHANGED <<blockno, refcnt, valid, data, slock, lru, idequeue, active, disk,
                 want, buf>>

\* wakeup(lk) in releasesleep()
WakeWaiters(p, b) ==
  [q \in Procs |-> IF q = p THEN "relse"
                   ELSE IF pc[q] = "lockwait" /\ buf[q] = b THEN "getlock" ELSE pc[q]]

\* First part of brelse(): releasesleep().
releasesleep(p) ==
  /\ pc[p] = "use"
  /\ panicked' = (slock[buf[p]] # p)
  /\ slock' = [slock EXCEPT ![buf[p]] = None]
  /\ pc' = WakeWaiters(p, buf[p])
  /\ UNCHANGED <<bufvars, lru, idequeue, active, disk, want, buf>>

MoveToFront(b) == <<b>> \o SelectSeq(lru, LAMBDA x : x # b)

\* Second part: give up the reference, and move the buffer to the front of the
\* list if it was the last one.
brelse(p) ==
  LET b == buf[p] IN
  /\ pc[p] = "relse"
  /\ refcnt' = [refcnt EXCEPT ![b] = @ - 1]
  /\ lru' = IF refcnt'[b] = 0 THEN MoveToFront(b) ELSE lru
  /\ buf' = [buf EXCEPT ![p] = 0] /\ want' = [want EXCEPT ![p] = None]
  /\ Goto(p, "idle")
  /\ UNCHANGED <<blockno, valid, dirty, data, slock, idequeue, active, disk, panicked>>

\* acquiresleep(&b->lock): one look at lk->locked under lk->lk.
acquiresleep(p) ==
  /\ pc[p] = "getlock"
  /\ IF slock[buf[p]] = None
       THEN slock' = [slock EXCEPT ![buf[p]] = p] /\ Goto(p, "locked")
       ELSE Goto(p, "lockwait") /\ UNCHANGED slock
  /\ UNCHANGED <<bufvars, lru, idequeue, active, disk, want, buf, panicked>>

-----------------------------------------------------------------------------
(* ide.c *)

\* (b->flags & (B_VALID|B_DIRTY)) != B_VALID
Unfinished(b) == ~ valid[b] \/ dirty[b]

\* iderw(): append the buffer, start the disk if the queue was empty, sleep.
iderw(p) ==
  LET b == buf[p] IN
  /\ pc[p] = "rw"
  /\ panicked' = (slock[b] # p \/ (valid[b] /\ ~ dirty[b]))
  /\ idequeue' = Append(idequeue, b)
  /\ active' = IF idequeue = <<>> THEN b ELSE active
  /\ Goto(p, IF Unfinished(b) THEN "io" ELSE "use")
  /\ UNCHANGED <<bufvars, slock, lru, disk, want, buf>>

\* Faulty variant: the next request is not started.
Faulty_NextActive(q) == 0

\* if(idequeue != 0) idestart(idequeue);
NextActive(q) == IF q = <<>> THEN 0 ELSE Head(q)

\* The disk has done the active request and interrupts.  A read that fails
\* (err) leaves the old data in the buffer.
ideintr(err) ==
  LET b == Head(idequeue) IN
  /\ active # 0
  /\ err => ~ dirty[b] /\ DiskErrors
  /\ IF dirty[b]
       THEN disk' = [disk EXCEPT ![blockno[b]] = data[b]] /\ UNCHANGED data
       ELSE /\ data' = IF err THEN data ELSE [data EXCEPT ![b] = disk[blockno[b]]]
            /\ UNCHANGED disk
  /\ valid' = [valid EXCEPT ![b] = TRUE] /\ dirty' = [dirty EXCEPT ![b] = FALSE]
  /\ pc' = [q \in Procs |-> IF pc[q] = "io" /\ buf[q] = b THEN "iowoken" ELSE pc[q]]
  /\ idequeue' = Tail(idequeue)
  /\ active' = NextActive(Tail(idequeue))
  /\ UNCHANGED <<blockno, refcnt, slock, lru, want, buf, panicked>>

\* The loop of iderw(): done, or sleep again.
iderw_wake(p) ==
  /\ pc[p] = "iowoken"
  /\ Goto(p, IF Unfinished(buf[p]) THEN "io" ELSE "use")
  /\ UNCHANGED <<bufvars, slock, lru, idequeue, active, disk, want, buf, panicked>>

-----------------------------------------------------------------------------
\* What goes on by itself once a process has asked for a block.
Step(p) ==
  acquiresleep(p) \/ bread(p) \/ iderw(p) \/ iderw_wake(p) \/ brelse(p)

\* What the owner of a buffer does with it.
Use(p) ==
  \/ releasesleep(p) \/ bwrite(p) \/ log_write(p)
  \/ \E v \in Data : modify(p, v)

Next ==
  /\ ~ panicked
  /\ \/ \E p \in Procs : Step(p) \/ Use(p)
     \/ \E p \in Procs, k \in Blocks : bget_hit(p, k) \/ bget_recycle(p, k)
     \/ \E err \in BOOLEAN : ideintr(err)

Spec == Init /\ [][Next]_vars

-----------------------------------------------------------------------------
(* Properties *)

TypeOK ==
  /\ blockno \in [Bufs -> Blocks \cup {None}] /\ refcnt \in [Bufs -> 0 .. Cardinality(Procs)]
  /\ valid \in [Bufs -> BOOLEAN] /\ dirty \in [Bufs -> BOOLEAN]
  /\ data \in [Bufs -> Data] /\ disk \in [Blocks -> Data]
  /\ slock \in [Bufs -> Procs \cup {None}]
  /\ lru \in [Bufs -> Bufs] /\ ToSet(lru) = Bufs
  /\ idequeue \in Seq(Bufs) /\ active \in Bufs \cup {0}
  /\ pc \in [Procs -> PCs] /\ want \in [Procs -> Blocks \cup {None}]
  /\ buf \in [Procs -> Bufs \cup {0}] /\ panicked \in BOOLEAN

\* A buffer does not change its block under a process that uses it or waits
\* for it; the owner always has the data of the block it asked for, and with
\* B_DIRTY clear they are those of the disk until it changes them, because
\* iderw() returns only when the two agree.  The panics "bwrite", "brelse" and
\* "iderw: nothing to do" are not reached.  Nor is "no buffers" of bget(), on one
\* condition that param.h does not give: a buffer for every process and every pin
\* of the log (NBUF = Cardinality(Procs) + MaxPinned in the run).  The kernel has
\* NBUF = LOGSIZE, so the property says nothing about a log that fills the pool.
\* (The variables also keep their types, and the LRU list holds every buffer
\* once.)
BufferKept ==
  /\ TypeOK /\ ~ panicked
  /\ \A p \in Procs : buf[p] # 0 =>
       /\ blockno[buf[p]] = want[p]
       /\ pc[p] \in {"use", "modified"} => valid[buf[p]] /\ slock[buf[p]] = p
       /\ pc[p] = "use" /\ ~ dirty[buf[p]] => data[buf[p]] = disk[want[p]]

\* What bread() of a block returns now.
View(k) ==
  LET B == {b \in Bufs : blockno[b] = k /\ valid[b]} IN
  IF B = {} THEN disk[k] ELSE data[CHOOSE b \in B : TRUE]

\* The cache is invisible: what a block contains changes only when the owner
\* of its buffer changes it, never by recycling, disk transfers or interrupts.
\* It holds of a disk that reads without errors (DiskErrors = FALSE): ideintr()
\* makes the buffer of a failed read valid with what it held before.
OnlyOwnersChange ==
  [][\A k \in Blocks : View(k)' # View(k) =>
       \E p \in Procs : want[p] = k /\ pc[p] = "use" /\ pc'[p] = "modified"]_vars

\* Nobody sleeps without a reason: a process in iderw() has its buffer in the
\* queue and the disk works on the head of the queue; a process that waits for
\* a sleep-lock finds it held by another one.
SleepersWaitForSomething ==
  /\ active = (IF idequeue = <<>> THEN 0 ELSE Head(idequeue))
  /\ \A p \in Procs : pc[p] = "io" => \E i \in DOMAIN idequeue : idequeue[i] = buf[p]
  /\ \A p \in Procs : pc[p] = "lockwait" => slock[buf[p]] \notin {None, p}

=============================================================================
