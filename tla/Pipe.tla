-------------------------------- MODULE Pipe --------------------------------
(***************************************************************************)
(* The pipe of pipe.c: readers and writers that share the two ends, the    *)
(* ring buffer with its free-running unsigned counters, sleep() and        *)
(* wakeup() on the two channels, kill(), and the end of the pipe when the  *)
(* last descriptor of an end is closed.  One iteration of a loop is a      *)
(* step; p->lock is held from acquire() to sleep() or to the return.  A    *)
(* close is three steps: fileclose() under ftable.lock, pipeclose() under  *)
(* p->lock, and the kfree() after the release.                             *)
(***************************************************************************)
EXTENDS Integers, Sequences, FiniteSets

CONSTANTS
  Readers, Writers,   \* processes that may have an end of the pipe open
  Bytes,              \* the values of a byte
  PIPESIZE,           \* size of the ring buffer
  WORD,               \* the counters are unsigned: they wrap at WORD (2^32)
  MaxN,               \* bound: the longest read() or write()
  Victims,            \* the processes somebody may kill
  None                \* nobody holds p->lock

ASSUME PipeAssumption ==
  /\ Readers \cap Writers = {} /\ Readers # {} /\ Writers # {} /\ Bytes # {}
  /\ PIPESIZE \in Nat \ {0} /\ MaxN \in Nat \ {0} /\ None \notin Readers \cup Writers
  /\ WORD \in Nat /\ WORD > PIPESIZE /\ WORD % PIPESIZE = 0

VARIABLES
  data, nread, nwrite, readopen, writeopen,   \* struct pipe
  lk,       \* the holder of p->lock
  freed,    \* pipeclose() gave the page back with kfree()
  open,     \* the processes that have their end of the pipe open
  pc,       \* where each process is
  left,     \* n - i in piperead() and pipewrite()
  addr,     \* the bytes piperead() has stored in the caller's buffer
  killed    \* somebody has killed the process

Procs == Readers \cup Writers
pipe == <<data, nread, nwrite>>
vars == <<data, nread, nwrite, readopen, writeopen, lk, freed, open, pc, left,
          addr, killed>>

\* user space, in the loop with p->lock held, copying, past the test of
\* killed, in sleep(), woken from it, before pipeclose(), before kfree()
PCs == {"user", "loop", "copy", "sleep", "asleep", "woken", "close", "kfree"}

\* What kfree() leaves in a page.
Junk == [k \in 0 .. PIPESIZE - 1 |-> CHOOSE b \in Bytes : TRUE]

\* pipealloc() has made the pipe for one reader and one writer.
Init ==
  /\ data = Junk
  /\ nread = 0 /\ nwrite = 0 /\ readopen = TRUE /\ writeopen = TRUE
  /\ lk = None /\ freed = FALSE
  /\ \E r \in Readers, w \in Writers : open = {r, w}
  /\ pc = [p \in Procs |-> "user"]
  /\ left = [p \in Procs |-> 0] /\ addr = [r \in Readers |-> <<>>]
  /\ killed = [p \in Procs |-> FALSE]

\* pipealloc() uses the page again, for two new processes that share its ends.
pipealloc(r, w) ==
  /\ freed
  /\ data' = Junk
  /\ nread' = 0 /\ nwrite' = 0 /\ readopen' = TRUE /\ writeopen' = TRUE
  /\ lk' = None /\ freed' = FALSE
  /\ open' = {r, w}
  /\ killed' = [p \in Procs |-> FALSE]
  /\ UNCHANGED <<pc, left, addr>>

-----------------------------------------------------------------------------
Goto(p, l) == pc' = [pc EXCEPT ![p] = l]

\* wakeup() of the processes in S that sleep, p itself going to l.
Woken(S) == [q \in Procs |-> IF q \in S /\ pc[q] = "asleep" THEN "woken" ELSE pc[q]]

Empty == nread = nwrite

\* Faulty variant: the counter is not reduced to its width.
Faulty_Full == nwrite = nread + PIPESIZE

Full == nwrite = (nread + PIPESIZE) % WORD

\* A read() or write() of k bytes begins and takes p->lock.  trap() lets no
\* killed process begin it.
call(p, k) ==
  /\ pc[p] = "user" /\ p \in open /\ ~ killed[p] /\ lk = None
  /\ lk' = p
  /\ Goto(p, "loop")
  /\ left' = [left EXCEPT ![p] = k]
  /\ UNCHANGED <<pipe, readopen, writeopen, freed, open, addr, killed>>

\* Faulty variant: while(...) became if(...): a woken reader does not look again.
Faulty_acquired(p) == IF pc[p] = "woken" /\ p \in Readers THEN "copy" ELSE "loop"

\* Where a process goes on with p->lock: the loops test their conditions again.
acquired(p) == "loop"

\* acquire(lk) at the end of sleep().
acquire(p) ==
  /\ pc[p] = "woken" /\ lk = None
  /\ lk' = p
  /\ Goto(p, acquired(p))
  /\ UNCHANGED <<pipe, readopen, writeopen, freed, open, left, addr, killed>>

\* sleep(): p->lock is released once ptable.lock protects the sleeper.
sleep(p) ==
  /\ pc[p] = "sleep"
  /\ lk' = None
  /\ Goto(p, "asleep")
  /\ UNCHANGED <<pipe, readopen, writeopen, freed, open, left, addr, killed>>

-----------------------------------------------------------------------------
\* One byte goes into the ring.
pipewrite_store(p, b) ==
  /\ p \in Writers /\ pc[p] = "loop" /\ left[p] > 0 /\ ~ Full
  /\ data' = [data EXCEPT ![nwrite % PIPESIZE] = b]
  /\ nwrite' = (nwrite + 1) % WORD
  /\ left' = [left EXCEPT ![p] = @ - 1]
  /\ UNCHANGED <<nread, readopen, writeopen, lk, freed, open, pc, addr, killed>>

\* The ring is full: give up, or wake the readers and go on to sleep().
pipewrite_full(p) ==
  /\ p \in Writers /\ pc[p] = "loop" /\ left[p] > 0 /\ Full
  /\ IF ~ readopen \/ killed[p]
       THEN Goto(p, "user") /\ lk' = None /\ left' = [left EXCEPT ![p] = 0]
       ELSE pc' = [Woken(Readers) EXCEPT ![p] = "sleep"] /\ UNCHANGED <<lk, left>>
  /\ UNCHANGED <<pipe, readopen, writeopen, freed, open, addr, killed>>

\* pipewrite-wakeup1, and the return.
wakeup_nread(p) == pc' = [Woken(Readers) EXCEPT ![p] = "user"]

pipewrite_return(p) ==
  /\ p \in Writers /\ pc[p] = "loop" /\ left[p] = 0
  /\ wakeup_nread(p)
  /\ lk' = None
  /\ UNCHANGED <<pipe, readopen, writeopen, freed, open, left, addr, killed>>

-----------------------------------------------------------------------------
\* pipe-empty
MustWait == Empty /\ writeopen

piperead_wait(p) ==
  /\ p \in Readers /\ pc[p] = "loop"
  /\ IF MustWait
       THEN IF killed[p]
              THEN Goto(p, "user") /\ lk' = None /\ left' = [left EXCEPT ![p] = 0]
              ELSE Goto(p, "sleep") /\ UNCHANGED <<lk, left>>
       ELSE Goto(p, "copy") /\ UNCHANGED <<lk, left>>
  /\ UNCHANGED <<pipe, readopen, writeopen, freed, open, addr, killed>>

piperead_copy(p) ==
  /\ p \in Readers /\ pc[p] = "copy" /\ left[p] > 0 /\ ~ Empty
  /\ addr' = [addr EXCEPT ![p] = Append(@, data[nread % PIPESIZE])]
  /\ nread' = (nread + 1) % WORD
  /\ left' = [left EXCEPT ![p] = @ - 1]
  /\ UNCHANGED <<data, nwrite, readopen, writeopen, lk, freed, open, pc, killed>>

\* piperead-wakeup, and the return of i.
wakeup_nwrite(p) == pc' = [Woken(Writers) EXCEPT ![p] = "user"]

piperead_return(p) ==
  /\ p \in Readers /\ pc[p] = "copy" /\ (left[p] = 0 \/ Empty)
  /\ wakeup_nwrite(p)
  /\ lk' = None
  /\ addr' = [addr EXCEPT ![p] = <<>>] /\ left' = [left EXCEPT ![p] = 0]
  /\ UNCHANGED <<pipe, readopen, writeopen, freed, open, killed>>

-----------------------------------------------------------------------------
\* Faulty variant: the end of one side is enough to free the pipe.
Faulty_Unused(r, w) == ~ r \/ ~ w

\* p->readopen == 0 && p->writeopen == 0
Unused(r, w) == ~ r /\ ~ w

\* The other processes of p's end.
SameEnd(p) == (IF p \in Readers THEN Readers ELSE Writers) \ {p}

\* close(), or exit() of a killed process: fileclose() drops a reference, and
\* goes on to pipeclose() when it was the last one of its end.
close(p) ==
  /\ pc[p] = "user" /\ p \in open
  /\ open' = open \ {p}
  /\ IF open \cap SameEnd(p) = {} THEN Goto(p, "close") ELSE UNCHANGED pc
  /\ UNCHANGED <<pipe, readopen, writeopen, lk, freed, left, addr, killed>>

\* The wakeup() of the other end; p goes on to l.
wake_other_end(p, l) ==
  pc' = [Woken(IF p \in Writers THEN Readers ELSE Writers) EXCEPT ![p] = l]

\* The part of pipeclose() under p->lock.
pipeclose(p) ==
  /\ pc[p] = "close" /\ lk = None
  /\ readopen' = (readopen /\ p \in Writers)
  /\ writeopen' = (writeopen /\ p \in Readers)
  /\ wake_other_end(p, IF Unused(readopen', writeopen') THEN "kfree" ELSE "user")
  /\ UNCHANGED <<pipe, lk, freed, open, left, addr, killed>>

\* kfree(), when p->lock is released.
kfree(p) ==
  /\ pc[p] = "kfree"
  /\ freed' = TRUE
  /\ Goto(p, "user")
  /\ UNCHANGED <<pipe, readopen, writeopen, lk, open, left, addr, killed>>

\* fork(): a new process q shares the end of p.  The name of a process that was
\* killed is not used again, so killed tells what ever happened to this pipe.
fork(p, q) ==
  /\ pc[p] = "user" /\ p \in open /\ ~ killed[p]
  /\ pc[q] = "user" /\ q \notin open /\ ~ killed[q]
  /\ p \in Readers <=> q \in Readers
  /\ open' = open \cup {q}
  /\ UNCHANGED <<pipe, readopen, writeopen, lk, freed, pc, left, addr, killed>>

\* kill() by somebody: the mark, and the wakeup if the process sleeps now.
kill(p) ==
  /\ p \in open \cap Victims /\ ~ killed[p]
  /\ killed' = [killed EXCEPT ![p] = TRUE]
  /\ pc' = [pc EXCEPT ![p] = IF @ = "asleep" THEN "woken" ELSE @]
  /\ UNCHANGED <<pipe, readopen, writeopen, lk, freed, open, left, addr>>

\* A step of a process inside piperead() or pipewrite().
Step(p) ==
  \/ sleep(p)
  \/ pipewrite_full(p) \/ pipewrite_return(p)
  \/ \E b \in Bytes : pipewrite_store(p, b)
  \/ piperead_wait(p) \/ piperead_copy(p) \/ piperead_return(p)

Next ==
  \/ \E p \in Procs :
       \/ Step(p) \/ acquire(p) \/ close(p) \/ pipeclose(p) \/ kfree(p) \/ kill(p)
       \/ \E k \in 1 .. MaxN : call(p, k)
       \/ \E q \in Procs : fork(p, q)
  \/ \E r \in Readers, w \in Writers : pipealloc(r, w)

Spec == Init /\ [][Next]_vars

-----------------------------------------------------------------------------
(* Properties *)

\* The number of bytes in the ring, by unsigned subtraction.
Count == (nwrite - nread) % WORD

TypeOK ==
  /\ data \in [0 .. PIPESIZE - 1 -> Bytes]
  /\ nread \in 0 .. WORD - 1 /\ nwrite \in 0 .. WORD - 1 /\ Count <= PIPESIZE
  /\ readopen \in BOOLEAN /\ writeopen \in BOOLEAN /\ freed \in BOOLEAN
  /\ lk \in Procs \cup {None} /\ open \subseteq Procs
  /\ pc \in [Procs -> PCs] /\ killed \in [Procs -> BOOLEAN]
  /\ left \in [Procs -> 0 .. MaxN] /\ addr \in [Readers -> Seq(Bytes)]

\* The two ends wait when they must and only then.  Once p->lock is free, a
\* writer sleeps only while the ring is full and a reader may still come (the
\* condition marked "pipewrite-full"), and a reader, as long as no writer was
\* killed, only while there is nothing to read and a writer may still come
\* ("pipe-empty"); so the two never sleep both.  And a reader that begins to copy
\* finds something or the end of the stream, though another reader may have
\* drained the ring before it: a read returns 0 only at the end.
WaitsRight ==
  /\ lk = None => \A p \in Writers : pc[p] = "asleep" => Full /\ readopen
  /\ lk = None /\ (\A q \in Writers : ~ killed[q]) =>
       \A p \in Readers : pc[p] = "asleep" => Empty /\ writeopen
  /\ \A p \in Readers : pc[p] = "copy" /\ addr[p] = <<>> /\ Empty => ~ writeopen

\* The page of the pipe is not touched once pipeclose() has decided to free it:
\* from the release() of p->lock on, before and after kfree(), no other process
\* is inside the pipe, can enter it or is about to free it too.  (The variables
\* also keep their types.)
NoUseAfterFree ==
  /\ TypeOK
  /\ freed => open = {} /\ lk = None /\ \A p \in Procs : pc[p] = "user"
  /\ \A p \in Procs : pc[p] = "kfree" =>
       open = {} /\ lk = None /\ \A q \in Procs \ {p} : pc[q] = "user"

\* The bytes in the ring, oldest first.
Queue == [k \in 1 .. Count |-> data[(nread + k - 1) % PIPESIZE]]

BS == INSTANCE ByteStream WITH
        Capacity <- PIPESIZE, wopen <- writeopen, got <- addr, queue <- Queue

\* The pipe is a bounded first-in first-out stream: whatever the readers and
\* writers do at the same time and however the counters wrap, no byte is lost,
\* duplicated or reordered.
ImplementsByteStream == BS!BSpec
=============================================================================
