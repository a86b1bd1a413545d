------------------------------- MODULE Sched -------------------------------
(***************************************************************************)
(* How a CPU changes hands: spinlock.c (acquire, release, pushcli,         *)
(* popcli), and sched(), scheduler(), yield(), sleep(), wakeup(),          *)
(* forkret() and exit() of proc.c, with interrupts.  Every kernel thread   *)
(* (each process in the kernel, and the scheduler of each CPU) has its     *)
(* own control; ptable.lock is taken by one thread and released by         *)
(* another one across swtch().  The sleeper is a process that waits under  *)
(* a lock "lk" for a condition that a device interrupt makes true.         *)
(***************************************************************************)
EXTENDS Integers, FiniteSets

CONSTANTS
  NPROC,   \* processes; process 1 never exits, it reaps and forks the others
  CPUs,
  None     \* no CPU

ASSUME SchedAssumption ==
  /\ NPROC \in Nat \ {0} /\ IsFiniteSet(CPUs) /\ CPUs # {} /\ None \notin CPUs
  /\ CPUs \cap (1 .. NPROC) = {}

Procs == 1 .. NPROC
Threads == Procs \cup CPUs    \* a CPU stands for its scheduler thread
Locks == {"ptable", "lk"}

VARIABLES
  cur,       \* the thread the CPU runs
  cproc,     \* c->proc, 0 if none
  intr,      \* FL_IF of the CPU
  ncli, intena,   \* fields of struct cpu
  holder,    \* the CPU that holds each lock, or None
  pc,        \* where each thread is ...
  acq,       \* ... and the step of acquire() it has to do before that, or "no"
  ret,       \* where the interrupt handler of a thread returns to
  saved,     \* the local variable intena of sched()
  state,     \* p->state
  kstack,    \* the process owns a kernel stack
  scan,      \* the position of scheduler() in the table
  ready,     \* the condition the sleepers wait for
  panicked

cpuvars == <<intr, ncli, intena>>
vars == <<cur, cproc, intr, ncli, intena, holder, pc, acq, ret, saved, state,
          kstack, scan, ready, panicked>>

\* The label a thread goes on with once it holds the lock.
LockAt(l) == IF l \in {"wait_loop", "dev"} THEN "lk" ELSE "ptable"
\* Labels inside an interrupt handler.
Handler == {"yield_set", "yield_swtch", "yield_back", "dev", "wakeup", "dev_end", "iret"}
PCs == Handler \cup {"user", "wait_loop", "sleep_release", "sleep_set",
         "sleep_swtch", "sleep_back", "exit_set", "exit_swtch", "gone", "reap",
         "fork", "forkret", "trapret", "sti", "scan", "scan_back"}

\* Every CPU is about to enter the loop of scheduler(); the processes exist
\* and have never run.
Init ==
  /\ cur = [c \in CPUs |-> c] /\ cproc = [c \in CPUs |-> 0]
  /\ intr = [c \in CPUs |-> FALSE] /\ ncli = [c \in CPUs |-> 0]
  /\ intena = [c \in CPUs |-> FALSE]
  /\ holder = [l \in Locks |-> None]
  /\ pc = [t \in Threads |-> IF t \in Procs THEN "forkret" ELSE "sti"]
  /\ acq = [t \in Threads |-> "no"]
  /\ ret = [t \in Threads |-> <<"user", "no">>]
  /\ saved = [p \in Procs |-> FALSE]
  /\ state = [p \in Procs |-> "RUNNABLE"]
  /\ kstack = [p \in Procs |-> TRUE]
  /\ scan = [c \in CPUs |-> 1]
  /\ ready = FALSE /\ panicked = FALSE

-----------------------------------------------------------------------------
(* spinlock.c *)

At(c, l) == ~ panicked /\ pc[cur[c]] = l /\ acq[cur[c]] = "no"

\* The thread of c goes to l; Lock: it calls acquire() on the way.
Goto(c, l) == pc' = [pc EXCEPT ![cur[c]] = l] /\ UNCHANGED acq
Lock(c, l) ==
  pc' = [pc EXCEPT ![cur[c]] = l] /\ acq' = [acq EXCEPT ![cur[c]] = "pushcli"]

\* if(mycpu()->ncli == 0) mycpu()->intena = eflags & FL_IF;
NoteIntena(c) ==
  intena' = IF ncli[c] = 0 THEN [intena EXCEPT ![c] = intr[c]] ELSE intena

\* mycpu()->ncli += 1
Pushed(n) == n + 1

\* --mycpu()->ncli
Popped(n) == n - 1

\* First step of acquire().
pushcli(c) ==
  /\ ~ panicked /\ acq[cur[c]] = "pushcli"
  /\ intr' = [intr EXCEPT ![c] = FALSE]
  /\ NoteIntena(c)
  /\ ncli' = [ncli EXCEPT ![c] = Pushed(@)]
  /\ acq' = [acq EXCEPT ![cur[c]] = "xchg"]
  /\ UNCHANGED <<cur, cproc, holder, pc, ret, saved, state, kstack, scan, ready,
                 panicked>>

\* Second step: spin until the lock is free.  A CPU that holds it already
\* panics.
acquire(c) ==
  LET l == LockAt(pc[cur[c]]) IN
  /\ ~ panicked /\ acq[cur[c]] = "xchg"
  /\ holder[l] \in {None, c}
  /\ panicked' = (holder[l] = c)
  /\ holder' = [holder EXCEPT ![l] = c]
  /\ acq' = [acq EXCEPT ![cur[c]] = "no"]
  /\ UNCHANGED <<cur, cproc, cpuvars, pc, ret, saved, state, kstack, scan, ready>>

\* release(l) with popcli(), ena being the value of mycpu()->intena.
release(c, l, ena) ==
  /\ panicked' = (holder[l] # c \/ intr[c] \/ ncli[c] < 1)
  /\ holder' = [holder EXCEPT ![l] = None]
  /\ ncli' = [ncli EXCEPT ![c] = Popped(@)]
  /\ intena' = [intena EXCEPT ![c] = ena]
  /\ intr' = [intr EXCEPT ![c] = ncli[c] = 1 /\ ena]

-----------------------------------------------------------------------------
(* A process that waits for the condition *)

\* A system call of the process that runs on c.
syscall(c) ==
  /\ At(c, "user")
  /\ \/ Lock(c, "wait_loop")
     \/ cur[c] # 1 /\ Lock(c, "exit_set")
     \/ cur[c] = 1 /\ (Lock(c, "reap") \/ Lock(c, "fork"))
  /\ UNCHANGED <<cur, cproc, cpuvars, holder, ret, saved, state, kstack, scan,
                 ready, panicked>>

\* Faulty variant: sleep() releases lk before it takes ptable.lock.
Faulty_sleep_lock(c) == release(c, "lk", intena[c]) /\ Lock(c, "sleep_set")

\* sleep() takes ptable.lock while it still holds lk.
sleep_lock(c) ==
  Lock(c, "sleep_release") /\ UNCHANGED <<cpuvars, holder, panicked>>

\* while(!ready) sleep(&ready, &lk); ready = 0; release(&lk);
wait_loop(c) ==
  /\ At(c, "wait_loop")
  /\ IF ready THEN release(c, "lk", intena[c]) /\ ready' = FALSE /\ Goto(c, "trapret")
              ELSE sleep_lock(c) /\ UNCHANGED ready
  /\ UNCHANGED <<cur, cproc, ret, saved, state, kstack, scan>>

\* release(lk) in sleep()
release_lk(c) == release(c, "lk", intena[c])

sleep_release(c) ==
  /\ At(c, "sleep_release")
  /\ release_lk(c)
  /\ Goto(c, "sleep_set")
  /\ UNCHANGED <<cur, cproc, ret, saved, state, kstack, scan, ready>>

\* p->state = SLEEPING, RUNNABLE or ZOMBIE, with ptable.lock held.
set_state(c, at, st, next) ==
  /\ At(c, at)
  /\ state' = [state EXCEPT ![cur[c]] = st]
  /\ Goto(c, next)
  /\ UNCHANGED <<cur, cproc, cpuvars, holder, ret, saved, kstack, scan, ready,
                 panicked>>

\* sched(): the checks, and the switch to the scheduler of the CPU.
sched(c, at, next) ==
  /\ At(c, at)
  /\ panicked' = (holder["ptable"] # c \/ ncli[c] # 1 \/ intr[c]
                    \/ state[cur[c]] = "RUNNING")
  /\ saved' = [saved EXCEPT ![cur[c]] = intena[c]]
  /\ Goto(c, next)
  /\ cur' = [cur EXCEPT ![c] = c]
  /\ UNCHANGED <<cproc, cpuvars, holder, ret, state, kstack, scan, ready>>

\* Faulty variant: sched() does not bring intena back.
Faulty_Restored(c) == intena[c]

\* mycpu()->intena = intena after swtch()
Restored(c) == saved[cur[c]]

\* The rest of sleep() after sched(): release ptable.lock, acquire lk.
sleep_back(c) ==
  /\ At(c, "sleep_back")
  /\ release(c, "ptable", Restored(c))
  /\ Lock(c, "wait_loop")
  /\ UNCHANGED <<cur, cproc, ret, saved, state, kstack, scan, ready>>

yield_back(c) ==
  /\ At(c, "yield_back")
  /\ release(c, "ptable", Restored(c))
  /\ Goto(c, "iret")
  /\ UNCHANGED <<cur, cproc, ret, saved, state, kstack, scan, ready>>

\* The first steps of a new process.
forkret(c) ==
  /\ At(c, "forkret")
  /\ release(c, "ptable", intena[c])
  /\ Goto(c, "trapret")
  /\ UNCHANGED <<cur, cproc, ret, saved, state, kstack, scan, ready>>

\* wait() finds a zombie and frees its kernel stack; or finds none.
reap(c) ==
  /\ At(c, "reap")
  /\ LET Z == {q \in Procs : state[q] = "ZOMBIE"} IN
     IF Z = {} THEN UNCHANGED <<state, kstack>>
     ELSE \E q \in Z : /\ state' = [state EXCEPT ![q] = "UNUSED"]
                       /\ kstack' = [kstack EXCEPT ![q] = FALSE]
  /\ release(c, "ptable", intena[c])
  /\ Goto(c, "trapret")
  /\ UNCHANGED <<cur, cproc, ret, saved, scan, ready>>

\* fork() makes a process RUNNABLE in an UNUSED slot; or there is none.
fork(c) ==
  LET U == {q \in Procs : state[q] = "UNUSED"} IN
  /\ At(c, "fork")
  /\ IF U = {} THEN Goto(c, "trapret") /\ UNCHANGED <<state, kstack>>
     ELSE \E q \in U : /\ state' = [state EXCEPT ![q] = "RUNNABLE"]
                       /\ kstack' = [kstack EXCEPT ![q] = TRUE]
                       /\ pc' = [pc EXCEPT ![cur[c]] = "trapret", ![q] = "forkret"]
                       /\ UNCHANGED acq
  /\ release(c, "ptable", intena[c])
  /\ UNCHANGED <<cur, cproc, ret, saved, scan, ready>>

-----------------------------------------------------------------------------
(* Interrupts *)

\* The CPU takes an interrupt between any two instructions while FL_IF is set;
\* the gate clears FL_IF.
interrupt(c) ==
  /\ ~ panicked /\ intr[c]
  /\ intr' = [intr EXCEPT ![c] = FALSE]
  /\ ret' = [ret EXCEPT ![cur[c]] = <<pc[cur[c]], acq[cur[c]]>>]
  /\ UNCHANGED <<cur, cproc, ncli, intena, holder, saved, state, kstack, scan,
                 ready, panicked>>

\* The clock tick makes the process of this CPU call yield(), which begins
\* with acquire(&ptable.lock).
timer(c) ==
  /\ cproc[c] # 0 /\ state[cproc[c]] = "RUNNING"
  /\ interrupt(c) /\ Lock(c, "yield_set")

device(c) == interrupt(c) /\ Lock(c, "dev")

\* The handler makes the condition true under lk and calls wakeup().
dev(c) ==
  /\ At(c, "dev")
  /\ ready' = TRUE
  /\ Lock(c, "wakeup")
  /\ UNCHANGED <<cur, cproc, cpuvars, holder, ret, saved, state, kstack, scan, panicked>>

wakeup(c) ==
  /\ At(c, "wakeup")
  /\ state' = [p \in Procs |-> IF state[p] = "SLEEPING" THEN "RUNNABLE" ELSE state[p]]
  /\ release(c, "ptable", intena[c])
  /\ Goto(c, "dev_end")
  /\ UNCHANGED <<cur, cproc, ret, saved, kstack, scan, ready>>

dev_end(c) ==
  /\ At(c, "dev_end")
  /\ release(c, "lk", intena[c])
  /\ Goto(c, "iret")
  /\ UNCHANGED <<cur, cproc, ret, saved, state, kstack, scan, ready>>

\* trapret: back to user space, with FL_IF set.
trapret(c) ==
  /\ At(c, "trapret")
  /\ Goto(c, "user")
  /\ intr' = [intr EXCEPT ![c] = TRUE]
  /\ UNCHANGED <<cur, cproc, ncli, intena, holder, ret, saved, state, kstack, scan,
                 ready, panicked>>

\* The end of an interrupt: back to what was interrupted, with FL_IF set.
iret(c) ==
  /\ At(c, "iret")
  /\ pc' = [pc EXCEPT ![cur[c]] = ret[cur[c]][1]]
  /\ acq' = [acq EXCEPT ![cur[c]] = ret[cur[c]][2]]
  /\ ret' = [ret EXCEPT ![cur[c]] = <<"user", "no">>]
  /\ intr' = [intr EXCEPT ![c] = TRUE]
  /\ UNCHANGED <<cur, cproc, ncli, intena, holder, saved, state, kstack, scan,
                 ready, panicked>>

-----------------------------------------------------------------------------
(* scheduler() *)

\* sti(), then acquire(&ptable.lock) for a pass over the table.
sti(c) ==
  /\ At(c, "sti")
  /\ intr' = [intr EXCEPT ![c] = TRUE]
  /\ Lock(c, "scan")
  /\ scan' = [scan EXCEPT ![c] = 1]
  /\ UNCHANGED <<cur, cproc, ncli, intena, holder, ret, saved, state, kstack,
                 ready, panicked>>

\* Faulty variant: the search does not pass over processes that run already.
Faulty_Eligible(p) == state[p] \in {"RUNNABLE", "RUNNING"}

\* if(p->state != RUNNABLE) continue;
Eligible(p) == state[p] = "RUNNABLE"

\* The next RUNNABLE process of the pass gets the CPU, and ptable.lock with it.
switch(c) ==
  LET R == {p \in Procs : Eligible(p) /\ p >= scan[c]} IN
  /\ At(c, "scan")
  /\ \E p \in R :
       /\ \A q \in R : p <= q
       /\ cproc' = [cproc EXCEPT ![c] = p]
       /\ state' = [state EXCEPT ![p] = "RUNNING"]
       /\ scan' = [scan EXCEPT ![c] = p + 1]
       /\ cur' = [cur EXCEPT ![c] = p]
  /\ Goto(c, "scan_back")
  /\ UNCHANGED <<cpuvars, holder, ret, saved, kstack, ready, panicked>>

scan_back(c) ==
  /\ At(c, "scan_back")
  /\ cproc' = [cproc EXCEPT ![c] = 0]
  /\ Goto(c, "scan")
  /\ UNCHANGED <<cur, cpuvars, holder, ret, saved, state, kstack, scan, ready, panicked>>

scan_end(c) ==
  /\ At(c, "scan")
  /\ \A p \in Procs : Eligible(p) => p < scan[c]
  /\ release(c, "ptable", intena[c])
  /\ Goto(c, "sti")
  /\ UNCHANGED <<cur, cproc, ret, saved, state, kstack, scan, ready>>

Kernel(c) ==
  \/ pushcli(c) \/ acquire(c) \/ wait_loop(c) \/ sleep_release(c)
  \/ set_state(c, "sleep_set", "SLEEPING", "sleep_swtch")
  \/ set_state(c, "yield_set", "RUNNABLE", "yield_swtch")
  \/ set_state(c, "exit_set", "ZOMBIE", "exit_swtch")
  \/ sched(c, "sleep_swtch", "sleep_back")
  \/ sched(c, "yield_swtch", "yield_back")
  \/ sched(c, "exit_swtch", "gone")
  \/ sleep_back(c) \/ yield_back(c) \/ forkret(c) \/ reap(c) \/ fork(c)
  \/ dev(c) \/ wakeup(c) \/ dev_end(c) \/ iret(c) \/ trapret(c)
  \/ sti(c) \/ switch(c) \/ scan_back(c) \/ scan_end(c)

Next == \E c \in CPUs : Kernel(c) \/ syscall(c) \/ timer(c) \/ device(c)

Spec == Init /\ [][Next]_vars

-----------------------------------------------------------------------------
(* Properties *)

TypeOK ==
  /\ cur \in [CPUs -> Threads] /\ cproc \in [CPUs -> Procs \cup {0}]
  /\ intr \in [CPUs -> BOOLEAN] /\ intena \in [CPUs -> BOOLEAN]
  /\ ncli \in [CPUs -> 0 .. 2]   \* at most the two locks
  /\ holder \in [Locks -> CPUs \cup {None}]
  /\ pc \in [Threads -> PCs] /\ acq \in [Threads -> {"no", "pushcli", "xchg"}]
  /\ ret \in [Threads -> PCs \X {"no", "pushcli"}]
  /\ saved \in [Procs -> BOOLEAN] /\ kstack \in [Procs -> BOOLEAN]
  /\ state \in [Procs -> {"UNUSED", "RUNNABLE", "RUNNING", "SLEEPING", "ZOMBIE"}]
  /\ scan \in [CPUs -> 1 .. NPROC + 1]
  /\ ready \in BOOLEAN /\ panicked \in BOOLEAN

\* While a process sleeps, the condition is false or the handler that made it
\* true has not come to its end: no wakeup falls between the test of the
\* condition and the sleep.
NoLostWakeup ==
  ready /\ holder["lk"] = None => \A p \in Procs : state[p] # "SLEEPING"

\* No kernel stack is used by two CPUs or after it was freed: the process that
\* gives up the CPU is off its stack before ptable.lock lets others resume,
\* reap or reuse it.
OneStack ==
  /\ \A c, d \in CPUs : cur[c] = cur[d] => c = d
  /\ \A c \in CPUs : cur[c] \in Procs => kstack[cur[c]] /\ cproc[c] = cur[c]

\* Interrupts are off exactly where they have to be: while the CPU holds or
\* takes a lock and in interrupt handlers; everywhere else they are on, except
\* on the way of a new process to user space and of a scheduler to its sti().
\* So none of the panics of acquire(), release(), popcli() and sched() is
\* reached: an interrupt never spins on a lock its own CPU holds, and a thread
\* comes to sched() with exactly one lock, ptable.lock, and interrupts off,
\* although another thread, perhaps on another CPU, released what it had
\* acquired.  (The variables also keep their types.)
InterruptsRight ==
  /\ TypeOK /\ ~ panicked
  /\ \A c \in CPUs :
       /\ ncli[c] > 0 \/ pc[cur[c]] \in Handler => ~ intr[c]
       /\ ncli[c] = 0 /\ pc[cur[c]] \notin Handler \cup {"sti", "trapret"} => intr[c]

=============================================================================
