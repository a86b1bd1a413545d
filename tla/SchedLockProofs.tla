-------------------------- MODULE SchedLockProofs --------------------------
(***************************************************************************)
(* The inductive invariant of Sched, and the proofs about its locks: which *)
(* thread holds them, that no step panics, and the types of the variables. *)
(***************************************************************************)
EXTENDS Sched, TLAPS

(* The inductive invariant. *)

\* Labels that acquire() leads to, and labels under ptable.lock.
AcqAt == {"wait_loop", "sleep_release", "exit_set", "reap", "fork", "yield_set", "dev",
          "wakeup", "scan"}
PtableAt == {"yield_set", "yield_swtch", "yield_back", "wakeup", "sleep_release",
             "sleep_set", "sleep_swtch", "sleep_back", "exit_set", "exit_swtch", "reap",
             "fork", "forkret", "scan", "scan_back"}

HasPtable(t) == pc[t] \in PtableAt /\ acq[t] = "no"
HasLk(t) ==
  \/ pc[t] \in {"sleep_release", "wakeup", "dev_end"}
  \/ pc[t] \in {"wait_loop", "dev"} /\ acq[t] = "no"

\* The CPU holds the locks that its thread took, or took over with swtch(), and
\* has as many calls of pushcli() open.
LockOf(c) ==
  /\ holder["ptable"] = c <=> HasPtable(cur[c])
  /\ holder["lk"] = c <=> HasLk(cur[c])
  /\ ncli[c] = (IF HasPtable(cur[c]) THEN 1 ELSE 0) + (IF HasLk(cur[c]) THEN 1 ELSE 0)
                 + (IF acq[cur[c]] = "xchg" THEN 1 ELSE 0)

LockInv ==
  /\ \A t \in Threads : acq[t] # "no" => pc[t] \in AcqAt
  /\ \A c \in CPUs : LockOf(c)

\* The state of a process that runs, by its label.
StateAt(l) == CASE l = "sleep_swtch" -> "SLEEPING"
                [] l = "yield_swtch" -> "RUNNABLE"
                [] l = "exit_swtch" -> "ZOMBIE"
                [] OTHER -> "RUNNING"

\* What a process that no CPU runs left behind.
Resumable(p) ==
  /\ acq[p] = "no"
  /\ \/ state[p] = "RUNNABLE" /\ pc[p] \in {"forkret", "sleep_back", "yield_back"}
     \/ state[p] = "SLEEPING" /\ pc[p] = "sleep_back"
     \/ state[p] \in {"ZOMBIE", "UNUSED"} /\ pc[p] = "gone"

\* A CPU runs its scheduler or one process, that no other CPU runs.
RunOf(c) ==
  /\ cur[c] \in Procs \cup {c}
  /\ cur[c] \in Procs =>
       /\ cproc[c] = cur[c] /\ state[cur[c]] = StateAt(pc[cur[c]])
       /\ pc[cur[c]] \notin {"gone", "sti", "scan", "scan_back"}
       /\ pc[c] = "scan_back" /\ acq[c] = "no"
  /\ cur[c] = c =>
       /\ pc[c] \in {"sti", "scan", "scan_back", "dev", "wakeup", "dev_end", "iret"}
       /\ pc[c] # "scan_back" => cproc[c] = 0

RunInv ==
  /\ \A c, d \in CPUs : cur[c] = cur[d] => c = d
  /\ \A c \in CPUs : RunOf(c)
  /\ \A p \in Procs : (\A c \in CPUs : cur[c] # p) => Resumable(p)
  /\ \A p \in Procs : kstack[p] <=> state[p] # "UNUSED"

\* What an interrupt may interrupt: code that holds no lock.
Interruptible(t) ==
  IF t \in Procs
    THEN ({"user", "trapret"} \X {"no"}) \cup ({"wait_loop", "exit_set", "reap", "fork"} \X {"pushcli"})
    ELSE {<<"sti", "no">>, <<"scan", "pushcli">>}

RetInv == \A t \in Threads : pc[t] \in Handler => ret[t] \in Interruptible(t)

\* FL_IF, and what popcli() is going to make of it.
IntrOf(c) ==
  /\ ncli[c] > 0 \/ pc[cur[c]] \in Handler => ~ intr[c]
  /\ ncli[c] = 0 /\ pc[cur[c]] \notin Handler \cup {"sti", "trapret"} => intr[c]
  /\ ncli[c] > 0 /\ pc[cur[c]] \in {"wait_loop", "sleep_release", "sleep_set", "sleep_swtch",
                                    "exit_set", "exit_swtch", "reap", "fork"} => intena[c]
  /\ ncli[c] > 0 /\ pc[cur[c]] \in Handler \ {"yield_back"} => ~ intena[c]

IntrInv ==
  /\ \A c \in CPUs : IntrOf(c)
  /\ \A p \in Procs : (pc[p] = "sleep_back" => saved[p]) /\ (pc[p] = "yield_back" => ~ saved[p])

\* Whoever is going to sleep or sleeps does so for a condition that is false, or
\* the handler that made it true has still to call wakeup().
WakeInv ==
  /\ \A c \in CPUs : pc[cur[c]] = "sleep_release" => ~ ready
  /\ ready /\ ((\E c \in CPUs : pc[cur[c]] = "sleep_set") \/ \E p \in Procs : state[p] = "SLEEPING")
       => \E c \in CPUs : pc[cur[c]] = "wakeup"

SchedInv ==
  TypeOK /\ ~ panicked /\ LockInv /\ RunInv /\ RetInv /\ IntrInv /\ WakeInv

-----------------------------------------------------------------------------
(* A step of one CPU leaves the others alone. *)

\* What a step of CPU c does not change for the other CPUs.
Frame(c) ==
  \A d \in CPUs \ {c} :
    /\ cur'[d] = cur[d] /\ cproc'[d] = cproc[d]
    /\ intr'[d] = intr[d] /\ ncli'[d] = ncli[d] /\ intena'[d] = intena[d]
    /\ pc'[cur[d]] = pc[cur[d]] /\ acq'[cur[d]] = acq[cur[d]]
    /\ \A l \in Locks : holder'[l] = d <=> holder[l] = d

\* The locks a CPU holds, by the label of its thread.
LEMMA HolderIs ==
  ASSUME SchedInv, NEW c \in CPUs
  PROVE  /\ holder["ptable"] = c <=> pc[cur[c]] \in PtableAt /\ acq[cur[c]] = "no"
         /\ pc[cur[c]] \in {"sleep_release", "wakeup", "dev_end"} => holder["lk"] = c
         /\ At(c, "wait_loop") => holder["lk"] = c
BY DEF SchedInv, LockInv, LockOf, HasPtable, HasLk, At

\* No step of a CPU changes the thread, the locks or the interrupts of another.
LEMMA FrameStep ==
  ASSUME SchedInv, NEW c \in CPUs, Kernel(c) \/ syscall(c) \/ timer(c) \/ device(c)
  PROVE  Frame(c)
<1>1. /\ cur \in [CPUs -> Threads] /\ pc \in [Threads -> PCs] /\ CPUs \subseteq Threads
      /\ acq \in [Threads -> {"no", "pushcli", "xchg"}]
      /\ holder \in [Locks -> CPUs \cup {None}] /\ ncli \in [CPUs -> 0 .. 2]
      /\ intr \in [CPUs -> BOOLEAN] /\ intena \in [CPUs -> BOOLEAN]
      /\ cproc \in [CPUs -> Procs \cup {0}] /\ None \notin CPUs
  BY SchedAssumption DEF SchedInv, TypeOK, Threads
<1>2. \A d \in CPUs \ {c} : cur[d] # cur[c]
  BY DEF SchedInv, RunInv, RunOf
<1>3. /\ holder["ptable"] = c <=> pc[cur[c]] \in PtableAt /\ acq[cur[c]] = "no"
      /\ pc[cur[c]] \in {"sleep_release", "wakeup", "dev_end"} => holder["lk"] = c
      /\ At(c, "wait_loop") => holder["lk"] = c
  BY HolderIs
<1>10. CASE pushcli(c)
  BY <1>1, <1>2, <1>10 DEF pushcli, NoteIntena, Pushed, Frame
<1>11. CASE acquire(c)
  BY <1>1, <1>2, <1>11 DEF acquire, LockAt, cpuvars, Frame
<1>12. CASE syscall(c)
  BY <1>1, <1>2, <1>12 DEF syscall, At, Lock, cpuvars, Frame
<1>13. CASE wait_loop(c)
  BY <1>1, <1>2, <1>3, <1>13 DEF wait_loop, release, Popped, sleep_lock, At, Lock, Goto, cpuvars, PtableAt, Frame
<1>14. CASE sleep_release(c)
  BY <1>1, <1>2, <1>3, <1>14 DEF sleep_release, release_lk, release, Popped, At, Goto, PtableAt, Frame
<1>15. CASE set_state(c, "sleep_set", "SLEEPING", "sleep_swtch")
  BY <1>1, <1>2, <1>15 DEF set_state, At, Goto, cpuvars, Frame
<1>16. CASE set_state(c, "yield_set", "RUNNABLE", "yield_swtch")
  BY <1>1, <1>2, <1>16 DEF set_state, At, Goto, cpuvars, Frame
<1>17. CASE set_state(c, "exit_set", "ZOMBIE", "exit_swtch")
  BY <1>1, <1>2, <1>17 DEF set_state, At, Goto, cpuvars, Frame
<1>18. CASE sched(c, "sleep_swtch", "sleep_back")
  BY <1>1, <1>2, <1>18 DEF sched, At, Goto, cpuvars, Frame
<1>19. CASE sched(c, "yield_swtch", "yield_back")
  BY <1>1, <1>2, <1>19 DEF sched, At, Goto, cpuvars, Frame
<1>20. CASE sched(c, "exit_swtch", "gone")
  BY <1>1, <1>2, <1>20 DEF sched, At, Goto, cpuvars, Frame
<1>21. CASE sleep_back(c)
  BY <1>1, <1>2, <1>3, <1>21 DEF sleep_back, Restored, release, Popped, At, Lock, PtableAt, Frame
<1>22. CASE yield_back(c)
  BY <1>1, <1>2, <1>3, <1>22 DEF yield_back, Restored, release, Popped, At, Goto, PtableAt, Frame
<1>23. CASE forkret(c)
  BY <1>1, <1>2, <1>3, <1>23 DEF forkret, release, Popped, At, Goto, PtableAt, Frame
<1>24. CASE reap(c)
  BY <1>1, <1>2, <1>3, <1>24 DEF reap, release, Popped, At, Goto, PtableAt, Frame
<1>25. CASE fork(c)
  <2>1. \A d \in CPUs : cur[d] \in Procs => state[cur[d]] # "UNUSED"
    BY DEF SchedInv, RunInv, RunOf, StateAt
  <2> QED BY <1>1, <1>2, <1>3, <1>25, <2>1 DEF fork, release, Popped, At, Goto, PtableAt, Frame
<1>26. CASE dev(c)
  BY <1>1, <1>2, <1>26 DEF dev, At, Lock, cpuvars, Frame
<1>27. CASE wakeup(c)
  BY <1>1, <1>2, <1>3, <1>27 DEF wakeup, release, Popped, At, Goto, PtableAt, Frame
<1>28. CASE dev_end(c)
  BY <1>1, <1>2, <1>3, <1>28 DEF dev_end, release, Popped, At, Goto, PtableAt, Frame
<1>29. CASE iret(c)
  BY <1>1, <1>2, <1>29 DEF iret, At, Frame
<1>30. CASE trapret(c)
  BY <1>1, <1>2, <1>30 DEF trapret, At, Goto, Frame
<1>31. CASE sti(c)
  BY <1>1, <1>2, <1>31 DEF sti, At, Lock, Frame
<1>32. CASE switch(c)
  BY <1>1, <1>2, <1>32 DEF switch, Eligible, At, Goto, cpuvars, Frame
<1>33. CASE scan_back(c)
  BY <1>1, <1>2, <1>33 DEF scan_back, At, Goto, cpuvars, Frame
<1>34. CASE scan_end(c)
  BY <1>1, <1>2, <1>3, <1>34 DEF scan_end, release, Popped, At, Goto, PtableAt, Frame
<1>35. CASE timer(c)
  BY <1>1, <1>2, <1>35 DEF timer, interrupt, Lock, Frame
<1>36. CASE device(c)
  BY <1>1, <1>2, <1>36 DEF device, interrupt, Lock, Frame
<1> QED
  BY Zenon, <1>10, <1>11, <1>12, <1>13, <1>14, <1>15, <1>16, <1>17, <1>18, <1>19,
     <1>20, <1>21, <1>22, <1>23, <1>24, <1>25, <1>26, <1>27, <1>28,
     <1>29, <1>30, <1>31, <1>32, <1>33, <1>34, <1>35, <1>36
  DEF Kernel

\* A process in passage to the scheduler holds ptable.lock on its CPU.
LEMMA Passage ==
  ASSUME SchedInv, NEW c \in CPUs, NEW d \in CPUs, holder["ptable"] = c,
         cur[d] \in Procs, state[cur[d]] # "RUNNING"
  PROVE  d = c
<1>1. pc[cur[d]] \in {"sleep_swtch", "yield_swtch", "exit_swtch"}
  BY DEF SchedInv, RunInv, RunOf, StateAt
<1>2. acq[cur[d]] = "no"
  BY <1>1 DEF SchedInv, LockInv, AcqAt, Threads
<1>3. holder["ptable"] = d
  BY <1>1, <1>2, HolderIs DEF PtableAt
<1> QED BY <1>3

\* So a process that is not RUNNING is on no CPU while another thread
\* has ptable.lock.
LEMMA OffCPU ==
  ASSUME SchedInv, NEW c \in CPUs, holder["ptable"] = c, NEW p \in Procs,
         state[p] # "RUNNING", cur[c] # p
  PROVE  (\A d \in CPUs : cur[d] # p) /\ Resumable(p)
<1>1. \A d \in CPUs : cur[d] # p
  BY Passage
<1> QED BY <1>1 DEF SchedInv, RunInv, RunOf

\* The scheduler resumes only a process that is on no CPU.
LEMMA SwitchOff ==
  ASSUME SchedInv, NEW c \in CPUs, At(c, "scan"), NEW p \in Procs, state[p] = "RUNNABLE"
  PROVE  /\ cur[c] = c /\ (\A d \in CPUs : cur[d] # p)
         /\ acq[p] = "no" /\ pc[p] \in {"forkret", "sleep_back", "yield_back"}
<1>1. holder["ptable"] = c
  BY HolderIs DEF At, PtableAt
<1>2. cur[c] = c /\ c \notin Procs
  BY SchedAssumption DEF SchedInv, RunInv, RunOf, At, Procs
<1>3. (\A d \in CPUs : cur[d] # p) /\ Resumable(p)
  BY <1>1, <1>2, OffCPU
<1> QED BY <1>2, <1>3 DEF Resumable

\* A thread is interrupted only where it holds no lock.
LEMMA InterruptedAt ==
  ASSUME SchedInv, NEW c \in CPUs, intr[c]
  PROVE  /\ ncli[c] = 0 /\ acq[cur[c]] # "xchg" /\ ~ HasPtable(cur[c]) /\ ~ HasLk(cur[c])
         /\ <<pc[cur[c]], acq[cur[c]]>> \in Interruptible(cur[c])
<1>1. /\ cur[c] \in Threads /\ pc[cur[c]] \in PCs /\ acq[cur[c]] \in {"no", "pushcli", "xchg"}
      /\ ncli[c] \in Nat
  BY SchedAssumption DEF SchedInv, TypeOK
<1>2. ~ (ncli[c] > 0) /\ pc[cur[c]] \notin Handler
  BY DEF SchedInv, IntrInv, IntrOf
<1>3. acq[cur[c]] # "xchg" /\ ~ HasPtable(cur[c]) /\ ~ HasLk(cur[c])
  BY <1>1, <1>2 DEF SchedInv, LockInv, LockOf
<1>4. acq[cur[c]] # "no" => pc[cur[c]] \in AcqAt
  BY <1>1 DEF SchedInv, LockInv
<1>5. CASE cur[c] \in Procs
  <2>1. pc[cur[c]] \notin {"gone", "sti", "scan", "scan_back"}
    BY <1>5 DEF SchedInv, RunInv, RunOf
  <2> QED BY <1>1, <1>2, <1>3, <1>4, <1>5, <2>1
          DEF PCs, Handler, AcqAt, HasPtable, HasLk, PtableAt, Interruptible
<1>6. CASE cur[c] \notin Procs
  <2>1. cur[c] = c
    BY <1>6 DEF SchedInv, RunInv, RunOf
  <2>2. pc[c] \in {"sti", "scan", "scan_back", "dev", "wakeup", "dev_end", "iret"}
    BY <2>1 DEF SchedInv, RunInv, RunOf
  <2> QED BY <1>1, <1>2, <1>3, <1>4, <1>6, <2>1, <2>2
          DEF Handler, AcqAt, HasPtable, HasLk, PtableAt, Interruptible
<1> QED BY <1>1, <1>2, <1>3, <1>5, <1>6

\* What a CPU holds at each label.
LEMMA HeldAt ==
  ASSUME SchedInv, NEW c \in CPUs, acq[cur[c]] = "no"
  PROVE  /\ pc[cur[c]] \in PtableAt \ {"sleep_release", "wakeup"} =>
              holder["ptable"] = c /\ holder["lk"] # c /\ ncli[c] = 1
         /\ pc[cur[c]] \in {"sleep_release", "wakeup"} =>
              holder["ptable"] = c /\ holder["lk"] = c /\ ncli[c] = 2
         /\ pc[cur[c]] \in {"wait_loop", "dev", "dev_end"} =>
              holder["ptable"] # c /\ holder["lk"] = c /\ ncli[c] = 1
         /\ pc[cur[c]] \in {"user", "trapret", "sti", "iret"} =>
              holder["ptable"] # c /\ holder["lk"] # c /\ ncli[c] = 0
<1>1. LockOf(c)
  BY DEF SchedInv, LockInv
<1> QED BY <1>1 DEF LockOf, HasPtable, HasLk, PtableAt

\* release() of a lock that the CPU holds.
LEMMA ReleaseIs ==
  ASSUME SchedInv, NEW c \in CPUs, NEW l \in Locks, NEW ena, release(c, l, ena),
         holder[l] = c
  PROVE  /\ ~ panicked' /\ holder'[l] = None /\ c # None
         /\ \A k \in Locks \ {l} : holder'[k] = holder[k]
         /\ ncli'[c] = ncli[c] - 1 /\ intena'[c] = ena
<1>1. /\ holder \in [Locks -> CPUs \cup {None}] /\ ncli \in [CPUs -> 0 .. 2]
      /\ intr \in [CPUs -> BOOLEAN] /\ intena \in [CPUs -> BOOLEAN] /\ None \notin CPUs
  BY SchedAssumption DEF SchedInv, TypeOK
<1>2. ncli[c] \in Int /\ ncli[c] >= 1
  BY DEF SchedInv, TypeOK, LockInv, LockOf, Locks
<1>3. ~ intr[c]
  BY <1>2 DEF SchedInv, IntrInv, IntrOf
<1> QED BY <1>1, <1>2, <1>3 DEF release, Popped

\* FL_IF after release().
LEMMA ReleaseIntr ==
  ASSUME SchedInv, NEW c \in CPUs, NEW l \in Locks, NEW ena \in BOOLEAN, release(c, l, ena)
  PROVE  intr'[c] = IF ncli[c] = 1 THEN ena ELSE FALSE
<1>1. intr \in [CPUs -> BOOLEAN]
  BY DEF SchedInv, TypeOK
<1>2. intr'[c] = (ncli[c] = 1 /\ ena)
  BY <1>1 DEF release
<1> QED BY <1>2

\* sched() leaves for the scheduler of the CPU with exactly ptable.lock held.
LEMMA SchedAt ==
  ASSUME SchedInv, NEW c \in CPUs, NEW at \in {"sleep_swtch", "yield_swtch", "exit_swtch"},
         NEW next, sched(c, at, next)
  PROVE  /\ cur[c] \in Procs /\ cur[c] # c /\ cur'[c] = c
         /\ pc[c] = "scan_back" /\ pc'[c] = "scan_back" /\ acq'[c] = "no"
         /\ holder["ptable"] = c /\ holder["lk"] # c /\ ncli[c] = 1
         /\ ncli' = ncli /\ holder' = holder /\ intr'[c] = FALSE /\ ~ panicked'
<1>1. pc[cur[c]] = at /\ acq[cur[c]] = "no"
  BY DEF sched, At
<1>2. cur \in [CPUs -> Threads] /\ pc \in [Threads -> PCs] /\ c \in Threads /\ intr[c] \in BOOLEAN
  BY DEF SchedInv, TypeOK, Threads
<1>3. RunOf(c)
  BY DEF SchedInv, RunInv
<1>4. cur[c] \in Procs /\ cur[c] # c
  BY <1>1, <1>3, SchedAssumption DEF RunOf, Procs
<1>5. pc[c] = "scan_back" /\ acq[c] = "no" /\ state[cur[c]] # "RUNNING"
  BY <1>1, <1>3, <1>4 DEF RunOf, StateAt
<1>6. holder["ptable"] = c /\ holder["lk"] # c /\ ncli[c] = 1
  BY <1>1, HeldAt DEF PtableAt
<1>7. intr[c] = FALSE
  BY <1>2, <1>6 DEF SchedInv, IntrInv, IntrOf
<1>8. ncli' = ncli /\ holder' = holder /\ intr' = intr /\ ~ panicked'
  BY <1>5, <1>6, <1>7 DEF sched, cpuvars
<1>9. cur'[c] = c /\ pc'[c] = "scan_back" /\ acq'[c] = "no"
  BY <1>2, <1>4, <1>5 DEF sched, Goto
<1> QED BY <1>4, <1>5, <1>6, <1>7, <1>8, <1>9

\* The locks stay with the threads that took them or took them over, and none
\* of the panics of acquire(), release(), popcli() and sched() is reached.
LEMMA LockStep ==
  ASSUME SchedInv, NEW c \in CPUs, Kernel(c) \/ syscall(c) \/ timer(c) \/ device(c)
  PROVE  LockOf(c)' /\ ~ panicked'
<1>1. /\ cur \in [CPUs -> Threads] /\ pc \in [Threads -> PCs] /\ cur[c] \in Threads
      /\ acq \in [Threads -> {"no", "pushcli", "xchg"}] /\ c \in Threads
      /\ holder \in [Locks -> CPUs \cup {None}] /\ ncli \in [CPUs -> 0 .. 2]
      /\ None \notin CPUs /\ "ptable" \in Locks /\ "lk" \in Locks /\ "ptable" # "lk"
      /\ Locks \ {"ptable"} = {"lk"} /\ Locks \ {"lk"} = {"ptable"} /\ c # None
  BY SchedAssumption DEF SchedInv, TypeOK, Threads, Locks
<1>2. LockOf(c) /\ ncli[c] \in Int /\ ~ panicked
  BY DEF SchedInv, LockInv, TypeOK
<1>3. acq[cur[c]] # "no" => pc[cur[c]] \in AcqAt
  BY <1>1 DEF SchedInv, LockInv
<1>4. ncli[c] > 0 => ~ intr[c]
  BY DEF SchedInv, IntrInv, IntrOf
<1>10. CASE pushcli(c)
  BY <1>1, <1>2, <1>3, <1>4, <1>10 DEF pushcli, NoteIntena, Pushed, LockOf, HasPtable, HasLk, PtableAt, AcqAt
<1>11. CASE acquire(c)
  <2>1. cur' = cur /\ pc' = pc /\ acq'[cur[c]] = "no" /\ ncli' = ncli /\ acq[cur[c]] = "xchg"
    BY <1>1, <1>11 DEF acquire, cpuvars
  <2>2. CASE pc[cur[c]] \in {"wait_loop", "dev"}
    <3>1. holder["lk"] # c /\ holder["ptable"] # c /\ ncli[c] = 1
      BY <1>2, <2>1, <2>2 DEF LockOf, HasPtable, HasLk, PtableAt
    <3>2. ~ panicked' /\ holder'["lk"] = c /\ holder'["ptable"] = holder["ptable"]
      BY <1>1, <1>11, <2>2, <3>1 DEF acquire, LockAt
    <3> QED BY <1>1, <2>1, <2>2, <3>1, <3>2 DEF LockOf, HasPtable, HasLk, PtableAt
  <2>3. CASE pc[cur[c]] \notin {"wait_loop", "dev"}
    <3>1. /\ holder["ptable"] # c /\ (holder["lk"] = c <=> HasLk(cur[c]))
          /\ ncli[c] = (IF HasLk(cur[c]) THEN 2 ELSE 1)
      BY <1>2, <2>1, <2>3 DEF LockOf, HasPtable
    <3>2. ~ panicked' /\ holder'["ptable"] = c /\ holder'["lk"] = holder["lk"]
      BY <1>1, <1>11, <2>3, <3>1 DEF acquire, LockAt
    <3>3. pc[cur[c]] \in PtableAt
      BY <1>3, <2>1, <2>3 DEF AcqAt, PtableAt
    <3>4. HasPtable(cur[c])' /\ (HasLk(cur[c])' <=> HasLk(cur[c]))
      BY <2>1, <2>3, <3>3 DEF HasPtable, HasLk
    <3> QED BY <2>1, <3>1, <3>2, <3>4 DEF LockOf
  <2> QED BY <2>2, <2>3
<1>12. CASE syscall(c)
  BY <1>1, <1>2, <1>3, <1>4, <1>12 DEF syscall, At, Lock, cpuvars, LockOf, HasPtable, HasLk, PtableAt, AcqAt
<1>13. CASE wait_loop(c)
  <2>1. holder["lk"] = c /\ holder["ptable"] # c /\ ncli[c] = 1
    BY <1>13, HeldAt DEF wait_loop, At, PtableAt
  <2>2. CASE ready
    <3>1. ~ panicked' /\ holder'["lk"] = None /\ holder'["ptable"] = holder["ptable"] /\ ncli'[c] = 0
      BY <1>1, <1>13, <2>1, <2>2, ReleaseIs DEF wait_loop
    <3>2. cur' = cur /\ pc'[cur[c]] = "trapret" /\ acq'[cur[c]] = "no"
      BY <1>1, <1>13, <2>2 DEF wait_loop, At, Goto
    <3> QED BY <1>1, <2>1, <3>1, <3>2 DEF LockOf, HasPtable, HasLk, PtableAt
  <2>3. CASE ~ ready
    BY <1>1, <1>2, <1>13, <2>1, <2>3
    DEF wait_loop, sleep_lock, Lock, cpuvars, LockOf, HasPtable, HasLk, PtableAt
  <2> QED BY <2>2, <2>3
<1>14. CASE sleep_release(c)
  <2>1. holder["lk"] = c /\ holder["ptable"] = c /\ ncli[c] = 2
    BY <1>14, HeldAt DEF sleep_release, At, PtableAt
  <2>2. ~ panicked' /\ holder'["lk"] = None /\ holder'["ptable"] = holder["ptable"] /\ ncli'[c] = 1
    BY <1>1, <1>14, <2>1, ReleaseIs DEF sleep_release, release_lk
  <2>3. cur' = cur /\ pc'[cur[c]] = "sleep_set" /\ acq'[cur[c]] = "no"
    BY <1>1, <1>14 DEF sleep_release, At, Goto
  <2> QED BY <1>1, <2>1, <2>2, <2>3 DEF LockOf, HasPtable, HasLk, PtableAt
<1>15. CASE set_state(c, "sleep_set", "SLEEPING", "sleep_swtch")
  BY <1>1, <1>2, <1>3, <1>4, <1>15 DEF set_state, At, Goto, cpuvars, LockOf, HasPtable, HasLk, PtableAt, AcqAt
<1>16. CASE set_state(c, "yield_set", "RUNNABLE", "yield_swtch")
  BY <1>1, <1>2, <1>3, <1>4, <1>16 DEF set_state, At, Goto, cpuvars, LockOf, HasPtable, HasLk, PtableAt, AcqAt
<1>17. CASE set_state(c, "exit_set", "ZOMBIE", "exit_swtch")
  BY <1>1, <1>2, <1>3, <1>4, <1>17 DEF set_state, At, Goto, cpuvars, LockOf, HasPtable, HasLk, PtableAt, AcqAt
<1>18. CASE sched(c, "sleep_swtch", "sleep_back")
  <2>1. /\ cur'[c] = c /\ pc'[c] = "scan_back" /\ acq'[c] = "no" /\ ncli' = ncli /\ holder' = holder
        /\ holder["ptable"] = c /\ holder["lk"] # c /\ ncli[c] = 1 /\ ~ panicked'
    BY <1>18, SchedAt
  <2> QED BY <2>1 DEF LockOf, HasPtable, HasLk, PtableAt
<1>19. CASE sched(c, "yield_swtch", "yield_back")
  <2>1. /\ cur'[c] = c /\ pc'[c] = "scan_back" /\ acq'[c] = "no" /\ ncli' = ncli /\ holder' = holder
        /\ holder["ptable"] = c /\ holder["lk"] # c /\ ncli[c] = 1 /\ ~ panicked'
    BY <1>19, SchedAt
  <2> QED BY <2>1 DEF LockOf, HasPtable, HasLk, PtableAt
<1>20. CASE sched(c, "exit_swtch", "gone")
  <2>1. /\ cur'[c] = c /\ pc'[c] = "scan_back" /\ acq'[c] = "no" /\ ncli' = ncli /\ holder' = holder
        /\ holder["ptable"] = c /\ holder["lk"] # c /\ ncli[c] = 1 /\ ~ panicked'
    BY <1>20, SchedAt
  <2> QED BY <2>1 DEF LockOf, HasPtable, HasLk, PtableAt
<1>21. CASE sleep_back(c)
  <2>1. holder["ptable"] = c /\ holder["lk"] # c /\ ncli[c] = 1
    BY <1>21, HeldAt DEF sleep_back, At, PtableAt
  <2>2. ~ panicked' /\ holder'["ptable"] = None /\ holder'["lk"] = holder["lk"] /\ ncli'[c] = 0
    BY <1>1, <1>21, <2>1, ReleaseIs DEF sleep_back
  <2>3. cur' = cur /\ pc'[cur[c]] = "wait_loop" /\ acq'[cur[c]] = "pushcli"
    BY <1>1, <1>21 DEF sleep_back, At, Lock
  <2> QED BY <1>1, <2>1, <2>2, <2>3 DEF LockOf, HasPtable, HasLk, PtableAt
<1>22. CASE yield_back(c)
  <2>1. holder["ptable"] = c /\ holder["lk"] # c /\ ncli[c] = 1
    BY <1>22, HeldAt DEF yield_back, At, PtableAt
  <2>2. ~ panicked' /\ holder'["ptable"] = None /\ holder'["lk"] = holder["lk"] /\ ncli'[c] = 0
    BY <1>1, <1>22, <2>1, ReleaseIs DEF yield_back
  <2>3. cur' = cur /\ pc'[cur[c]] = "iret" /\ acq'[cur[c]] = "no"
    BY <1>1, <1>22 DEF yield_back, At, Goto
  <2> QED BY <1>1, <2>1, <2>2, <2>3 DEF LockOf, HasPtable, HasLk, PtableAt
<1>23. CASE forkret(c)
  <2>1. holder["ptable"] = c /\ holder["lk"] # c /\ ncli[c] = 1
    BY <1>23, HeldAt DEF forkret, At, PtableAt
  <2>2. ~ panicked' /\ holder'["ptable"] = None /\ holder'["lk"] = holder["lk"] /\ ncli'[c] = 0
    BY <1>1, <1>23, <2>1, ReleaseIs DEF forkret
  <2>3. cur' = cur /\ pc'[cur[c]] = "trapret" /\ acq'[cur[c]] = "no"
    BY <1>1, <1>23 DEF forkret, At, Goto
  <2> QED BY <1>1, <2>1, <2>2, <2>3 DEF LockOf, HasPtable, HasLk, PtableAt
<1>24. CASE reap(c)
  <2>1. holder["ptable"] = c /\ holder["lk"] # c /\ ncli[c] = 1
    BY <1>24, HeldAt DEF reap, At, PtableAt
  <2>2. ~ panicked' /\ holder'["ptable"] = None /\ holder'["lk"] = holder["lk"] /\ ncli'[c] = 0
    BY <1>1, <1>24, <2>1, ReleaseIs DEF reap
  <2>3. cur' = cur /\ pc'[cur[c]] = "trapret" /\ acq'[cur[c]] = "no"
    BY <1>1, <1>24 DEF reap, At, Goto
  <2> QED BY <1>1, <2>1, <2>2, <2>3 DEF LockOf, HasPtable, HasLk, PtableAt
<1>25. CASE fork(c)
  <2>1. holder["ptable"] = c /\ holder["lk"] # c /\ ncli[c] = 1
    BY <1>25, HeldAt DEF fork, At, PtableAt
  <2>2. ~ panicked' /\ holder'["ptable"] = None /\ holder'["lk"] = holder["lk"] /\ ncli'[c] = 0
    BY <1>1, <1>25, <2>1, ReleaseIs DEF fork
  <2>3. cur' = cur /\ pc'[cur[c]] = "trapret" /\ acq'[cur[c]] = "no"
    <3>1. \A q \in Procs : state[q] = "UNUSED" => q # cur[c]
      BY DEF SchedInv, RunInv, RunOf, StateAt
    <3> QED BY <1>1, <1>25, <3>1 DEF fork, At, Goto
  <2> QED BY <1>1, <2>1, <2>2, <2>3 DEF LockOf, HasPtable, HasLk, PtableAt
<1>26. CASE dev(c)
  BY <1>1, <1>2, <1>3, <1>4, <1>26 DEF dev, At, Lock, cpuvars, LockOf, HasPtable, HasLk, PtableAt, AcqAt
<1>27. CASE wakeup(c)
  <2>1. holder["ptable"] = c /\ holder["lk"] = c /\ ncli[c] = 2
    BY <1>27, HeldAt DEF wakeup, At, PtableAt
  <2>2. ~ panicked' /\ holder'["ptable"] = None /\ holder'["lk"] = holder["lk"] /\ ncli'[c] = 1
    BY <1>1, <1>27, <2>1, ReleaseIs DEF wakeup
  <2>3. cur' = cur /\ pc'[cur[c]] = "dev_end" /\ acq'[cur[c]] = "no"
    BY <1>1, <1>27 DEF wakeup, At, Goto
  <2> QED BY <1>1, <2>1, <2>2, <2>3 DEF LockOf, HasPtable, HasLk, PtableAt
<1>28. CASE dev_end(c)
  <2>1. holder["lk"] = c /\ holder["ptable"] # c /\ ncli[c] = 1
    BY <1>28, HeldAt DEF dev_end, At, PtableAt
  <2>2. ~ panicked' /\ holder'["lk"] = None /\ holder'["ptable"] = holder["ptable"] /\ ncli'[c] = 0
    BY <1>1, <1>28, <2>1, ReleaseIs DEF dev_end
  <2>3. cur' = cur /\ pc'[cur[c]] = "iret" /\ acq'[cur[c]] = "no"
    BY <1>1, <1>28 DEF dev_end, At, Goto
  <2> QED BY <1>1, <2>1, <2>2, <2>3 DEF LockOf, HasPtable, HasLk, PtableAt
<1>29. CASE iret(c)
  <2>1. ret[cur[c]] \in Interruptible(cur[c])
    BY <1>1, <1>29 DEF SchedInv, RetInv, iret, At, Handler
  <2>2. <<pc'[cur[c]], acq'[cur[c]]>> \in Interruptible(cur[c]) /\ UNCHANGED <<cur, ncli, holder>>
    BY <1>1, <1>29, <2>1 DEF iret, Interruptible
  <2>3. holder["ptable"] # c /\ holder["lk"] # c /\ ncli[c] = 0
    BY <1>29, HeldAt DEF iret, At
  <2>4. ~ HasPtable(cur[c])' /\ ~ HasLk(cur[c])' /\ acq'[cur[c]] # "xchg"
    BY <2>2 DEF HasPtable, HasLk, PtableAt, Interruptible
  <2>5. ~ panicked'
    BY <1>2, <1>29 DEF iret
  <2> QED BY <2>2, <2>3, <2>4, <2>5 DEF LockOf
<1>30. CASE trapret(c)
  BY <1>1, <1>2, <1>3, <1>4, <1>30 DEF trapret, At, Goto, LockOf, HasPtable, HasLk, PtableAt, AcqAt
<1>31. CASE sti(c)
  BY <1>1, <1>2, <1>3, <1>4, <1>31 DEF sti, At, Lock, LockOf, HasPtable, HasLk, PtableAt, AcqAt
<1>32. CASE switch(c)
  <2>1. PICK p \in Procs : state[p] = "RUNNABLE" /\ cur' = [cur EXCEPT ![c] = p]
    BY <1>32 DEF switch, Eligible
  <2>2. /\ cur[c] = c /\ p # c /\ p \in Threads
        /\ acq[p] = "no" /\ pc[p] \in {"forkret", "sleep_back", "yield_back"}
    BY <1>32, <2>1, SwitchOff DEF switch, Threads
  <2>3. pc'[p] = pc[p] /\ acq'[p] = "no" /\ cur'[c] = p /\ holder' = holder /\ ncli' = ncli
    BY <1>1, <1>32, <2>1, <2>2 DEF switch, Goto, cpuvars
  <2>4. holder["ptable"] = c /\ holder["lk"] # c /\ ncli[c] = 1
    BY <1>32, HeldAt DEF switch, At, PtableAt
  <2> QED BY <1>2, <1>32, <2>2, <2>3, <2>4 DEF switch, LockOf, HasPtable, HasLk, PtableAt
<1>33. CASE scan_back(c)
  BY <1>1, <1>2, <1>3, <1>4, <1>33 DEF scan_back, At, Goto, cpuvars, LockOf, HasPtable, HasLk, PtableAt, AcqAt
<1>34. CASE scan_end(c)
  <2>1. holder["ptable"] = c /\ holder["lk"] # c /\ ncli[c] = 1
    BY <1>34, HeldAt DEF scan_end, At, PtableAt
  <2>2. ~ panicked' /\ holder'["ptable"] = None /\ holder'["lk"] = holder["lk"] /\ ncli'[c] = 0
    BY <1>1, <1>34, <2>1, ReleaseIs DEF scan_end
  <2>3. cur' = cur /\ pc'[cur[c]] = "sti" /\ acq'[cur[c]] = "no"
    BY <1>1, <1>34 DEF scan_end, At, Goto
  <2> QED BY <1>1, <2>1, <2>2, <2>3 DEF LockOf, HasPtable, HasLk, PtableAt
<1>35. CASE timer(c)
  <2>1. ncli[c] = 0 /\ acq[cur[c]] # "xchg" /\ ~ HasPtable(cur[c]) /\ ~ HasLk(cur[c])
    BY <1>35, InterruptedAt DEF timer, device, interrupt
  <2> QED BY <1>1, <1>2, <1>35, <2>1 DEF timer, device, interrupt, Lock, LockOf, HasPtable, HasLk, PtableAt
<1>36. CASE device(c)
  <2>1. ncli[c] = 0 /\ acq[cur[c]] # "xchg" /\ ~ HasPtable(cur[c]) /\ ~ HasLk(cur[c])
    BY <1>36, InterruptedAt DEF timer, device, interrupt
  <2> QED BY <1>1, <1>2, <1>36, <2>1 DEF timer, device, interrupt, Lock, LockOf, HasPtable, HasLk, PtableAt
<1> QED
  BY Zenon, <1>10, <1>11, <1>12, <1>13, <1>14, <1>15, <1>16, <1>17, <1>18, <1>19,
     <1>20, <1>21, <1>22, <1>23, <1>24, <1>25, <1>26, <1>27, <1>28,
     <1>29, <1>30, <1>31, <1>32, <1>33, <1>34, <1>35, <1>36
  DEF Kernel

\* Every variable keeps its type.
LEMMA TypeStep ==
  ASSUME SchedInv, NEW c \in CPUs, Kernel(c) \/ syscall(c) \/ timer(c) \/ device(c)
  PROVE  TypeOK'
<1>1. /\ TypeOK /\ cur[c] \in Threads /\ c \in Threads /\ Procs \subseteq Threads
      /\ pc[cur[c]] \in PCs /\ acq[cur[c]] \in {"no", "pushcli", "xchg"}
      /\ saved \in [Procs -> BOOLEAN] /\ intena[c] \in BOOLEAN /\ intr[c] \in BOOLEAN
  BY DEF SchedInv, TypeOK, Threads
<1>2. ncli'[c] \in 0 .. 2
  <2>1. LockOf(c)'
    BY LockStep
  <2> QED BY <2>1 DEF LockOf, HasPtable
<1>3. ASSUME NEW l \in PCs, Goto(c, l) \/ Lock(c, l)
      PROVE  pc' \in [Threads -> PCs] /\ acq' \in [Threads -> {"no", "pushcli", "xchg"}]
  <2>1. pc \in [Threads -> PCs] /\ acq \in [Threads -> {"no", "pushcli", "xchg"}]
    BY <1>1 DEF TypeOK
  <2>2. CASE Goto(c, l)
    BY <1>1, <2>1, <2>2 DEF Goto
  <2>3. CASE Lock(c, l)
    BY <1>1, <2>1, <2>3 DEF Lock
  <2> QED BY <1>3, <2>2, <2>3
<1>10. CASE pushcli(c)
  BY <1>1, <1>2, <1>10 DEF pushcli, NoteIntena, Pushed, TypeOK, PCs, Handler, Locks
<1>11. CASE acquire(c)
  BY <1>1, <1>2, <1>11 DEF acquire, LockAt, cpuvars, TypeOK, PCs, Handler, Locks
<1>12. CASE syscall(c)
  <2>1. "wait_loop" \in PCs /\ "exit_set" \in PCs /\ "reap" \in PCs /\ "fork" \in PCs
    BY DEF PCs, Handler
  <2>2. pc' \in [Threads -> PCs] /\ acq' \in [Threads -> {"no", "pushcli", "xchg"}]
    BY <1>3, <1>12, <2>1 DEF syscall
  <2> QED BY <1>1, <1>2, <1>12, <2>2 DEF syscall, cpuvars, TypeOK
<1>13. CASE wait_loop(c)
  <2>1. "trapret" \in PCs /\ "sleep_release" \in PCs
    BY DEF PCs, Handler
  <2>2. pc' \in [Threads -> PCs] /\ acq' \in [Threads -> {"no", "pushcli", "xchg"}]
    BY <1>3, <1>13, <2>1 DEF wait_loop, sleep_lock
  <2>3. CASE ready
    <3>1. /\ release(c, "lk", intena[c]) /\ ready' = FALSE
          /\ UNCHANGED <<cur, cproc, ret, saved, state, kstack, scan>>
      BY <1>13, <2>3 DEF wait_loop
    <3> QED BY <1>1, <1>2, <2>2, <3>1 DEF release, Popped, Locks, TypeOK
  <2>4. CASE ~ ready
    BY <1>1, <1>2, <1>13, <2>2, <2>4 DEF wait_loop, sleep_lock, cpuvars, TypeOK
  <2> QED BY <2>3, <2>4
<1>14. CASE sleep_release(c)
  BY <1>1, <1>2, <1>14 DEF sleep_release, release_lk, release, Popped, At, Goto, TypeOK, PCs, Handler, Locks
<1>15. CASE set_state(c, "sleep_set", "SLEEPING", "sleep_swtch")
  BY <1>1, <1>2, <1>15 DEF set_state, At, Goto, cpuvars, TypeOK, PCs, Handler, Locks
<1>16. CASE set_state(c, "yield_set", "RUNNABLE", "yield_swtch")
  BY <1>1, <1>2, <1>16 DEF set_state, At, Goto, cpuvars, TypeOK, PCs, Handler, Locks
<1>17. CASE set_state(c, "exit_set", "ZOMBIE", "exit_swtch")
  BY <1>1, <1>2, <1>17 DEF set_state, At, Goto, cpuvars, TypeOK, PCs, Handler, Locks
<1>18. CASE sched(c, "sleep_swtch", "sleep_back")
  BY <1>1, <1>2, <1>18 DEF sched, At, Goto, cpuvars, TypeOK, PCs, Handler, Locks
<1>19. CASE sched(c, "yield_swtch", "yield_back")
  BY <1>1, <1>2, <1>19 DEF sched, At, Goto, cpuvars, TypeOK, PCs, Handler, Locks
<1>20. CASE sched(c, "exit_swtch", "gone")
  BY <1>1, <1>2, <1>20 DEF sched, At, Goto, cpuvars, TypeOK, PCs, Handler, Locks
<1>21. CASE sleep_back(c)
  <2>1. "wait_loop" \in PCs
    BY DEF PCs, Handler
  <2>2. pc' \in [Threads -> PCs] /\ acq' \in [Threads -> {"no", "pushcli", "xchg"}]
    BY <1>3, <1>21, <2>1 DEF sleep_back
  <2>3. Restored(c) \in BOOLEAN
    BY <1>1, <1>21 DEF SchedInv, RunInv, RunOf, sleep_back, At, Restored
  <2> QED BY <1>1, <1>2, <1>21, <2>2, <2>3 DEF sleep_back, release, Popped, Locks, TypeOK
<1>22. CASE yield_back(c)
  <2>1. "iret" \in PCs
    BY DEF PCs, Handler
  <2>2. pc' \in [Threads -> PCs] /\ acq' \in [Threads -> {"no", "pushcli", "xchg"}]
    BY <1>3, <1>22, <2>1 DEF yield_back
  <2>3. Restored(c) \in BOOLEAN
    BY <1>1, <1>22 DEF SchedInv, RunInv, RunOf, yield_back, At, Restored
  <2> QED BY <1>1, <1>2, <1>22, <2>2, <2>3 DEF yield_back, release, Popped, Locks, TypeOK
<1>23. CASE forkret(c)
  BY <1>1, <1>2, <1>23 DEF forkret, release, Popped, At, Goto, TypeOK, PCs, Handler, Locks
<1>24. CASE reap(c)
  BY <1>1, <1>2, <1>24 DEF reap, release, Popped, At, Goto, TypeOK, PCs, Handler, Locks
<1>25. CASE fork(c)
  <2>1. "trapret" \in PCs /\ "forkret" \in PCs
    BY DEF PCs
  <2>2. pc' \in [Threads -> PCs] /\ acq' \in [Threads -> {"no", "pushcli", "xchg"}]
    <3>1. pc \in [Threads -> PCs] /\ acq \in [Threads -> {"no", "pushcli", "xchg"}]
      BY <1>1 DEF TypeOK
    <3>2. \/ Goto(c, "trapret")
          \/ acq' = acq /\ \E q \in Procs : pc' = [pc EXCEPT ![cur[c]] = "trapret", ![q] = "forkret"]
      BY <1>25 DEF fork
    <3>3. CASE Goto(c, "trapret")
      BY <1>3, <2>1, <3>3
    <3> QED BY <1>1, <2>1, <3>1, <3>2, <3>3
  <2>3. state' \in [Procs -> {"UNUSED", "RUNNABLE", "RUNNING", "SLEEPING", "ZOMBIE"}]
        /\ kstack' \in [Procs -> BOOLEAN]
    BY <1>1, <1>25 DEF fork, TypeOK
  <2> QED BY <1>1, <1>2, <1>25, <2>2, <2>3 DEF fork, release, Popped, TypeOK, Locks
<1>26. CASE dev(c)
  BY <1>1, <1>2, <1>26 DEF dev, At, Lock, cpuvars, TypeOK, PCs, Handler, Locks
<1>27. CASE wakeup(c)
  BY <1>1, <1>2, <1>27 DEF wakeup, release, Popped, At, Goto, TypeOK, PCs, Handler, Locks
<1>28. CASE dev_end(c)
  BY <1>1, <1>2, <1>28 DEF dev_end, release, Popped, At, Goto, TypeOK, PCs, Handler, Locks
<1>29. CASE iret(c)
  BY <1>1, <1>2, <1>29 DEF iret, At, TypeOK, PCs, Handler, Locks
<1>30. CASE trapret(c)
  BY <1>1, <1>2, <1>30 DEF trapret, At, Goto, TypeOK, PCs, Handler, Locks
<1>31. CASE sti(c)
  <2>1. "scan" \in PCs
    BY DEF PCs, Handler
  <2>2. pc' \in [Threads -> PCs] /\ acq' \in [Threads -> {"no", "pushcli", "xchg"}]
    BY <1>3, <1>31, <2>1 DEF sti
  <2>3. scan' \in [CPUs -> 1 .. NPROC + 1]
    BY <1>1, <1>31, SchedAssumption DEF sti, TypeOK
  <2> QED BY <1>1, <1>2, <1>31, <2>2, <2>3 DEF sti, TypeOK
<1>32. CASE switch(c)
  <2>1. "scan_back" \in PCs
    BY DEF PCs
  <2>2. pc' \in [Threads -> PCs] /\ acq' \in [Threads -> {"no", "pushcli", "xchg"}]
    BY <1>3, <1>32, <2>1 DEF switch
  <2>3. PICK p \in Procs : /\ cproc' = [cproc EXCEPT ![c] = p]
                            /\ state' = [state EXCEPT ![p] = "RUNNING"]
                            /\ scan' = [scan EXCEPT ![c] = p + 1]
                            /\ cur' = [cur EXCEPT ![c] = p]
    BY <1>32 DEF switch
  <2>4. p + 1 \in 1 .. NPROC + 1 /\ p \in Threads
    BY SchedAssumption DEF Procs, Threads
  <2> QED BY <1>1, <1>2, <1>32, <2>2, <2>3, <2>4 DEF switch, cpuvars, TypeOK
<1>33. CASE scan_back(c)
  BY <1>1, <1>2, <1>33 DEF scan_back, At, Goto, cpuvars, TypeOK, PCs, Handler, Locks
<1>34. CASE scan_end(c)
  BY <1>1, <1>2, <1>34 DEF scan_end, release, Popped, At, Goto, TypeOK, PCs, Handler, Locks
<1>35. CASE timer(c)
  <2>1. "yield_set" \in PCs
    BY DEF PCs, Handler
  <2>2. pc' \in [Threads -> PCs] /\ acq' \in [Threads -> {"no", "pushcli", "xchg"}]
    BY <1>3, <1>35, <2>1 DEF timer
  <2>3. acq[cur[c]] \in {"no", "pushcli"}
    BY <1>1, <1>35, InterruptedAt DEF timer, interrupt
  <2>4. ret' \in [Threads -> PCs \X {"no", "pushcli"}]
    BY <1>1, <1>35, <2>3 DEF timer, interrupt, TypeOK
  <2> QED BY <1>1, <1>2, <1>35, <2>2, <2>4 DEF timer, interrupt, TypeOK
<1>36. CASE device(c)
  <2>1. "dev" \in PCs
    BY DEF PCs, Handler
  <2>2. pc' \in [Threads -> PCs] /\ acq' \in [Threads -> {"no", "pushcli", "xchg"}]
    BY <1>3, <1>36, <2>1 DEF device
  <2>3. acq[cur[c]] \in {"no", "pushcli"}
    BY <1>1, <1>36, InterruptedAt DEF device, interrupt
  <2>4. ret' \in [Threads -> PCs \X {"no", "pushcli"}]
    BY <1>1, <1>36, <2>3 DEF device, interrupt, TypeOK
  <2> QED BY <1>1, <1>2, <1>36, <2>2, <2>4 DEF device, interrupt, TypeOK
<1> QED
  BY Zenon, <1>10, <1>11, <1>12, <1>13, <1>14, <1>15, <1>16, <1>17, <1>18, <1>19,
     <1>20, <1>21, <1>22, <1>23, <1>24, <1>25, <1>26, <1>27, <1>28,
     <1>29, <1>30, <1>31, <1>32, <1>33, <1>34, <1>35, <1>36
  DEF Kernel

=============================================================================
