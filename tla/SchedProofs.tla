---------------------------- MODULE SchedProofs ----------------------------
(***************************************************************************)
(* Proofs about Sched for every number of processes and CPUs: no wakeup is *)
(* lost, no kernel stack is used twice, and interrupts are on and off      *)
(* where they have to be.                                                  *)
(***************************************************************************)
EXTENDS SchedRunProofs

\* pushcli() and popcli() keep FL_IF as the thread found it, and bring it back
\* on whatever CPU the thread goes on.
LEMMA IntrStep ==
  ASSUME SchedInv, NEW c \in CPUs, Kernel(c) \/ syscall(c) \/ timer(c) \/ device(c)
  PROVE  IntrOf(c)'
<1>1. /\ cur \in [CPUs -> Threads] /\ cur[c] \in Threads /\ c \in Threads
      /\ pc \in [Threads -> PCs] /\ acq \in [Threads -> {"no", "pushcli", "xchg"}]
      /\ intr \in [CPUs -> BOOLEAN] /\ intena \in [CPUs -> BOOLEAN]
      /\ ncli \in [CPUs -> 0 .. 2] /\ ncli[c] \in 0 .. 2
  BY DEF SchedInv, TypeOK, Threads
<1>2. IntrOf(c)
  BY DEF SchedInv, IntrInv
<1>10. CASE pushcli(c)
  <2>1. cur' = cur /\ pc' = pc /\ intr'[c] = FALSE /\ ncli'[c] = ncli[c] + 1
    BY <1>1, <1>10 DEF pushcli, Pushed
  <2>2. intena'[c] = IF ncli[c] = 0 THEN intr[c] ELSE intena[c]
    BY <1>1, <1>10 DEF pushcli, NoteIntena
  <2>3. CASE ncli[c] = 0
    BY <1>2, <2>1, <2>2, <2>3 DEF IntrOf, Handler
  <2>4. CASE ncli[c] > 0
    BY <1>1, <1>2, <2>1, <2>2, <2>4 DEF IntrOf
  <2> QED BY <1>1, <2>3, <2>4
<1>11. CASE acquire(c)
  BY <1>1, <1>2, <1>11 DEF acquire, LockAt, cpuvars, IntrOf
<1>12. CASE syscall(c)
  <2>1. ncli[c] = 0
    BY <1>12, HeldAt DEF syscall, At, PtableAt
  <2> QED BY <1>1, <1>2, <1>12, <2>1 DEF syscall, At, Lock, cpuvars, IntrOf, Handler
<1>13. CASE wait_loop(c)
  <2>1. holder["lk"] = c /\ ncli[c] = 1
    BY <1>13, HeldAt DEF wait_loop, At, PtableAt
  <2>2. CASE ready
    <3>1. ncli'[c] = 0
      BY <1>13, <2>1, <2>2, ReleaseIs DEF wait_loop, Locks
    <3>2. cur'[c] = cur[c] /\ pc'[cur[c]] = "trapret"
      BY <1>1, <1>13, <2>2 DEF wait_loop, Goto
    <3> QED BY <3>1, <3>2 DEF IntrOf, Handler
  <2>3. CASE ~ ready
    BY <1>1, <1>2, <1>13, <2>1, <2>3 DEF wait_loop, sleep_lock, At, Lock, cpuvars, IntrOf, Handler
  <2> QED BY <2>2, <2>3
<1>14. CASE sleep_release(c)
  <2>1. holder["lk"] = c /\ ncli[c] = 2
    BY <1>14, HeldAt DEF sleep_release, At, PtableAt
  <2>2. ncli'[c] = 1 /\ intena'[c] = intena[c]
    BY <1>14, <2>1, ReleaseIs DEF sleep_release, Locks, release_lk
  <2>3. intr'[c] = FALSE
    <3>1. release(c, "lk", intena[c]) /\ intena[c] \in BOOLEAN /\ "lk" \in Locks
      BY <1>1, <1>14 DEF sleep_release, Locks, release_lk
    <3>2. intr'[c] = IF ncli[c] = 1 THEN intena[c] ELSE FALSE
      BY <3>1, ReleaseIntr
    <3> QED BY <2>1, <3>2
  <2>4. cur'[c] = cur[c] /\ pc'[cur[c]] = "sleep_set"
    BY <1>1, <1>14 DEF sleep_release, Goto
  <2> QED BY <1>2, <1>14, <2>1, <2>2, <2>3, <2>4 DEF sleep_release, At, IntrOf, Handler
<1>15. CASE set_state(c, "sleep_set", "SLEEPING", "sleep_swtch")
  <2>1. ncli[c] = 1
    BY <1>15, HeldAt DEF set_state, At, PtableAt
  <2> QED BY <1>1, <1>2, <1>15, <2>1 DEF set_state, At, Goto, cpuvars, IntrOf, Handler
<1>16. CASE set_state(c, "yield_set", "RUNNABLE", "yield_swtch")
  <2>1. ncli[c] = 1
    BY <1>16, HeldAt DEF set_state, At, PtableAt
  <2> QED BY <1>1, <1>2, <1>16, <2>1 DEF set_state, At, Goto, cpuvars, IntrOf, Handler
<1>17. CASE set_state(c, "exit_set", "ZOMBIE", "exit_swtch")
  <2>1. ncli[c] = 1
    BY <1>17, HeldAt DEF set_state, At, PtableAt
  <2> QED BY <1>1, <1>2, <1>17, <2>1 DEF set_state, At, Goto, cpuvars, IntrOf, Handler
<1>18. CASE sched(c, "sleep_swtch", "sleep_back")
  <2>1. ncli[c] = 1 /\ ncli' = ncli /\ intr'[c] = FALSE /\ cur'[c] = c /\ pc'[c] = "scan_back"
    BY <1>18, SchedAt
  <2> QED BY <2>1 DEF IntrOf, Handler
<1>19. CASE sched(c, "yield_swtch", "yield_back")
  <2>1. ncli[c] = 1 /\ ncli' = ncli /\ intr'[c] = FALSE /\ cur'[c] = c /\ pc'[c] = "scan_back"
    BY <1>19, SchedAt
  <2> QED BY <2>1 DEF IntrOf, Handler
<1>20. CASE sched(c, "exit_swtch", "gone")
  <2>1. ncli[c] = 1 /\ ncli' = ncli /\ intr'[c] = FALSE /\ cur'[c] = c /\ pc'[c] = "scan_back"
    BY <1>20, SchedAt
  <2> QED BY <2>1 DEF IntrOf, Handler
<1>21. CASE sleep_back(c)
  <2>1. holder["ptable"] = c /\ ncli[c] = 1
    BY <1>21, HeldAt DEF sleep_back, At, PtableAt
  <2>2. Restored(c) = TRUE
    BY <1>21 DEF SchedInv, TypeOK, IntrInv, RunInv, RunOf, sleep_back, At, Restored
  <2>3. ncli'[c] = 0 /\ intena'[c] = Restored(c)
    BY <1>21, <2>1, ReleaseIs DEF sleep_back, Locks
  <2>4. intr'[c] = TRUE
    BY <1>21, <2>1, <2>2, <1>1, ReleaseIntr DEF sleep_back, Locks
  <2>5. cur'[c] = cur[c] /\ pc'[cur[c]] = "wait_loop"
    BY <1>1, <1>21 DEF sleep_back, Lock
  <2> QED BY <1>2, <1>21, <2>1, <2>3, <2>4, <2>5 DEF sleep_back, At, IntrOf, Handler
<1>22. CASE yield_back(c)
  <2>1. holder["ptable"] = c /\ ncli[c] = 1
    BY <1>22, HeldAt DEF yield_back, At, PtableAt
  <2>2. Restored(c) = FALSE
    BY <1>22 DEF SchedInv, TypeOK, IntrInv, RunInv, RunOf, yield_back, At, Restored
  <2>3. ncli'[c] = 0 /\ intena'[c] = Restored(c)
    BY <1>22, <2>1, ReleaseIs DEF yield_back, Locks
  <2>4. intr'[c] = FALSE
    BY <1>22, <2>1, <2>2, <1>1, ReleaseIntr DEF yield_back, Locks
  <2>5. cur'[c] = cur[c] /\ pc'[cur[c]] = "iret"
    BY <1>1, <1>22 DEF yield_back, Goto
  <2> QED BY <1>2, <1>22, <2>1, <2>3, <2>4, <2>5 DEF yield_back, At, IntrOf, Handler
<1>23. CASE forkret(c)
  <2>1. holder["ptable"] = c /\ ncli[c] = 1
    BY <1>23, HeldAt DEF forkret, At, PtableAt
  <2>2. ncli'[c] = 0 /\ intena'[c] = intena[c]
    BY <1>23, <2>1, ReleaseIs DEF forkret, Locks
  <2>3. cur'[c] = cur[c] /\ pc'[cur[c]] = "trapret"
    BY <1>1, <1>23 DEF forkret, Goto
  <2> QED BY <1>2, <1>23, <2>1, <2>2, <2>3 DEF forkret, At, IntrOf, Handler
<1>24. CASE reap(c)
  <2>1. holder["ptable"] = c /\ ncli[c] = 1
    BY <1>24, HeldAt DEF reap, At, PtableAt
  <2>2. ncli'[c] = 0 /\ intena'[c] = intena[c]
    BY <1>24, <2>1, ReleaseIs DEF reap, Locks
  <2>3. cur'[c] = cur[c] /\ pc'[cur[c]] = "trapret"
    BY <1>1, <1>24 DEF reap, Goto
  <2> QED BY <1>2, <1>24, <2>1, <2>2, <2>3 DEF reap, At, IntrOf, Handler
<1>25. CASE fork(c)
  <2>1. holder["ptable"] = c /\ ncli[c] = 1
    BY <1>25, HeldAt DEF fork, At, PtableAt
  <2>2. ncli'[c] = 0 /\ intena'[c] = intena[c]
    BY <1>25, <2>1, ReleaseIs DEF fork, Locks
  <2>3. cur'[c] = cur[c] /\ pc'[cur[c]] = "trapret"
    <3>1. \A q \in Procs : state[q] = "UNUSED" => q # cur[c]
      BY DEF SchedInv, RunInv, RunOf, StateAt
    <3> QED BY <1>1, <1>25, <3>1 DEF fork, Goto
  <2> QED BY <1>2, <1>25, <2>1, <2>2, <2>3 DEF fork, At, IntrOf, Handler
<1>26. CASE dev(c)
  <2>1. ncli[c] = 1
    BY <1>26, HeldAt DEF dev, At, PtableAt
  <2> QED BY <1>1, <1>2, <1>26, <2>1 DEF dev, At, Lock, cpuvars, IntrOf, Handler
<1>27. CASE wakeup(c)
  <2>1. holder["ptable"] = c /\ ncli[c] = 2
    BY <1>27, HeldAt DEF wakeup, At, PtableAt
  <2>2. ncli'[c] = 1 /\ intena'[c] = intena[c]
    BY <1>27, <2>1, ReleaseIs DEF wakeup, Locks
  <2>3. intr'[c] = FALSE
    <3>1. release(c, "ptable", intena[c]) /\ intena[c] \in BOOLEAN /\ "ptable" \in Locks
      BY <1>1, <1>27 DEF wakeup, Locks
    <3>2. intr'[c] = IF ncli[c] = 1 THEN intena[c] ELSE FALSE
      BY <3>1, ReleaseIntr
    <3> QED BY <2>1, <3>2
  <2>4. cur'[c] = cur[c] /\ pc'[cur[c]] = "dev_end"
    BY <1>1, <1>27 DEF wakeup, Goto
  <2> QED BY <1>2, <1>27, <2>1, <2>2, <2>3, <2>4 DEF wakeup, At, IntrOf, Handler
<1>28. CASE dev_end(c)
  <2>1. holder["lk"] = c /\ ncli[c] = 1
    BY <1>28, HeldAt DEF dev_end, At, PtableAt
  <2>2. intena[c] = FALSE
    BY <1>1, <1>2, <1>28, <2>1 DEF dev_end, At, IntrOf, Handler
  <2>3. ncli'[c] = 0 /\ intena'[c] = intena[c]
    BY <1>28, <2>1, <2>2, ReleaseIs DEF dev_end, Locks
  <2>4. intr'[c] = FALSE
    BY <1>28, <2>1, <2>2, <1>1, ReleaseIntr DEF dev_end, Locks
  <2>5. cur'[c] = cur[c] /\ pc'[cur[c]] = "iret"
    BY <1>1, <1>28 DEF dev_end, Goto
  <2> QED BY <1>2, <1>28, <2>1, <2>3, <2>4, <2>5 DEF dev_end, At, IntrOf, Handler
<1>29. CASE iret(c)
  <2>1. ncli[c] = 0 /\ ret[cur[c]] \in Interruptible(cur[c])
    BY <1>1, <1>29, HeldAt DEF SchedInv, RetInv, iret, At, Handler
  <2>2. /\ cur'[c] = cur[c] /\ ncli' = ncli /\ intr'[c] = TRUE
        /\ pc'[cur[c]] = ret[cur[c]][1]
    BY <1>1, <1>29 DEF iret
  <2>3. pc'[cur[c]] \notin Handler
    BY <2>1, <2>2 DEF Interruptible, Handler
  <2> QED BY <2>1, <2>2, <2>3 DEF IntrOf
<1>30. CASE trapret(c)
  <2>1. ncli[c] = 0
    BY <1>30, HeldAt DEF trapret, At, PtableAt
  <2> QED BY <1>1, <1>2, <1>30, <2>1 DEF trapret, At, Goto, IntrOf, Handler
<1>31. CASE sti(c)
  <2>1. ncli[c] = 0
    BY <1>31, HeldAt DEF sti, At, PtableAt
  <2> QED BY <1>1, <1>2, <1>31, <2>1 DEF sti, At, Lock, IntrOf, Handler
<1>32. CASE switch(c)
  <2>1. ncli[c] = 1 /\ intr[c] = FALSE
    <3>1. ncli[c] = 1
      BY <1>32, HeldAt DEF switch, At, PtableAt
    <3> QED BY <1>1, <1>2, <3>1 DEF IntrOf
  <2>2. PICK p \in Procs : state[p] = "RUNNABLE" /\ cur' = [cur EXCEPT ![c] = p]
    BY <1>32 DEF switch, Eligible
  <2>3. cur[c] = c /\ p # c /\ p \in Threads /\ pc[p] \in {"forkret", "sleep_back", "yield_back"}
    BY <1>32, <2>2, SwitchOff DEF switch, Threads
  <2>4. pc'[p] = pc[p] /\ cur'[c] = p
    BY <1>1, <1>32, <2>2, <2>3 DEF switch, Goto
  <2> QED BY <1>32, <2>1, <2>3, <2>4 DEF switch, cpuvars, IntrOf, Handler
<1>33. CASE scan_back(c)
  <2>1. ncli[c] = 1
    BY <1>33, HeldAt DEF scan_back, At, PtableAt
  <2> QED BY <1>1, <1>2, <1>33, <2>1 DEF scan_back, At, Goto, cpuvars, IntrOf, Handler
<1>34. CASE scan_end(c)
  <2>1. holder["ptable"] = c /\ ncli[c] = 1
    BY <1>34, HeldAt DEF scan_end, At, PtableAt
  <2>2. ncli'[c] = 0 /\ intena'[c] = intena[c]
    BY <1>34, <2>1, ReleaseIs DEF scan_end, Locks
  <2>3. cur'[c] = cur[c] /\ pc'[cur[c]] = "sti"
    BY <1>1, <1>34 DEF scan_end, Goto
  <2> QED BY <1>2, <1>34, <2>1, <2>2, <2>3 DEF scan_end, At, IntrOf, Handler
<1>35. CASE timer(c)
  <2>1. ncli[c] = 0
    BY <1>35, InterruptedAt DEF timer, device, interrupt
  <2> QED BY <1>1, <1>35, <2>1 DEF timer, device, interrupt, Lock, IntrOf, Handler
<1>36. CASE device(c)
  <2>1. ncli[c] = 0
    BY <1>36, InterruptedAt DEF timer, device, interrupt
  <2> QED BY <1>1, <1>36, <2>1 DEF timer, device, interrupt, Lock, IntrOf, Handler
<1> QED
  BY Zenon, <1>10, <1>11, <1>12, <1>13, <1>14, <1>15, <1>16, <1>17, <1>18, <1>19,
     <1>20, <1>21, <1>22, <1>23, <1>24, <1>25, <1>26, <1>27, <1>28,
     <1>29, <1>30, <1>31, <1>32, <1>33, <1>34, <1>35, <1>36
  DEF Kernel

-----------------------------------------------------------------------------
\* Two CPUs never run the same process, and none is on a CPU that is not its own.
LEMMA PlaceStep ==
  ASSUME SchedInv, NEW c \in CPUs, Frame(c), PassOf(c), StateOf(c), RunOf(c)',
         LeavesResumable(c)
  PROVE  RunInv'
<1>1. /\ \A d, e \in CPUs : cur[d] = cur[e] => d = e
      /\ \A d \in CPUs : RunOf(d) /\ d \notin Procs
      /\ \A p \in Procs : (\A d \in CPUs : cur[d] # p) => Resumable(p)
  BY SchedAssumption DEF SchedInv, RunInv, Procs
<1>2. \A d \in CPUs : d # c => cur'[d] = cur[d] /\ cur[d] # cur[c]
  BY <1>1 DEF Frame
<1>3. ASSUME NEW d \in CPUs, d # c, cur[d] \in Procs
      PROVE  state'[cur[d]] = state[cur[d]] /\ cur'[c] # cur[d]
  <2>1. Passes(c, cur[d])
    BY <1>2, <1>3 DEF PassOf
  <2>2. CASE holder["ptable"] = c
    <3>1. state[cur[d]] = "RUNNING"
      BY <1>3, <2>2, Passage
    <3> QED BY <2>1, <3>1 DEF Passes
  <2>3. CASE holder["ptable"] # c
    <3>1. state'[cur[d]] = state[cur[d]]
      BY <1>2, <1>3, <2>3 DEF StateOf
    <3> QED BY <2>1, <3>1 DEF Passes
  <2> QED BY <2>2, <2>3
<1>4. ASSUME NEW d \in CPUs, d # c PROVE RunOf(d)' /\ cur'[c] # cur[d]
  <2>1. RunOf(d) /\ d # cur[c]
    BY <1>1, <1>4 DEF RunOf
  <2>2. /\ cur'[d] = cur[d] /\ cproc'[d] = cproc[d] /\ pc'[cur[d]] = pc[cur[d]]
        /\ pc'[d] = pc[d] /\ acq'[d] = acq[d]
    BY <1>4, <2>1 DEF Frame, PassOf
  <2>3. CASE cur[d] \in Procs
    <3>1. state'[cur[d]] = state[cur[d]] /\ cur'[c] # cur[d] /\ cur[d] # d
      BY <1>1, <1>3, <1>4, <2>3
    <3> QED BY <2>1, <2>2, <2>3, <3>1 DEF RunOf
  <2>4. CASE cur[d] = d
    <3>1. cur'[c] \in Procs \cup {c} /\ d \notin Procs
      BY <1>1 DEF RunOf
    <3> QED BY <1>4, <2>1, <2>2, <2>4, <3>1 DEF RunOf
  <2> QED BY <2>1, <2>3, <2>4 DEF RunOf
<1>5. \A d, e \in CPUs : cur'[d] = cur'[e] => d = e
  BY <1>1, <1>2, <1>4
<1>6. ASSUME NEW p \in Procs, \A d \in CPUs : cur'[d] # p PROVE Resumable(p)'
  <2>1. CASE p = cur[c]
    BY <1>6, <2>1 DEF LeavesResumable
  <2>2. CASE p # cur[c]
    <3>1. Resumable(p)
      BY <1>1, <1>2, <1>6, <2>2
    <3>2. Passes(c, p) /\ cur'[c] # p
      BY <1>6, <2>2 DEF PassOf
    <3> QED BY <3>1, <3>2 DEF Resumable, Passes
  <2> QED BY <2>1, <2>2
<1>7. \A d \in CPUs : RunOf(d)'
  BY <1>4
<1>8. \A p \in Procs : kstack'[p] <=> state'[p] # "UNUSED"
  BY DEF StateOf
<1> QED BY <1>5, <1>6, <1>7, <1>8 DEF RunInv

\* The threads that the CPU does not run keep what is known of them.
LEMMA OthersStep ==
  ASSUME SchedInv, NEW c \in CPUs, Frame(c), PassOf(c), ThreadOf(c), LockOf(c)', IntrOf(c)'
  PROVE  LockInv' /\ RetInv' /\ IntrInv'
<1>1. LockInv /\ RunInv /\ RetInv /\ IntrInv /\ Threads = Procs \cup CPUs
  BY DEF SchedInv, Threads
<1>2. ASSUME NEW t \in Threads, t # cur[c]
      PROVE  /\ acq'[t] = acq[t] /\ ret'[t] = ret[t]
             /\ pc'[t] = pc[t] \/ (pc'[t] = "forkret" /\ acq[t] = "no")
  <2>1. CASE t \in CPUs
    BY <1>2, <2>1 DEF PassOf
  <2>2. CASE t \in Procs
    <3>1. Passes(c, t)
      BY <1>2, <2>2 DEF PassOf
    <3>2. state[t] = "UNUSED" => \A d \in CPUs : cur[d] # t
      BY <1>1, <2>2 DEF RunInv, RunOf, StateAt
    <3>3. state[t] = "UNUSED" => acq[t] = "no"
      BY <1>1, <2>2, <3>2 DEF RunInv, Resumable
    <3> QED BY <3>1, <3>3 DEF Passes
  <2> QED BY <1>1, <2>1, <2>2
<1>3. LockInv'
  <2>1. \A t \in Threads : acq'[t] # "no" => pc'[t] \in AcqAt
    BY <1>1, <1>2 DEF ThreadOf, LockInv
  <2>2. ASSUME NEW d \in CPUs, d # c PROVE LockOf(d)'
    <3>1. LockOf(d) /\ "ptable" \in Locks /\ "lk" \in Locks
      BY <1>1 DEF LockInv, Locks
    <3> QED BY <2>2, <3>1 DEF Frame, LockOf, HasPtable, HasLk
  <2> QED BY <2>1, <2>2 DEF LockInv
<1>4. RetInv'
  <2>1. ASSUME NEW t \in Threads, pc'[t] \in Handler PROVE ret'[t] \in Interruptible(t)
    <3>1. CASE t = cur[c]
      BY <2>1, <3>1 DEF ThreadOf
    <3>2. CASE t # cur[c]
      BY <1>1, <1>2, <2>1, <3>2 DEF RetInv, Handler
    <3> QED BY <3>1, <3>2
  <2> QED BY <2>1 DEF RetInv, Interruptible
<1>5. IntrInv'
  <2>1. ASSUME NEW d \in CPUs, d # c PROVE IntrOf(d)'
    <3>1. IntrOf(d)
      BY <1>1 DEF IntrInv
    <3> QED BY <2>1, <3>1 DEF Frame, IntrOf
  <2>2. ASSUME NEW p \in Procs
        PROVE  (pc'[p] = "sleep_back" => saved'[p]) /\ (pc'[p] = "yield_back" => ~ saved'[p])
    <3>1. CASE p = cur[c]
      BY <1>1, <3>1 DEF ThreadOf
    <3>2. CASE p # cur[c]
      <4>1. Passes(c, p)
        BY <3>2 DEF PassOf
      <4> QED BY <1>1, <4>1 DEF Passes, IntrInv
    <3> QED BY <3>1, <3>2
  <2> QED BY <2>1, <2>2 DEF IntrInv
<1> QED BY <1>3, <1>4, <1>5

\* Every step keeps the invariant.
LEMMA InvariantStep == SchedInv /\ [Next]_vars => SchedInv'
<1> SUFFICES ASSUME SchedInv, [Next]_vars PROVE SchedInv'
  OBVIOUS
<1>1. CASE UNCHANGED vars
  <2>1. TypeOK' /\ ~ panicked'
    BY <1>1 DEF vars, SchedInv, TypeOK
  <2>2. LockInv'
    BY <1>1 DEF vars, SchedInv, LockInv, LockOf, HasPtable, HasLk
  <2>3. RunInv'
    BY <1>1 DEF vars, SchedInv, RunInv, RunOf, Resumable
  <2>4. RetInv' /\ IntrInv' /\ WakeInv'
    BY <1>1 DEF vars, SchedInv, RetInv, IntrInv, IntrOf, WakeInv
  <2> QED BY <2>1, <2>2, <2>3, <2>4 DEF SchedInv
<1>2. ASSUME NEW c \in CPUs, Kernel(c) \/ syscall(c) \/ timer(c) \/ device(c)
      PROVE  SchedInv'
  <2>1. Frame(c) /\ PassOf(c) /\ ThreadOf(c) /\ StateOf(c)
    BY <1>2, FrameStep, PassStep, ThreadStep, StateStep
  <2>2. LockOf(c)' /\ ~ panicked' /\ RunOf(c)' /\ LeavesResumable(c) /\ IntrOf(c)'
    BY <1>2, LockStep, RunStep, IntrStep
  <2>3. TypeOK' /\ WakeInv'
    BY <1>2, TypeStep, WakeStep
  <2>4. RunInv' /\ LockInv' /\ RetInv' /\ IntrInv'
    BY <1>2, <2>1, <2>2, PlaceStep, OthersStep
  <2> QED BY <2>2, <2>3, <2>4 DEF SchedInv
<1> QED BY <1>1, <1>2 DEF Next

\* The processes exist and have never run, every scheduler is about to begin.
LEMMA InvariantInit == Init => SchedInv
<1> SUFFICES ASSUME Init PROVE SchedInv
  OBVIOUS
<1>1. /\ Procs \cap CPUs = {} /\ Procs \subseteq Threads /\ CPUs \subseteq Threads
      /\ 1 \in 1 .. NPROC + 1 /\ None \notin CPUs
  BY SchedAssumption DEF Procs, Threads
<1>2. TypeOK /\ ~ panicked
  <2>1. "user" \in PCs /\ "forkret" \in PCs /\ "sti" \in PCs /\ <<"user", "no">> \in PCs \X {"no", "pushcli"}
    BY DEF PCs
  <2>2. /\ cur \in [CPUs -> Threads] /\ cproc \in [CPUs -> Procs \cup {0}]
        /\ intr \in [CPUs -> BOOLEAN] /\ intena \in [CPUs -> BOOLEAN]
        /\ ncli \in [CPUs -> 0 .. 2] /\ holder \in [Locks -> CPUs \cup {None}]
    BY <1>1 DEF Init
  <2>3. /\ pc \in [Threads -> PCs] /\ acq \in [Threads -> {"no", "pushcli", "xchg"}]
        /\ ret \in [Threads -> PCs \X {"no", "pushcli"}]
    BY <2>1 DEF Init
  <2>4. /\ saved \in [Procs -> BOOLEAN] /\ kstack \in [Procs -> BOOLEAN]
        /\ state \in [Procs -> {"UNUSED", "RUNNABLE", "RUNNING", "SLEEPING", "ZOMBIE"}]
        /\ scan \in [CPUs -> 1 .. NPROC + 1] /\ ready \in BOOLEAN /\ panicked \in BOOLEAN
        /\ ~ panicked
    BY <1>1 DEF Init
  <2> QED BY <2>2, <2>3, <2>4 DEF TypeOK
<1>3. LockInv
  BY <1>1 DEF Init, LockInv, LockOf, HasPtable, HasLk, PtableAt, Locks
<1>4. RunInv
  <2>1. \A c \in CPUs : RunOf(c)
    BY <1>1 DEF Init, RunOf
  <2>2. \A p \in Procs : Resumable(p) /\ (kstack[p] <=> state[p] # "UNUSED")
    BY <1>1 DEF Init, Resumable
  <2>3. \A c, d \in CPUs : cur[c] = cur[d] => c = d
    BY DEF Init
  <2> QED BY <2>1, <2>2, <2>3 DEF RunInv
<1>5. RetInv
  BY <1>1 DEF Init, RetInv, Handler
<1>6. IntrInv
  BY <1>1 DEF Init, IntrInv, IntrOf, Handler
<1>7. WakeInv
  BY <1>1 DEF Init, WakeInv
<1> QED BY <1>2, <1>3, <1>4, <1>5, <1>6, <1>7 DEF SchedInv

\* The inductive invariant of the scheduler, for every number of processes and
\* CPUs: who holds which lock, which thread a CPU runs, what a thread that is
\* off the CPU left behind, and what FL_IF and intena are, follow from the
\* labels of the threads.
THEOREM SchedInvariantHolds == Spec => []SchedInv
<1>1. Init => SchedInv
  BY InvariantInit
<1>2. SchedInv /\ [Next]_vars => SchedInv'
  BY InvariantStep
<1> QED BY <1>1, <1>2, PTL DEF Spec

\* sleep() loses no wakeup: it takes ptable.lock before it releases lk, so the
\* handler that makes the condition true under lk finds the sleeper SLEEPING.
THEOREM SchedNoLostWakeup == Spec => []NoLostWakeup
<1>1. SchedInv => NoLostWakeup
  <2> SUFFICES ASSUME SchedInv, ready, holder["lk"] = None, NEW p \in Procs, state[p] = "SLEEPING"
               PROVE  FALSE
    BY DEF NoLostWakeup
  <2>1. PICK c \in CPUs : pc[cur[c]] = "wakeup"
    BY DEF SchedInv, WakeInv
  <2>2. holder["lk"] = c
    BY <2>1, HolderIs
  <2> QED BY <2>2, SchedAssumption
<1> QED BY <1>1, SchedInvariantHolds, PTL

\* No kernel stack is used by two CPUs or after wait() freed it, although
\* ptable.lock passes from the thread that calls sched() to the one it
\* switches to.
THEOREM SchedOneStack == Spec => []OneStack
<1>1. SchedInv => OneStack
  <2> SUFFICES ASSUME SchedInv PROVE OneStack
    OBVIOUS
  <2>1. \A c \in CPUs : cur[c] \in Procs => cproc[c] = cur[c] /\ state[cur[c]] # "UNUSED"
    BY DEF SchedInv, RunInv, RunOf, StateAt
  <2> QED BY <2>1 DEF SchedInv, RunInv, OneStack
<1> QED BY <1>1, SchedInvariantHolds, PTL

\* Interrupts are off exactly while a lock is held or an interrupt is handled,
\* and acquire(), release(), popcli() and sched() never panic.
THEOREM SchedInterruptsRight == Spec => []InterruptsRight
<1>1. SchedInv => InterruptsRight
  BY DEF SchedInv, IntrInv, IntrOf, InterruptsRight
<1> QED BY <1>1, SchedInvariantHolds, PTL

=============================================================================
