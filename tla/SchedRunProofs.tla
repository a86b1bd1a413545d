-------------------------- MODULE SchedRunProofs --------------------------
(***************************************************************************)
(* The part of the scheduler's invariant that is about one step of a       *)
(* thread: which thread a CPU runs after the step, what the threads that   *)
(* it does not run keep, which wakeups are still due, and the state that   *)
(* every process is in.                                                    *)
(***************************************************************************)
EXTENDS SchedLockProofs

-----------------------------------------------------------------------------
(* The shapes of the steps. *)

\* How a thread moves on while it keeps its CPU and its state.
Moves(x, y) ==
  \/ y = x
  \/ x \in {"sti", "scan"} /\ y \in {"sti", "scan"}
  \/ x \in {"dev", "dev_end", "yield_back"} /\ y \in {"wakeup", "iret"}
  \/ /\ x \in {"user", "wait_loop", "sleep_release", "sleep_back", "forkret", "trapret"}
     /\ y \in {"user", "trapret", "wait_loop", "exit_set", "reap", "fork", "sleep_release",
               "sleep_set"}

\* A step that only moves the thread of c on, apart from locks and interrupts.
Own(c) ==
  /\ UNCHANGED <<cur, cproc, ret, saved, state, kstack>>
  /\ \A t \in Threads : t # cur[c] => pc'[t] = pc[t] /\ acq'[t] = acq[t]
  /\ Moves(pc[cur[c]], pc'[cur[c]])
  /\ acq'[cur[c]] # "no" => pc'[cur[c]] \in AcqAt
  /\ \/ ~ ready'
     \/ /\ ready' = ready
        /\ pc'[cur[c]] = pc[cur[c]] \/ pc'[cur[c]] \notin {"sleep_release", "sleep_set"}
     \/ dev(c)

Kinds(c) ==
  \/ Own(c) \/ reap(c) \/ fork(c) \/ wakeup(c) \/ iret(c) \/ switch(c) \/ scan_back(c)
  \/ set_state(c, "sleep_set", "SLEEPING", "sleep_swtch")
  \/ set_state(c, "yield_set", "RUNNABLE", "yield_swtch")
  \/ set_state(c, "exit_set", "ZOMBIE", "exit_swtch")
  \/ sched(c, "sleep_swtch", "sleep_back") \/ sched(c, "yield_swtch", "yield_back")
  \/ sched(c, "exit_swtch", "gone") \/ timer(c) \/ device(c)

\* Half of the actions only move the thread on.
LEMMA KindsStep ==
  ASSUME SchedInv, NEW c \in CPUs, Kernel(c) \/ syscall(c) \/ timer(c) \/ device(c)
  PROVE  Kinds(c)
<1>1. /\ cur[c] \in Threads /\ pc \in [Threads -> PCs]
      /\ acq \in [Threads -> {"no", "pushcli", "xchg"}]
      /\ acq[cur[c]] # "no" => pc[cur[c]] \in AcqAt
  BY DEF SchedInv, TypeOK, LockInv
<1>2. CASE pushcli(c)
  BY <1>1, <1>2 DEF pushcli, Own, Moves, Kinds
<1>3. CASE acquire(c)
  BY <1>1, <1>3 DEF acquire, Own, Moves, Kinds
<1>4. CASE syscall(c)
  BY <1>1, <1>4 DEF syscall, At, Lock, AcqAt, Own, Moves, Kinds
<1>5. CASE wait_loop(c)
  BY <1>1, <1>5 DEF wait_loop, sleep_lock, At, Lock, Goto, AcqAt, Own, Moves, Kinds
<1>6. CASE sleep_release(c)
  <2>1. ready' = ready /\ ~ ready
    BY <1>6 DEF SchedInv, WakeInv, sleep_release, At
  <2> QED BY <1>1, <1>6, <2>1 DEF sleep_release, At, Goto, Own, Moves, Kinds
<1>7. CASE sleep_back(c)
  BY <1>1, <1>7 DEF sleep_back, At, Lock, AcqAt, Own, Moves, Kinds
<1>8. CASE yield_back(c)
  BY <1>1, <1>8 DEF yield_back, At, Goto, Own, Moves, Kinds
<1>9. CASE forkret(c)
  BY <1>1, <1>9 DEF forkret, At, Goto, Own, Moves, Kinds
<1>10. CASE dev(c)
  BY <1>1, <1>10 DEF dev, At, Lock, AcqAt, Own, Moves, Kinds
<1>11. CASE dev_end(c)
  BY <1>1, <1>11 DEF dev_end, At, Goto, Own, Moves, Kinds
<1>12. CASE trapret(c)
  BY <1>1, <1>12 DEF trapret, At, Goto, Own, Moves, Kinds
<1>13. CASE sti(c)
  BY <1>1, <1>13 DEF sti, At, Lock, AcqAt, Own, Moves, Kinds
<1>14. CASE scan_end(c)
  BY <1>1, <1>14 DEF scan_end, At, Goto, Own, Moves, Kinds
<1>15. CASE \/ reap(c) \/ fork(c) \/ wakeup(c) \/ iret(c) \/ switch(c) \/ scan_back(c)
            \/ set_state(c, "sleep_set", "SLEEPING", "sleep_swtch")
            \/ set_state(c, "yield_set", "RUNNABLE", "yield_swtch")
            \/ set_state(c, "exit_set", "ZOMBIE", "exit_swtch")
            \/ sched(c, "sleep_swtch", "sleep_back") \/ sched(c, "yield_swtch", "yield_back")
            \/ sched(c, "exit_swtch", "gone") \/ timer(c) \/ device(c)
  BY <1>15 DEF Kinds
<1> QED BY Zenon, <1>2, <1>3, <1>4, <1>5, <1>6, <1>7, <1>8, <1>9, <1>10, <1>11, <1>12, <1>13, <1>14, <1>15
        DEF Kernel

(* Processes and CPUs *)

\* What a step of CPU c may do to a process p that it does not run.
Passes(c, p) ==
  /\ acq'[p] = acq[p] /\ ret'[p] = ret[p] /\ saved'[p] = saved[p]
  /\ \/ pc'[p] = pc[p] /\ state'[p] = state[p] /\ cur'[c] # p
     \/ pc'[p] = pc[p] /\ state[p] = "SLEEPING" /\ state'[p] = "RUNNABLE" /\ cur'[c] # p
     \/ pc'[p] = pc[p] /\ state[p] = "ZOMBIE" /\ state'[p] = "UNUSED" /\ cur'[c] # p
     \/ pc'[p] = pc[p] /\ state[p] = "RUNNABLE" /\ state'[p] = "RUNNING" /\ cur'[c] = p
     \/ pc'[p] = "forkret" /\ state[p] = "UNUSED" /\ state'[p] = "RUNNABLE" /\ cur'[c] # p

PassOf(c) ==
  /\ \A p \in Procs : p # cur[c] => Passes(c, p)
  /\ \A d \in CPUs : d # cur[c] => pc'[d] = pc[d] /\ acq'[d] = acq[d] /\ ret'[d] = ret[d]

\* A step of a CPU leaves the control of a process alone that it does not run,
\* and the schedulers of the other CPUs.
LEMMA PassStep ==
  ASSUME SchedInv, NEW c \in CPUs, Kernel(c) \/ syscall(c) \/ timer(c) \/ device(c)
  PROVE  PassOf(c)
<1>1. /\ cur \in [CPUs -> Threads] /\ cur[c] \in Threads /\ c \in CPUs /\ c \notin Procs
      /\ Procs \subseteq Threads /\ CPUs \subseteq Threads /\ Procs \cap CPUs = {}
  BY SchedAssumption DEF SchedInv, TypeOK, Threads, Procs
<1>2. /\ pc \in [Threads -> PCs] /\ acq \in [Threads -> {"no", "pushcli", "xchg"}]
      /\ ret \in [Threads -> PCs \X {"no", "pushcli"}] /\ saved \in [Procs -> BOOLEAN]
      /\ state \in [Procs -> {"UNUSED", "RUNNABLE", "RUNNING", "SLEEPING", "ZOMBIE"}]
  BY DEF SchedInv, TypeOK
<1>8. Kinds(c)
  BY KindsStep
<1>9. CASE Own(c)
  BY <1>1, <1>2, <1>9 DEF Own, PassOf, Passes
<1>15. CASE set_state(c, "sleep_set", "SLEEPING", "sleep_swtch")
  BY <1>1, <1>2, <1>15 DEF set_state, At, Goto, cpuvars, PassOf, Passes
<1>16. CASE set_state(c, "yield_set", "RUNNABLE", "yield_swtch")
  BY <1>1, <1>2, <1>16 DEF set_state, At, Goto, cpuvars, PassOf, Passes
<1>17. CASE set_state(c, "exit_set", "ZOMBIE", "exit_swtch")
  BY <1>1, <1>2, <1>17 DEF set_state, At, Goto, cpuvars, PassOf, Passes
<1>18. CASE sched(c, "sleep_swtch", "sleep_back")
  BY <1>1, <1>2, <1>18 DEF sched, At, Goto, cpuvars, PassOf, Passes
<1>19. CASE sched(c, "yield_swtch", "yield_back")
  BY <1>1, <1>2, <1>19 DEF sched, At, Goto, cpuvars, PassOf, Passes
<1>20. CASE sched(c, "exit_swtch", "gone")
  BY <1>1, <1>2, <1>20 DEF sched, At, Goto, cpuvars, PassOf, Passes
<1>24. CASE reap(c)
  BY <1>1, <1>2, <1>24 DEF reap, release, Popped, At, Goto, PassOf, Passes
<1>25. CASE fork(c)
  BY <1>1, <1>2, <1>25 DEF fork, release, Popped, At, Goto, PassOf, Passes
<1>27. CASE wakeup(c)
  BY <1>1, <1>2, <1>27 DEF wakeup, release, Popped, At, Goto, PassOf, Passes
<1>29. CASE iret(c)
  BY <1>1, <1>2, <1>29 DEF iret, At, PassOf, Passes
<1>32. CASE switch(c)
  <2>1. cur[c] = c
    BY <1>1, <1>32 DEF switch, At, SchedInv, RunInv, RunOf
  <2> QED BY <1>1, <1>2, <1>32, <2>1 DEF switch, Eligible, Goto, PassOf, Passes
<1>33. CASE scan_back(c)
  BY <1>1, <1>2, <1>33 DEF scan_back, At, Goto, cpuvars, PassOf, Passes
<1>35. CASE timer(c)
  BY <1>1, <1>2, <1>35 DEF timer, interrupt, Lock, PassOf, Passes
<1>36. CASE device(c)
  BY <1>1, <1>2, <1>36 DEF device, interrupt, Lock, PassOf, Passes
<1> QED BY Zenon, <1>8, <1>9, <1>15, <1>16, <1>17, <1>18,
          <1>19, <1>20, <1>24, <1>25, <1>27, <1>29, <1>32, <1>33, <1>35, <1>36 DEF Kinds

\* The process that CPU c stops to run can be resumed.
LeavesResumable(c) == \A p \in Procs : p = cur[c] /\ cur'[c] # p => Resumable(p)'

\* The thread that a CPU runs after its step.
LEMMA RunStep ==
  ASSUME SchedInv, NEW c \in CPUs, Kernel(c) \/ syscall(c) \/ timer(c) \/ device(c)
  PROVE  RunOf(c)' /\ LeavesResumable(c)
<1>1. /\ cur \in [CPUs -> Threads] /\ cur[c] \in Threads /\ c \in CPUs /\ c \notin Procs
      /\ Procs \subseteq Threads /\ CPUs \subseteq Threads /\ c \in Threads
      /\ cproc \in [CPUs -> Procs \cup {0}]
  BY SchedAssumption DEF SchedInv, TypeOK, Threads, Procs
<1>2. /\ pc \in [Threads -> PCs] /\ acq \in [Threads -> {"no", "pushcli", "xchg"}]
      /\ state \in [Procs -> {"UNUSED", "RUNNABLE", "RUNNING", "SLEEPING", "ZOMBIE"}]
  BY DEF SchedInv, TypeOK
<1>3. RunOf(c) /\ (acq[cur[c]] # "no" => pc[cur[c]] \in AcqAt)
  BY <1>1 DEF SchedInv, RunInv, LockInv
<1>4. cur[c] # c => cur[c] \in Procs /\ pc'[c] = pc[c] /\ acq'[c] = acq[c]
  BY <1>3, PassStep DEF RunOf, PassOf
<1>8. Kinds(c)
  BY KindsStep
<1>9. CASE Own(c)
  <2>1. UNCHANGED <<cur, cproc, state>> /\ Moves(pc[cur[c]], pc'[cur[c]])
    BY <1>9 DEF Own
  <2>2. LeavesResumable(c)
    BY <2>1 DEF LeavesResumable
  <2>3. CASE cur[c] = c
    <3>1. /\ pc'[c] \in {"sti", "scan", "scan_back", "dev", "wakeup", "dev_end", "iret"}
          /\ pc'[c] # "scan_back" => pc[c] # "scan_back"
      BY <1>1, <1>3, <2>1, <2>3 DEF RunOf, Moves
    <3> QED BY <1>1, <1>3, <2>1, <2>2, <2>3, <3>1 DEF RunOf
  <2>4. CASE cur[c] # c
    <3>1. /\ StateAt(pc'[cur[c]]) = StateAt(pc[cur[c]])
          /\ pc'[cur[c]] \notin {"gone", "sti", "scan", "scan_back"}
      BY <1>3, <1>4, <2>1, <2>4 DEF RunOf, StateAt, Moves
    <3> QED BY <1>3, <1>4, <2>1, <2>2, <2>4, <3>1 DEF RunOf
  <2> QED BY <2>2, <2>3, <2>4
<1>15. CASE set_state(c, "sleep_set", "SLEEPING", "sleep_swtch")
  BY <1>1, <1>2, <1>3, <1>4, <1>15 DEF set_state, At, Goto, cpuvars, RunOf, StateAt, LeavesResumable, Resumable, AcqAt
<1>16. CASE set_state(c, "yield_set", "RUNNABLE", "yield_swtch")
  BY <1>1, <1>2, <1>3, <1>4, <1>16 DEF set_state, At, Goto, cpuvars, RunOf, StateAt, LeavesResumable, Resumable, AcqAt
<1>17. CASE set_state(c, "exit_set", "ZOMBIE", "exit_swtch")
  BY <1>1, <1>2, <1>3, <1>4, <1>17 DEF set_state, At, Goto, cpuvars, RunOf, StateAt, LeavesResumable, Resumable, AcqAt
<1>18. CASE sched(c, "sleep_swtch", "sleep_back")
  <2>1. cur[c] \in Procs /\ cur[c] # c /\ pc[c] = "scan_back"
    BY <1>1, <1>3, <1>18 DEF sched, At, RunOf
  <2>2. /\ cur'[c] = c /\ pc'[c] = "scan_back" /\ pc'[cur[c]] = "sleep_back"
        /\ acq'[cur[c]] = "no" /\ state' = state
    BY <1>1, <1>2, <1>4, <1>18, <2>1 DEF sched, At, Goto
  <2>3. state[cur[c]] = StateAt("sleep_swtch")
    BY <1>3, <1>18, <2>1 DEF sched, At, RunOf
  <2>4. RunOf(c)'
    BY <1>1, <2>2 DEF RunOf
  <2> QED BY <2>2, <2>3, <2>4 DEF StateAt, LeavesResumable, Resumable
<1>19. CASE sched(c, "yield_swtch", "yield_back")
  <2>1. cur[c] \in Procs /\ cur[c] # c /\ pc[c] = "scan_back"
    BY <1>1, <1>3, <1>19 DEF sched, At, RunOf
  <2>2. /\ cur'[c] = c /\ pc'[c] = "scan_back" /\ pc'[cur[c]] = "yield_back"
        /\ acq'[cur[c]] = "no" /\ state' = state
    BY <1>1, <1>2, <1>4, <1>19, <2>1 DEF sched, At, Goto
  <2>3. state[cur[c]] = StateAt("yield_swtch")
    BY <1>3, <1>19, <2>1 DEF sched, At, RunOf
  <2>4. RunOf(c)'
    BY <1>1, <2>2 DEF RunOf
  <2> QED BY <2>2, <2>3, <2>4 DEF StateAt, LeavesResumable, Resumable
<1>20. CASE sched(c, "exit_swtch", "gone")
  <2>1. cur[c] \in Procs /\ cur[c] # c /\ pc[c] = "scan_back"
    BY <1>1, <1>3, <1>20 DEF sched, At, RunOf
  <2>2. /\ cur'[c] = c /\ pc'[c] = "scan_back" /\ pc'[cur[c]] = "gone"
        /\ acq'[cur[c]] = "no" /\ state' = state
    BY <1>1, <1>2, <1>4, <1>20, <2>1 DEF sched, At, Goto
  <2>3. state[cur[c]] = StateAt("exit_swtch")
    BY <1>3, <1>20, <2>1 DEF sched, At, RunOf
  <2>4. RunOf(c)'
    BY <1>1, <2>2 DEF RunOf
  <2> QED BY <2>2, <2>3, <2>4 DEF StateAt, LeavesResumable, Resumable
<1>24. CASE reap(c)
  BY <1>1, <1>2, <1>3, <1>4, <1>24 DEF reap, release, Popped, At, Goto, RunOf, StateAt, LeavesResumable, Resumable, AcqAt
<1>25. CASE fork(c)
  BY <1>1, <1>2, <1>3, <1>4, <1>25 DEF fork, release, Popped, At, Goto, RunOf, StateAt, LeavesResumable, Resumable, AcqAt
<1>27. CASE wakeup(c)
  BY <1>1, <1>2, <1>3, <1>4, <1>27 DEF wakeup, release, Popped, At, Goto, RunOf, StateAt, LeavesResumable, Resumable, AcqAt
<1>29. CASE iret(c)
  <2>1. ret[cur[c]] \in Interruptible(cur[c])
    BY <1>1, <1>29 DEF SchedInv, RetInv, iret, At, Handler
  <2>2. pc'[cur[c]] = ret[cur[c]][1] /\ UNCHANGED <<cur, cproc, state>>
    BY <1>1, <1>2, <1>29 DEF iret
  <2>3. CASE cur[c] \in Procs
    BY <1>1, <1>3, <1>4, <1>29, <2>1, <2>2, <2>3 DEF RunOf, StateAt, LeavesResumable, Interruptible, iret, At
  <2>4. CASE cur[c] = c
    BY <1>1, <1>3, <1>4, <1>29, <2>1, <2>2, <2>4 DEF RunOf, LeavesResumable, Interruptible, iret, At
  <2> QED BY <1>3, <2>3, <2>4 DEF RunOf
<1>32. CASE switch(c)
  <2>1. PICK p \in Procs : /\ state[p] = "RUNNABLE" /\ cur' = [cur EXCEPT ![c] = p]
                            /\ cproc' = [cproc EXCEPT ![c] = p]
                            /\ state' = [state EXCEPT ![p] = "RUNNING"]
    BY <1>32 DEF switch, Eligible
  <2>2. /\ cur[c] = c /\ p # c /\ p \in Threads
        /\ pc[p] \in {"forkret", "sleep_back", "yield_back"}
    BY <1>32, <2>1, SwitchOff DEF switch, Threads
  <2>3. /\ pc'[p] = pc[p] /\ cur'[c] = p /\ pc'[c] = "scan_back" /\ acq'[c] = "no"
        /\ cproc'[c] = p /\ state'[p] = "RUNNING"
    BY <1>1, <1>2, <1>32, <2>1, <2>2 DEF switch, At, Goto
  <2> QED BY <1>1, <2>2, <2>3 DEF RunOf, StateAt, LeavesResumable
<1>33. CASE scan_back(c)
  BY <1>1, <1>2, <1>3, <1>4, <1>33 DEF scan_back, At, Goto, cpuvars, RunOf, StateAt, LeavesResumable, Resumable, AcqAt
<1>35. CASE timer(c)
  <2>1. <<pc[cur[c]], acq[cur[c]]>> \in Interruptible(cur[c])
    BY <1>35, InterruptedAt DEF timer, device, interrupt
  <2> QED BY <1>1, <1>2, <1>3, <1>4, <1>35, <2>1
      DEF timer, device, interrupt, Lock, RunOf, StateAt, LeavesResumable, Interruptible
<1>36. CASE device(c)
  <2>1. <<pc[cur[c]], acq[cur[c]]>> \in Interruptible(cur[c])
    BY <1>36, InterruptedAt DEF timer, device, interrupt
  <2> QED BY <1>1, <1>2, <1>3, <1>4, <1>36, <2>1
      DEF timer, device, interrupt, Lock, RunOf, StateAt, LeavesResumable, Interruptible
<1> QED BY Zenon, <1>8, <1>9, <1>15, <1>16, <1>17, <1>18,
          <1>19, <1>20, <1>24, <1>25, <1>27, <1>29, <1>32, <1>33, <1>35, <1>36 DEF Kinds

\* What a step of CPU c leaves behind in the thread that it ran.
ThreadOf(c) ==
  \A t \in Threads : t = cur[c] =>
    /\ acq'[t] # "no" => pc'[t] \in AcqAt
    /\ pc'[t] \in Handler => ret'[t] \in Interruptible(t)
    /\ t \in Procs => (pc'[t] = "sleep_back" => saved'[t]) /\ (pc'[t] = "yield_back" => ~ saved'[t])

\* sched() keeps intena with the thread: set in sleep(), clear in yield(); and
\* an interrupt handler knows where to return to.
LEMMA ThreadStep ==
  ASSUME SchedInv, NEW c \in CPUs, Kernel(c) \/ syscall(c) \/ timer(c) \/ device(c)
  PROVE  ThreadOf(c)
<1>1. /\ cur[c] \in Threads /\ pc \in [Threads -> PCs]
      /\ acq \in [Threads -> {"no", "pushcli", "xchg"}]
      /\ ret \in [Threads -> PCs \X {"no", "pushcli"}] /\ saved \in [Procs -> BOOLEAN]
  BY DEF SchedInv, TypeOK
<1>2. /\ acq[cur[c]] # "no" => pc[cur[c]] \in AcqAt
      /\ pc[cur[c]] \in Handler => ret[cur[c]] \in Interruptible(cur[c])
      /\ cur[c] \in Procs => /\ pc[cur[c]] = "sleep_back" => saved[cur[c]]
                             /\ pc[cur[c]] = "yield_back" => ~ saved[cur[c]]
  BY <1>1 DEF SchedInv, LockInv, RetInv, IntrInv
<1>8. Kinds(c)
  BY KindsStep
<1>9. CASE Own(c)
  BY <1>1, <1>2, <1>9 DEF Own, Moves, ThreadOf, Handler
<1>15. CASE set_state(c, "sleep_set", "SLEEPING", "sleep_swtch")
  BY <1>1, <1>2, <1>15 DEF set_state, At, Goto, cpuvars, ThreadOf, AcqAt, Handler
<1>16. CASE set_state(c, "yield_set", "RUNNABLE", "yield_swtch")
  BY <1>1, <1>2, <1>16 DEF set_state, At, Goto, cpuvars, ThreadOf, AcqAt, Handler
<1>17. CASE set_state(c, "exit_set", "ZOMBIE", "exit_swtch")
  BY <1>1, <1>2, <1>17 DEF set_state, At, Goto, cpuvars, ThreadOf, AcqAt, Handler
<1>18. CASE sched(c, "sleep_swtch", "sleep_back")
  <2>1. intena[c] = TRUE /\ cur[c] \in Procs
    <3>1. IntrOf(c) /\ intena[c] \in BOOLEAN /\ RunOf(c)
      BY DEF SchedInv, IntrInv, RunInv, TypeOK
    <3>2. ncli[c] = 1
      BY <1>18, HeldAt DEF sched, At, PtableAt
    <3> QED BY <1>18, <3>1, <3>2 DEF sched, At, IntrOf, Handler, RunOf
  <2>2. saved'[cur[c]] = TRUE /\ pc'[cur[c]] = "sleep_back" /\ acq'[cur[c]] = "no" /\ ret' = ret
    BY <1>1, <1>18, <2>1 DEF sched, At, Goto
  <2>3. "sleep_back" \in Handler => "sleep_swtch" \in Handler
    BY DEF Handler
  <2> QED BY <1>2, <1>18, <2>2, <2>3 DEF ThreadOf, sched, At
<1>19. CASE sched(c, "yield_swtch", "yield_back")
  <2>1. intena[c] = FALSE /\ cur[c] \in Procs
    <3>1. IntrOf(c) /\ intena[c] \in BOOLEAN /\ RunOf(c)
      BY DEF SchedInv, IntrInv, RunInv, TypeOK
    <3>2. ncli[c] = 1
      BY <1>19, HeldAt DEF sched, At, PtableAt
    <3> QED BY <1>19, <3>1, <3>2 DEF sched, At, IntrOf, Handler, RunOf
  <2>2. saved'[cur[c]] = FALSE /\ pc'[cur[c]] = "yield_back" /\ acq'[cur[c]] = "no" /\ ret' = ret
    BY <1>1, <1>19, <2>1 DEF sched, At, Goto
  <2>3. "yield_back" \in Handler => "yield_swtch" \in Handler
    BY DEF Handler
  <2> QED BY <1>2, <1>19, <2>2, <2>3 DEF ThreadOf, sched, At
<1>20. CASE sched(c, "exit_swtch", "gone")
  BY <1>1, <1>2, <1>20 DEF sched, At, Goto, ThreadOf, Handler
<1>24. CASE reap(c)
  BY <1>1, <1>2, <1>24 DEF reap, release, Popped, At, Goto, ThreadOf, AcqAt, Handler
<1>25. CASE fork(c)
  BY <1>1, <1>2, <1>25 DEF fork, release, Popped, At, Goto, ThreadOf, AcqAt, Handler
<1>27. CASE wakeup(c)
  BY <1>1, <1>2, <1>27 DEF wakeup, release, Popped, At, Goto, ThreadOf, AcqAt, Handler
<1>29. CASE iret(c)
  <2>1. ret[cur[c]] \in Interruptible(cur[c])
    BY <1>2, <1>29 DEF iret, At, Handler
  <2>2. pc'[cur[c]] = ret[cur[c]][1] /\ acq'[cur[c]] = ret[cur[c]][2]
    BY <1>1, <1>29 DEF iret
  <2>3. pc'[cur[c]] \notin Handler \cup {"sleep_back", "yield_back"}
    BY <2>1, <2>2 DEF Interruptible, Handler
  <2>4. acq'[cur[c]] # "no" => pc'[cur[c]] \in AcqAt
    BY <2>1, <2>2 DEF Interruptible, AcqAt
  <2> QED BY <2>3, <2>4 DEF ThreadOf
<1>32. CASE switch(c)
  BY <1>1, <1>2, <1>32 DEF switch, Eligible, At, Goto, cpuvars, ThreadOf, AcqAt, Handler
<1>33. CASE scan_back(c)
  BY <1>1, <1>2, <1>33 DEF scan_back, At, Goto, cpuvars, ThreadOf, AcqAt, Handler
<1>35. CASE timer(c)
  <2>1. <<pc[cur[c]], acq[cur[c]]>> \in Interruptible(cur[c])
    BY <1>35, InterruptedAt DEF timer, device, interrupt
  <2> QED BY <1>1, <1>2, <1>35, <2>1 DEF timer, device, interrupt, Lock, ThreadOf, AcqAt
<1>36. CASE device(c)
  <2>1. <<pc[cur[c]], acq[cur[c]]>> \in Interruptible(cur[c])
    BY <1>36, InterruptedAt DEF timer, device, interrupt
  <2> QED BY <1>1, <1>2, <1>36, <2>1 DEF timer, device, interrupt, Lock, ThreadOf, AcqAt
<1> QED BY Zenon, <1>8, <1>9, <1>15, <1>16, <1>17, <1>18,
          <1>19, <1>20, <1>24, <1>25, <1>27, <1>29, <1>32, <1>33, <1>35, <1>36 DEF Kinds

\* A step that brings no thread into sleep() and keeps the handlers before their
\* wakeup() loses no wakeup.
LEMMA WakeKept ==
  ASSUME SchedInv, NEW c \in CPUs, Frame(c), ready' = ready,
         \A p \in Procs : state'[p] = "SLEEPING" => state[p] = "SLEEPING",
         \/ pc'[cur'[c]] = pc[cur[c]]
         \/ pc[cur[c]] # "wakeup" /\ pc'[cur'[c]] \notin {"sleep_release", "sleep_set"}
  PROVE  WakeInv'
<1>1. \A d \in CPUs : d # c => pc'[cur'[d]] = pc[cur[d]]
  BY DEF Frame
<1>2. WakeInv
  BY DEF SchedInv
<1> QED BY <1>1, <1>2 DEF WakeInv

\* No wakeup is lost between the test of the condition and the sleep.
LEMMA WakeStep ==
  ASSUME SchedInv, NEW c \in CPUs, Kernel(c) \/ syscall(c) \/ timer(c) \/ device(c)
  PROVE  WakeInv'
<1>1. /\ cur \in [CPUs -> Threads] /\ cur[c] \in Threads /\ c \in Threads
      /\ pc \in [Threads -> PCs] /\ Procs \subseteq Threads
      /\ state \in [Procs -> {"UNUSED", "RUNNABLE", "RUNNING", "SLEEPING", "ZOMBIE"}]
  BY DEF SchedInv, TypeOK, Threads
<1>2. Frame(c)
  BY FrameStep
<1>3. WakeInv
  BY DEF SchedInv
<1>4. \A d \in CPUs : d # c => pc'[cur'[d]] = pc[cur[d]]
  BY <1>2 DEF Frame
<1>8. Kinds(c)
  BY KindsStep
<1>9. CASE Own(c)
  <2>1. CASE ~ ready'
    BY <2>1 DEF WakeInv
  <2>2. CASE ready' = ready /\ (pc'[cur[c]] = pc[cur[c]] \/ pc'[cur[c]] \notin {"sleep_release", "sleep_set"})
    <3>1. UNCHANGED <<cur, state>> /\ Moves(pc[cur[c]], pc'[cur[c]])
      BY <1>9 DEF Own
    <3>2. pc'[cur'[c]] = pc[cur[c]] \/ (pc[cur[c]] # "wakeup" /\ pc'[cur'[c]] \notin {"sleep_release", "sleep_set"})
      BY <2>2, <3>1 DEF Moves
    <3> QED BY <1>2, <2>2, <3>1, <3>2, WakeKept
  <2>3. CASE dev(c)
    <3>1. holder["lk"] = c /\ pc[cur[c]] = "dev" /\ pc'[cur'[c]] = "wakeup"
      BY <1>1, <2>3, HeldAt DEF dev, At, Lock
    <3>2. \A d \in CPUs : pc[cur[d]] # "sleep_release"
      <4>1. \A d \in CPUs : pc[cur[d]] = "sleep_release" => holder["lk"] = d
        BY HolderIs
      <4> QED BY <3>1, <4>1
    <3> QED BY <1>4, <3>1, <3>2 DEF WakeInv
  <2> QED BY <1>9, <2>1, <2>2, <2>3 DEF Own
<1>15. CASE set_state(c, "sleep_set", "SLEEPING", "sleep_swtch")
  <2>1. pc[cur[c]] = "sleep_set" /\ pc'[cur'[c]] = "sleep_swtch" /\ ready' = ready
    BY <1>1, <1>15 DEF set_state, At, Goto
  <2>2. ready => \E d \in CPUs : d # c /\ pc[cur[d]] = "wakeup"
    BY <1>3, <2>1 DEF WakeInv
  <2> QED BY <1>3, <1>4, <2>1, <2>2 DEF WakeInv
<1>16. CASE set_state(c, "yield_set", "RUNNABLE", "yield_swtch")
  <2>1. /\ pc'[cur'[c]] \notin {"sleep_release", "sleep_set"} /\ pc[cur[c]] # "wakeup"
        /\ ready' = ready
    BY <1>1, <1>16 DEF set_state, At, Goto, cpuvars
  <2>2. \A p \in Procs : state'[p] = "SLEEPING" => state[p] = "SLEEPING"
    BY <1>1, <1>16 DEF set_state, At, Goto, cpuvars
  <2> QED BY <1>2, <2>1, <2>2, WakeKept
<1>17. CASE set_state(c, "exit_set", "ZOMBIE", "exit_swtch")
  <2>1. /\ pc'[cur'[c]] \notin {"sleep_release", "sleep_set"} /\ pc[cur[c]] # "wakeup"
        /\ ready' = ready
    BY <1>1, <1>17 DEF set_state, At, Goto, cpuvars
  <2>2. \A p \in Procs : state'[p] = "SLEEPING" => state[p] = "SLEEPING"
    BY <1>1, <1>17 DEF set_state, At, Goto, cpuvars
  <2> QED BY <1>2, <2>1, <2>2, WakeKept
<1>18. CASE sched(c, "sleep_swtch", "sleep_back")
  <2>1. cur'[c] = c /\ pc'[c] = "scan_back"
    BY <1>18, SchedAt
  <2>2. pc[cur[c]] # "wakeup" /\ UNCHANGED <<ready, state>>
    BY <1>18 DEF sched, At
  <2> QED BY <1>2, <2>1, <2>2, WakeKept
<1>19. CASE sched(c, "yield_swtch", "yield_back")
  <2>1. cur'[c] = c /\ pc'[c] = "scan_back"
    BY <1>19, SchedAt
  <2>2. pc[cur[c]] # "wakeup" /\ UNCHANGED <<ready, state>>
    BY <1>19 DEF sched, At
  <2> QED BY <1>2, <2>1, <2>2, WakeKept
<1>20. CASE sched(c, "exit_swtch", "gone")
  <2>1. cur'[c] = c /\ pc'[c] = "scan_back"
    BY <1>20, SchedAt
  <2>2. pc[cur[c]] # "wakeup" /\ UNCHANGED <<ready, state>>
    BY <1>20 DEF sched, At
  <2> QED BY <1>2, <2>1, <2>2, WakeKept
<1>24. CASE reap(c)
  <2>1. /\ pc'[cur'[c]] \notin {"sleep_release", "sleep_set"} /\ pc[cur[c]] # "wakeup"
        /\ ready' = ready
    BY <1>1, <1>24 DEF reap, release, Popped, At, Goto
  <2>2. \A p \in Procs : state'[p] = "SLEEPING" => state[p] = "SLEEPING"
    BY <1>1, <1>24 DEF reap, release, Popped, At, Goto
  <2> QED BY <1>2, <2>1, <2>2, WakeKept
<1>25. CASE fork(c)
  <2>1. pc[cur[c]] = "fork" /\ pc'[cur'[c]] \in {"trapret", "forkret"} /\ ready' = ready
    BY <1>1, <1>25 DEF fork, At, Goto
  <2>2. \A p \in Procs : state'[p] = "SLEEPING" => state[p] = "SLEEPING"
    BY <1>1, <1>25 DEF fork
  <2> QED BY <1>2, <2>1, <2>2, WakeKept
<1>27. CASE wakeup(c)
  <2>1. /\ holder["ptable"] = c /\ pc[cur[c]] = "wakeup" /\ pc'[cur'[c]] = "dev_end"
        /\ ready' = ready
    BY <1>1, <1>27, HeldAt DEF wakeup, At, Goto
  <2>2. \A p \in Procs : state'[p] # "SLEEPING"
    BY <1>1, <1>27 DEF wakeup
  <2>3. \A d \in CPUs : pc[cur[d]] # "sleep_set"
    <3>1. \A d \in CPUs : pc[cur[d]] = "sleep_set" => acq[cur[d]] = "no"
      BY <1>1 DEF SchedInv, LockInv, AcqAt
    <3>2. \A d \in CPUs : pc[cur[d]] = "sleep_set" => holder["ptable"] = d
      BY <3>1, HolderIs DEF PtableAt
    <3> QED BY <2>1, <3>2
  <2> QED BY <1>3, <1>4, <2>1, <2>2, <2>3 DEF WakeInv
<1>29. CASE iret(c)
  <2>1. ret[cur[c]] \in Interruptible(cur[c]) /\ pc[cur[c]] = "iret"
    BY <1>1, <1>29 DEF SchedInv, RetInv, iret, At, Handler
  <2>2. pc'[cur'[c]] = ret[cur[c]][1] /\ UNCHANGED <<ready, state>>
    BY <1>1, <1>29 DEF iret
  <2>3. pc'[cur'[c]] \notin {"sleep_release", "sleep_set"}
    BY <2>1, <2>2 DEF Interruptible
  <2> QED BY <1>2, <2>1, <2>2, <2>3, WakeKept
<1>32. CASE switch(c)
  <2>1. PICK p \in Procs : /\ state[p] = "RUNNABLE" /\ cur' = [cur EXCEPT ![c] = p]
                            /\ state' = [state EXCEPT ![p] = "RUNNING"]
    BY <1>32 DEF switch, Eligible
  <2>2. cur[c] = c /\ p # c /\ pc[p] \in {"forkret", "sleep_back", "yield_back"}
    BY <1>32, <2>1, SwitchOff DEF switch
  <2>3. /\ pc'[cur'[c]] \notin {"sleep_release", "sleep_set"} /\ pc[cur[c]] # "wakeup"
        /\ ready' = ready
    BY <1>1, <1>32, <2>1, <2>2 DEF switch, At, Goto
  <2> QED BY <1>1, <1>2, <2>1, <2>3, WakeKept
<1>33. CASE scan_back(c)
  <2>1. /\ pc'[cur'[c]] \notin {"sleep_release", "sleep_set"} /\ pc[cur[c]] # "wakeup"
        /\ ready' = ready
    BY <1>1, <1>33 DEF scan_back, At, Goto, cpuvars
  <2>2. \A p \in Procs : state'[p] = "SLEEPING" => state[p] = "SLEEPING"
    BY <1>1, <1>33 DEF scan_back, At, Goto, cpuvars
  <2> QED BY <1>2, <2>1, <2>2, WakeKept
<1>35. CASE timer(c)
  <2>1. <<pc[cur[c]], acq[cur[c]]>> \in Interruptible(cur[c])
    BY <1>35, InterruptedAt DEF timer, device, interrupt
  <2>2. pc[cur[c]] # "wakeup"
    BY <2>1 DEF Interruptible
  <2>3. pc'[cur'[c]] \in {"yield_set", "dev"} /\ UNCHANGED <<ready, state>>
    BY <1>1, <1>35 DEF timer, device, interrupt, Lock
  <2> QED BY <1>2, <2>2, <2>3, WakeKept
<1>36. CASE device(c)
  <2>1. <<pc[cur[c]], acq[cur[c]]>> \in Interruptible(cur[c])
    BY <1>36, InterruptedAt DEF timer, device, interrupt
  <2>2. pc[cur[c]] # "wakeup"
    BY <2>1 DEF Interruptible
  <2>3. pc'[cur'[c]] \in {"yield_set", "dev"} /\ UNCHANGED <<ready, state>>
    BY <1>1, <1>36 DEF timer, device, interrupt, Lock
  <2> QED BY <1>2, <2>2, <2>3, WakeKept
<1> QED BY Zenon, <1>8, <1>9, <1>15, <1>16, <1>17, <1>18,
          <1>19, <1>20, <1>24, <1>25, <1>27, <1>29, <1>32, <1>33, <1>35, <1>36 DEF Kinds

\* The state of a process that the CPU does not run changes under ptable.lock
\* only, and a process has a kernel stack unless its slot is unused.
StateOf(c) ==
  /\ \A p \in Procs : p # cur[c] /\ state'[p] # state[p] => holder["ptable"] = c
  /\ \A p \in Procs : kstack'[p] <=> state'[p] # "UNUSED"

\* Every step of a CPU obeys StateOf.
LEMMA StateStep ==
  ASSUME SchedInv, NEW c \in CPUs, Kernel(c) \/ syscall(c) \/ timer(c) \/ device(c)
  PROVE  StateOf(c)
<1>1. /\ state \in [Procs -> {"UNUSED", "RUNNABLE", "RUNNING", "SLEEPING", "ZOMBIE"}]
      /\ kstack \in [Procs -> BOOLEAN] /\ \A p \in Procs : kstack[p] <=> state[p] # "UNUSED"
  BY DEF SchedInv, TypeOK, RunInv
<1>2. UNCHANGED <<state, kstack>> => StateOf(c)
  BY <1>1 DEF StateOf
<1>8. Kinds(c)
  BY KindsStep
<1>9. CASE Own(c)
  BY <1>2, <1>9 DEF Own
<1>15. CASE set_state(c, "sleep_set", "SLEEPING", "sleep_swtch")
  <2>1. cur[c] \in Procs => state[cur[c]] = "RUNNING"
    BY <1>15 DEF SchedInv, RunInv, RunOf, StateAt, set_state, At
  <2> QED BY <1>1, <1>15, <2>1 DEF StateOf, set_state
<1>16. CASE set_state(c, "yield_set", "RUNNABLE", "yield_swtch")
  <2>1. cur[c] \in Procs => state[cur[c]] = "RUNNING"
    BY <1>16 DEF SchedInv, RunInv, RunOf, StateAt, set_state, At
  <2> QED BY <1>1, <1>16, <2>1 DEF StateOf, set_state
<1>17. CASE set_state(c, "exit_set", "ZOMBIE", "exit_swtch")
  <2>1. cur[c] \in Procs => state[cur[c]] = "RUNNING"
    BY <1>17 DEF SchedInv, RunInv, RunOf, StateAt, set_state, At
  <2> QED BY <1>1, <1>17, <2>1 DEF StateOf, set_state
<1>18. CASE sched(c, "sleep_swtch", "sleep_back")
  BY <1>2, <1>18 DEF sched
<1>19. CASE sched(c, "yield_swtch", "yield_back")
  BY <1>2, <1>19 DEF sched
<1>20. CASE sched(c, "exit_swtch", "gone")
  BY <1>2, <1>20 DEF sched
<1>24. CASE reap(c)
  <2>1. holder["ptable"] = c
    BY <1>24, HeldAt DEF reap, At, PtableAt
  <2> QED BY <1>1, <1>2, <1>24, <2>1 DEF StateOf, reap
<1>25. CASE fork(c)
  <2>1. holder["ptable"] = c
    BY <1>25, HeldAt DEF fork, At, PtableAt
  <2> QED BY <1>1, <1>2, <1>25, <2>1 DEF StateOf, fork
<1>27. CASE wakeup(c)
  <2>1. holder["ptable"] = c
    BY <1>27, HeldAt DEF wakeup, At
  <2> QED BY <1>1, <1>27, <2>1 DEF StateOf, wakeup
<1>29. CASE iret(c)
  BY <1>2, <1>29 DEF iret
<1>32. CASE switch(c)
  <2>1. holder["ptable"] = c
    BY <1>32, HeldAt DEF switch, At, PtableAt
  <2> QED BY <1>1, <1>32, <2>1 DEF StateOf, switch, Eligible
<1>33. CASE scan_back(c)
  BY <1>2, <1>33 DEF scan_back
<1>35. CASE timer(c)
  BY <1>2, <1>35 DEF timer, interrupt
<1>36. CASE device(c)
  BY <1>2, <1>36 DEF device, interrupt
<1> QED BY Zenon, <1>8, <1>9, <1>15, <1>16, <1>17, <1>18,
          <1>19, <1>20, <1>24, <1>25, <1>27, <1>29, <1>32, <1>33, <1>35, <1>36 DEF Kinds

=============================================================================
