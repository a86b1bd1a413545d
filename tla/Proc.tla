-------------------------------- MODULE Proc --------------------------------
(***************************************************************************)
(* The process table of proc.c: fork, exit, wait, kill, yield, the         *)
(* scheduler of every CPU, and processes that sleep in a device.  Every    *)
(* critical section of ptable.lock is one step; what fork() and            *)
(* allocproc() do to an EMBRYO without the lock is a step of its own.      *)
(* The hand-over of ptable.lock through swtch() is the subject of Sched.   *)
(***************************************************************************)
EXTENDS Integers, FiniteSets

CONSTANTS
  NPROC,     \* param.h: slots of the process table
  CPUs,      \* the processors
  MaxPid,    \* bound: fork() is not called once nextpid exceeds it
  KillPids   \* the pids programs pass to kill(); killing init is excluded

ASSUME ProcAssumption ==
  /\ NPROC \in Nat \ {0} /\ MaxPid \in Nat \ {0}
  /\ CPUs # {} /\ KillPids \subseteq Nat \ {1}

Slots == 1 .. NPROC
None == 0              \* the null pointer
initproc == 1          \* the slot userinit() filled
Device == NPROC + 1    \* the channel of a sleep in a device or a pipe

VARIABLES
  state, pid, parent, chan, killed,   \* fields of struct proc
  kstack,    \* the slot owns a kernel stack
  pgdir,     \* the slot owns a page table and the memory under it
  nextpid,
  pc,        \* where the process is in the kernel
  np,        \* local variable of fork(): the slot of the child
  ret,       \* local variable of fork(): the child's pid
  cpu,       \* c->proc
  scan       \* the position of the scheduler's loop over the table

table == <<state, pid, parent, chan, killed, kstack, pgdir>>
vars == <<state, pid, parent, chan, killed, kstack, pgdir, nextpid, pc, np,
          ret, cpu, scan>>

States == {"UNUSED", "EMBRYO", "SLEEPING", "RUNNABLE", "RUNNING", "ZOMBIE"}
PCs == {"user", "kstack", "copyuvm", "publish", "forked", "exiting",
        "waiting", "device", "sleep"}

\* userinit() has made the first process; the CPUs enter scheduler().
Init ==
  /\ state = [s \in Slots |-> IF s = initproc THEN "RUNNABLE" ELSE "UNUSED"]
  /\ pid = [s \in Slots |-> IF s = initproc THEN 1 ELSE 0]
  /\ parent = [s \in Slots |-> None]
  /\ chan = [s \in Slots |-> None]
  /\ killed = [s \in Slots |-> FALSE]
  /\ kstack = [s \in Slots |-> s = initproc]
  /\ pgdir = [s \in Slots |-> s = initproc]
  /\ nextpid = 2
  /\ pc = [s \in Slots |-> "user"]
  /\ np = [s \in Slots |-> None]
  /\ ret = [s \in Slots |-> 0]
  /\ cpu = [c \in CPUs |-> None]
  /\ scan = [c \in CPUs |-> 1]

-----------------------------------------------------------------------------
\* The slot a loop over the table comes to first, if S has any.
First(S) == {s \in S : \A t \in S : s <= t}
InState(st) == {s \in Slots : state[s] = st}
Goto(s, l) == pc' = [pc EXCEPT ![s] = l]
\* s runs at l in the kernel, or at "user" in user space.
At(s, l) == state[s] = "RUNNING" /\ pc[s] = l
\* sched(): the CPU of s goes back to its scheduler.
LeaveCPU(s) == cpu' = [c \in CPUs |-> IF cpu[c] = s THEN None ELSE cpu[c]]

\* wakeup1(ch) applied to a state function.
wakeup1(st, ch) ==
  [s \in Slots |-> IF st[s] = "SLEEPING" /\ chan[s] = ch THEN "RUNNABLE" ELSE st[s]]

FreeSlots == InState("UNUSED")

take_pid == nextpid' = nextpid + 1

\* fork(), first part of allocproc(): find an UNUSED slot.  Without one fork
\* returns -1 and nothing changes.  trap() lets no killed process begin a call.
allocproc(s) ==
  /\ At(s, "user") /\ ~ killed[s] /\ nextpid <= MaxPid
  /\ FreeSlots # {}
  /\ \E n \in First(FreeSlots) :
       /\ state' = [state EXCEPT ![n] = "EMBRYO"]
       /\ pid' = [pid EXCEPT ![n] = nextpid]
       /\ np' = [np EXCEPT ![s] = n]
  /\ take_pid
  /\ Goto(s, "kstack")
  /\ UNCHANGED <<parent, chan, killed, kstack, pgdir, ret, cpu, scan>>

\* Second part: the kernel stack, which kalloc() may refuse.  The slot is then
\* given back without the lock, and keeps its pid.
alloc_kstack(s, ok) ==
  /\ At(s, "kstack")
  /\ IF ok
       THEN /\ kstack' = [kstack EXCEPT ![np[s]] = TRUE]
            /\ Goto(s, "copyuvm") /\ UNCHANGED state
       ELSE /\ state' = [state EXCEPT ![np[s]] = "UNUSED"]
            /\ Goto(s, "user") /\ UNCHANGED kstack
  /\ UNCHANGED <<pid, parent, chan, killed, pgdir, nextpid, np, ret,
                 cpu, scan>>

fork_copyfail(n) ==
  /\ kstack' = [kstack EXCEPT ![n] = FALSE]
  /\ state' = [state EXCEPT ![n] = "UNUSED"]

\* copyuvm(), and on success the rest of fork() up to "pid = np->pid".
fork_copy(s, ok) ==
  /\ At(s, "copyuvm")
  /\ IF ok
       THEN /\ pgdir' = [pgdir EXCEPT ![np[s]] = TRUE]
            /\ parent' = [parent EXCEPT ![np[s]] = s]
            /\ ret' = [ret EXCEPT ![s] = pid[np[s]]]
            /\ Goto(s, "publish")
            /\ UNCHANGED <<state, kstack>>
       ELSE /\ fork_copyfail(np[s])
            /\ Goto(s, "user")
            /\ UNCHANGED <<pgdir, parent, ret>>
  /\ UNCHANGED <<pid, chan, killed, nextpid, np, cpu, scan>>

\* The child becomes RUNNABLE; it will return to user space.
fork_publish(s) ==
  /\ At(s, "publish")
  /\ state' = [state EXCEPT ![np[s]] = "RUNNABLE"]
  /\ pc' = [pc EXCEPT ![s] = "forked", ![np[s]] = "user"]
  /\ UNCHANGED <<pid, parent, chan, killed, kstack, pgdir, nextpid, np, ret, cpu, scan>>

\* The parent returns to user space with the pid of the child.
fork_return(s) ==
  /\ At(s, "forked")
  /\ Goto(s, "user")
  /\ np' = [np EXCEPT ![s] = None]
  /\ ret' = [ret EXCEPT ![s] = 0]
  /\ UNCHANGED <<table, nextpid, cpu, scan>>

-----------------------------------------------------------------------------
\* exit() is called by the program, or by trap() for a killed process on its
\* way to user space.  Closing the files comes first, without ptable.lock.
exit_begin(s) ==
  /\ At(s, "user") /\ s # initproc
  /\ Goto(s, "exiting")
  /\ UNCHANGED <<table, nextpid, np, ret, cpu, scan>>

\* A trap the kernel has no handler for, in user space: trap() marks the
\* process killed and calls exit() for it.
trap_fault(s) ==
  /\ At(s, "user") /\ s # initproc
  /\ killed' = [killed EXCEPT ![s] = TRUE]
  /\ Goto(s, "exiting")
  /\ UNCHANGED <<state, pid, parent, chan, kstack, pgdir, nextpid, np, ret,
                 cpu, scan>>

\* Faulty variant: the parent is not woken.
Faulty_wake_parent(s) == state

\* wakeup1(curproc->parent)
wake_parent(s) == wakeup1(state, parent[s])

\* Faulty variant: children that are already zombies are passed to init
\* without waking it.
Faulty_AfterReparent(s) == wake_parent(s)

\* The states after the two kinds of wakeup1() in exit().
AfterReparent(s) ==
  LET st == wake_parent(s) IN
  IF \E q \in Slots : parent[q] = s /\ state[q] = "ZOMBIE"
    THEN wakeup1(st, initproc) ELSE st

\* The critical section of exit(): wake the parent, pass the children to init,
\* become a zombie and leave the CPU.
exit(s) ==
  /\ At(s, "exiting")
  /\ parent' = [q \in Slots |-> IF parent[q] = s THEN initproc ELSE parent[q]]
  /\ state' = [AfterReparent(s) EXCEPT ![s] = "ZOMBIE"]
  /\ LeaveCPU(s)
  /\ UNCHANGED <<pid, chan, killed, kstack, pgdir, nextpid, pc, np, ret,
                 scan>>

Children(s) == {q \in Slots : parent[q] = s}

\* Faulty variant: the slot is given back while the parent pointer stays.
Faulty_reap_parent(z) == UNCHANGED parent

reap_parent(z) == parent' = [parent EXCEPT ![z] = None]

\* wait() finds a zombie: the first one in the table is freed.
wait_reap(s) ==
  LET Z == Children(s) \cap InState("ZOMBIE") IN
  /\ At(s, "user") \/ At(s, "waiting")
  /\ Z # {}
  /\ \E z \in First(Z) :
       /\ kstack' = [kstack EXCEPT ![z] = FALSE]
       /\ pgdir' = [pgdir EXCEPT ![z] = FALSE]
       /\ pid' = [pid EXCEPT ![z] = 0]
       /\ reap_parent(z)
       /\ killed' = [killed EXCEPT ![z] = FALSE]
       /\ state' = [state EXCEPT ![z] = "UNUSED"]
  /\ chan' = [chan EXCEPT ![s] = None]
  /\ Goto(s, "user")
  /\ UNCHANGED <<nextpid, np, ret, cpu, scan>>

\* wait() returns -1: no children, or killed.
wait_fail(s) ==
  /\ At(s, "user") \/ At(s, "waiting")
  /\ Children(s) \cap InState("ZOMBIE") = {}
  /\ Children(s) = {} \/ killed[s]
  /\ chan' = [chan EXCEPT ![s] = None]
  /\ Goto(s, "user")
  /\ UNCHANGED <<state, pid, parent, killed, kstack, pgdir, nextpid, np, ret, cpu, scan>>

MustWait(s) ==
  /\ Children(s) # {} /\ ~ killed[s]
  /\ Children(s) \cap InState("ZOMBIE") = {}

\* wait() sleeps on the address of its own slot, holding ptable.lock.
wait_sleep(s) ==
  /\ At(s, "user") \/ At(s, "waiting")
  /\ MustWait(s)
  /\ chan' = [chan EXCEPT ![s] = s]
  /\ state' = [state EXCEPT ![s] = "SLEEPING"]
  /\ Goto(s, "waiting")
  /\ LeaveCPU(s)
  /\ UNCHANGED <<pid, parent, killed, kstack, pgdir, nextpid, np, ret,
                 scan>>

-----------------------------------------------------------------------------
\* A system call that waits for a device or a pipe: it tests killed without
\* ptable.lock (piperead, pipewrite, consoleread, sys_sleep) ...
device_begin(s) ==
  /\ At(s, "user")
  /\ Goto(s, IF killed[s] THEN "user" ELSE "device")
  /\ UNCHANGED <<table, nextpid, np, ret, cpu, scan>>

\* ... and then calls sleep().
device_sleep(s) ==
  /\ At(s, "device")
  /\ chan' = [chan EXCEPT ![s] = Device]
  /\ state' = [state EXCEPT ![s] = "SLEEPING"]
  /\ Goto(s, "sleep")
  /\ LeaveCPU(s)
  /\ UNCHANGED <<pid, parent, killed, kstack, pgdir, nextpid, np, ret,
                 scan>>

\* sleep() returns: chan is cleared.
device_wake(s) ==
  /\ At(s, "sleep")
  /\ chan' = [chan EXCEPT ![s] = None]
  /\ Goto(s, "user")
  /\ UNCHANGED <<state, pid, parent, killed, kstack, pgdir, nextpid, np, ret, cpu, scan>>

\* wakeup() called by an interrupt handler or by another process.
device_wakeup ==
  /\ state' = wakeup1(state, Device)
  /\ UNCHANGED <<pid, parent, chan, killed, kstack, pgdir, nextpid, pc, np,
                 ret, cpu, scan>>

\* kill(k): the first slot with this pid, whatever its state.
kill(s, k) ==
  /\ At(s, "user") /\ ~ killed[s]
  /\ LET P == {q \in Slots : pid[q] = k} IN
     IF P = {} THEN UNCHANGED <<killed, state>>
     ELSE \E q \in First(P) :
          /\ killed' = [killed EXCEPT ![q] = TRUE]
          /\ state' = [state EXCEPT ![q] = IF @ = "SLEEPING" THEN "RUNNABLE" ELSE @]
  /\ UNCHANGED <<pid, parent, chan, kstack, pgdir, nextpid, pc, np, ret,
                 cpu, scan>>

\* The timer interrupt: the process gives up the CPU wherever it is, except
\* where it holds a spinlock and interrupts are off.
yield(s) ==
  /\ state[s] = "RUNNING" /\ pc[s] \notin {"device", "sleep", "waiting"}
  /\ state' = [state EXCEPT ![s] = "RUNNABLE"]
  /\ LeaveCPU(s)
  /\ UNCHANGED <<pid, parent, chan, killed, kstack, pgdir, nextpid, pc, np,
                 ret, scan>>

\* p->state = RUNNING in scheduler().
take(s) == state' = [state EXCEPT ![s] = "RUNNING"]

\* Faulty variant: the search begins again at the first slot every time.
Faulty_NextScan(s) == 1

\* p++ in the loop of scheduler()
NextScan(s) == s + 1

\* The scheduler of an idle CPU goes on with its pass over the table ...
scheduler(c) ==
  LET R == {s \in InState("RUNNABLE") : s >= scan[c]} IN
  /\ cpu[c] = None /\ R # {}
  /\ \E s \in First(R) :
       /\ take(s)
       /\ cpu' = [cpu EXCEPT ![c] = s]
       /\ scan' = [scan EXCEPT ![c] = NextScan(s)]
  /\ UNCHANGED <<pid, parent, chan, killed, kstack, pgdir, nextpid, pc, np,
                 ret>>

\* ... and begins another one when nothing is left to run in this one.
scheduler_pass(c) ==
  /\ cpu[c] = None /\ scan[c] # 1
  /\ \A s \in InState("RUNNABLE") : s < scan[c]
  /\ scan' = [scan EXCEPT ![c] = 1]
  /\ UNCHANGED <<table, nextpid, pc, np, ret, cpu>>

-----------------------------------------------------------------------------
\* Steps that go on with what a process has begun in the kernel.
Kernel(s) ==
  \/ \E ok \in BOOLEAN : alloc_kstack(s, ok) \/ fork_copy(s, ok)
  \/ fork_publish(s) \/ fork_return(s) \/ exit(s)
  \/ device_sleep(s) \/ device_wake(s)

\* wait(), from the call or after a sleep.
wait(s) == wait_reap(s) \/ wait_fail(s) \/ wait_sleep(s)

\* Calls a program makes when it likes to.
User(s) ==
  \/ allocproc(s) \/ exit_begin(s) \/ trap_fault(s) \/ device_begin(s)
  \/ yield(s)
  \/ \E k \in KillPids : kill(s, k)

Next ==
  \/ \E s \in Slots : Kernel(s) \/ wait(s) \/ User(s)
  \/ \E c \in CPUs : scheduler(c) \/ scheduler_pass(c)
  \/ device_wakeup

Spec == Init /\ [][Next]_vars

-----------------------------------------------------------------------------
(* Properties *)

TypeOK ==
  /\ state \in [Slots -> States] /\ pid \in [Slots -> Nat]
  /\ parent \in [Slots -> Slots \cup {None}]
  /\ chan \in [Slots -> Slots \cup {None, Device}]
  /\ killed \in [Slots -> BOOLEAN] /\ kstack \in [Slots -> BOOLEAN]
  /\ pgdir \in [Slots -> BOOLEAN] /\ nextpid \in Nat
  /\ pc \in [Slots -> PCs] /\ np \in [Slots -> Slots \cup {None}]
  /\ ret \in [Slots -> Nat]
  /\ cpu \in [CPUs -> Slots \cup {None}]
  /\ scan \in [CPUs -> 1 .. NPROC + 1]

Alive(s) == state[s] \in {"SLEEPING", "RUNNABLE", "RUNNING"}

\* A parent pointer never dangles: exit() passes every child on before it
\* becomes a zombie, so every child has a living parent that can wait for it,
\* and every process but init has a parent.  In particular the pid fork() is
\* about to return is the pid of a child of the caller: the child may run, exit
\* and be a zombie by then, but nobody reaps it.  Nobody kills init (KillPids):
\* exit() panics then.  (The process table also keeps its types.)
ParentsAlive ==
  /\ TypeOK
  /\ \A s \in Slots : parent[s] # None => Alive(parent[s]) /\ state[s] # "UNUSED"
  /\ \A s \in Slots : (Alive(s) \/ state[s] = "ZOMBIE") /\ s # initproc => parent[s] # None
  /\ \A s \in Slots : state[s] # "UNUSED" /\ pc[s] = "forked" =>
       /\ parent[np[s]] = s /\ pid[np[s]] = ret[s]
       /\ state[np[s]] \notin {"UNUSED", "EMBRYO"}

\* No wakeup is lost between exit() and wait(): a process asleep in wait() has a
\* child, none of its children is a zombie, and it has not been killed.  Nobody
\* kills init (KillPids).
NoLostExit ==
  \A s \in Slots : state[s] = "SLEEPING" /\ chan[s] = s =>
    /\ ~ killed[s] /\ \E q \in Slots : parent[q] = s
    /\ \A q \in Slots : parent[q] = s => state[q] # "ZOMBIE"
=============================================================================
