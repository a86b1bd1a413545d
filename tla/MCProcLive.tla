----------------------------- MODULE MCProcLive -----------------------------
(***************************************************************************)
(* What the scheduler, exit() and wait() promise in the end.               *)
(***************************************************************************)
EXTENDS Proc

\* Every CPU's scheduler loop runs for ever, the timer interrupts every
\* process again and again, and a process that runs often enough gets on with
\* what it does in the kernel.  Devices answer.  init.c calls wait() in a loop.
LiveSpec ==
  /\ Spec
  /\ \A c \in CPUs : WF_vars(scheduler(c) \/ scheduler_pass(c))
  /\ \A s \in Slots : WF_vars(yield(s))
  /\ \A s \in Slots : SF_vars(Kernel(s) \/ (pc[s] = "waiting" /\ wait(s)))
  /\ SF_vars(wait(initproc))
  /\ WF_vars(device_wakeup)

\* No process is starved: the pass of scheduler() over the table reaches every
\* RUNNABLE process, whatever the other processes and CPUs do.
RunnableRuns ==
  \A s \in Slots : state[s] = "RUNNABLE" ~> state[s] # "RUNNABLE"

\* The slot of an orphan comes back: a zombie that exit() passed on to init is
\* reaped, also when it was a zombie before init became its parent.
OrphansReaped ==
  \A s \in Slots \ {initproc} :
    state[s] = "ZOMBIE" /\ parent[s] = initproc ~> state[s] = "UNUSED"
=============================================================================
