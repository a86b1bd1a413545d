----------------------------- MODULE MCLogLive -----------------------------
(***************************************************************************)
(* The log for TLC: safety, refinement and, for a finite workload,         *)
(* liveness.  Two calls and their reservations fill the log, so the second *)
(* may have to sleep, and both share a commit.  begin_op() keeps no order  *)
(* among the sleepers, so an endless stream of new system calls could      *)
(* overtake one of them for ever; the workload is therefore cut after      *)
(* MaxCalls calls and MaxCrashes power failures, and every call admitted   *)
(* before that has to come to its end.                                     *)
(***************************************************************************)
EXTENDS LogInv

CONSTANTS MaxCalls, MaxCrashes

VARIABLES calls,   \* system calls started so far
          crashes  \* power failures so far

ASSUME LiveAssumption == MaxCalls \in Nat /\ MaxCrashes \in Nat

lvars == <<vars, calls, crashes>>

StartsCall == \E p \in Procs : pc[p] = "idle" /\ pc'[p] \in {"op", "sleeping", "peek"}

LiveInit == Init /\ calls = 0 /\ crashes = 0

LiveNext ==
  \/ /\ Run
     /\ calls' = IF StartsCall THEN calls + 1 ELSE calls
     /\ calls' <= MaxCalls
     /\ UNCHANGED crashes
  \/ /\ \E p \in Procs : crash(p)
     /\ crashes < MaxCrashes
     /\ crashes' = crashes + 1
     /\ UNCHANGED calls

\* The steps of a process that is already inside the kernel.
KernelStep(p) ==
  /\ pc[p] # "idle"
  /\ ~ panicked
  /\ \/ begin_op(p) \/ brelse(p) \/ log_write_check(p) \/ commit(p)
     \/ recover_from_log(p)
     \/ \E b \in Blocks : log_write(p, b)
  /\ calls' = calls /\ UNCHANGED crashes

EndOp(p) == ~ panicked /\ end_op(p) /\ calls' = calls /\ UNCHANGED crashes

\* The scheduler runs every runnable process again and again (weak fairness),
\* and the body of a system call is a finite program: a call that keeps
\* coming back to the point where it could return does return (strong
\* fairness of end_op).
Fairness ==
  \A p \in Procs : WF_lvars(KernelStep(p)) /\ SF_lvars(EndOp(p))

LiveSpec == LiveInit /\ [][LiveNext]_lvars /\ Fairness

\* A system call that went to sleep in begin_op() is admitted, unless the
\* machine crashes first.
SleeperAdmitted ==
  \A p \in Procs : pc[p] \in {"sleeping", "woken"} ~> pc[p] \in {"op", "down", "read_head"}

\* Everything logged is committed: the log is drained after the last call,
\* and the on-disk header is cleared.
LogDrains == []<>(lh = <<>> /\ head = <<>> /\ dirty = {} /\ ~ committing)
=============================================================================
