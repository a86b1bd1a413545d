----------------------------- MODULE AtomicDisk -----------------------------
(***************************************************************************)
(* What the logging layer of log.c promises to the file system above it:   *)
(* a disk with two contents.  "current" is what a running system call      *)
(* reads and writes; "durable" is what a machine that lost its power now   *)
(* would come back with.  System calls open and close a group; while any   *)
(* call of the group is open the durable contents do not move, and when    *)
(* none is open the whole group becomes durable in one step.  A power      *)
(* failure throws the uncommitted group away and nothing else.             *)
(***************************************************************************)
CONSTANTS Procs, Blocks, Data

VARIABLES durable,  \* [Blocks -> Data], the contents that survive a crash
          current,  \* [Blocks -> Data], the contents system calls see
          active    \* the processes inside begin_op() ... end_op()

avars == <<durable, current, active>>

AInit ==
  /\ durable \in [Blocks -> Data]
  /\ current = durable
  /\ active = {}

ABegin(p) ==
  /\ p \notin active
  /\ active' = active \cup {p}
  /\ UNCHANGED <<durable, current>>

AWrite(p, b, v) ==
  /\ p \in active
  /\ current' = [current EXCEPT ![b] = v]
  /\ UNCHANGED <<durable, active>>

AEnd(p) ==
  /\ p \in active
  /\ active' = active \ {p}
  /\ UNCHANGED <<durable, current>>

\* No call of the group is open: all of its writes survive from here on.
ACommit ==
  /\ active = {}
  /\ durable' = current
  /\ UNCHANGED <<current, active>>

ACrash ==
  /\ current' = durable
  /\ active' = {}
  /\ UNCHANGED durable

ANext ==
  \/ \E p \in Procs : ABegin(p) \/ AEnd(p)
  \/ \E p \in Procs, b \in Blocks, v \in Data : AWrite(p, b, v)
  \/ ACommit
  \/ ACrash

ASpec == AInit /\ [][ANext]_avars
=============================================================================
