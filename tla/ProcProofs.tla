----------------------------- MODULE ProcProofs -----------------------------
(***************************************************************************)
(* Proofs about Proc for every size of the process table, every number of  *)
(* CPUs and every set of pids that are killed: no parent pointer dangles,  *)
(* and no wakeup is lost between exit() and wait().                        *)
(***************************************************************************)
EXTENDS Proc, TLAPS

\* ParentsAlive without the types.
ParentInv ==
  /\ \A s \in Slots : parent[s] # None => Alive(parent[s]) /\ state[s] # "UNUSED"
  /\ \A s \in Slots : (Alive(s) \/ state[s] = "ZOMBIE") /\ s # initproc => parent[s] # None
  /\ \A s \in Slots : state[s] # "UNUSED" /\ pc[s] = "forked" =>
       /\ parent[np[s]] = s /\ pid[np[s]] = ret[s]
       /\ state[np[s]] \notin {"UNUSED", "EMBRYO"}

\* Init lives for ever and has no parent, nobody is its own parent, a sleeper is
\* in wait() or in a device, and a slot without a living process has the label
\* of an exit or none.
PlaceInv ==
  /\ Alive(initproc) /\ pc[initproc] # "exiting" /\ parent[initproc] = None
  /\ \A s \in Slots : parent[s] # s
  /\ \A s \in Slots : state[s] = "SLEEPING" => pc[s] \in {"waiting", "sleep"}
  /\ \A s \in Slots : ~ Alive(s) => pc[s] \in {"user", "exiting"}

\* Labels of fork() while the child is an EMBRYO.
Making == {"kstack", "copyuvm", "publish"}

\* The child that fork() makes is an EMBRYO of its own, which nobody else
\* touches before it is published.
ForkInv ==
  /\ \A s \in Slots : pc[s] \in Making =>
       /\ np[s] \in Slots /\ state[np[s]] = "EMBRYO"
       /\ parent[np[s]] = IF pc[s] = "publish" THEN s ELSE None
       /\ pc[s] = "publish" => pid[np[s]] = ret[s]
  /\ \A s, t \in Slots : pc[s] \in Making /\ pc[t] \in Making /\ np[s] = np[t] => s = t
  /\ \A s \in Slots : pc[s] = "forked" => np[s] \in Slots

ProcInv == TypeOK /\ ParentInv /\ PlaceInv /\ ForkInv /\ NoLostExit

-----------------------------------------------------------------------------
(* Steps that leave the family of processes alone *)

\* A step that makes and ends no process and passes no child on.
Quiet ==
  /\ UNCHANGED <<pid, parent>>
  /\ \A s \in Slots :
       /\ Alive(s)' <=> Alive(s)
       /\ ~ Alive(s) => state'[s] = state[s] /\ pc'[s] = pc[s]
       /\ pc'[s] \in Making \cup {"forked"} => pc'[s] = pc[s] /\ np'[s] = np[s] /\ ret'[s] = ret[s]
       /\ state'[s] = "SLEEPING" =>
            pc'[s] \in {"waiting", "sleep"} \/ (state[s] = "SLEEPING" /\ pc'[s] = pc[s])
       /\ pc'[s] = "exiting" => pc[s] = "exiting" \/ s # initproc

\* A quiet step keeps the family as it is.
LEMMA QuietKeeps ==
  ASSUME ProcInv, Quiet PROVE ParentInv' /\ PlaceInv' /\ ForkInv'
<1>1. initproc \in Slots /\ None \notin Slots
  BY ProcAssumption DEF initproc, Slots, None
<1>2. ParentInv /\ PlaceInv /\ ForkInv /\ TypeOK
  BY DEF ProcInv
<1>3. ParentInv'
  <2>1. \A s \in Slots : parent'[s] = parent[s] /\ pid'[s] = pid[s] /\ parent[s] \in Slots \cup {None}
    BY <1>2 DEF Quiet, TypeOK
  <2>2. \A s \in Slots : state'[s] = "UNUSED" <=> state[s] = "UNUSED"
    BY DEF Quiet, Alive
  <2>3. \A s \in Slots : state'[s] \in {"UNUSED", "EMBRYO"} <=> state[s] \in {"UNUSED", "EMBRYO"}
    BY DEF Quiet, Alive
  <2>4. \A s \in Slots : state'[s] = "ZOMBIE" <=> state[s] = "ZOMBIE"
    BY DEF Quiet, Alive
  <2>5. ASSUME NEW s \in Slots, pc'[s] = "forked", state'[s] # "UNUSED"
        PROVE  parent'[np'[s]] = s /\ pid'[np'[s]] = ret'[s] /\ state'[np'[s]] \notin {"UNUSED", "EMBRYO"}
    <3>1. pc[s] = "forked" /\ np'[s] = np[s] /\ ret'[s] = ret[s]
      BY <2>5 DEF Quiet
    <3>2. np[s] \in Slots /\ state[s] # "UNUSED"
      BY <1>2, <2>2, <2>5, <3>1 DEF ForkInv
    <3> QED BY <1>2, <2>1, <2>3, <3>1, <3>2 DEF ParentInv
  <2>6. \A s \in Slots : parent'[s] # None => Alive(parent[s])' /\ state'[s] # "UNUSED"
    BY <1>2, <2>1, <2>2 DEF ParentInv, Quiet
  <2>7. \A s \in Slots : (Alive(s)' \/ state'[s] = "ZOMBIE") /\ s # initproc => parent'[s] # None
    BY <1>2, <2>1, <2>4 DEF ParentInv, Quiet
  <2> QED BY <2>5, <2>6, <2>7 DEF ParentInv
<1>4. PlaceInv'
  BY <1>1, <1>2 DEF PlaceInv, Quiet
<1>5. ForkInv'
  <2>1. \A s \in Slots : pc'[s] \in Making \cup {"forked"} =>
          pc'[s] = pc[s] /\ np'[s] = np[s] /\ ret'[s] = ret[s]
    BY DEF Quiet
  <2>2. \A s \in Slots : /\ parent'[s] = parent[s] /\ pid'[s] = pid[s]
                         /\ state[s] = "EMBRYO" => state'[s] = "EMBRYO"
    BY DEF Quiet, Alive
  <2> QED BY <1>2, <2>1, <2>2 DEF ForkInv, Making
<1> QED BY <1>3, <1>4, <1>5

\* The actions that only move one living process on are quiet.
LEMMA QuietStep ==
  ASSUME ProcInv, NEW s \in Slots,
         \/ yield(s) \/ device_begin(s) \/ device_sleep(s) \/ device_wake(s) \/ exit_begin(s)
         \/ trap_fault(s) \/ fork_return(s) \/ wait_fail(s) \/ wait_sleep(s)
  PROVE  Quiet
<1>1. state \in [Slots -> States] /\ pc \in [Slots -> PCs] /\ PlaceInv
  BY DEF ProcInv, TypeOK
<1>2. CASE yield(s)
  BY <1>1, <1>2 DEF yield, Quiet, Alive, Making, PlaceInv
<1>3. CASE device_begin(s)
  BY <1>1, <1>3 DEF device_begin, At, Goto, table, Quiet, Alive, Making, PlaceInv
<1>4. CASE device_sleep(s)
  BY <1>1, <1>4 DEF device_sleep, At, Goto, Quiet, Alive, Making, PlaceInv
<1>5. CASE device_wake(s)
  BY <1>1, <1>5 DEF device_wake, At, Goto, Quiet, Alive, Making, PlaceInv
<1>6. CASE exit_begin(s)
  BY <1>1, <1>6 DEF exit_begin, At, Goto, table, Quiet, Alive, Making, PlaceInv
<1>7. CASE trap_fault(s)
  BY <1>1, <1>7 DEF trap_fault, At, Goto, Quiet, Alive, Making, PlaceInv
<1>8. CASE fork_return(s)
  BY <1>1, <1>8 DEF fork_return, At, Goto, table, Quiet, Alive, Making, PlaceInv
<1>9. CASE wait_fail(s)
  BY <1>1, <1>9 DEF wait_fail, At, Goto, Quiet, Alive, Making, PlaceInv
<1>10. CASE wait_sleep(s)
  BY <1>1, <1>10 DEF wait_sleep, At, Goto, Quiet, Alive, Making, PlaceInv
<1> QED BY <1>2, <1>3, <1>4, <1>5, <1>6, <1>7, <1>8, <1>9, <1>10

\* And so are those that only change states: wakeups, kill and the scheduler.
LEMMA QuietStates ==
  ASSUME ProcInv,
         \/ device_wakeup \/ (\E s \in Slots, k \in KillPids : kill(s, k))
         \/ (\E c \in CPUs : scheduler(c) \/ scheduler_pass(c)) \/ UNCHANGED vars
  PROVE  Quiet
<1>1. state \in [Slots -> States] /\ pc \in [Slots -> PCs] /\ PlaceInv
  BY DEF ProcInv, TypeOK
<1>2. CASE device_wakeup
  BY <1>1, <1>2 DEF device_wakeup, wakeup1, Quiet, Alive, PlaceInv
<1>3. ASSUME NEW s \in Slots, NEW k \in KillPids, kill(s, k) PROVE Quiet
  BY <1>1, <1>3 DEF kill, First, Quiet, Alive, PlaceInv
<1>4. ASSUME NEW c \in CPUs, scheduler(c) PROVE Quiet
  BY <1>1, <1>4 DEF scheduler, take, First, InState, Quiet, Alive, PlaceInv
<1>5. ASSUME NEW c \in CPUs, scheduler_pass(c) PROVE Quiet
  BY <1>1, <1>5 DEF scheduler_pass, table, Quiet, Alive, PlaceInv
<1>6. CASE UNCHANGED vars
  BY <1>1, <1>6 DEF vars, Quiet, Alive, PlaceInv
<1> QED BY <1>2, <1>3, <1>4, <1>5, <1>6

-----------------------------------------------------------------------------
(* The life of a process: fork(), exit() and wait() *)

\* The types that the steps of fork(), exit() and wait() need.
LEMMA ProcTypes ==
  ASSUME ProcInv
  PROVE  /\ initproc \in Slots /\ None \notin Slots /\ state \in [Slots -> States]
         /\ parent \in [Slots -> Slots \cup {None}] /\ pc \in [Slots -> PCs]
         /\ pid \in [Slots -> Nat] /\ ret \in [Slots -> Nat] /\ np \in [Slots -> Slots \cup {None}]
<1>1. initproc \in Slots /\ None \notin Slots
  BY ProcAssumption DEF initproc, Slots, None
<1> QED BY <1>1 DEF ProcInv, TypeOK

\* allocproc() takes a slot that nobody refers to.
LEMMA AllocStep ==
  ASSUME ProcInv, NEW s \in Slots, allocproc(s)
  PROVE  ParentInv' /\ PlaceInv' /\ ForkInv'
<1>1. /\ initproc \in Slots /\ None \notin Slots /\ state \in [Slots -> States]
      /\ parent \in [Slots -> Slots \cup {None}] /\ pc \in [Slots -> PCs]
      /\ pid \in [Slots -> Nat] /\ ret \in [Slots -> Nat] /\ np \in [Slots -> Slots \cup {None}]
  BY ProcTypes
<1>2. ParentInv /\ PlaceInv /\ ForkInv
  BY DEF ProcInv
<1>3. PICK n \in Slots : /\ state[n] = "UNUSED" /\ state' = [state EXCEPT ![n] = "EMBRYO"]
                          /\ pid' = [pid EXCEPT ![n] = nextpid] /\ np' = [np EXCEPT ![s] = n]
  BY DEF allocproc, First, FreeSlots, InState
<1>4. /\ state[s] = "RUNNING" /\ pc[s] = "user" /\ pc' = [pc EXCEPT ![s] = "kstack"]
      /\ UNCHANGED <<parent, ret>>
  BY DEF allocproc, At, Goto
<1>5. /\ parent[n] = None /\ n # s /\ n # initproc /\ ~ Alive(n)
      /\ pc[n] \notin Making \cup {"forked"}
  BY <1>2, <1>3, <1>4 DEF ParentInv, PlaceInv, Alive, Making
<1>6. \A t \in Slots : pc[t] \in Making \cup {"forked"} => np[t] \in Slots /\ np[t] # n /\ t # s
  <2>1. \A t \in Slots : pc[t] \in Making => np[t] \in Slots /\ np[t] # n
    BY <1>2, <1>3 DEF ForkInv
  <2>2. \A t \in Slots : pc[t] = "forked" => Alive(t)
    BY <1>2 DEF PlaceInv
  <2>3. \A t \in Slots : pc[t] = "forked" => np[t] \in Slots /\ np[t] # n
    BY <1>2, <1>3, <2>2 DEF ParentInv, ForkInv, Alive
  <2> QED BY <1>4, <2>1, <2>3 DEF Making
<1>7. ParentInv'
  <2>1. \A t \in Slots : (t # n => state'[t] = state[t] /\ pid'[t] = pid[t]) /\ state'[n] = "EMBRYO"
    BY <1>1, <1>3
  <2>2. \A t \in Slots : Alive(t)' <=> Alive(t)
    BY <1>5, <2>1 DEF Alive
  <2>3. \A t \in Slots : pc'[t] = "forked" => pc[t] = "forked" /\ np'[t] = np[t] /\ np[t] # n
    BY <1>1, <1>3, <1>4, <1>6
  <2>4. \A t \in Slots : parent'[t] # None => Alive(parent[t])' /\ state'[t] # "UNUSED"
    BY <1>1, <1>2, <1>4, <2>1, <2>2 DEF ParentInv
  <2>5. \A t \in Slots : (Alive(t)' \/ state'[t] = "ZOMBIE") /\ t # initproc => parent'[t] # None
    BY <1>2, <1>4, <2>1, <2>2 DEF ParentInv
  <2>6. ASSUME NEW t \in Slots, pc'[t] = "forked"
        PROVE  /\ parent'[np'[t]] = t /\ pid'[np'[t]] = ret'[t]
               /\ state'[np'[t]] \notin {"UNUSED", "EMBRYO"}
    <3>1. pc[t] = "forked" /\ np'[t] = np[t] /\ np[t] # n /\ np[t] \in Slots /\ state[t] # "UNUSED"
      BY <1>2, <1>6, <2>3, <2>6 DEF PlaceInv, Alive
    <3> QED BY <1>2, <1>4, <2>1, <3>1 DEF ParentInv
  <2> QED BY <2>4, <2>5, <2>6 DEF ParentInv
<1>8. PlaceInv'
  BY <1>1, <1>2, <1>3, <1>4, <1>5 DEF PlaceInv, Alive
<1>9. ForkInv'
  BY <1>1, <1>2, <1>3, <1>4, <1>5, <1>6 DEF ForkInv, Making
<1> QED BY <1>7, <1>8, <1>9

\* The slot of fork()'s child goes back to UNUSED when memory is short.
LEMMA GiveBackStep ==
  ASSUME ProcInv, NEW s \in Slots, state[s] = "RUNNING", pc[s] \in {"kstack", "copyuvm"},
         state' = [state EXCEPT ![np[s]] = "UNUSED"], pc' = [pc EXCEPT ![s] = "user"],
         UNCHANGED <<pid, parent, np, ret>>
  PROVE  ParentInv' /\ PlaceInv' /\ ForkInv'
<1>1. /\ initproc \in Slots /\ None \notin Slots /\ state \in [Slots -> States]
      /\ parent \in [Slots -> Slots \cup {None}] /\ pc \in [Slots -> PCs]
      /\ pid \in [Slots -> Nat] /\ ret \in [Slots -> Nat] /\ np \in [Slots -> Slots \cup {None}]
  BY ProcTypes
<1>2. ParentInv /\ PlaceInv /\ ForkInv
  BY DEF ProcInv
<1>3. /\ np[s] \in Slots /\ state[np[s]] = "EMBRYO" /\ parent[np[s]] = None /\ np[s] # s
      /\ np[s] # initproc /\ ~ Alive(np[s])
  BY <1>2 DEF ForkInv, PlaceInv, Making, Alive
<1>4. \A t \in Slots : pc'[t] \in Making \cup {"forked"} => pc'[t] = pc[t] /\ t # s /\ np[t] # np[s]
  <2>1. \A t \in Slots : pc'[t] \in Making \cup {"forked"} => pc'[t] = pc[t] /\ t # s
    BY <1>1 DEF Making
  <2>2. \A t \in Slots : pc[t] = "forked" => state[t] # "UNUSED" /\ np[t] # np[s]
    BY <1>2, <1>3 DEF ParentInv, PlaceInv, Alive
  <2> QED BY <1>2, <2>1, <2>2 DEF ForkInv, Making
<1>5. \A t \in Slots : (t # np[s] => state'[t] = state[t]) /\ state'[np[s]] = "UNUSED"
  BY <1>1, <1>3
<1>6. \A t \in Slots : Alive(t)' <=> Alive(t)
  BY <1>3, <1>5 DEF Alive
<1>7. ParentInv'
  <2>1. \A t \in Slots : parent'[t] # None => Alive(parent[t])' /\ state'[t] # "UNUSED"
    BY <1>1, <1>2, <1>3, <1>5, <1>6 DEF ParentInv
  <2>2. \A t \in Slots : (Alive(t)' \/ state'[t] = "ZOMBIE") /\ t # initproc => parent'[t] # None
    BY <1>2, <1>5, <1>6 DEF ParentInv
  <2>3. ASSUME NEW t \in Slots, pc'[t] = "forked"
        PROVE  /\ parent'[np'[t]] = t /\ pid'[np'[t]] = ret'[t]
               /\ state'[np'[t]] \notin {"UNUSED", "EMBRYO"}
    <3>1. pc[t] = "forked" /\ np[t] # np[s] /\ np[t] \in Slots /\ state[t] # "UNUSED"
      BY <1>2, <1>4, <2>3 DEF PlaceInv, ForkInv, Alive
    <3> QED BY <1>2, <1>5, <3>1 DEF ParentInv
  <2> QED BY <2>1, <2>2, <2>3 DEF ParentInv
<1>8. PlaceInv'
  BY <1>1, <1>2, <1>3, <1>5, <1>6 DEF PlaceInv
<1>9. ForkInv'
  BY <1>1, <1>2, <1>4, <1>5 DEF ForkInv, Making
<1> QED BY <1>7, <1>8, <1>9

\* The second part of allocproc(): the kernel stack of the child.
LEMMA KstackStep ==
  ASSUME ProcInv, NEW s \in Slots, NEW ok \in BOOLEAN, alloc_kstack(s, ok)
  PROVE  ParentInv' /\ PlaceInv' /\ ForkInv'
<1>1. /\ initproc \in Slots /\ None \notin Slots /\ state \in [Slots -> States]
      /\ parent \in [Slots -> Slots \cup {None}] /\ pc \in [Slots -> PCs]
      /\ pid \in [Slots -> Nat] /\ ret \in [Slots -> Nat] /\ np \in [Slots -> Slots \cup {None}]
  BY ProcTypes
<1>2. ParentInv /\ PlaceInv /\ ForkInv
  BY DEF ProcInv
<1>3. CASE ok = FALSE
  BY <1>3, GiveBackStep DEF alloc_kstack, At, Goto
<1>4. CASE ok = TRUE
  <2>1. /\ state[s] = "RUNNING" /\ pc[s] = "kstack" /\ pc' = [pc EXCEPT ![s] = "copyuvm"]
        /\ UNCHANGED <<state, pid, parent, np, ret>>
    BY <1>4 DEF alloc_kstack, At, Goto
  <2>2. ParentInv'
    BY <1>1, <1>2, <2>1 DEF ParentInv, Alive
  <2>3. PlaceInv'
    BY <1>1, <1>2, <2>1 DEF PlaceInv, Alive
  <2>4. ForkInv'
    BY <1>1, <1>2, <2>1 DEF ForkInv, Making
  <2> QED BY <2>2, <2>3, <2>4
<1> QED BY <1>3, <1>4

\* The rest of fork() before the child is published: it gets its parent.
LEMMA CopyStep ==
  ASSUME ProcInv, NEW s \in Slots, NEW ok \in BOOLEAN, fork_copy(s, ok)
  PROVE  ParentInv' /\ PlaceInv' /\ ForkInv'
<1>1. /\ initproc \in Slots /\ None \notin Slots /\ state \in [Slots -> States]
      /\ parent \in [Slots -> Slots \cup {None}] /\ pc \in [Slots -> PCs]
      /\ pid \in [Slots -> Nat] /\ ret \in [Slots -> Nat] /\ np \in [Slots -> Slots \cup {None}]
  BY ProcTypes
<1>2. ParentInv /\ PlaceInv /\ ForkInv
  BY DEF ProcInv
<1>3. CASE ok = FALSE
  BY <1>3, GiveBackStep DEF fork_copy, fork_copyfail, At, Goto
<1>4. CASE ok = TRUE
  <2>1. /\ state[s] = "RUNNING" /\ pc[s] = "copyuvm" /\ pc' = [pc EXCEPT ![s] = "publish"]
        /\ parent' = [parent EXCEPT ![np[s]] = s] /\ ret' = [ret EXCEPT ![s] = pid[np[s]]]
        /\ UNCHANGED <<state, pid, np>>
    BY <1>4 DEF fork_copy, At, Goto
  <2>2. /\ np[s] \in Slots /\ state[np[s]] = "EMBRYO" /\ parent[np[s]] = None
        /\ \A t \in Slots : pc[t] \in Making /\ t # s => np[t] # np[s]
    BY <1>2, <2>1 DEF ForkInv, Making
  <2>3. \A t \in Slots : t # np[s] => parent'[t] = parent[t]
    BY <1>1, <2>1
  <2>4. \A t \in Slots : pc'[t] = "forked" => /\ pc[t] = "forked" /\ ret'[t] = ret[t]
                                             /\ np[t] # np[s] /\ np[t] \in Slots
    BY <1>1, <1>2, <2>1, <2>2 DEF ParentInv, PlaceInv, ForkInv, Alive
  <2>5. ParentInv'
    <3>1. \A t \in Slots : parent'[t] # None => Alive(parent'[t]) /\ state[t] # "UNUSED"
      BY <1>1, <1>2, <2>1, <2>2, <2>3 DEF ParentInv, Alive
    <3>2. \A t \in Slots : (Alive(t) \/ state[t] = "ZOMBIE") /\ t # initproc => parent'[t] # None
      BY <1>1, <1>2, <2>2, <2>3 DEF ParentInv, Alive
    <3>3. \A t \in Slots : state[t] # "UNUSED" /\ pc'[t] = "forked" =>
            /\ parent'[np[t]] = t /\ pid[np[t]] = ret'[t] /\ state[np[t]] \notin {"UNUSED", "EMBRYO"}
      BY <1>2, <2>3, <2>4 DEF ParentInv
    <3> QED BY <2>1, <3>1, <3>2, <3>3 DEF ParentInv, Alive
  <2>6. PlaceInv'
    <3>1. np[s] # s /\ np[s] # initproc
      BY <1>2, <2>1, <2>2 DEF PlaceInv, Alive
    <3>2. parent'[initproc] = None /\ \A t \in Slots : parent'[t] # t
      BY <1>1, <1>2, <2>1, <2>2, <3>1 DEF PlaceInv
    <3> QED BY <1>1, <1>2, <2>1, <3>2 DEF PlaceInv, Alive
  <2>7. ForkInv'
    <3>1. \A t \in Slots : pc'[t] \in Making => pc[t] \in Making /\ (t # s => pc'[t] = pc[t] /\ ret'[t] = ret[t])
      BY <1>1, <2>1 DEF Making
    <3>2. pc'[s] = "publish" /\ ret'[s] = pid[np[s]] /\ parent'[np[s]] = s
      BY <1>1, <2>1, <2>2
    <3> QED BY <1>2, <2>1, <2>2, <2>3, <2>4, <3>1, <3>2 DEF ForkInv
  <2> QED BY <2>5, <2>6, <2>7
<1> QED BY <1>3, <1>4

\* fork() makes the child RUNNABLE.
LEMMA PublishStep ==
  ASSUME ProcInv, NEW s \in Slots, fork_publish(s)
  PROVE  ParentInv' /\ PlaceInv' /\ ForkInv'
<1>1. /\ initproc \in Slots /\ None \notin Slots /\ state \in [Slots -> States]
      /\ parent \in [Slots -> Slots \cup {None}] /\ pc \in [Slots -> PCs]
      /\ pid \in [Slots -> Nat] /\ ret \in [Slots -> Nat] /\ np \in [Slots -> Slots \cup {None}]
  BY ProcTypes
<1>2. ParentInv /\ PlaceInv /\ ForkInv
  BY DEF ProcInv
<1>3. /\ state[s] = "RUNNING" /\ pc[s] = "publish" /\ state' = [state EXCEPT ![np[s]] = "RUNNABLE"]
      /\ pc' = [pc EXCEPT ![s] = "forked", ![np[s]] = "user"]
      /\ UNCHANGED <<pid, parent, np, ret>>
  BY DEF fork_publish, At
<1>4. /\ np[s] \in Slots /\ state[np[s]] = "EMBRYO" /\ parent[np[s]] = s /\ pid[np[s]] = ret[s]
      /\ np[s] # s /\ np[s] # initproc /\ pc[np[s]] \in {"user", "exiting"}
      /\ \A t \in Slots : pc[t] \in Making /\ t # s => np[t] # np[s]
  BY <1>2, <1>3 DEF ForkInv, PlaceInv, Making, Alive
<1>5. \A t \in Slots : t # np[s] => state'[t] = state[t] /\ (t # s => pc'[t] = pc[t])
  BY <1>1, <1>3
<1>6. state'[np[s]] = "RUNNABLE" /\ pc'[np[s]] = "user" /\ pc'[s] = "forked"
  BY <1>1, <1>3, <1>4
<1>7. ParentInv'
  <2>1. \A t \in Slots : Alive(t) => Alive(t)'
    BY <1>5, <1>6 DEF Alive
  <2>2. \A t \in Slots : parent'[t] # None => Alive(parent[t])' /\ state'[t] # "UNUSED"
    BY <1>1, <1>2, <1>3, <1>5, <1>6, <2>1 DEF ParentInv
  <2>3. \A t \in Slots : (Alive(t)' \/ state'[t] = "ZOMBIE") /\ t # initproc => parent'[t] # None
    BY <1>1, <1>2, <1>3, <1>4, <1>5, <1>6 DEF ParentInv, Alive
  <2>4. ASSUME NEW t \in Slots, state'[t] # "UNUSED", pc'[t] = "forked"
        PROVE  /\ parent'[np'[t]] = t /\ pid'[np'[t]] = ret'[t]
               /\ state'[np'[t]] \notin {"UNUSED", "EMBRYO"}
    <3>1. CASE t = s
      BY <1>3, <1>4, <1>6, <3>1
    <3>2. CASE t # s
      <4>1. pc[t] = "forked" /\ state[t] # "UNUSED" /\ np[t] \in Slots
        BY <1>2, <1>5, <1>6, <2>4, <3>2 DEF ForkInv
      <4>2. state[np[t]] \notin {"UNUSED", "EMBRYO"} /\ parent[np[t]] = t /\ pid[np[t]] = ret[t]
        BY <1>2, <4>1 DEF ParentInv
      <4> QED BY <1>3, <1>4, <1>5, <4>1, <4>2
    <3> QED BY <3>1, <3>2
  <2> QED BY <2>2, <2>3, <2>4 DEF ParentInv
<1>8. PlaceInv'
  BY <1>1, <1>2, <1>3, <1>4, <1>5, <1>6 DEF PlaceInv, Alive
<1>9. ForkInv'
  <2>1. \A t \in Slots : pc'[t] \in Making => t # s /\ pc'[t] = pc[t] /\ np[t] # np[s]
    BY <1>4, <1>5, <1>6 DEF Making
  <2>2. \A t \in Slots : pc'[t] = "forked" => t = s \/ pc[t] = "forked"
    BY <1>5, <1>6
  <2>3. ASSUME NEW t \in Slots, pc'[t] \in Making
        PROVE  /\ np'[t] \in Slots /\ state'[np'[t]] = "EMBRYO"
               /\ parent'[np'[t]] = IF pc'[t] = "publish" THEN t ELSE None
               /\ pc'[t] = "publish" => pid'[np'[t]] = ret'[t]
    <3>1. pc'[t] = pc[t] /\ np[t] # np[s]
      BY <2>1, <2>3
    <3>2. /\ np[t] \in Slots /\ state[np[t]] = "EMBRYO"
          /\ parent[np[t]] = IF pc[t] = "publish" THEN t ELSE None
          /\ pc[t] = "publish" => pid[np[t]] = ret[t]
      BY <1>2, <2>3, <3>1 DEF ForkInv
    <3> QED BY <1>3, <1>5, <3>1, <3>2
  <2>4. \A t, u \in Slots : pc'[t] \in Making /\ pc'[u] \in Making /\ np'[t] = np'[u] => t = u
    BY <1>2, <1>3, <2>1 DEF ForkInv
  <2>5. \A t \in Slots : pc'[t] = "forked" => np'[t] \in Slots
    BY <1>2, <1>3, <1>4, <2>2 DEF ForkInv
  <2> QED BY <2>3, <2>4, <2>5 DEF ForkInv
<1> QED BY <1>7, <1>8, <1>9

\* exit() makes sleepers RUNNABLE and itself a zombie, and changes no other state.
LEMMA ExitStates ==
  ASSUME ProcInv, NEW s \in Slots, exit(s)
  PROVE  /\ state'[s] = "ZOMBIE"
         /\ \A t \in Slots : t # s =>
              state'[t] = state[t] \/ (state[t] = "SLEEPING" /\ state'[t] = "RUNNABLE")
<1>1. AfterReparent(s) \in [Slots -> {state[t] : t \in Slots} \cup {"RUNNABLE"}]
  BY DEF AfterReparent, wake_parent, wakeup1
<1>2. state' = [AfterReparent(s) EXCEPT ![s] = "ZOMBIE"]
  BY DEF exit
<1>3. \A t \in Slots : \/ AfterReparent(s)[t] = state[t]
                       \/ state[t] = "SLEEPING" /\ AfterReparent(s)[t] = "RUNNABLE"
  BY DEF AfterReparent, wake_parent, wakeup1
<1> QED BY <1>1, <1>2, <1>3

\* exit() passes the children to init, which lives.
LEMMA ExitStep ==
  ASSUME ProcInv, NEW s \in Slots, exit(s)
  PROVE  ParentInv' /\ PlaceInv' /\ ForkInv'
<1>1. /\ initproc \in Slots /\ None \notin Slots /\ state \in [Slots -> States]
      /\ parent \in [Slots -> Slots \cup {None}] /\ pc \in [Slots -> PCs]
      /\ pid \in [Slots -> Nat] /\ ret \in [Slots -> Nat] /\ np \in [Slots -> Slots \cup {None}]
  BY ProcTypes
<1>2. ParentInv /\ PlaceInv /\ ForkInv
  BY DEF ProcInv
<1>3. /\ state[s] = "RUNNING" /\ pc[s] = "exiting"
      /\ parent' = [q \in Slots |-> IF parent[q] = s THEN initproc ELSE parent[q]]
      /\ UNCHANGED <<pid, pc, np, ret>>
  BY DEF exit, At
<1>4. /\ state'[s] = "ZOMBIE"
      /\ \A t \in Slots : t # s =>
           state'[t] = state[t] \/ (state[t] = "SLEEPING" /\ state'[t] = "RUNNABLE")
  BY ExitStates
<1>5. s # initproc /\ Alive(initproc)
  BY <1>2, <1>3 DEF PlaceInv
<1>6. \A t \in Slots : t # s => /\ Alive(t)' <=> Alive(t)
                                /\ ~ Alive(t) => state'[t] = state[t]
                                /\ state'[t] = "SLEEPING" => state[t] = "SLEEPING"
  BY <1>4 DEF Alive
<1>7. \A t \in Slots : parent'[t] = IF parent[t] = s THEN initproc ELSE parent[t]
  BY <1>3
<1>8. ParentInv'
  <2>1. ASSUME NEW t \in Slots, parent'[t] # None PROVE Alive(parent[t])' /\ state'[t] # "UNUSED"
    <3>1. parent[t] \in Slots /\ Alive(parent[t]) /\ state[t] # "UNUSED"
      BY <1>1, <1>2, <1>7, <2>1 DEF ParentInv
    <3>2. state'[t] # "UNUSED"
      BY <1>4, <3>1
    <3>3. CASE parent[t] = s
      BY <1>1, <1>5, <1>6, <1>7, <3>2, <3>3
    <3>4. CASE parent[t] # s
      BY <1>6, <1>7, <3>1, <3>2, <3>4
    <3> QED BY <3>3, <3>4
  <2>2. \A t \in Slots : (Alive(t)' \/ state'[t] = "ZOMBIE") /\ t # initproc => parent'[t] # None
    <3>1. \A t \in Slots : Alive(t)' \/ state'[t] = "ZOMBIE" => Alive(t) \/ state[t] = "ZOMBIE"
      BY <1>3, <1>6 DEF Alive
    <3> QED BY <1>1, <1>2, <1>7, <3>1 DEF ParentInv
  <2>3. ASSUME NEW t \in Slots, state'[t] # "UNUSED", pc'[t] = "forked"
        PROVE  /\ parent'[np'[t]] = t /\ pid'[np'[t]] = ret'[t]
               /\ state'[np'[t]] \notin {"UNUSED", "EMBRYO"}
    <3>1. pc[t] = "forked" /\ t # s /\ np[t] \in Slots /\ state[t] # "UNUSED"
      BY <1>2, <1>3, <2>3 DEF ForkInv, PlaceInv, Alive
    <3>2. parent[np[t]] = t /\ pid[np[t]] = ret[t] /\ state[np[t]] \notin {"UNUSED", "EMBRYO"}
      BY <1>2, <3>1 DEF ParentInv
    <3> QED BY <1>3, <1>4, <1>7, <3>1, <3>2
  <2> QED BY <2>1, <2>2, <2>3 DEF ParentInv
<1>9. PlaceInv'
  BY <1>1, <1>2, <1>3, <1>4, <1>5, <1>6 DEF PlaceInv
<1>10. ForkInv'
  <2>1. ASSUME NEW t \in Slots, pc'[t] \in Making
        PROVE  /\ np'[t] \in Slots /\ state'[np'[t]] = "EMBRYO"
               /\ parent'[np'[t]] = IF pc'[t] = "publish" THEN t ELSE None
               /\ pc'[t] = "publish" => pid'[np'[t]] = ret'[t]
    <3>1. /\ np[t] \in Slots /\ state[np[t]] = "EMBRYO"
          /\ parent[np[t]] = IF pc[t] = "publish" THEN t ELSE None
          /\ pc[t] = "publish" => pid[np[t]] = ret[t]
      BY <1>2, <1>3, <2>1 DEF ForkInv
    <3>2. np[t] # s /\ t # s /\ s # None
      BY <1>1, <1>3, <2>1, <3>1 DEF Making
    <3> QED BY <1>3, <1>4, <1>7, <3>1, <3>2
  <2> QED BY <1>2, <1>3, <2>1 DEF ForkInv
<1> QED BY <1>8, <1>9, <1>10

\* wait() frees a zombie, which has no children and which no fork() waits to return.
LEMMA ReapStep ==
  ASSUME ProcInv, NEW s \in Slots, wait_reap(s)
  PROVE  ParentInv' /\ PlaceInv' /\ ForkInv'
<1>1. /\ initproc \in Slots /\ None \notin Slots /\ state \in [Slots -> States]
      /\ parent \in [Slots -> Slots \cup {None}] /\ pc \in [Slots -> PCs]
      /\ pid \in [Slots -> Nat] /\ ret \in [Slots -> Nat] /\ np \in [Slots -> Slots \cup {None}]
  BY ProcTypes
<1>2. ParentInv /\ PlaceInv /\ ForkInv
  BY DEF ProcInv
<1>3. PICK z \in Slots :
        /\ parent[z] = s /\ state[z] = "ZOMBIE" /\ state' = [state EXCEPT ![z] = "UNUSED"]
        /\ pid' = [pid EXCEPT ![z] = 0] /\ parent' = [parent EXCEPT ![z] = None]
  BY DEF wait_reap, First, Children, InState, reap_parent
<1>4. /\ state[s] = "RUNNING" /\ pc[s] \in {"user", "waiting"} /\ pc' = [pc EXCEPT ![s] = "user"]
      /\ UNCHANGED <<np, ret>>
  BY DEF wait_reap, At, Goto
<1>5. z # s /\ z # initproc
  BY <1>2, <1>3, <1>4 DEF PlaceInv, Alive
<1>6. /\ state'[z] = "UNUSED" /\ parent'[z] = None
      /\ \A t \in Slots : t # z => state'[t] = state[t] /\ parent'[t] = parent[t] /\ pid'[t] = pid[t]
  BY <1>1, <1>3
<1>7. \A t \in Slots : Alive(t)' <=> Alive(t)
  BY <1>3, <1>6 DEF Alive
<1>8. \A t \in Slots : pc'[t] \in Making \cup {"forked"} =>
        pc'[t] = pc[t] /\ np[t] \in Slots /\ np[t] # z /\ state[t] # "UNUSED"
  <2>1. \A t \in Slots : pc'[t] \in Making \cup {"forked"} => pc'[t] = pc[t] /\ t # s
    BY <1>1, <1>4 DEF Making
  <2>2. \A t \in Slots : pc[t] \in Making \cup {"forked"} => state[t] # "UNUSED"
    BY <1>2 DEF PlaceInv, Alive, Making
  <2>3. \A t \in Slots : pc[t] = "forked" /\ t # s => np[t] \in Slots /\ np[t] # z
    BY <1>2, <1>3, <2>2 DEF ParentInv, ForkInv
  <2>4. \A t \in Slots : pc[t] \in Making => np[t] \in Slots /\ np[t] # z
    BY <1>2, <1>3 DEF ForkInv
  <2> QED BY <2>1, <2>2, <2>3, <2>4
<1>9. ParentInv'
  <2>1. \A t \in Slots : parent'[t] # None => Alive(parent[t])' /\ state'[t] # "UNUSED"
    BY <1>1, <1>2, <1>6, <1>7 DEF ParentInv
  <2>2. \A t \in Slots : (Alive(t)' \/ state'[t] = "ZOMBIE") /\ t # initproc => parent'[t] # None
    BY <1>2, <1>6, <1>7 DEF ParentInv, Alive
  <2>3. \A t \in Slots : state'[t] # "UNUSED" /\ pc'[t] = "forked" =>
          /\ parent'[np'[t]] = t /\ pid'[np'[t]] = ret'[t]
          /\ state'[np'[t]] \notin {"UNUSED", "EMBRYO"}
    BY <1>2, <1>4, <1>6, <1>8 DEF ParentInv
  <2> QED BY <2>1, <2>2, <2>3 DEF ParentInv
<1>10. PlaceInv'
  BY <1>1, <1>2, <1>3, <1>4, <1>5, <1>6, <1>7 DEF PlaceInv, Alive
<1>11. ForkInv'
  BY <1>2, <1>4, <1>6, <1>8 DEF ForkInv
<1> QED BY <1>9, <1>10, <1>11

-----------------------------------------------------------------------------
(* exit() and wait() *)

\* Whoever sleeps in wait() slept there before, was not killed, and has the same
\* children, none of which has become a zombie.
WaitersKept ==
  \A t \in Slots : state'[t] = "SLEEPING" /\ chan'[t] = t =>
    /\ state[t] = "SLEEPING" /\ chan[t] = t /\ killed'[t] = killed[t]
    /\ \A q \in Slots : parent'[q] = t <=> parent[q] = t
    /\ \A q \in Slots : parent[q] = t /\ state'[q] = "ZOMBIE" => state[q] = "ZOMBIE"

\* Such a step loses no wakeup.
LEMMA WaitersKeep == ASSUME ProcInv, WaitersKept PROVE NoLostExit'
<1>1. NoLostExit
  BY DEF ProcInv
<1> QED BY <1>1 DEF NoLostExit, WaitersKept

\* The steps that only one process takes.
LEMMA WaitersOwn ==
  ASSUME ProcInv, NEW s \in Slots,
         \/ yield(s) \/ device_begin(s) \/ device_sleep(s) \/ device_wake(s) \/ exit_begin(s)
         \/ trap_fault(s) \/ fork_return(s) \/ wait_fail(s)
  PROVE  WaitersKept
<1>1. /\ state \in [Slots -> States] /\ pc \in [Slots -> PCs] /\ parent \in [Slots -> Slots \cup {None}]
      /\ chan \in [Slots -> Slots \cup {None, Device}] /\ killed \in [Slots -> BOOLEAN]
  BY DEF ProcInv, TypeOK
<1>2. CASE yield(s)
  BY <1>1, <1>2 DEF yield, WaitersKept
<1>3. CASE device_begin(s)
  BY <1>1, <1>3 DEF device_begin, At, table, WaitersKept
<1>4. CASE device_sleep(s)
  BY <1>1, <1>4, ProcAssumption DEF device_sleep, At, Device, Slots, WaitersKept
<1>5. CASE device_wake(s)
  BY <1>1, <1>5, ProcAssumption DEF device_wake, At, Device, None, Slots, WaitersKept
<1>6. CASE exit_begin(s)
  BY <1>1, <1>6 DEF exit_begin, At, table, WaitersKept
<1>7. CASE trap_fault(s)
  BY <1>1, <1>7 DEF trap_fault, At, WaitersKept
<1>8. CASE fork_return(s)
  BY <1>1, <1>8 DEF fork_return, At, table, WaitersKept
<1>9. CASE wait_fail(s)
  BY <1>1, <1>9 DEF wait_fail, At, WaitersKept
<1> QED BY <1>2, <1>3, <1>4, <1>5, <1>6, <1>7, <1>8, <1>9

\* The steps of fork(), and wait() freeing a zombie.
LEMMA WaitersFork ==
  ASSUME ProcInv, NEW s \in Slots,
         \/ allocproc(s) \/ fork_publish(s) \/ wait_reap(s)
         \/ \E ok \in BOOLEAN : alloc_kstack(s, ok) \/ fork_copy(s, ok)
  PROVE  WaitersKept
<1>1. /\ state \in [Slots -> States] /\ pc \in [Slots -> PCs] /\ parent \in [Slots -> Slots \cup {None}]
      /\ chan \in [Slots -> Slots \cup {None, Device}] /\ killed \in [Slots -> BOOLEAN]
  BY DEF ProcInv, TypeOK
<1>2. PlaceInv /\ ForkInv /\ None \notin Slots
  BY ProcTypes DEF ProcInv
<1>3. CASE allocproc(s)
  <2>1. /\ \E n \in Slots : state' = [state EXCEPT ![n] = "EMBRYO"]
        /\ UNCHANGED <<parent, chan, killed>>
    BY <1>3 DEF allocproc, First, FreeSlots, InState
  <2> QED BY <1>1, <2>1 DEF WaitersKept
<1>4. CASE fork_publish(s)
  BY <1>1, <1>4 DEF fork_publish, WaitersKept
<1>5. CASE wait_reap(s)
  <2>1. /\ state[s] = "RUNNING" /\ chan' = [chan EXCEPT ![s] = None]
    BY <1>5 DEF wait_reap, At
  <2>2. PICK z \in Slots : /\ parent[z] = s /\ state' = [state EXCEPT ![z] = "UNUSED"]
                           /\ parent' = [parent EXCEPT ![z] = None]
                           /\ killed' = [killed EXCEPT ![z] = FALSE]
    BY <1>5 DEF wait_reap, First, Children, InState, reap_parent
  <2>3. /\ state'[z] = "UNUSED" /\ parent'[z] = None
        /\ \A t \in Slots : t # z => /\ state'[t] = state[t] /\ parent'[t] = parent[t]
                                     /\ killed'[t] = killed[t]
    BY <1>1, <2>2
  <2> QED BY <1>1, <1>2, <2>1, <2>2, <2>3 DEF WaitersKept
<1>6. ASSUME NEW ok \in BOOLEAN, alloc_kstack(s, ok) PROVE WaitersKept
  BY <1>1, <1>6 DEF alloc_kstack, WaitersKept
<1>7. ASSUME NEW ok \in BOOLEAN, fork_copy(s, ok) PROVE WaitersKept
  <2>1. /\ state[s] = "RUNNING" /\ np[s] \in Slots /\ parent[np[s]] = None
        /\ state[np[s]] = "EMBRYO" /\ UNCHANGED <<chan, killed>>
    BY <1>2, <1>7 DEF fork_copy, At, ForkInv, Making
  <2>2. \/ UNCHANGED state /\ parent' = [parent EXCEPT ![np[s]] = s]
        \/ UNCHANGED parent /\ state' = [state EXCEPT ![np[s]] = "UNUSED"]
    BY <1>7 DEF fork_copy, fork_copyfail
  <2> QED BY <1>1, <1>2, <2>1, <2>2 DEF WaitersKept
<1> QED BY <1>3, <1>4, <1>5, <1>6, <1>7

\* The steps that make others RUNNABLE or RUNNING.
LEMMA WaitersStates ==
  ASSUME ProcInv,
         \/ device_wakeup \/ (\E s \in Slots, k \in KillPids : kill(s, k))
         \/ (\E c \in CPUs : scheduler(c) \/ scheduler_pass(c)) \/ UNCHANGED vars
  PROVE  WaitersKept
<1>1. /\ state \in [Slots -> States] /\ pc \in [Slots -> PCs] /\ parent \in [Slots -> Slots \cup {None}]
      /\ chan \in [Slots -> Slots \cup {None, Device}] /\ killed \in [Slots -> BOOLEAN]
  BY DEF ProcInv, TypeOK
<1>2. CASE device_wakeup
  BY <1>1, <1>2 DEF device_wakeup, wakeup1, WaitersKept
<1>3. ASSUME NEW s \in Slots, NEW k \in KillPids, kill(s, k) PROVE WaitersKept
  <2>1. UNCHANGED <<parent, chan>>
    BY <1>3 DEF kill
  <2>2. \/ UNCHANGED <<killed, state>>
        \/ \E q \in Slots :
             /\ killed' = [killed EXCEPT ![q] = TRUE]
             /\ state' = [state EXCEPT ![q] = IF @ = "SLEEPING" THEN "RUNNABLE" ELSE @]
    BY <1>3 DEF kill, First
  <2> QED BY <1>1, <2>1, <2>2 DEF WaitersKept
<1>4. ASSUME NEW c \in CPUs, scheduler(c) PROVE WaitersKept
  <2>1. /\ \E s \in Slots : state' = [state EXCEPT ![s] = "RUNNING"]
        /\ UNCHANGED <<parent, chan, killed>>
    BY <1>4 DEF scheduler, First, InState, take
  <2> QED BY <1>1, <2>1 DEF WaitersKept
<1>5. ASSUME NEW c \in CPUs, scheduler_pass(c) PROVE WaitersKept
  BY <1>5 DEF scheduler_pass, table, WaitersKept
<1>6. CASE UNCHANGED vars
  BY <1>6 DEF vars, WaitersKept
<1> QED BY <1>2, <1>3, <1>4, <1>5, <1>6

\* wait() goes to sleep only when it must, and exit() wakes the parent, and init
\* when it passes a zombie on.
LEMMA WaitExitStep ==
  ASSUME ProcInv, NEW s \in Slots, wait_sleep(s) \/ exit(s)
  PROVE  NoLostExit'
<1>1. /\ state \in [Slots -> States] /\ pc \in [Slots -> PCs] /\ parent \in [Slots -> Slots \cup {None}]
      /\ chan \in [Slots -> Slots \cup {None, Device}] /\ killed \in [Slots -> BOOLEAN]
  BY DEF ProcInv, TypeOK
<1>2. NoLostExit /\ PlaceInv
  BY DEF ProcInv
<1>3. CASE wait_sleep(s)
  <2>1. /\ chan' = [chan EXCEPT ![s] = s] /\ state' = [state EXCEPT ![s] = "SLEEPING"]
        /\ UNCHANGED <<parent, killed>> /\ state[s] = "RUNNING"
    BY <1>3 DEF wait_sleep, At
  <2>2. /\ ~ killed[s] /\ \E q \in Slots : parent[q] = s
        /\ \A q \in Slots : parent[q] = s => state[q] # "ZOMBIE"
    BY <1>3 DEF wait_sleep, MustWait, Children, InState
  <2> QED BY <1>1, <1>2, <2>1, <2>2 DEF NoLostExit
<1>4. CASE exit(s)
  <2>1. /\ state'[s] = "ZOMBIE"
        /\ \A t \in Slots : t # s =>
             state'[t] = state[t] \/ (state[t] = "SLEEPING" /\ state'[t] = "RUNNABLE")
    BY <1>4, ExitStates
  <2>2. /\ parent' = [q \in Slots |-> IF parent[q] = s THEN initproc ELSE parent[q]]
        /\ UNCHANGED <<chan, killed>> /\ state' = [AfterReparent(s) EXCEPT ![s] = "ZOMBIE"]
    BY <1>4 DEF exit
  <2>3. SUFFICES ASSUME NEW t \in Slots, state'[t] = "SLEEPING", chan'[t] = t
                 PROVE  /\ ~ killed'[t] /\ \E q \in Slots : parent'[q] = t
                        /\ \A q \in Slots : parent'[q] = t => state'[q] # "ZOMBIE"
    BY DEF NoLostExit
  <2>4. t # s /\ state[t] = "SLEEPING" /\ chan[t] = t
    BY <2>1, <2>2, <2>3
  <2>5. /\ ~ killed[t] /\ \E q \in Slots : parent[q] = t
        /\ \A q \in Slots : parent[q] = t => state[q] # "ZOMBIE"
    BY <1>2, <2>4 DEF NoLostExit
  <2>6. AfterReparent(s)[t] = "SLEEPING"
    BY <2>2, <2>3, <2>4 DEF AfterReparent, wake_parent, wakeup1
  <2>7. parent[s] # t
    BY <2>4, <2>6 DEF AfterReparent, wake_parent, wakeup1
  <2>8. t = initproc => \A q \in Slots : parent[q] = s => state[q] # "ZOMBIE"
    BY <2>4, <2>6 DEF AfterReparent, wake_parent, wakeup1
  <2>9. ASSUME NEW q \in Slots, parent'[q] = t PROVE state'[q] # "ZOMBIE"
    <3>1. q # s
      BY <1>2, <2>2, <2>7, <2>9 DEF PlaceInv
    <3>2. state[q] # "ZOMBIE"
      BY <2>2, <2>5, <2>8, <2>9
    <3> QED BY <2>1, <3>1, <3>2
  <2> QED BY <2>2, <2>4, <2>5, <2>9
<1> QED BY <1>3, <1>4

-----------------------------------------------------------------------------
(* Types *)

\* Every step of a process keeps the types.
LEMMA ProcessTypes ==
  ASSUME ProcInv, NEW s \in Slots, Kernel(s) \/ wait(s) \/ User(s)
  PROVE  TypeOK'
<1>1. TypeOK /\ ForkInv
  BY DEF ProcInv
<1>2. initproc \in Slots /\ {"user", "kstack", "copyuvm", "publish", "forked", "exiting", "waiting", "device", "sleep"} = PCs
  BY ProcTypes DEF PCs
<1>3. {"UNUSED", "EMBRYO", "SLEEPING", "RUNNABLE", "RUNNING", "ZOMBIE"} = States
  BY DEF States
<1>4. CASE allocproc(s)
  BY <1>1, <1>2, <1>3, <1>4 DEF allocproc, take_pid, Goto, First, FreeSlots, InState, TypeOK
<1>5. CASE fork_publish(s)
  BY <1>1, <1>2, <1>3, <1>5 DEF fork_publish, TypeOK
<1>6. CASE fork_return(s)
  BY <1>1, <1>2, <1>3, <1>6 DEF fork_return, Goto, table, TypeOK
<1>7. CASE exit_begin(s)
  BY <1>1, <1>2, <1>3, <1>7 DEF exit_begin, Goto, table, TypeOK
<1>8. CASE trap_fault(s)
  BY <1>1, <1>2, <1>3, <1>8 DEF trap_fault, Goto, TypeOK
<1>9. CASE wait_reap(s)
  BY <1>1, <1>2, <1>3, <1>9 DEF wait_reap, First, Children, InState, reap_parent, Goto, TypeOK
<1>10. CASE wait_fail(s)
  BY <1>1, <1>2, <1>3, <1>10 DEF wait_fail, Goto, TypeOK
<1>11. CASE wait_sleep(s)
  BY <1>1, <1>2, <1>3, <1>11 DEF wait_sleep, Goto, LeaveCPU, TypeOK
<1>12. CASE device_begin(s)
  BY <1>1, <1>2, <1>3, <1>12 DEF device_begin, Goto, table, TypeOK
<1>13. CASE device_sleep(s)
  BY <1>1, <1>2, <1>3, <1>13 DEF device_sleep, Goto, LeaveCPU, TypeOK
<1>14. CASE device_wake(s)
  BY <1>1, <1>2, <1>3, <1>14 DEF device_wake, Goto, TypeOK
<1>15. CASE yield(s)
  BY <1>1, <1>2, <1>3, <1>15 DEF yield, LeaveCPU, TypeOK
<1>16. ASSUME NEW ok \in BOOLEAN, alloc_kstack(s, ok) PROVE TypeOK'
  BY <1>1, <1>2, <1>3, <1>16 DEF alloc_kstack, Goto, TypeOK
<1>17. ASSUME NEW ok \in BOOLEAN, fork_copy(s, ok) PROVE TypeOK'
  <2>1. np[s] \in Slots
    BY <1>1, <1>17 DEF fork_copy, At, ForkInv, Making
  <2>2. CASE ok = TRUE
    <3>1. pid[np[s]] \in Nat
      BY <1>1, <2>1 DEF TypeOK
    <3> QED BY <1>1, <1>2, <1>17, <2>1, <2>2, <3>1 DEF fork_copy, Goto, TypeOK
  <2>3. CASE ok = FALSE
    BY <1>1, <1>2, <1>3, <1>17, <2>3 DEF fork_copy, fork_copyfail, Goto, TypeOK
  <2> QED BY <2>2, <2>3
<1>18. CASE exit(s)
  <2>1. AfterReparent(s) \in [Slots -> States]
    BY <1>1, <1>3 DEF AfterReparent, wake_parent, wakeup1, TypeOK
  <2> QED BY <1>1, <1>2, <1>3, <1>18, <2>1 DEF exit, LeaveCPU, TypeOK
<1>19. ASSUME NEW k \in KillPids, kill(s, k) PROVE TypeOK'
  BY <1>1, <1>3, <1>19 DEF kill, First, TypeOK
<1> QED BY Zenon, <1>4, <1>5, <1>6, <1>7, <1>8, <1>9, <1>10, <1>11, <1>12, <1>13, <1>14, <1>15, <1>16, <1>17, <1>18, <1>19 DEF Kernel, wait, User

\* Every step keeps the types.
LEMMA TypeStep ==
  ASSUME ProcInv, [Next]_vars PROVE TypeOK'
<1>1. TypeOK
  BY DEF ProcInv
<1>2. CASE device_wakeup
  BY <1>1, <1>2 DEF device_wakeup, wakeup1, TypeOK, States
<1>3. ASSUME NEW c \in CPUs, scheduler(c) PROVE TypeOK'
  <2>1. PICK t \in Slots : /\ state' = [state EXCEPT ![t] = "RUNNING"] /\ cpu' = [cpu EXCEPT ![c] = t]
                           /\ scan' = [scan EXCEPT ![c] = t + 1]
    BY <1>3 DEF scheduler, First, InState, take, NextScan
  <2>2. t + 1 \in 1 .. NPROC + 1 /\ "RUNNING" \in States
    BY ProcAssumption DEF Slots, States
  <2> QED BY <1>1, <1>3, <2>1, <2>2 DEF scheduler, TypeOK
<1>4. ASSUME NEW c \in CPUs, scheduler_pass(c) PROVE TypeOK'
  <2>1. 1 \in 1 .. NPROC + 1
    BY ProcAssumption
  <2> QED BY <1>1, <1>4, <2>1 DEF scheduler_pass, table, TypeOK
<1>5. CASE UNCHANGED vars
  BY <1>1, <1>5 DEF vars, TypeOK
<1> QED BY ProcessTypes, <1>2, <1>3, <1>4, <1>5 DEF Next

-----------------------------------------------------------------------------
(* The theorems *)

\* The first state satisfies the invariant.
LEMMA InvariantInit == Init => ProcInv
<1>1. /\ initproc \in Slots /\ None \notin Slots /\ None = 0
      /\ 0 \in Nat /\ 1 \in Nat /\ 2 \in Nat /\ 1 \in 1 .. NPROC + 1
  BY ProcAssumption DEF initproc, Slots, None
<1>2. SUFFICES ASSUME Init PROVE ProcInv
  OBVIOUS
<1>3. TypeOK
  BY <1>1, <1>2 DEF Init, TypeOK, States, PCs
<1>4. ParentInv
  BY <1>1, <1>2 DEF Init, ParentInv, Alive
<1>5. PlaceInv
  BY <1>1, <1>2 DEF Init, PlaceInv, Alive
<1>6. ForkInv
  BY <1>1, <1>2 DEF Init, ForkInv, Making
<1>7. NoLostExit
  BY <1>1, <1>2 DEF Init, NoLostExit
<1> QED BY <1>3, <1>4, <1>5, <1>6, <1>7 DEF ProcInv

\* Every step keeps the family of processes and every wakeup.
LEMMA FamilyStep ==
  ASSUME ProcInv, [Next]_vars PROVE ParentInv' /\ PlaceInv' /\ ForkInv' /\ NoLostExit'
<1>1. ASSUME NEW s \in Slots, Kernel(s)
      PROVE  ParentInv' /\ PlaceInv' /\ ForkInv' /\ NoLostExit'
  <2>1. ASSUME NEW ok \in BOOLEAN, alloc_kstack(s, ok)
        PROVE  ParentInv' /\ PlaceInv' /\ ForkInv' /\ NoLostExit'
    BY <2>1, KstackStep, WaitersFork, WaitersKeep
  <2>2. ASSUME NEW ok \in BOOLEAN, fork_copy(s, ok)
        PROVE  ParentInv' /\ PlaceInv' /\ ForkInv' /\ NoLostExit'
    BY <2>2, CopyStep, WaitersFork, WaitersKeep
  <2>3. CASE fork_publish(s)
    BY <2>3, PublishStep, WaitersFork, WaitersKeep
  <2>4. CASE exit(s)
    BY <2>4, ExitStep, WaitExitStep
  <2>5. CASE fork_return(s) \/ device_sleep(s) \/ device_wake(s)
    BY <2>5, QuietStep, QuietKeeps, WaitersOwn, WaitersKeep
  <2> QED BY <1>1, <2>1, <2>2, <2>3, <2>4, <2>5 DEF Kernel
<1>2. ASSUME NEW s \in Slots, wait(s)
      PROVE  ParentInv' /\ PlaceInv' /\ ForkInv' /\ NoLostExit'
  <2>1. CASE wait_reap(s)
    BY <2>1, ReapStep, WaitersFork, WaitersKeep
  <2>2. CASE wait_fail(s)
    BY <2>2, QuietStep, QuietKeeps, WaitersOwn, WaitersKeep
  <2>3. CASE wait_sleep(s)
    BY <2>3, QuietStep, QuietKeeps, WaitExitStep
  <2> QED BY <1>2, <2>1, <2>2, <2>3 DEF wait
<1>3. ASSUME NEW s \in Slots, User(s)
      PROVE  ParentInv' /\ PlaceInv' /\ ForkInv' /\ NoLostExit'
  <2>1. CASE allocproc(s)
    BY <2>1, AllocStep, WaitersFork, WaitersKeep
  <2>2. CASE exit_begin(s) \/ trap_fault(s) \/ device_begin(s) \/ yield(s)
    BY <2>2, QuietStep, QuietKeeps, WaitersOwn, WaitersKeep
  <2>3. CASE \E k \in KillPids : kill(s, k)
    BY <2>3, QuietStates, QuietKeeps, WaitersStates, WaitersKeep
  <2> QED BY <1>3, <2>1, <2>2, <2>3 DEF User
<1>4. CASE (\E c \in CPUs : scheduler(c) \/ scheduler_pass(c)) \/ device_wakeup \/ UNCHANGED vars
  BY <1>4, QuietStates, QuietKeeps, WaitersStates, WaitersKeep
<1> QED BY <1>1, <1>2, <1>3, <1>4 DEF Next

\* ProcInv, the inductive invariant of the process table, holds for ever.  Like
\* the two theorems below it rests on ProcAssumption: nobody passes the pid of
\* init to kill().
THEOREM ProcInvariantHolds == Spec => []ProcInv
<1>1. ProcInv /\ [Next]_vars => ProcInv'
  BY TypeStep, FamilyStep DEF ProcInv
<1> QED BY <1>1, InvariantInit, PTL DEF Spec

\* No parent pointer dangles: every child has a living parent, every process but
\* init has one, and the child fork() reports has not been reaped, as long as
\* nobody kills init (proc.c).
THEOREM ProcParentsAlive == Spec => []ParentsAlive
<1>1. ProcInv => ParentsAlive
  BY DEF ProcInv, ParentInv, ParentsAlive
<1> QED BY <1>1, ProcInvariantHolds, PTL

\* No wakeup is lost between exit() and wait(), kill() of any process but init
\* included (proc.c).
THEOREM ProcNoLostExit == Spec => []NoLostExit
<1>1. ProcInv => NoLostExit
  BY DEF ProcInv
<1> QED BY <1>1, ProcInvariantHolds, PTL
=============================================================================
