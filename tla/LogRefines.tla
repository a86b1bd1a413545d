----------------------------- MODULE LogRefines -----------------------------
(***************************************************************************)
(* What commit() and recovery do to the buffers and the log blocks, and    *)
(* why the steps of Log are steps of AtomicDisk and obey the write-ahead   *)
(* rule (the theorems are in LogProofs).                                   *)
(***************************************************************************)
EXTENDS LogInv, TLAPS

\* Most leaves are left to the default provers; a leaf that takes longer
\* names the prover that finds it and gives it a minute.

\* The pinned buffers, the clean buffers and the log blocks: the steps of
\* commit() and of recovery.
LEMMA DataCommit ==
  ASSUME LogInvariant, SpaceContract, TypeOK',
         \E p \in Procs : (commit(p) /\ ~ end_commit(p)) \/ recover_from_log(p)
  PROVE  DataInv'
<1> USE DEF PCs, OpPCs, CommitPCs, RecoverPCs, disk
<1> /\ TypeOK /\ TypeOK' /\ ControlInv /\ LockInv /\ HeaderInv /\ DataInv
  BY DEF LogInvariant
<1>t. pc \in [Procs -> PCs] /\ tail \in Nat /\ lh \in Seq(Blocks) /\ head \in Seq(Blocks)
  BY DEF TypeOK
<1>u. /\ home \in [Blocks -> Data] /\ logblk \in [1 .. NLOG - 1 -> Data]
      /\ cache \in [Blocks -> Data \cup {NoData}] /\ dirty \in SUBSET Blocks
      /\ held \in [Procs -> SUBSET Blocks]
  BY DEF TypeOK
<1>1. ASSUME NEW p \in Procs, write_log(p) PROVE DataInv'
  <2> DEFINE b == lh[tail + 1]
  <2>1. /\ pc[p] = "write_log" /\ ~ Held(b)
        /\ logblk' = [logblk EXCEPT ![tail + 1] = Contents(b)]
        /\ cache' = [cache EXCEPT ![b] = Contents(b)]
        /\ UNCHANGED <<home, lh, dirty, held>>
    BY <1>1 DEF write_log
  <2>2. /\ tail + 1 \in DOMAIN lh /\ tail + 1 \in DOMAIN logblk /\ b \in Blocks
        /\ \A i \in DOMAIN lh : i \in DOMAIN logblk /\ i \in Nat /\ lh[i] \in Blocks
    BY <2>1, <1>t, <1>u, LogAssumption, SMTT(60) DEF HeaderInv, SpaceContract
  <2> HIDE DEF b
  <2>3. \A c \in Blocks : Contents(c)' = Contents(c)
    BY <2>1, <2>2, <1>t, <1>u, LogAssumption DEF Contents
  <2>4. \A i \in DOMAIN lh : i <= tail + 1 => logblk'[i] = Contents(lh[i])
    <3>1. ASSUME NEW i \in DOMAIN lh, i <= tail PROVE logblk'[i] = Contents(lh[i])
      <4>1. logblk'[i] = logblk[i]
        BY <2>1, <2>2, <3>1, <1>t, <1>u
      <4> QED BY <2>1, <3>1, <4>1 DEF DataInv
    <3>2. logblk'[tail + 1] = Contents(lh[tail + 1])
      BY <2>1, <2>2, <1>t, <1>u DEF b
    <3> QED BY <3>1, <3>2, <2>2, <1>t, <1>u
  <2>5. \A i \in DOMAIN lh : i <= tail + 1 => logblk'[i] = Contents(lh[i])'
    BY <2>1, <2>2, <2>3, <2>4
  <2>6. /\ \A q \in Procs : q # p => pc'[q] = pc[q] /\ pc[q] \notin CommitPCs \cup RecoverPCs
        /\ \/ pc'[p] = "write_log" /\ tail' = tail + 1
           \/ pc'[p] = "write_head" /\ tail + 1 = Len(lh)
    BY <1>1, <2>1, <1>t, SMTT(60) DEF write_log, NextTail, Goto, ControlInv, HeaderInv
  <2>7. \A i \in DOMAIN lh : pc'[p] = "write_head" => i <= tail + 1
    BY <2>6, <1>t
  <2>8. NoLostUpdate'
    BY <2>1, <2>3, <2>6 DEF DataInv, NoLostUpdate, Modifying
  <2>9. \A c \in Blocks : c \in dirty' \/ Held(c)' => cache'[c] # NoData
    BY <2>1, <2>2, <1>t, <1>u, LogAssumption DEF DataInv, Held, Contents
  <2>10. Range(lh') \subseteq dirty' /\ \A c \in Blocks : c \in dirty' => c \in Range(lh')
    BY <2>1, <2>6 DEF DataInv
  <2>11. \A q \in Procs :
           pc'[q] # "install" /\ pc'[q] \notin {"install", "clear", "committed"} \cup RecoverPCs
    BY <2>6
  <2> QED BY <2>1, <2>5, <2>6, <2>7, <2>8, <2>9, <2>10, <2>11 DEF DataInv
<1>2. ASSUME NEW p \in Procs, write_head(p) PROVE DataInv'
  <2>1. /\ pc[p] = "write_head" /\ pc' = [pc EXCEPT ![p] = "install"]
        /\ UNCHANGED <<home, logblk, lh, cache, dirty, held, tail>>
    BY <1>2 DEF write_head, Goto
  <2>2. tail = 0
    BY <2>1 DEF HeaderInv, ControlInv
  <2>3. /\ \A q \in Procs : q # p => pc'[q] = pc[q] /\ pc[q] \notin CommitPCs \cup RecoverPCs
        /\ pc'[p] = "install"
    BY <2>1, <1>t DEF ControlInv
  <2>4. \A i \in DOMAIN lh : lh[i] \in dirty /\ i > 0
    BY <2>1, <2>3, <1>t, <1>u DEF DataInv, Range
  <2>5. \A c \in Blocks : Contents(c)' = Contents(c) /\ (Held(c)' <=> Held(c))
    BY <2>1 DEF Contents, Held
  <2>6. NoLostUpdate'
    BY <2>1, <2>3, <2>5 DEF DataInv, NoLostUpdate
  <2>7. \A i \in DOMAIN lh : lh[i] \in Blocks
    BY <1>t, <1>u
  <2>8. \A i \in DOMAIN lh' : logblk'[i] = Contents(lh[i])'
    BY <2>1, <2>5, <2>7 DEF DataInv
  <2> QED BY <2>1, <2>2, <2>3, <2>4, <2>5, <2>6, <2>8 DEF DataInv
<1>3. ASSUME NEW p \in Procs, install_trans(p, "install", "clear") PROVE DataInv'
  <2> DEFINE b == lh[tail + 1]
  <2>1. /\ pc[p] = "install" /\ ~ Held(b)
        /\ home' = [home EXCEPT ![b] = logblk[tail + 1]]
        /\ cache' = [cache EXCEPT ![b] = logblk[tail + 1]]
        /\ dirty' = dirty \ {b}
        /\ UNCHANGED <<logblk, lh, held>>
    BY <1>3 DEF install_trans
  <2>2. /\ tail + 1 \in DOMAIN lh /\ tail \in Nat /\ b \in Blocks /\ logblk[tail + 1] \in Data
        /\ \A i \in DOMAIN lh : i \in Nat /\ lh[i] \in Blocks
    BY <2>1, <1>t, <1>u, LogAssumption DEF HeaderInv, SpaceContract
  <2>3. logblk[tail + 1] = Contents(b)
    BY <2>1, <2>2 DEF DataInv
  <2>4. \A c \in Blocks : Contents(c)' = Contents(c)
    BY <2>1, <2>2, <2>3, <1>t, <1>u, LogAssumption, SMTT(60) DEF Contents
  <2>5. /\ \A q \in Procs : q # p => pc'[q] = pc[q] /\ pc[q] \notin CommitPCs \cup RecoverPCs
        /\ \/ pc'[p] = "install" /\ tail' = tail + 1
           \/ pc'[p] = "clear" /\ tail + 1 = Len(lh)
    BY <1>3, <2>1, <1>t, SMTT(60) DEF install_trans, NextTail, Goto, ControlInv, HeaderInv
  <2>6. \A i \in DOMAIN lh : lh[i] \in dirty' <=> i > tail + 1
    BY <2>1, <2>2, SMTT(60) DEF DataInv, HeaderInv
  <2>7. pc'[p] = "clear" => dirty' = {}
    <3>1. \A i \in DOMAIN lh : pc'[p] = "clear" => i <= tail + 1
      BY <2>5, <1>t
    <3> QED BY <3>1, <2>1, <2>2, <2>6, <1>t, <1>u, SMTT(60) DEF DataInv, Range
  <2>8. NoLostUpdate'
    <3>1. Contents(lh[tail + 1]) = home'[lh[tail + 1]]
      BY <2>1, <2>2, <2>3, <1>t, <1>u
    <3>2. ASSUME NEW c \in Blocks, c # b PROVE home'[c] = home[c] /\ (c \in dirty' <=> c \in dirty)
      BY <2>1, <2>2, <3>2, <1>t, <1>u
    <3>3. ASSUME NEW c \in Blocks, Contents(c)' # home'[c]
          PROVE  \/ c \in dirty'
                 \/ \E q \in Procs : c \in held'[q] /\ pc'[q] \in {"modified", "checked"}
      <4>1. c # b /\ Contents(c) # home[c]
        BY <3>1, <3>2, <3>3, <2>4
      <4>2. c \in dirty \/ \E q \in Procs : c \in held[q] /\ pc[q] \in {"modified", "checked"}
        BY <4>1, SMTT(60) DEF DataInv, NoLostUpdate
      <4> QED BY <4>1, <4>2, <3>2, <2>1, <2>5
    <3> QED BY <3>3 DEF NoLostUpdate
  <2>9. \A c \in Blocks : c \in dirty' \/ Held(c)' => cache'[c] # NoData
    BY <2>1, <2>2, <1>t, <1>u, LogAssumption, SMTT(60) DEF DataInv, Held
  <2>10. \A c \in Blocks : c \in dirty' => c \in Range(lh')
    BY <2>1 DEF DataInv
  <2>11. \A i \in DOMAIN lh' : logblk'[i] = Contents(lh[i])'
    BY <2>1, <2>2, <2>4 DEF DataInv
  <2> QED BY <2>1, <2>5, <2>6, <2>7, <2>8, <2>9, <2>10, <2>11 DEF DataInv
<1>4. ASSUME NEW p \in Procs, commit_clear(p) PROVE DataInv'
  <2>1. /\ pc[p] = "clear" /\ pc' = [pc EXCEPT ![p] = "committed"] /\ lh' = <<>>
        /\ UNCHANGED <<home, logblk, cache, dirty, held, tail>>
    BY <1>4 DEF commit_clear, clear_head, Goto
  <2>2. \A q \in Procs : q # p => pc'[q] = pc[q] /\ pc[q] \notin CommitPCs \cup RecoverPCs
    BY <2>1, <1>t DEF ControlInv
  <2>3. dirty' = {} /\ Range(lh') = {} /\ pc'[p] = "committed"
    BY <2>1, <1>t, <1>u, SMTT(60) DEF DataInv, Range
  <2>4. \A c \in Blocks : Contents(c)' = Contents(c) /\ (Held(c)' <=> Held(c))
    BY <2>1 DEF Contents, Held
  <2>5. NoLostUpdate'
    BY <2>1, <2>2, <2>4, SMTT(60) DEF DataInv, NoLostUpdate
  <2> QED BY <2>1, <2>2, <2>3, <2>4, <2>5 DEF DataInv
<1>5. ASSUME NEW p \in Procs, read_head(p) PROVE DataInv'
  <2>1. /\ pc[p] = "read_head" /\ lh' = head
        /\ pc' = [pc EXCEPT ![p] = IF head = <<>> THEN "recovered" ELSE "recover"]
        /\ UNCHANGED <<home, logblk, cache, dirty, held, tail>>
    BY <1>5 DEF read_head, Goto
  <2>2. /\ \A q \in Procs : q # p => pc'[q] = "down" /\ pc[q] = "down"
        /\ pc'[p] = IF head = <<>> THEN "recovered" ELSE "recover"
    BY <2>1, <1>t DEF ControlInv
  <2>3. dirty' = {} /\ tail = 0
    BY <2>1, <2>2 DEF DataInv, HeaderInv
  <2>4. \A c \in Blocks : Contents(c)' = Contents(c) /\ (Held(c)' <=> Held(c))
    BY <2>1 DEF Contents, Held
  <2>5. NoLostUpdate'
    BY <2>1, <2>2, <2>4 DEF DataInv, NoLostUpdate
  <2>6. \A i \in DOMAIN lh' : i > tail /\ lh' # <<>>
    BY <2>1, <2>3, <1>t, <1>u, SMTT(60)
  <2> QED BY <2>1, <2>2, <2>3, <2>4, <2>5, <2>6, <1>t, <1>u, SMTT(60) DEF DataInv
<1>6. ASSUME NEW p \in Procs, install_trans(p, "recover", "recovered") PROVE DataInv'
  <2> DEFINE b == lh[tail + 1]
  <2>1. /\ pc[p] = "recover" /\ ~ Held(b)
        /\ home' = [home EXCEPT ![b] = logblk[tail + 1]]
        /\ cache' = [cache EXCEPT ![b] = logblk[tail + 1]]
        /\ dirty' = dirty \ {b}
        /\ UNCHANGED <<logblk, lh, held>>
    BY <1>6 DEF install_trans
  <2>2. /\ tail + 1 \in DOMAIN lh /\ tail \in Nat /\ b \in Blocks /\ logblk[tail + 1] \in Data
        /\ \A i \in DOMAIN lh : i \in Nat /\ lh[i] \in Blocks
    BY <2>1, <1>t, <1>u, LogAssumption, SMTT(60) DEF HeaderInv, SpaceContract
  <2>3. /\ \A q \in Procs : q # p => pc'[q] = "down" /\ pc[q] = "down"
        /\ \/ pc'[p] = "recover" /\ tail' = tail + 1
           \/ pc'[p] = "recovered" /\ tail + 1 = Len(lh)
    BY <1>6, <2>1, <1>t, SMTT(60) DEF install_trans, NextTail, Goto, ControlInv, HeaderInv
  <2>4. dirty = {} /\ dirty' = {}
    BY <2>1, SMTT(60) DEF DataInv
  <2>5. \A c \in Blocks : Contents(c) = home[c]
    BY <2>1, <2>3, <2>4 DEF DataInv, NoLostUpdate
  <2>6. /\ \A c \in Blocks : Contents(c)' = home'[c]
        /\ \A c \in Blocks : Contents(c)' = IF c = b THEN logblk[tail + 1] ELSE Contents(c)
    BY <2>1, <2>2, <2>5, <1>t, <1>u, LogAssumption DEF Contents
  <2>7. NoLostUpdate'
    BY <2>6 DEF NoLostUpdate
  <2>8. \A i \in DOMAIN lh : i <= tail + 1 => logblk'[i] = Contents(lh[i])'
    <3>1. ASSUME NEW i \in DOMAIN lh, i <= tail + 1 PROVE logblk'[i] = Contents(lh[i])'
      <4>1. CASE i = tail + 1
        BY <4>1, <2>1, <2>2, <2>6
      <4>2. CASE i # tail + 1
        <5>1. i <= tail /\ lh[i] # b
          BY <4>2, <3>1, <2>2 DEF HeaderInv
        <5> QED BY <5>1, <2>1, <2>2, <2>6, SMTT(60) DEF DataInv
      <4> QED BY <4>1, <4>2
    <3> QED BY <3>1
  <2>9. \A i \in DOMAIN lh : pc'[p] = "recovered" => i <= tail + 1
    BY <2>3, <1>t
  <2>10. \A c \in Blocks : ~ Held(c)'
    BY <2>1, <2>3, <1>t, <1>u, SMTT(60) DEF Held, LockInv, Holding
  <2> QED BY <2>1, <2>3, <2>4, <2>7, <2>8, <2>9, <2>10 DEF DataInv
<1>7. ASSUME NEW p \in Procs, recover_clear(p) PROVE DataInv'
  <2>1. /\ pc[p] = "recovered" /\ pc' = [q \in Procs |-> "idle"] /\ lh' = <<>>
        /\ UNCHANGED <<home, logblk, cache, dirty, held, tail>>
    BY <1>7 DEF recover_clear, clear_head
  <2>2. \A q \in Procs : q # p => pc[q] = "down"
    BY <2>1 DEF ControlInv
  <2>3. dirty' = {} /\ Range(lh') = {}
    BY <2>1, SMTT(60) DEF DataInv, Range
  <2>4. \A c \in Blocks : Contents(c)' = Contents(c) /\ (Held(c)' <=> Held(c))
    BY <2>1, SMTT(60) DEF Contents, Held
  <2>5. NoLostUpdate'
    BY <2>1, <2>2, <2>4 DEF DataInv, NoLostUpdate
  <2> QED BY <2>1, <2>3, <2>4, <2>5 DEF DataInv
<1> QED
  BY <1>1, <1>2, <1>3, <1>4, <1>5, <1>6, <1>7 DEF commit, recover_from_log

\* What recovery would make of each block.
LEMMA DurableValue ==
  ASSUME SpaceContract
  PROVE  TypeOK /\ HeaderInv =>
           /\ Durable \in [Blocks -> Data]
           /\ \A i \in DOMAIN head : Durable[head[i]] = logblk[i]
           /\ \A b \in Blocks : b \notin Range(head) => Durable[b] = home[b]
<1> SUFFICES ASSUME TypeOK, HeaderInv
             PROVE  /\ Durable \in [Blocks -> Data]
                    /\ \A i \in DOMAIN head : Durable[head[i]] = logblk[i]
                    /\ \A b \in Blocks : b \notin Range(head) => Durable[b] = home[b]
  OBVIOUS
<1>1. ASSUME NEW b \in Blocks, NEW i \in DOMAIN head, head[i] = b
      PROVE  Durable[b] = logblk[i]
  <2> DEFINE j == CHOOSE j \in DOMAIN head : head[j] = b
  <2>1. j \in DOMAIN head /\ head[j] = b
    BY <1>1
  <2>2. j = i
    BY <2>1, <1>1 DEF HeaderInv
  <2>3. Durable[b] = logblk[j]
    BY <1>1 DEF Durable
  <2> QED BY <2>2, <2>3, ZenonT(60)
<1>2. ASSUME NEW b \in Blocks, b \notin Range(head) PROVE Durable[b] = home[b]
  BY <1>2 DEF Durable, Range
<1>3. \A i \in DOMAIN head : head[i] \in Blocks
  BY DEF TypeOK
<1>4. \A b \in Blocks : Durable[b] \in Data
  <2> TAKE b \in Blocks
  <2>1. CASE b \in Range(head)
    <3>1. PICK i \in DOMAIN head : head[i] = b
      BY <2>1 DEF Range
    <3>2. i \in 1 .. NLOG - 1
      BY <3>1, LogAssumption DEF TypeOK, HeaderInv, SpaceContract
    <3> QED BY <3>1, <3>2, <1>1 DEF TypeOK
  <2>2. CASE b \notin Range(head)
    BY <2>2, <1>2 DEF TypeOK
  <2> QED BY <2>1, <2>2
<1>5. Durable = [b \in Blocks |-> Durable[b]]
  BY DEF Durable
<1> QED BY <1>1, <1>2, <1>3, <1>4, <1>5

\* A step that leaves the disk alone leaves what recovery would find alone.
LEMMA DiskSame ==
  ASSUME UNCHANGED disk
  PROVE  Durable' = Durable
BY DEF disk, Durable

\* The contents system calls see, and whether the machine is recovering.
LEMMA CurrentUp ==
  ASSUME ~ Recovering, ~ Recovering', \A b \in Blocks : Contents(b)' = Contents(b)
  PROVE  Current' = Current
BY DEF Current

\* A step outside the transactions' begin, end and modify steps: the abstract
\* disk does not move.
LEMMA Stutter ==
  ASSUME Durable' = Durable, Current' = Current, Active' = Active
  PROVE  [AD!ANext]_(AD!avars)
BY DEF AD!avars

\* Installing a block that the header names does not change what recovery would
\* find.
LEMMA InstallKeepsDurable ==
  ASSUME TypeOK, TypeOK', NEW i \in DOMAIN head, head' = head, logblk' = logblk,
         home' = [home EXCEPT ![head[i]] = logblk[i]],
         Durable \in [Blocks -> Data], Durable' \in [Blocks -> Data],
         \A j \in DOMAIN head : Durable[head[j]] = logblk[j],
         \A b \in Blocks : b \notin Range(head) => Durable[b] = home[b],
         \A j \in DOMAIN head' : Durable'[head'[j]] = logblk'[j],
         \A b \in Blocks : b \notin Range(head') => Durable'[b] = home'[b]
  PROVE  Durable' = Durable
<1>1. ASSUME NEW b \in Blocks PROVE Durable'[b] = Durable[b]
  <2>1. CASE b \in Range(head)
    <3>1. PICK j \in DOMAIN head : head[j] = b
      BY <2>1 DEF Range
    <3> QED BY <3>1
  <2>2. CASE b \notin Range(head)
    <3>1. b # head[i]
      BY <2>2 DEF Range
    <3> QED BY <2>2, <3>1 DEF TypeOK
  <2> QED BY <2>1, <2>2
<1> QED BY <1>1

\* Clearing the header after every block was installed does not either.
LEMMA ClearKeepsDurable ==
  ASSUME head' = <<>>, home' = home,
         \A i \in DOMAIN head : head[i] \in Blocks /\ logblk[i] = home[head[i]],
         Durable \in [Blocks -> Data], Durable' \in [Blocks -> Data],
         \A j \in DOMAIN head : Durable[head[j]] = logblk[j],
         \A b \in Blocks : b \notin Range(head) => Durable[b] = home[b],
         \A b \in Blocks : b \notin Range(head') => Durable'[b] = home'[b]
  PROVE  Durable' = Durable
<1>1. ASSUME NEW b \in Blocks PROVE Durable[b] = home[b]
  BY DEF Range
<1>2. \A b \in Blocks : Durable'[b] = home[b]
  BY DEF Range
<1> QED BY <1>1, <1>2

\* Every step of the log is a step of the atomic disk, or changes nothing that
\* the atomic disk shows.
LEMMA RefinementStep ==
  ASSUME LogInvariant, SpaceContract, OpsCounted, LogInvariant', [Next]_vars
  PROVE  [AD!ANext]_(AD!avars)
<1> USE DEF PCs, OpPCs, CommitPCs, RecoverPCs
<1> TypeOK /\ ControlInv /\ LockInv /\ HeaderInv /\ DataInv
  BY DEF LogInvariant
<1>p. TypeOK' /\ HeaderInv'
  BY DEF LogInvariant
<1>t. pc \in [Procs -> PCs] /\ tail \in Nat /\ lh \in Seq(Blocks) /\ head \in Seq(Blocks)
  BY DEF TypeOK
<1>u. /\ home \in [Blocks -> Data] /\ logblk \in [1 .. NLOG - 1 -> Data]
      /\ cache \in [Blocks -> Data \cup {NoData}] /\ dirty \in SUBSET Blocks
      /\ held \in [Procs -> SUBSET Blocks]
  BY DEF TypeOK
<1>a. \A p \in Procs : pc[p] \in OpPCs \cup CommitPCs \cup {"idle", "woken"} => ~ Recovering
  BY DEF ControlInv, Recovering
<1>b. \A p \in Procs : pc[p] \in OpPCs => \A q \in Procs : pc[q] \notin CommitPCs
  BY DEF OpsCounted, ControlInv
<1>c. /\ Durable \in [Blocks -> Data]
      /\ \A i \in DOMAIN head : Durable[head[i]] = logblk[i]
      /\ \A b \in Blocks : b \notin Range(head) => Durable[b] = home[b]
  BY DurableValue
<1>d. /\ Durable' \in [Blocks -> Data]
      /\ \A i \in DOMAIN head' : Durable'[head'[i]] = logblk'[i]
      /\ \A b \in Blocks : b \notin Range(head') => Durable'[b] = home'[b]
  <2>1. (/\ Durable \in [Blocks -> Data]
         /\ \A i \in DOMAIN head : Durable[head[i]] = logblk[i]
         /\ \A b \in Blocks : b \notin Range(head) => Durable[b] = home[b])'
    BY <1>p, DurableValue, PTL
  <2> QED BY <2>1
<1>1. ASSUME NEW p \in Procs, begin_op(p) PROVE [AD!ANext]_(AD!avars)
  <2>1. UNCHANGED <<disk, cache>> /\ pc[p] \in {"idle", "woken"}
    BY <1>1 DEF begin_op
  <2>2. \/ pc' = [pc EXCEPT ![p] = "sleeping"]
        \/ pc' = [pc EXCEPT ![p] = "op"]
    BY <1>1 DEF begin_op, enter_op, Goto
  <2>3. ~ Recovering /\ ~ Recovering'
    BY <2>1, <2>2, <1>a, <1>t DEF Recovering
  <2>4. Durable' = Durable /\ Current' = Current
    BY <2>1, <2>3, DiskSame, CurrentUp DEF Contents, disk
  <2>5. CASE pc' = [pc EXCEPT ![p] = "sleeping"]
    <3>1. Active' = Active
      BY <2>1, <2>5, <1>t DEF Active
    <3> QED BY <2>4, <3>1, Stutter
  <2>6. CASE pc' = [pc EXCEPT ![p] = "op"]
    <3>1. p \notin Active /\ Active' = Active \cup {p}
      BY <2>1, <2>6, <1>t DEF Active
    <3>2. AD!ABegin(p)
      BY <2>4, <3>1 DEF AD!ABegin
    <3> QED BY <3>2 DEF AD!ANext
  <2> QED BY <2>2, <2>5, <2>6
<1>2. ASSUME NEW p \in Procs, end_op(p) PROVE [AD!ANext]_(AD!avars)
  <2>1. UNCHANGED <<disk, cache>> /\ pc[p] = "op"
    BY <1>2 DEF end_op
  <2>2. /\ pc'[p] \in {"idle", "committed", "write_log"}
        /\ \A q \in Procs : q # p => pc'[q] = pc[q] \/ (pc[q] = "sleeping" /\ pc'[q] = "woken")
    BY <1>2, <1>t, <1>u DEF end_op, Goto, GotoAndWakeup
  <2>3. ~ Recovering /\ ~ Recovering'
    BY <2>1, <2>2, <1>a, <1>t, ZenonT(60) DEF Recovering
  <2>4. Durable' = Durable /\ Current' = Current
    BY <2>1, <2>3, DiskSame, CurrentUp DEF Contents, disk
  <2>5. p \in Active /\ Active' = Active \ {p}
    BY <2>1, <2>2, <1>t DEF Active
  <2>6. AD!AEnd(p)
    BY <2>4, <2>5 DEF AD!AEnd
  <2> QED BY <2>6 DEF AD!ANext
<1>3. ASSUME NEW p \in Procs, brelse(p) PROVE [AD!ANext]_(AD!avars)
  <2>1. UNCHANGED <<disk, cache>> /\ Active' = Active
    BY <1>3, <1>t DEF brelse, Goto, Active
  <2>2. Recovering' = Recovering
    BY <1>3, <1>t DEF brelse, Goto, Recovering
  <2> QED BY <2>1, <2>2, DiskSame, Stutter DEF Current, Contents, disk
<1>4. ASSUME NEW p \in Procs, log_write_check(p) PROVE [AD!ANext]_(AD!avars)
  <2>1. UNCHANGED <<disk, cache>> /\ Active' = Active
    BY <1>4, <1>t DEF log_write_check, Goto, Active
  <2>2. Recovering' = Recovering
    BY <1>4, <1>t DEF log_write_check, Goto, Recovering
  <2> QED BY <2>1, <2>2, DiskSame, Stutter DEF Current, Contents, disk
<1>5. ASSUME NEW p \in Procs, NEW b \in Blocks, bread(p, b) PROVE [AD!ANext]_(AD!avars)
  <2>1. UNCHANGED disk /\ Active' = Active
    BY <1>5, <1>t DEF bread, Goto, Active
  <2>2. ~ Recovering /\ ~ Recovering'
    BY <1>5, <1>a, <1>t DEF bread, Goto, Recovering
  <2>3. \A c \in Blocks : Contents(c)' = Contents(c)
    BY <1>5, <1>t, <1>u, LogAssumption DEF bread, Contents, disk
  <2> QED BY <2>1, <2>2, <2>3, DiskSame, CurrentUp, Stutter
<1>6. ASSUME NEW p \in Procs, NEW b \in Blocks, log_write(p, b) PROVE [AD!ANext]_(AD!avars)
  <2>1. UNCHANGED <<disk, cache>> /\ Active' = Active
    BY <1>6, <1>t DEF log_write, Goto, Active
  <2>2. Recovering' = Recovering
    BY <1>6, <1>t DEF log_write, Goto, Recovering
  <2> QED BY <2>1, <2>2, DiskSame, Stutter DEF Current, Contents, disk
<1>7. ASSUME NEW p \in Procs, NEW b \in Blocks, NEW v \in Data, modify(p, b, v)
      PROVE [AD!ANext]_(AD!avars)
  <2>1. UNCHANGED disk /\ Active' = Active /\ p \in Active
    BY <1>7, <1>t DEF modify, Goto, Active
  <2>2. ~ Recovering /\ ~ Recovering'
    BY <1>7, <1>a, <1>t DEF modify, Goto, Recovering
  <2>3. \A c \in Blocks : Contents(c)' = IF c = b THEN v ELSE Contents(c)
    BY <1>7, <1>t, <1>u, LogAssumption DEF modify, Contents, disk
  <2>4. Current' = [Current EXCEPT ![b] = v]
    BY <2>2, <2>3, ZenonT(60) DEF Current
  <2>5. AD!AWrite(p, b, v)
    BY <2>1, <2>4, DiskSame DEF AD!AWrite
  <2> QED BY <2>5 DEF AD!ANext
<1>8. ASSUME NEW p \in Procs, write_log(p) PROVE [AD!ANext]_(AD!avars)
  <2>1. /\ pc[p] = "write_log" /\ head' = head /\ home' = home /\ lh[tail + 1] \in Blocks
        /\ cache' = [cache EXCEPT ![lh[tail + 1]] = Contents(lh[tail + 1])]
    BY <1>8, <1>t, <1>u, SMTT(60) DEF write_log, HeaderInv
  <2>2. \A c \in Blocks : Contents(c)' = Contents(c)
    BY <2>1, <1>t, <1>u, LogAssumption, SMTT(60) DEF Contents
  <2>3. /\ \A q \in Procs : q # p => pc'[q] = pc[q] /\ pc[q] \notin CommitPCs \cup RecoverPCs
        /\ pc'[p] \in {"write_log", "write_head"}
    BY <1>8, <2>1, <1>t, SMTT(60) DEF write_log, NextTail, Goto, ControlInv
  <2>4. ~ Recovering /\ ~ Recovering' /\ Active' = Active
    BY <2>1, <2>3 DEF Recovering, Active
  <2>5. head = <<>> /\ Range(head) = {}
    BY <2>1, <2>3, SMTT(60) DEF HeaderInv, Range
  <2>6. Durable' = Durable
    BY <2>1, <2>5, <1>c, <1>d, SMTT(60)
  <2> QED BY <2>2, <2>4, <2>6, CurrentUp, Stutter
<1>9. ASSUME NEW p \in Procs, write_head(p) PROVE [AD!ANext]_(AD!avars)
  <2>1. /\ pc[p] = "write_head" /\ pc' = [pc EXCEPT ![p] = "install"]
        /\ head' = lh /\ UNCHANGED <<home, logblk, lh, cache>>
    BY <1>9 DEF write_head, HeaderOnDisk, Goto
  <2>2. \A q \in Procs : q # p => pc[q] \notin CommitPCs \cup RecoverPCs \cup OpPCs
    BY <2>1, <1>b DEF OpsCounted, ControlInv
  <2>3. ~ Recovering /\ ~ Recovering' /\ Active = {} /\ Active' = {}
    BY <2>1, <2>2, <1>t DEF Recovering, Active
  <2>4. Current' = Current /\ \A b \in Blocks : Current[b] = Contents(b)
    BY <2>1, <2>3, CurrentUp DEF Contents, Current
  <2>5. ASSUME NEW b \in Blocks PROVE Durable'[b] = Contents(b)
    <3>a. NoLostUpdate /\ dirty \subseteq Range(lh) /\ \A i \in DOMAIN lh : logblk[i] = Contents(lh[i])
      BY <2>1, <1>u DEF DataInv
    <3>1. CASE b \in Range(lh)
      <4>1. PICK i \in DOMAIN lh : lh[i] = b
        BY <3>1 DEF Range
      <4> QED BY <4>1, <2>1, <1>d, <3>a
    <3>2. CASE b \notin Range(lh)
      <4>1. Contents(b) = home[b]
        BY <3>2, <2>1, <2>2, <3>a DEF NoLostUpdate
      <4> QED BY <4>1, <3>2, <2>1, <1>d, SMTT(60)
    <3> QED BY <3>1, <3>2
  <2>6. Durable' = Current
    BY <2>3, <2>4, <2>5, <1>d DEF Current
  <2>7. AD!ACommit
    BY <2>3, <2>4, <2>6, SMTT(60) DEF AD!ACommit
  <2> QED BY <2>7 DEF AD!ANext
<1>10. ASSUME NEW p \in Procs, install_trans(p, "install", "clear") PROVE [AD!ANext]_(AD!avars)
  <2> DEFINE b == lh[tail + 1]
  <2>1. /\ pc[p] = "install" /\ head' = head /\ logblk' = logblk /\ head = lh
        /\ home' = [home EXCEPT ![b] = logblk[tail + 1]]
        /\ cache' = [cache EXCEPT ![b] = logblk[tail + 1]]
    BY <1>10, SMTT(60) DEF install_trans, HeaderInv
  <2>2. tail + 1 \in DOMAIN lh /\ b \in Blocks /\ logblk[tail + 1] = Contents(b)
    BY <2>1, <1>t, <1>u, SMTT(60) DEF HeaderInv, DataInv
  <2>3. \A c \in Blocks : Contents(c)' = Contents(c)
    BY <2>1, <2>2, <1>t, <1>u, LogAssumption DEF Contents
  <2>4. /\ \A q \in Procs : q # p => pc'[q] = pc[q] /\ pc[q] \notin CommitPCs \cup RecoverPCs
        /\ pc'[p] \in {"install", "clear"}
    BY <1>10, <2>1, <1>t, SMTT(60) DEF install_trans, NextTail, Goto, ControlInv
  <2>5. ~ Recovering /\ ~ Recovering' /\ Active' = Active
    BY <2>1, <2>4 DEF Recovering, Active
  <2>6. Durable' = Durable
    BY <2>1, <2>2, <1>c, <1>d, <1>p, InstallKeepsDurable, ZenonT(60)
  <2> QED BY <2>3, <2>5, <2>6, CurrentUp, Stutter
<1>11. ASSUME NEW p \in Procs, commit_clear(p) PROVE [AD!ANext]_(AD!avars)
  <2>1. /\ pc[p] = "clear" /\ pc' = [pc EXCEPT ![p] = "committed"]
        /\ head = lh /\ head' = <<>> /\ UNCHANGED <<home, cache>>
    BY <1>11 DEF commit_clear, clear_head, Goto, HeaderInv
  <2>2. \A q \in Procs : q # p => pc[q] \notin CommitPCs \cup RecoverPCs \cup OpPCs
    BY <2>1, <1>b DEF OpsCounted, ControlInv
  <2>3. ~ Recovering /\ ~ Recovering' /\ Active' = Active
    BY <2>1, <2>2, <1>t DEF Recovering, Active
  <2>4. \A b \in Blocks : Contents(b) = home[b]
    BY <2>1, <2>2, SMTT(60) DEF DataInv, NoLostUpdate
  <2>5. \A i \in DOMAIN head : head[i] \in Blocks /\ logblk[i] = home[head[i]]
    BY <2>1, <2>4, <1>t, <1>u, SMTT(60) DEF DataInv
  <2>6. Durable' = Durable
    BY <2>1, <2>5, <1>c, <1>d, ClearKeepsDurable
  <2>7. \A c \in Blocks : Contents(c)' = Contents(c)
    BY <2>1 DEF Contents
  <2> QED BY <2>3, <2>6, <2>7, CurrentUp, Stutter
<1>12. ASSUME NEW p \in Procs, end_commit(p) PROVE [AD!ANext]_(AD!avars)
  <2>1. UNCHANGED <<disk, cache>> /\ Active' = Active
    BY <1>12, <1>t DEF end_commit, GotoAndWakeup, Active
  <2>2. ~ Recovering /\ ~ Recovering'
    BY <1>12, <1>a, <1>t DEF end_commit, GotoAndWakeup, Recovering
  <2> QED BY <2>1, <2>2, DiskSame, Stutter DEF Current, Contents, disk
<1>13. ASSUME NEW p \in Procs, read_head(p) PROVE [AD!ANext]_(AD!avars)
  <2>1. UNCHANGED <<disk, cache>> /\ Active' = Active
    BY <1>13, <1>t DEF read_head, Goto, Active
  <2>2. Recovering /\ Recovering'
    BY <1>13, <1>t DEF read_head, Goto, Recovering
  <2> QED BY <2>1, <2>2, DiskSame, Stutter DEF Current
<1>14. ASSUME NEW p \in Procs, install_trans(p, "recover", "recovered")
       PROVE [AD!ANext]_(AD!avars)
  <2>1. /\ pc[p] = "recover" /\ head' = head /\ logblk' = logblk /\ head = lh
        /\ home' = [home EXCEPT ![lh[tail + 1]] = logblk[tail + 1]]
    BY <1>14 DEF install_trans, HeaderInv
  <2>2. tail + 1 \in DOMAIN lh
    BY <2>1, <1>t, <1>u, SMTT(60) DEF HeaderInv
  <2>3. /\ \A q \in Procs : q # p => pc'[q] = "down" /\ pc[q] = "down"
        /\ pc'[p] \in {"recover", "recovered"}
    BY <1>14, <2>1, <1>t, SMTT(60) DEF install_trans, NextTail, Goto, ControlInv
  <2>4. Recovering /\ Recovering' /\ Active' = Active
    BY <2>1, <2>3 DEF Recovering, Active
  <2>5. Durable' = Durable
    BY <2>1, <2>2, <1>c, <1>d, <1>p, InstallKeepsDurable, ZenonT(60)
  <2> QED BY <2>4, <2>5, Stutter, SMTT(60) DEF Current
<1>15. ASSUME NEW p \in Procs, recover_clear(p) PROVE [AD!ANext]_(AD!avars)
  <2>1. /\ pc[p] = "recovered" /\ pc' = [q \in Procs |-> "idle"]
        /\ head = lh /\ head' = <<>> /\ UNCHANGED <<home, cache>>
    BY <1>15 DEF recover_clear, clear_head, HeaderInv
  <2>2. \A q \in Procs : q # p => pc[q] = "down"
    BY <2>1 DEF ControlInv
  <2>3. Recovering /\ ~ Recovering' /\ Active' = Active
    BY <2>1, <2>2, <1>t, SMTT(60) DEF Recovering, Active
  <2>4. \A b \in Blocks : Contents(b) = home[b] /\ Contents(b)' = home[b]
    BY <2>1, <2>2, SMTT(60) DEF DataInv, NoLostUpdate, Contents
  <2>5. \A i \in DOMAIN head : head[i] \in Blocks /\ logblk[i] = home[head[i]]
    BY <2>1, <2>4, <1>t, <1>u, SMTT(60) DEF DataInv
  <2>6. Durable' = Durable
    BY <2>1, <2>5, <1>c, <1>d, ClearKeepsDurable, SMTT(60)
  <2>7. \A b \in Blocks : Durable'[b] = home[b]
    BY <2>1, <1>d DEF Range
  <2>8. Current' = Durable'
    BY <2>3, <2>4, <2>7, <1>d DEF Current
  <2> QED BY <2>3, <2>6, <2>8, Stutter DEF Current
<1>16. ASSUME NEW b \in Blocks, bget_recycle(b) PROVE [AD!ANext]_(AD!avars)
  <2>1. /\ b \notin dirty /\ ~ Held(b) /\ cache' = [cache EXCEPT ![b] = NoData]
        /\ UNCHANGED <<disk, pc>>
    BY <1>16, SMTT(60) DEF bget_recycle, Recyclable
  <2>2. Contents(b) = home[b]
    BY <2>1 DEF DataInv, NoLostUpdate, Held
  <2>3. \A c \in Blocks : Contents(c)' = Contents(c)
    BY <2>1, <2>2, <1>t, <1>u DEF Contents, disk
  <2>4. Durable' = Durable
    BY <2>1, DiskSame
  <2>5. Current' = Current /\ Active' = Active
    BY <2>1, <2>3, <2>4 DEF Current, Recovering, Active
  <2> QED BY <2>4, <2>5, Stutter
<1>17. ASSUME NEW p \in Procs, crash(p) PROVE [AD!ANext]_(AD!avars)
  <2>1. UNCHANGED disk /\ pc' = [q \in Procs |-> IF q = p THEN "read_head" ELSE "down"]
    BY <1>17 DEF crash, Boot
  <2>2. Recovering' /\ Active' = {} /\ Durable' = Durable
    BY <2>1, DiskSame DEF Recovering, Active
  <2>3. AD!ACrash
    BY <2>2 DEF AD!ACrash, Current
  <2> QED BY <2>3 DEF AD!ANext
<1>18. CASE UNCHANGED vars
  <2>1. UNCHANGED <<disk, cache, pc>>
    BY <1>18 DEF vars, disk
  <2> QED BY <2>1, DiskSame, Stutter DEF Current, Contents, Recovering, Active, disk
<1> QED
  BY SMTT(60), <1>1, <1>2, <1>3, <1>4, <1>5, <1>6, <1>7, <1>8, <1>9, <1>10, <1>11, <1>12,
     <1>13, <1>14, <1>15, <1>16, <1>17, <1>18
  DEF Next, Run, SystemCall, commit, recover_from_log

\* Only install_trans() writes home locations.
LEMMA WriteAheadStep ==
  ASSUME LogInvariant, [Next]_vars
  PROVE  \A b \in Blocks : home'[b] # home[b] =>
           \E i \in DOMAIN head : head[i] = b /\ home'[b] = logblk[i]
<1> DEFINE A == \A b \in Blocks : home'[b] # home[b] =>
                  \E i \in DOMAIN head : head[i] = b /\ home'[b] = logblk[i]
<1>1. ASSUME NEW p \in Procs, NEW from \in {"install", "recover"}, NEW next \in PCs,
             install_trans(p, from, next)
      PROVE  A
  <2>1. head = lh /\ tail + 1 \in DOMAIN lh /\ lh[tail + 1] \in Blocks
    BY <1>1 DEF install_trans, LogInvariant, HeaderInv, TypeOK
  <2> QED BY <1>1, <2>1 DEF install_trans, LogInvariant, TypeOK
<1>2. CASE home' = home
  BY <1>2
<1>3. \/ home' = home
      \/ \E p \in Procs : install_trans(p, "install", "clear")
      \/ \E p \in Procs : install_trans(p, "recover", "recovered")
  BY ZenonT(60) DEF Next, Run, SystemCall, commit, recover_from_log, begin_op, end_op, brelse,
         log_write_check, bread, log_write, modify, write_log, write_head,
         commit_clear, end_commit, read_head, recover_clear, clear_head,
         bget_recycle, crash, disk, vars
<1> QED BY <1>1, <1>2, <1>3 DEF PCs, CommitPCs, RecoverPCs
=============================================================================
