--------------------------- MODULE LogDataProofs ----------------------------
(***************************************************************************)
(* The types, the control, the buffer locks, the headers, the buffers and  *)
(* the log blocks of Log: these parts of LogInvariant are kept by every    *)
(* step.  What LogProofs proves of the step with theorems on finite sets   *)
(* (the number of calls, the length of the header) is assumed here.        *)
(***************************************************************************)
EXTENDS LogInv, TLAPS

\* Most leaves are left to the default provers; a leaf that takes longer
\* names the prover that finds it and gives it a minute.

\* Counting the calls that are admitted, as LogProofs shows it of a finite set.
Counting ==
  /\ Cardinality({}) = 0
  /\ \A p \in Procs : p \notin Active => Cardinality(Active \cup {p}) = Cardinality(Active) + 1
  /\ \A p \in Active : Cardinality(Active \ {p}) = Cardinality(Active) - 1

\* A step that begins and ends no system call, commit or recovery ...
PlacesKept ==
  /\ UNCHANGED <<outstanding, committing>>
  /\ \A q \in Procs : pc'[q] \in OpPCs <=> pc[q] \in OpPCs
  /\ \A q \in Procs : pc'[q] \in CommitPCs <=> pc[q] \in CommitPCs
  /\ \A q \in Procs : pc'[q] \in RecoverPCs <=> pc[q] \in RecoverPCs
  /\ \A q \in Procs : pc'[q] = "sleeping" => pc[q] = "sleeping"
  /\ \A q \in Procs : pc[q] = "down" => pc'[q] = "down"

\* ... keeps the control of the log.
LEMMA ControlKept == ASSUME ControlInv, PlacesKept PROVE ControlInv'
<1>1. Active' = Active
  BY DEF PlacesKept, Active
<1> QED BY <1>1 DEF PlacesKept, ControlInv

\* What a system call does to its buffers, the steps of commit() and the steps of
\* recovery are such steps.
LEMMA PlacesKeptStep ==
  ASSUME pc \in [Procs -> PCs], NEW p \in Procs,
         \/ brelse(p) \/ log_write_check(p) \/ write_log(p) \/ write_head(p) \/ commit_clear(p)
         \/ read_head(p) \/ install_trans(p, "install", "clear")
         \/ install_trans(p, "recover", "recovered")
         \/ \E b \in Blocks : \/ bread(p, b) \/ log_write(p, b) \/ bget_recycle(b)
                               \/ \E v \in Data : modify(p, b, v)
  PROVE  PlacesKept
<1> USE DEF PlacesKept, OpPCs, CommitPCs, RecoverPCs
<1>1. CASE brelse(p)
  BY <1>1 DEF brelse, Goto
<1>2. CASE log_write_check(p)
  BY <1>2 DEF log_write_check, Goto
<1>3. CASE write_log(p)
  BY <1>3 DEF write_log, NextTail, Goto
<1>4. CASE write_head(p)
  BY <1>4 DEF write_head, Goto
<1>5. CASE commit_clear(p)
  BY <1>5 DEF commit_clear, clear_head, Goto
<1>6. CASE read_head(p)
  BY <1>6 DEF read_head, Goto
<1>7. CASE install_trans(p, "install", "clear")
  BY <1>7 DEF install_trans, NextTail, Goto
<1>8. CASE install_trans(p, "recover", "recovered")
  BY <1>8 DEF install_trans, NextTail, Goto
<1>9. ASSUME NEW b \in Blocks, bread(p, b) PROVE PlacesKept
  BY <1>9 DEF bread, Goto
<1>10. ASSUME NEW b \in Blocks, log_write(p, b) PROVE PlacesKept
  BY <1>10 DEF log_write, Goto
<1>11. ASSUME NEW b \in Blocks, bget_recycle(b) PROVE PlacesKept
  BY <1>11 DEF bget_recycle
<1>12. ASSUME NEW b \in Blocks, NEW v \in Data, modify(p, b, v) PROVE PlacesKept
  BY <1>12 DEF modify, Goto
<1> HIDE DEF PlacesKept, OpPCs, CommitPCs, RecoverPCs
<1> QED BY Zenon, <1>1, <1>2, <1>3, <1>4, <1>5, <1>6, <1>7, <1>8, <1>9, <1>10, <1>11, <1>12

\* Outside of a group the in-memory header is empty.
LEMMA EmptyHeader ==
  ASSUME LogInvariant, NEW p \in Procs, pc[p] \in {"idle", "woken"},
         ~ committing, outstanding = 0
  PROVE  lh = <<>>
<1>1. ~ Recovering
  BY DEF LogInvariant, ControlInv, Recovering, RecoverPCs
<1> QED BY <1>1 DEF LogInvariant, HeaderInv

\* The counts of log.outstanding, log.committing and the commit in progress agree
\* with the places of the processes.
LEMMA ControlStep ==
  ASSUME LogInvariant, SpaceContract, OpsCounted, Counting, [Next]_vars
  PROVE  ControlInv'
<1> USE DEF PCs, OpPCs, CommitPCs, RecoverPCs, disk
<1> TypeOK /\ ControlInv /\ outstanding \in Nat
  BY DEF LogInvariant, TypeOK
<1>t. pc \in [Procs -> PCs]
  BY DEF TypeOK
<1>q. ASSUME NEW p \in Procs,
             \/ brelse(p) \/ log_write_check(p) \/ write_log(p) \/ write_head(p) \/ commit_clear(p)
             \/ read_head(p) \/ install_trans(p, "install", "clear")
             \/ install_trans(p, "recover", "recovered")
             \/ \E b \in Blocks : \/ bread(p, b) \/ log_write(p, b) \/ bget_recycle(b)
                                   \/ \E v \in Data : modify(p, b, v)
      PROVE  ControlInv'
  BY <1>q, <1>t, PlacesKeptStep, ControlKept
<1>1. ASSUME NEW p \in Procs, begin_op(p) PROVE ControlInv'
  <2>1. CASE committing \/ LogFull
    <3>1. pc' = [pc EXCEPT ![p] = "sleeping"] /\ pc[p] \in {"idle", "woken"}
      BY <1>1, <2>1 DEF begin_op, Goto
    <3>2. outstanding' = outstanding /\ committing' = committing /\ Active' = Active
      BY <1>1, <2>1, <3>1 DEF begin_op, Active, TypeOK
    <3>3. committing \/ outstanding > 0
      <4>1. CASE committing
        BY <4>1
      <4>2. CASE LogFull /\ ~ committing /\ outstanding = 0
        <5>1. lh = <<>> /\ Len(<<>>) = 0
          BY <3>1, <4>2, EmptyHeader
        <5> QED BY <5>1, <4>2, LogAssumption DEF LogFull, SpaceContract
      <4> QED BY <2>1, <4>1, <4>2
    <3> QED BY <3>1, <3>2, <3>3 DEF ControlInv, TypeOK
  <2>2. CASE ~ (committing \/ LogFull)
    <3>1. Active' = Active \cup {p} /\ p \notin Active
      BY <1>1, <2>2 DEF begin_op, enter_op, Goto, Active, TypeOK
    <3>2. outstanding' = Cardinality(Active')
      BY <1>1, <2>2, <3>1 DEF begin_op, enter_op, ControlInv, Counting
    <3>3. /\ pc' = [pc EXCEPT ![p] = "op"] /\ pc[p] \in {"idle", "woken"}
          /\ outstanding' = outstanding + 1 /\ ~ committing /\ ~ committing'
      BY <1>1, <2>2 DEF begin_op, enter_op, Goto
    <3> QED BY <3>2, <3>3 DEF ControlInv, TypeOK
  <2> QED BY <2>1, <2>2
<1>2. ASSUME NEW p \in Procs, end_op(p) PROVE ControlInv'
  <2>1. Active' = Active \ {p} /\ p \in Active
    BY <1>2 DEF end_op, Goto, GotoAndWakeup, Active, TypeOK
  <2>2. outstanding' = Cardinality(Active') /\ outstanding > 0
    <3>1. outstanding = Cardinality(Active) /\ outstanding' = outstanding - 1 /\ outstanding > 0
      BY <1>2 DEF end_op, ControlInv, OpsCounted
    <3>2. Cardinality(Active \ {p}) = Cardinality(Active) - 1
      BY <2>1 DEF Counting
    <3> QED BY <2>1, <3>1, <3>2
  <2>3. CASE outstanding = 1
    <3>1. /\ pc[p] = "op" /\ outstanding' = 0 /\ committing' = TRUE
          /\ \E l \in {"committed", "write_log"} : pc' = [pc EXCEPT ![p] = l]
      BY <1>2, <2>2, <2>3 DEF end_op, Goto, ControlInv
    <3> QED BY <3>1, <2>2, <2>3, <1>t DEF ControlInv
  <2>4. CASE outstanding # 1
    <3>1. /\ pc[p] = "op" /\ outstanding' = outstanding - 1 /\ committing' = committing
          /\ pc' = [q \in Procs |-> IF q = p THEN "idle"
                                     ELSE IF pc[q] = "sleeping" THEN "woken" ELSE pc[q]]
      BY <1>2, <2>2, <2>4 DEF end_op, GotoAndWakeup, ControlInv
    <3> QED BY <3>1, <2>2, <2>4, <1>t DEF ControlInv
  <2> QED BY <2>3, <2>4
<1>3. ASSUME NEW p \in Procs, end_commit(p) PROVE ControlInv'
  <2>1. Active' = Active
    BY <1>3, <1>t DEF end_commit, GotoAndWakeup, Active
  <2> QED BY <1>3, <1>t, <2>1 DEF end_commit, GotoAndWakeup, ControlInv
<1>4. ASSUME NEW p \in Procs, recover_clear(p) PROVE ControlInv'
  <2>1. Active = {} /\ Active' = {}
    BY <1>4 DEF recover_clear, Active, ControlInv, TypeOK
  <2> QED BY <1>4, <2>1 DEF recover_clear, clear_head, ControlInv, TypeOK
<1>5. ASSUME NEW p \in Procs, crash(p) PROVE ControlInv'
  <2>1. Active' = {}
    BY <1>5 DEF crash, Boot, Active
  <2> QED BY <1>5, <2>1 DEF crash, Boot, ControlInv, Counting
<1>6. CASE UNCHANGED vars
  BY <1>6 DEF vars, ControlInv, Active
<1>7. \E p \in Procs : TRUE
  BY LogAssumption
<1> QED
  BY Zenon, <1>q, <1>1, <1>2, <1>3, <1>4, <1>5, <1>6, <1>7
  DEF Next, Run, SystemCall, commit, recover_from_log

-----------------------------------------------------------------------------
\* The loop variable and the place of the looping process after an iteration.
LEMMA NextTailType ==
  ASSUME TypeOK, NEW p \in Procs, NEW next \in PCs, NextTail(p, next)
  PROVE  pc' \in [Procs -> PCs] /\ tail' \in Nat
<1>1. CASE tail + 1 < Len(lh)
  BY <1>1 DEF TypeOK, NextTail
<1>2. CASE ~ (tail + 1 < Len(lh))
  BY <1>2 DEF TypeOK, NextTail, Goto
<1> QED BY <1>1, <1>2

\* Every variable keeps its type, whatever step is taken.
LEMMA TypeStep ==
  ASSUME LogInvariant, SpaceContract, OpsCounted, [Next]_vars
  PROVE  TypeOK'
<1> USE LogAssumption DEF TypeOK, PCs, OpPCs, CommitPCs, RecoverPCs, disk
<1> TypeOK /\ HeaderInv
  BY DEF LogInvariant
<1>1. ASSUME NEW p \in Procs, begin_op(p) PROVE TypeOK'
  <2>1. CASE committing \/ LogFull
    BY <1>1, <2>1 DEF begin_op, Goto
  <2>2. CASE ~ (committing \/ LogFull)
    <3>1. pc' \in [Procs -> PCs]
      BY <1>1, <2>2 DEF begin_op, enter_op, Goto
    <3>2. wrote' \in [Procs -> SUBSET Blocks]
      BY <1>1, <2>2 DEF begin_op, enter_op, Goto
    <3>3. outstanding' \in Nat
      BY <1>1, <2>2 DEF begin_op, enter_op, Goto
    <3>4. QED BY <1>1, <2>2, <3>1, <3>2, <3>3 DEF begin_op
  <2> QED BY <2>1, <2>2
<1>2. ASSUME NEW p \in Procs, end_op(p) PROVE TypeOK'
  <2>1. outstanding' \in Nat
    BY <1>2 DEF end_op, OpsCounted, ControlInv, LogInvariant
  <2> QED BY <1>2, <2>1, ZenonT(60) DEF end_op, Goto, GotoAndWakeup
<1>3. ASSUME NEW p \in Procs, brelse(p) PROVE TypeOK'
  BY <1>3 DEF brelse, Goto
<1>4. ASSUME NEW p \in Procs, log_write_check(p) PROVE TypeOK'
  BY <1>4 DEF log_write_check, Goto
<1>5. ASSUME NEW p \in Procs, NEW b \in Blocks, bread(p, b) PROVE TypeOK'
  BY <1>5 DEF bread, Goto, Contents
<1>6. ASSUME NEW p \in Procs, NEW b \in Blocks, log_write(p, b) PROVE TypeOK'
  BY <1>6 DEF log_write, record, Goto
<1>7. ASSUME NEW p \in Procs, NEW b \in Blocks, NEW v \in Data, modify(p, b, v)
      PROVE TypeOK'
  BY <1>7 DEF modify, Goto
<1>8. ASSUME NEW p \in Procs, write_log(p) PROVE TypeOK'
  <2>1. tail + 1 \in DOMAIN lh /\ lh[tail + 1] \in Blocks
    BY <1>8 DEF write_log, HeaderInv
  <2>2. Contents(lh[tail + 1]) \in Data
    BY <2>1 DEF Contents
  <2>3. pc' \in [Procs -> PCs] /\ tail' \in Nat
    BY <1>8, NextTailType DEF write_log
  <2> QED BY <1>8, <2>1, <2>2, <2>3, ZenonT(60) DEF write_log
<1>9. ASSUME NEW p \in Procs, write_head(p) PROVE TypeOK'
  BY <1>9 DEF write_head, HeaderOnDisk, Goto
<1>10. ASSUME NEW p \in Procs, install_trans(p, "install", "clear") PROVE TypeOK'
  <2>1. tail + 1 \in DOMAIN lh /\ lh[tail + 1] \in Blocks /\ logblk[tail + 1] \in Data
    BY <1>10 DEF install_trans, HeaderInv, SpaceContract
  <2>2. pc' \in [Procs -> PCs] /\ tail' \in Nat
    BY <1>10, NextTailType DEF install_trans
  <2> QED BY <1>10, <2>1, <2>2 DEF install_trans
<1>11. ASSUME NEW p \in Procs, commit_clear(p) PROVE TypeOK'
  BY <1>11 DEF commit_clear, clear_head, Goto
<1>12. ASSUME NEW p \in Procs, end_commit(p) PROVE TypeOK'
  BY <1>12, ZenonT(60) DEF end_commit, GotoAndWakeup
<1>13. ASSUME NEW p \in Procs, read_head(p) PROVE TypeOK'
  BY <1>13 DEF read_head, Goto
<1>14. ASSUME NEW p \in Procs, install_trans(p, "recover", "recovered") PROVE TypeOK'
  <2>1. tail + 1 \in DOMAIN lh /\ lh[tail + 1] \in Blocks /\ logblk[tail + 1] \in Data
    BY <1>14 DEF install_trans, HeaderInv, SpaceContract
  <2>2. pc' \in [Procs -> PCs] /\ tail' \in Nat
    BY <1>14, NextTailType DEF install_trans
  <2> QED BY <1>14, <2>1, <2>2 DEF install_trans
<1>15. ASSUME NEW p \in Procs, recover_clear(p) PROVE TypeOK'
  BY <1>15 DEF recover_clear, clear_head
<1>16. ASSUME NEW b \in Blocks, bget_recycle(b) PROVE TypeOK'
  BY <1>16 DEF bget_recycle
<1>17. ASSUME NEW p \in Procs, crash(p) PROVE TypeOK'
  <2>1. lh' \in Seq(Blocks) /\ outstanding' \in Nat /\ tail' \in Nat
    BY <1>17 DEF crash, Boot
  <2>2. cache' \in [Blocks -> Data \cup {NoData}] /\ dirty' \in SUBSET Blocks
    BY <1>17 DEF crash, Boot
  <2>3. held' \in [Procs -> SUBSET Blocks] /\ wrote' \in [Procs -> SUBSET Blocks]
    BY <1>17 DEF crash, Boot
  <2>4. pc' \in [Procs -> PCs]
    BY <1>17 DEF crash, Boot
  <2> QED BY <1>17, <2>1, <2>2, <2>3, <2>4, ZenonT(60) DEF crash, Boot
<1>18. CASE UNCHANGED vars
  BY <1>18 DEF vars
<1> QED
  BY <1>1, <1>2, <1>3, <1>4, <1>5, <1>6, <1>7, <1>8, <1>9, <1>10, <1>11, <1>12,
     <1>13, <1>14, <1>15, <1>16, <1>17, <1>18, ZenonT(60)
  DEF Next, Run, SystemCall, commit, recover_from_log

\* A buffer is locked by one process at a time, and only between bread() and
\* brelse().
LEMMA LockStep ==
  ASSUME LogInvariant, SpaceContract, [Next]_vars
  PROVE  LockInv'
<1> USE DEF PCs, OpPCs, CommitPCs, RecoverPCs, disk, Holding
<1> TypeOK /\ LockInv
  BY DEF LogInvariant
<1>1. ASSUME NEW p \in Procs, begin_op(p) PROVE LockInv'
  <2>1. CASE committing \/ LogFull
    BY <1>1, <2>1 DEF begin_op, Goto, LockInv, TypeOK
  <2>2. CASE ~ (committing \/ LogFull)
    BY <1>1, <2>2, ZenonT(60) DEF begin_op, enter_op, Goto, LockInv, TypeOK
  <2> QED BY <2>1, <2>2
<1>2. ASSUME NEW p \in Procs, end_op(p) PROVE LockInv'
  BY <1>2 DEF end_op, Goto, GotoAndWakeup, LockInv, TypeOK
<1>3. ASSUME NEW p \in Procs, brelse(p) PROVE LockInv'
  BY <1>3 DEF brelse, Goto, LockInv, TypeOK
<1>4. ASSUME NEW p \in Procs, log_write_check(p) PROVE LockInv'
  BY <1>4 DEF log_write_check, Goto, LockInv, TypeOK
<1>5. ASSUME NEW p \in Procs, NEW b \in Blocks, bread(p, b) PROVE LockInv'
  BY <1>5, ZenonT(60) DEF bread, Held, Goto, LockInv, TypeOK
<1>6. ASSUME NEW p \in Procs, NEW b \in Blocks, log_write(p, b) PROVE LockInv'
  BY <1>6 DEF log_write, Goto, LockInv, TypeOK
<1>7. ASSUME NEW p \in Procs, NEW b \in Blocks, NEW v \in Data, modify(p, b, v)
      PROVE LockInv'
  BY <1>7 DEF modify, Goto, LockInv, TypeOK
<1>8. ASSUME NEW p \in Procs, write_log(p) PROVE LockInv'
  BY <1>8 DEF write_log, NextTail, Goto, LockInv, TypeOK
<1>9. ASSUME NEW p \in Procs, write_head(p) PROVE LockInv'
  BY <1>9 DEF write_head, Goto, LockInv, TypeOK
<1>10. ASSUME NEW p \in Procs, install_trans(p, "install", "clear") PROVE LockInv'
  BY <1>10 DEF install_trans, NextTail, Goto, LockInv, TypeOK
<1>11. ASSUME NEW p \in Procs, commit_clear(p) PROVE LockInv'
  BY <1>11 DEF commit_clear, clear_head, Goto, LockInv, TypeOK
<1>12. ASSUME NEW p \in Procs, end_commit(p) PROVE LockInv'
  BY <1>12 DEF end_commit, GotoAndWakeup, LockInv, TypeOK
<1>13. ASSUME NEW p \in Procs, read_head(p) PROVE LockInv'
  BY <1>13 DEF read_head, Goto, LockInv, TypeOK
<1>14. ASSUME NEW p \in Procs, install_trans(p, "recover", "recovered") PROVE LockInv'
  BY <1>14 DEF install_trans, NextTail, Goto, LockInv, TypeOK
<1>15. ASSUME NEW p \in Procs, recover_clear(p) PROVE LockInv'
  BY <1>15, ZenonT(60) DEF recover_clear, clear_head, LockInv, TypeOK, LogInvariant, ControlInv
<1>16. ASSUME NEW b \in Blocks, bget_recycle(b) PROVE LockInv'
  BY <1>16 DEF bget_recycle, LockInv
<1>17. ASSUME NEW p \in Procs, crash(p) PROVE LockInv'
  BY <1>17 DEF crash, Boot, LockInv
<1>18. CASE UNCHANGED vars
  BY <1>18 DEF vars, LockInv
<1> QED
  BY <1>1, <1>2, <1>3, <1>4, <1>5, <1>6, <1>7, <1>8, <1>9, <1>10, <1>11, <1>12,
     <1>13, <1>14, <1>15, <1>16, <1>17, <1>18
  DEF Next, Run, SystemCall, commit, recover_from_log

-----------------------------------------------------------------------------
\* log_write() adds one block to the in-memory header, or finds it there.
LEMMA LoggedRange ==
  ASSUME lh \in Seq(Blocks), NEW b \in Blocks, record(b)
  PROVE  Range(lh') = Range(lh) \cup {b}
<1>1. CASE b \in Range(lh)
  BY <1>1 DEF record
<1>2. CASE b \notin Range(lh)
  <2>1. /\ lh' = Append(lh, b) /\ Len(lh') = Len(lh) + 1 /\ Len(lh) \in Nat
        /\ DOMAIN lh = 1 .. Len(lh) /\ DOMAIN lh' = 1 .. Len(lh) + 1
        /\ lh'[Len(lh) + 1] = b /\ \A i \in 1 .. Len(lh) : lh'[i] = lh[i]
    BY <1>2 DEF record
  <2> QED BY <2>1 DEF Range
<1> QED BY <1>1, <1>2

\* The two headers agree wherever the committing or recovering process needs
\* them to.
LEMMA HeaderStep ==
  ASSUME LogInvariant, SpaceContract, OpsCounted, HeaderFits', [Next]_vars
  PROVE  HeaderInv'
<1> USE DEF PCs, OpPCs, CommitPCs, RecoverPCs, disk
<1> TypeOK /\ ControlInv /\ HeaderInv
  BY DEF LogInvariant
<1>t. /\ pc \in [Procs -> PCs] /\ tail \in Nat /\ outstanding \in Nat
      /\ lh \in Seq(Blocks) /\ head \in Seq(Blocks)
  BY DEF TypeOK
<1>a. Len(lh) \in Nat /\ Len(head) \in Nat /\ Len(<<>>) = 0 /\ 0 <= LOGSIZE - 2
  BY LogAssumption DEF TypeOK, SpaceContract
<1>1. ASSUME NEW p \in Procs, begin_op(p) PROVE HeaderInv'
  <2>1. CASE committing \/ LogFull
    BY <1>1, <2>1, <1>t DEF begin_op, Goto, HeaderInv, ControlInv, Recovering
  <2>2. CASE ~ (committing \/ LogFull)
    BY <1>1, <2>2, <1>t DEF begin_op, enter_op, Goto, HeaderInv, ControlInv, Recovering
  <2> QED BY <2>1, <2>2
<1>2. ASSUME NEW p \in Procs, end_op(p) PROVE HeaderInv'
  <2>1. outstanding > 0 /\ ~ committing
    BY <1>2 DEF OpsCounted, end_op, ControlInv
  <2>2. CASE outstanding = 1
    BY <1>2, <2>1, <2>2, <1>t DEF end_op, Goto, HeaderInv, ControlInv, Recovering
  <2>3. CASE outstanding # 1
    BY <1>2, <2>1, <2>3, <1>t DEF end_op, GotoAndWakeup, HeaderInv, ControlInv, Recovering
  <2> QED BY <2>2, <2>3
<1>3. ASSUME NEW p \in Procs, brelse(p) PROVE HeaderInv'
  BY <1>3, <1>t DEF brelse, Goto, HeaderInv, Recovering
<1>4. ASSUME NEW p \in Procs, log_write_check(p) PROVE HeaderInv'
  BY <1>4, <1>t DEF log_write_check, Goto, HeaderInv, Recovering
<1>5. ASSUME NEW p \in Procs, NEW b \in Blocks, bread(p, b) PROVE HeaderInv'
  BY <1>5, <1>t DEF bread, Goto, HeaderInv, Recovering
<1>6. ASSUME NEW p \in Procs, NEW b \in Blocks, log_write(p, b) PROVE HeaderInv'
  <2>1. /\ pc' = [pc EXCEPT ![p] = "logged"] /\ pc[p] = "checked"
        /\ lh' = (IF b \in Range(lh) THEN lh ELSE Append(lh, b))
        /\ UNCHANGED <<head, tail, committing, outstanding>>
    BY <1>6 DEF log_write, record, Goto
  <2>2. outstanding > 0 /\ ~ committing
    BY <2>1 DEF OpsCounted, ControlInv
  <2>3. Len(lh') <= LOGSIZE - 2
    BY DEF HeaderFits
  <2>4. \A i, j \in DOMAIN lh' : lh'[i] = lh'[j] => i = j
    <3>1. CASE b \in Range(lh)
      BY <2>1, <3>1 DEF HeaderInv
    <3>2. CASE b \notin Range(lh)
      <4>1. /\ lh' = Append(lh, b) /\ Len(lh') = Len(lh) + 1
            /\ DOMAIN lh = 1 .. Len(lh) /\ DOMAIN lh' = 1 .. Len(lh) + 1
            /\ lh'[Len(lh) + 1] = b /\ \A i \in 1 .. Len(lh) : lh'[i] = lh[i]
        BY <2>1, <3>2, <1>a, <1>t
      <4> QED BY <4>1, <3>2, <1>a DEF HeaderInv, Range
    <3> QED BY <3>1, <3>2
  <2>5. \A q \in Procs : pc[q] \notin CommitPCs \cup RecoverPCs
    BY <2>1, <2>2 DEF ControlInv
  <2> QED BY <2>1, <2>2, <2>3, <2>4, <2>5, <1>t DEF HeaderInv
<1>7. ASSUME NEW p \in Procs, NEW b \in Blocks, NEW v \in Data, modify(p, b, v)
      PROVE HeaderInv'
  BY <1>7, <1>t DEF modify, Goto, HeaderInv, Recovering
<1>8. ASSUME NEW p \in Procs, write_log(p) PROVE HeaderInv'
  <2>1. CASE tail + 1 < Len(lh)
    BY <1>8, <2>1, <1>a, <1>t DEF write_log, NextTail, HeaderInv, ControlInv, Recovering
  <2>2. CASE ~ (tail + 1 < Len(lh))
    BY <1>8, <2>2, <1>t DEF write_log, NextTail, Goto, HeaderInv, ControlInv, Recovering
  <2> QED BY <2>1, <2>2
<1>9. ASSUME NEW p \in Procs, write_head(p) PROVE HeaderInv'
  <2>1. 0 < Len(lh)
    BY <1>9, <1>a, <1>t DEF write_head, HeaderInv
  <2>2. tail = 0
    BY <1>9 DEF write_head, HeaderInv, ControlInv
  <2> QED BY <1>9, <2>1, <2>2, <1>t DEF write_head, HeaderOnDisk, Goto, HeaderInv, ControlInv, Recovering
<1>10. ASSUME NEW p \in Procs, install_trans(p, "install", "clear") PROVE HeaderInv'
  <2>1. CASE tail + 1 < Len(lh)
    BY <1>10, <2>1, <1>a, <1>t, SMTT(60) DEF install_trans, NextTail, HeaderInv, ControlInv, Recovering
  <2>2. CASE ~ (tail + 1 < Len(lh))
    BY <1>10, <2>2, <1>t, SMTT(60) DEF install_trans, NextTail, Goto, HeaderInv, ControlInv, Recovering
  <2> QED BY <2>1, <2>2
<1>11. ASSUME NEW p \in Procs, commit_clear(p) PROVE HeaderInv'
  BY <1>11, <1>a, <1>t DEF commit_clear, clear_head, Goto, HeaderInv, ControlInv, Recovering
<1>12. ASSUME NEW p \in Procs, end_commit(p) PROVE HeaderInv'
  BY <1>12, <1>t DEF end_commit, GotoAndWakeup, HeaderInv, ControlInv, Recovering
<1>13. ASSUME NEW p \in Procs, read_head(p) PROVE HeaderInv'
  <2>1. tail = 0 /\ (head # <<>> => 0 < Len(head))
    BY <1>13, <1>a, <1>t DEF read_head, HeaderInv, ControlInv
  <2> QED BY <1>13, <2>1, <1>t DEF read_head, Goto, HeaderInv, ControlInv, Recovering
<1>14. ASSUME NEW p \in Procs, install_trans(p, "recover", "recovered") PROVE HeaderInv'
  <2>1. CASE tail + 1 < Len(lh)
    BY <1>14, <2>1, <1>a, <1>t, SMTT(60) DEF install_trans, NextTail, HeaderInv, ControlInv, Recovering
  <2>2. CASE ~ (tail + 1 < Len(lh))
    BY <1>14, <2>2, <1>t, SMTT(60) DEF install_trans, NextTail, Goto, HeaderInv, ControlInv, Recovering
  <2> QED BY <2>1, <2>2
<1>15. ASSUME NEW p \in Procs, recover_clear(p) PROVE HeaderInv'
  BY <1>15, <1>a, <1>t DEF recover_clear, clear_head, HeaderInv, ControlInv
<1>16. ASSUME NEW b \in Blocks, bget_recycle(b) PROVE HeaderInv'
  BY <1>16 DEF bget_recycle, HeaderInv, Recovering
<1>17. ASSUME NEW p \in Procs, crash(p) PROVE HeaderInv'
  BY <1>17, <1>a DEF crash, Boot, HeaderInv, Recovering
<1>18. CASE UNCHANGED vars
  BY <1>18 DEF vars, HeaderInv, Recovering
<1> QED
  BY SMTT(60), <1>1, <1>2, <1>3, <1>4, <1>5, <1>6, <1>7, <1>8, <1>9, <1>10, <1>11, <1>12,
     <1>13, <1>14, <1>15, <1>16, <1>17, <1>18
  DEF Next, Run, SystemCall, commit, recover_from_log

\* A step that writes no block, pins or unpins no buffer and does not move the
\* committing or recovering process keeps DataInv.
LEMMA DataKept ==
  ASSUME DataInv, TypeOK, TypeOK', UNCHANGED <<home, logblk, lh, dirty, tail>>,
         \A c \in Blocks : Contents(c)' = Contents(c),
         \A c \in Blocks : c \in dirty \/ Held(c)' => cache'[c] # NoData,
         \A q \in Procs : pc'[q] # pc[q] =>
           /\ pc[q] \notin (CommitPCs \cup RecoverPCs) \ {"committed"}
           /\ pc'[q] \notin CommitPCs \cup RecoverPCs,
         \A q \in Procs : pc[q] \in Modifying => pc'[q] \in Modifying /\ held'[q] = held[q]
  PROVE  DataInv'
<1> USE DEF CommitPCs, RecoverPCs, Modifying
<1>1. NoLostUpdate'
  BY DEF DataInv, NoLostUpdate
<1>2. \A q \in Procs : pc'[q] \in CommitPCs \cup RecoverPCs => pc'[q] = pc[q]
  OBVIOUS
<1>3. /\ \A b \in Blocks : b \in dirty' => b \in Range(lh')
      /\ \A q \in Procs : pc'[q] = "install" =>
           \A i \in DOMAIN lh' : lh'[i] \in dirty' <=> i > tail'
      /\ \A q \in Procs : pc'[q] \in {"clear", "committed"} \cup RecoverPCs => dirty' = {}
  BY <1>2 DEF DataInv
<1>4. (\A q \in Procs : pc'[q] \notin {"install", "clear"} \cup RecoverPCs)
        => Range(lh') \subseteq dirty'
  BY DEF DataInv
<1>5. \A i \in DOMAIN lh : lh[i] \in Blocks
  BY DEF TypeOK
<1>6. ASSUME NEW q \in Procs
      PROVE  /\ pc'[q] = "write_log" =>
                  \A i \in DOMAIN lh' : i <= tail' => logblk'[i] = Contents(lh[i])'
             /\ pc'[q] \in {"write_head", "install", "clear", "recovered"} =>
                  \A i \in DOMAIN lh' : logblk'[i] = Contents(lh[i])'
             /\ pc'[q] = "recover" =>
                  \A i \in DOMAIN lh' : i <= tail' => logblk'[i] = Contents(lh[i])'
  BY <1>2, <1>5 DEF DataInv
<1> QED BY <1>1, <1>3, <1>4, <1>6 DEF DataInv

\* So does a step of one process that only moves its control point and maybe
\* gives up its buffer.
LEMMA DataKeptByStep ==
  ASSUME DataInv, TypeOK, TypeOK', UNCHANGED <<home, logblk, lh, dirty, tail, cache>>,
         NEW p \in Procs, NEW l, pc' = [pc EXCEPT ![p] = l],
         held' = held \/ (held' = [held EXCEPT ![p] = {}] /\ pc[p] \notin Modifying),
         pc[p] \notin CommitPCs \cup RecoverPCs, l \notin CommitPCs \cup RecoverPCs,
         pc[p] \in Modifying => l \in Modifying
  PROVE  DataInv'
<1>1. \A c \in Blocks : Contents(c)' = Contents(c)
  BY DEF Contents
<1>2. \A q \in Procs : held'[q] \subseteq held[q]
  BY ZenonT(60) DEF TypeOK
<1>3. \A c \in Blocks : Held(c)' => Held(c)
  BY <1>2 DEF Held
<1>4. \A c \in Blocks : c \in dirty \/ Held(c)' => cache'[c] # NoData
  BY <1>3 DEF DataInv
<1>5. \A q \in Procs : pc'[q] = IF q = p THEN l ELSE pc[q]
  BY DEF TypeOK
<1>6. \A q \in Procs : pc'[q] # pc[q] =>
        /\ pc[q] \notin (CommitPCs \cup RecoverPCs) \ {"committed"}
        /\ pc'[q] \notin CommitPCs \cup RecoverPCs
  BY <1>5
<1>7. \A q \in Procs : q # p => held'[q] = held[q]
  BY DEF TypeOK
<1>8. \A q \in Procs : pc[q] \in Modifying => pc'[q] \in Modifying /\ held'[q] = held[q]
  BY <1>5, <1>7
<1> QED BY <1>1, <1>4, <1>6, <1>8, DataKept

\* The pinned buffers, the clean buffers and the log blocks: the steps of the
\* system calls, of bget(), of the end of end_op() and of a crash.
LEMMA DataSystemCall ==
  ASSUME LogInvariant, SpaceContract, OpsCounted, TypeOK',
         \/ \E p \in Procs : SystemCall(p) \/ end_commit(p) \/ crash(p)
         \/ \E b \in Blocks : bget_recycle(b)
         \/ UNCHANGED vars
  PROVE  DataInv'
<1> USE DEF PCs, OpPCs, CommitPCs, RecoverPCs, disk
<1> /\ TypeOK /\ TypeOK' /\ ControlInv /\ LockInv /\ HeaderInv /\ DataInv
  BY DEF LogInvariant
<1>t. pc \in [Procs -> PCs] /\ tail \in Nat /\ lh \in Seq(Blocks) /\ head \in Seq(Blocks)
  BY DEF TypeOK
<1>u. /\ home \in [Blocks -> Data] /\ logblk \in [1 .. NLOG - 1 -> Data]
      /\ cache \in [Blocks -> Data \cup {NoData}] /\ dirty \in SUBSET Blocks
      /\ held \in [Procs -> SUBSET Blocks]
  BY DEF TypeOK
<1>a. \A p \in Procs : pc[p] \in OpPCs =>
        \A q \in Procs : pc[q] \notin CommitPCs \cup RecoverPCs
  BY DEF OpsCounted, ControlInv
<1>b. /\ NoLostUpdate
      /\ \A c \in Blocks : c \in dirty \/ Held(c) => cache[c] # NoData
      /\ \A c \in Blocks : c \in dirty => c \in Range(lh)
      /\ (\A q \in Procs : pc[q] \notin CommitPCs \cup RecoverPCs) => Range(lh) \subseteq dirty
  BY DEF DataInv
<1>1. ASSUME NEW p \in Procs, begin_op(p) PROVE DataInv'
  <2>1. CASE committing \/ LogFull
    <3>1. pc' = [pc EXCEPT ![p] = "sleeping"] /\ pc[p] \in {"idle", "woken"}
      BY <1>1, <2>1 DEF begin_op, Goto
    <3>2. UNCHANGED <<home, logblk, lh, dirty, tail, cache, held>>
      BY <1>1 DEF begin_op
    <3> QED BY <3>1, <3>2, DataKeptByStep, ZenonT(60) DEF Modifying
  <2>2. CASE ~ (committing \/ LogFull)
    <3>1. pc' = [pc EXCEPT ![p] = "op"] /\ pc[p] \in {"idle", "woken"}
      BY <1>1, <2>2 DEF begin_op, enter_op, Goto
    <3>2. UNCHANGED <<home, logblk, lh, dirty, tail, cache, held>>
      BY <1>1 DEF begin_op
    <3> QED BY <3>1, <3>2, DataKeptByStep, ZenonT(60) DEF Modifying
  <2> QED BY <2>1, <2>2
<1>2. ASSUME NEW p \in Procs, end_op(p) PROVE DataInv'
  <2>1. pc'[p] \in {"idle", "committed", "write_log"} /\ pc[p] = "op"
    BY <1>2, <1>t, <1>u DEF end_op, Goto, GotoAndWakeup
  <2>2. \A q \in Procs : q # p => pc'[q] = pc[q] \/ (pc[q] = "sleeping" /\ pc'[q] = "woken")
    BY <1>2, <1>t, <1>u DEF end_op, Goto, GotoAndWakeup
  <2>3. UNCHANGED <<home, logblk, lh, cache, dirty, held, tail>>
    BY <1>2 DEF end_op
  <2>4. pc'[p] = "committed" => dirty = {}
    <3>1. pc'[p] = "committed" => lh = <<>>
      BY <1>2, <1>t DEF end_op, Goto, GotoAndWakeup
    <3> QED BY <3>1, <1>u DEF DataInv, Range
  <2>5. pc'[p] = "write_log" => tail = 0
    BY <2>1, <1>a DEF HeaderInv
  <2>6. \A c \in Blocks : (Contents(c) = Contents(c)') /\ (Held(c) <=> Held(c)')
    BY <2>3 DEF Contents, Held
  <2>7. \A q \in Procs : pc[q] \notin CommitPCs \cup RecoverPCs
    BY <2>1, <1>a, SMTT(60)
  <2>8. NoLostUpdate'
    <3>1. \A q \in Procs : pc[q] \in Modifying => pc'[q] = pc[q]
      BY <2>1, <2>2 DEF Modifying
    <3>2. NoLostUpdate
      BY DEF DataInv
    <3> QED BY <2>3, <2>6, <3>1, <3>2 DEF NoLostUpdate, Modifying
  <2>9. \A q \in Procs : pc'[q] \in CommitPCs \cup RecoverPCs =>
          q = p /\ pc'[p] \in {"committed", "write_log"}
    BY <2>1, <2>2, <2>7
  <2>10. Range(lh) \subseteq dirty
    BY <2>7 DEF DataInv
  <2>11. \A i \in DOMAIN lh : i \in Nat /\ i > 0
    BY <1>t, <1>u
  <2>12. /\ \A b \in Blocks : b \in dirty' \/ Held(b)' => cache'[b] # NoData
         /\ \A b \in Blocks : b \in dirty' => b \in Range(lh')
         /\ Range(lh') \subseteq dirty'
    BY <2>3, <2>6, <2>10 DEF DataInv
  <2>13. \A q \in Procs :
           /\ pc'[q] # "install" /\ pc'[q] \notin {"write_head", "install", "clear", "recovered"}
           /\ pc'[q] # "recover"
           /\ pc'[q] \in {"clear", "committed"} \cup RecoverPCs => dirty' = {}
    BY <2>3, <2>4, <2>9
  <2>14. \A q \in Procs : pc'[q] = "write_log" =>
           \A i \in DOMAIN lh' : i <= tail' => logblk'[i] = Contents(lh[i])'
    BY <2>3, <2>5, <2>9, <2>11
  <2> QED BY <2>8, <2>12, <2>13, <2>14 DEF DataInv
<1>3. ASSUME NEW p \in Procs, brelse(p) PROVE DataInv'
  <2>1. \E l \in {"idle", "op"} : pc' = [pc EXCEPT ![p] = l]
    BY <1>3, ZenonT(60) DEF brelse, Goto
  <2>2. UNCHANGED <<home, logblk, lh, dirty, tail, cache>> /\ held' = [held EXCEPT ![p] = {}]
    BY <1>3 DEF brelse
  <2>3. pc[p] \notin CommitPCs \cup RecoverPCs \cup Modifying
    BY <1>3 DEF brelse, Modifying
  <2> QED BY <2>1, <2>2, <2>3, DataKeptByStep, ZenonT(60)
<1>4. ASSUME NEW p \in Procs, log_write_check(p) PROVE DataInv'
  <2>1. pc' = [pc EXCEPT ![p] = "checked"] /\ pc[p] = "modified"
    BY <1>4 DEF log_write_check, Goto
  <2>2. UNCHANGED <<home, logblk, lh, dirty, tail, cache, held>>
    BY <1>4 DEF log_write_check
  <2> QED BY <2>1, <2>2, DataKeptByStep, ZenonT(60) DEF Modifying
<1>5. ASSUME NEW p \in Procs, NEW b \in Blocks, bread(p, b) PROVE DataInv'
  <2>1. \A c \in Blocks : Contents(c)' = Contents(c)
    BY <1>5, <1>t, <1>u, LogAssumption DEF bread, Contents
  <2>2. UNCHANGED <<home, logblk, lh, dirty, tail>>
    BY <1>5 DEF bread
  <2>3. pc' = [pc EXCEPT ![p] = IF pc[p] = "op" THEN "read" ELSE "peek"] /\ pc[p] \in {"op", "idle"}
    BY <1>5 DEF bread, Goto
  <2>4. cache' = [cache EXCEPT ![b] = Contents(b)] /\ Contents(b) # NoData
    BY <1>5, <1>t, <1>u, LogAssumption DEF bread, Contents
  <2>5. held' = [held EXCEPT ![p] = {b}]
    BY <1>5 DEF bread
  <2>6. \A c \in Blocks : Held(c)' => Held(c) \/ c = b
    BY <2>5, <1>t DEF Held
  <2>7. \A c \in Blocks : c \in dirty \/ Held(c)' => cache'[c] # NoData
    BY <2>4, <2>6, <1>t, <1>u, SMTT(60) DEF DataInv
  <2> QED BY <2>1, <2>2, <2>3, <2>5, <2>7, DataKept DEF Modifying, TypeOK
<1>6. ASSUME NEW p \in Procs, NEW b \in Blocks, log_write(p, b) PROVE DataInv'
  <2>1. Range(lh') = Range(lh) \cup {b}
    BY <1>6, <1>t, <1>u, LoggedRange, SMTT(60) DEF log_write
  <2>2. \A q \in Procs : pc[q] \notin CommitPCs \cup RecoverPCs
    BY <1>6, <1>a, ZenonT(60) DEF log_write
  <2>3. held[p] = {b}
    BY <1>6 DEF log_write, LockInv, Holding
  <2>4. /\ pc' = [pc EXCEPT ![p] = "logged"] /\ pc[p] = "checked"
        /\ dirty' = dirty \cup {b} /\ UNCHANGED <<home, logblk, cache, held, tail>>
    BY <1>6 DEF log_write, record, Goto
  <2>5. \A q \in Procs : pc'[q] \notin CommitPCs \cup RecoverPCs
    BY <2>2, <2>4, <1>t
  <2>6. NoLostUpdate'
    BY <2>3, <2>4, <1>b, <1>t DEF NoLostUpdate, Contents
  <2>7. \A c \in Blocks : c \in dirty' \/ Held(c)' => cache'[c] # NoData
    BY <2>3, <2>4, <1>b DEF Held
  <2>8. (\A c \in Blocks : c \in dirty' => c \in Range(lh')) /\ Range(lh') \subseteq dirty'
    BY <2>1, <2>2, <2>4, <1>b
  <2> QED BY <2>5, <2>6, <2>7, <2>8 DEF DataInv
<1>7. ASSUME NEW p \in Procs, NEW b \in Blocks, NEW v \in Data, modify(p, b, v)
      PROVE DataInv'
  <2>1. \A q \in Procs : pc[q] \notin CommitPCs \cup RecoverPCs
    BY <1>7, <1>a, ZenonT(60) DEF modify
  <2>2. /\ pc' = [pc EXCEPT ![p] = "modified"] /\ pc[p] = "read" /\ b \in held[p]
        /\ cache' = [cache EXCEPT ![b] = v] /\ UNCHANGED <<home, logblk, lh, dirty, held, tail>>
    BY <1>7 DEF modify, Goto
  <2>3. \A q \in Procs : pc'[q] \notin CommitPCs \cup RecoverPCs
    BY <2>1, <2>2, <1>t
  <2>4. NoLostUpdate'
    BY <2>2, <1>b, <1>t, <1>u DEF NoLostUpdate, Contents
  <2>5. \A c \in Blocks : c \in dirty' \/ Held(c)' => cache'[c] # NoData
    BY <2>2, <1>b, <1>u, LogAssumption DEF Held
  <2>6. (\A c \in Blocks : c \in dirty' => c \in Range(lh')) /\ Range(lh') \subseteq dirty'
    BY <2>1, <2>2, <1>b
  <2> QED BY <2>3, <2>4, <2>5, <2>6 DEF DataInv
<1>8. ASSUME NEW b \in Blocks, bget_recycle(b) PROVE DataInv'
  <2>1. /\ b \notin dirty /\ ~ Held(b) /\ cache' = [cache EXCEPT ![b] = NoData]
        /\ UNCHANGED <<home, logblk, lh, dirty, tail, held, pc>>
    BY <1>8 DEF bget_recycle, Recyclable
  <2>2. Contents(b) = home[b]
    BY <2>1, <1>b DEF NoLostUpdate, Held
  <2>3. \A c \in Blocks : Contents(c)' = Contents(c)
    BY <2>1, <2>2, <1>t, <1>u DEF Contents
  <2>4. \A c \in Blocks : c \in dirty \/ Held(c)' => cache'[c] # NoData
    BY <2>1, <1>b, <1>u DEF Held
  <2> QED BY <2>1, <2>3, <2>4, DataKept
<1>9. ASSUME NEW p \in Procs, crash(p) PROVE DataInv'
  <2>1. /\ pc' = [q \in Procs |-> IF q = p THEN "read_head" ELSE "down"]
        /\ cache' = [b \in Blocks |-> NoData] /\ dirty' = {}
        /\ held' = [q \in Procs |-> {}]
    BY <1>9 DEF crash, Boot
  <2>2. NoLostUpdate'
    BY <2>1 DEF NoLostUpdate, Contents
  <2>3. \A c \in Blocks : ~ Held(c)'
    BY <2>1, SMTT(60) DEF Held
  <2> QED BY <2>1, <2>2, <2>3 DEF DataInv
<1>10. ASSUME NEW p \in Procs, end_commit(p) PROVE DataInv'
  <2>1. /\ pc[p] = "committed"
        /\ pc' = [q \in Procs |-> IF q = p THEN "idle"
                                  ELSE IF pc[q] = "sleeping" THEN "woken" ELSE pc[q]]
    BY <1>10 DEF end_commit, GotoAndWakeup
  <2>2. UNCHANGED <<home, logblk, lh, dirty, tail, cache, held>>
    BY <1>10 DEF end_commit
  <2>3. /\ \A c \in Blocks : Contents(c)' = Contents(c)
        /\ \A c \in Blocks : c \in dirty \/ Held(c)' => cache'[c] # NoData
    BY <2>2, <1>b DEF Contents, Held
  <2>4. /\ \A q \in Procs : pc'[q] # pc[q] =>
             /\ pc[q] \notin (CommitPCs \cup RecoverPCs) \ {"committed"}
             /\ pc'[q] \notin CommitPCs \cup RecoverPCs
        /\ \A q \in Procs : pc[q] \in Modifying => pc'[q] \in Modifying /\ held'[q] = held[q]
    BY <2>1, <2>2 DEF Modifying
  <2> QED BY <2>2, <2>3, <2>4, DataKept
<1>11. CASE UNCHANGED vars
  <2>1. UNCHANGED <<home, logblk, lh, dirty, tail, cache, held, pc>>
    BY <1>11 DEF vars
  <2>2. /\ \A c \in Blocks : Contents(c)' = Contents(c)
        /\ \A c \in Blocks : c \in dirty \/ Held(c)' => cache'[c] # NoData
    BY <2>1, <1>b DEF Contents, Held
  <2> QED BY <2>1, <2>2, DataKept
<1> QED
  BY <1>1, <1>2, <1>3, <1>4, <1>5, <1>6, <1>7, <1>8, <1>9, <1>10, <1>11 DEF SystemCall
=============================================================================
