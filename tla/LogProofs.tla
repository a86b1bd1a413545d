----------------------------- MODULE LogProofs ------------------------------
(***************************************************************************)
(* Proofs about Log for every number of processes, blocks, block contents  *)
(* and every log size that respects SpaceContract.  First the space of the *)
(* log (what begin_op() reserves covers every block that the admitted      *)
(* system calls may still log), then the theorems.                         *)
(***************************************************************************)
EXTENDS LogDataProofs, LogRefines, FiniteSetTheorems

\* Most leaves are left to the default provers; a leaf that takes longer
\* names the prover that finds it and gives it a minute.

\* The processes in a transaction are finitely many, and outstanding counts
\* them.
LEMMA ActiveCount ==
  ASSUME ControlInv
  PROVE  IsFiniteSet(Active) /\ OpsCounted
<1>1. IsFiniteSet(Active)
  BY FS_Subset, LogAssumption DEF Active
<1>2. outstanding \in Nat
  BY <1>1, FS_CardinalityType DEF ControlInv
<1>3. outstanding = 0 => Active = {}
  BY <1>1, FS_EmptySet, ZenonT(60) DEF ControlInv
<1> QED BY <1>1, <1>2, <1>3 DEF Active, OpsCounted

\* Who begins and who ends a system call changes their number by one.
LEMMA ActiveCounting == ASSUME ControlInv PROVE Counting
<1>1. IsFiniteSet(Active)
  BY ActiveCount
<1>2. ASSUME NEW p \in Procs, p \notin Active
      PROVE  Cardinality(Active \cup {p}) = Cardinality(Active) + 1
  BY <1>1, <1>2, FS_AddElement, Zenon
<1>3. ASSUME NEW p \in Active
      PROVE  Cardinality(Active \ {p}) = Cardinality(Active) - 1
  BY <1>1, <1>3, FS_RemoveElement, Zenon
<1>4. Cardinality({}) = 0
  BY FS_EmptySet
<1> QED BY <1>2, <1>3, <1>4 DEF Counting

-----------------------------------------------------------------------------
\* The log blocks still reserved are finitely many.
LEMMA ReserveFinite ==
  IsFiniteSet(Reserve) /\ Cardinality(Reserve) \in Nat
<1>1. IsFiniteSet(Procs \X (1 .. OpBlocks))
  <2>1. IsFiniteSet(1 .. OpBlocks)
    BY FS_Interval, LogAssumption
  <2> QED BY <2>1, FS_Product, LogAssumption
<1>2. Reserve \in SUBSET (Procs \X (1 .. OpBlocks))
  BY DEF Reserve
<1> QED BY <1>1, <1>2, FS_Subset, FS_CardinalityType

\* So the in-memory header fits into the log.
LEMMA SpaceSuffices ==
  ASSUME TypeOK, SpaceInv
  PROVE  HeaderFits
<1>1. Len(lh) \in Nat /\ LOGSIZE \in Nat
  BY LogAssumption DEF TypeOK
<1> QED BY <1>1, ReserveFinite DEF SpaceInv, HeaderFits

\* A step that logs nothing and admits nobody ...
SpaceQuiet ==
  /\ lh' = lh /\ wrote' = wrote /\ ~ panicked'
  /\ \A q \in Procs : pc'[q] \in OpPCs => pc[q] \in OpPCs
  /\ \A q \in Procs : pc'[q] \in Modifying => pc[q] \in Modifying /\ held'[q] = held[q]

\* ... needs no more space.
LEMMA SpaceKept == ASSUME SpaceInv, TypeOK, SpaceQuiet PROVE SpaceInv'
<1>a. lh' = lh /\ wrote' = wrote /\ ~ panicked'
  BY DEF SpaceQuiet
<1>b. \A q \in Procs : pc'[q] \in OpPCs => pc[q] \in OpPCs
  BY DEF SpaceQuiet
<1>c. \A q \in Procs : pc'[q] \in Modifying => pc[q] \in Modifying /\ held'[q] = held[q]
  BY DEF SpaceQuiet
<1>1. Reserve' \subseteq Reserve
  BY <1>a, <1>b DEF Reserve
<1>2. Cardinality(Reserve') <= Cardinality(Reserve) /\ Cardinality(Reserve') \in Nat
  BY <1>1, ReserveFinite, FS_Subset, FS_CardinalityType
<1>3. Len(lh) \in Nat /\ Len(lh) + Cardinality(Reserve) <= LOGSIZE - 2
  BY DEF SpaceInv, TypeOK
<1>4. Len(lh') + Cardinality(Reserve') <= LOGSIZE - 2
  BY <1>2, <1>3, <1>a, ReserveFinite, LogAssumption
<1>5. ASSUME NEW q \in Procs, Charged(q) PROVE Charged(q)'
  BY <1>5, <1>a, <1>c DEF Charged
<1> QED BY <1>4, <1>5, <1>a, <1>b DEF SpaceInv

\* Releasing and reading buffers, the steps of commit() that keep the in-memory
\* header, and the steps of recovery before it is cleared are such steps.
LEMMA SpaceQuietStep ==
  ASSUME NEW p \in Procs, ~ panicked, pc \in [Procs -> PCs], held \in [Procs -> SUBSET Blocks],
         \/ begin_op(p) /\ (committing \/ LogFull)
         \/ log_write_check(p) /\ ~ panicked'
         \/ brelse(p) \/ (\E b \in Blocks : bread(p, b)) \/ write_log(p) \/ write_head(p)
         \/ end_commit(p) \/ install_trans(p, "install", "clear")
         \/ install_trans(p, "recover", "recovered")
  PROVE  SpaceQuiet
<1>1. CASE begin_op(p) /\ (committing \/ LogFull)
  BY <1>1 DEF begin_op, Goto, SpaceQuiet, OpPCs, Modifying
<1>2. CASE log_write_check(p) /\ ~ panicked'
  BY <1>2 DEF log_write_check, Goto, SpaceQuiet, OpPCs, Modifying
<1>3. CASE brelse(p)
  BY <1>3 DEF brelse, Goto, SpaceQuiet, OpPCs, Modifying
<1>4. ASSUME NEW b \in Blocks, bread(p, b) PROVE SpaceQuiet
  BY <1>4 DEF bread, Goto, SpaceQuiet, OpPCs, Modifying
<1>5. CASE write_log(p)
  BY <1>5 DEF write_log, NextTail, Goto, SpaceQuiet, OpPCs, Modifying
<1>6. CASE write_head(p)
  BY <1>6 DEF write_head, Goto, SpaceQuiet, OpPCs, Modifying
<1>7. CASE end_commit(p)
  BY <1>7 DEF end_commit, GotoAndWakeup, SpaceQuiet, OpPCs, Modifying
<1>8. ASSUME NEW from, NEW next \in {"clear", "recovered"}, install_trans(p, from, next)
      PROVE  SpaceQuiet
  BY <1>8 DEF install_trans, NextTail, Goto, SpaceQuiet, OpPCs, Modifying
<1> QED BY <1>1, <1>2, <1>3, <1>4, <1>5, <1>6, <1>7, <1>8

\* With nobody in a transaction nothing is reserved.
LEMMA SpaceNoActive ==
  ASSUME \A q \in Procs : IsFiniteSet(wrote'[q]), ~ panicked', Len(lh') \in Nat,
         \A q \in Procs : pc'[q] \notin OpPCs, Len(lh') <= LOGSIZE - 2
  PROVE  SpaceInv'
<1>1. Reserve' = {}
  BY DEF Reserve
<1>2. Cardinality(Reserve') = 0
  BY <1>1, FS_EmptySet
<1> QED BY <1>2, LogAssumption DEF SpaceInv

\* The arithmetic of an admission: blocks for a processes that may not use
\* their whole reservation.
LEMMA Headroom ==
  ASSUME NEW a \in Nat, NEW b \in Nat, NEW c \in Nat, b < c
  PROVE  a * b <= a * c - a
<1> DEFINE d == c - b - 1
<1>1. d \in Nat /\ c = b + d + 1
  OBVIOUS
<1> HIDE DEF d
<1>2. a * c = a * b + a * d + a
  BY <1>1
<1>3. a * d >= 0 /\ a * b \in Nat /\ a * d \in Nat
  BY <1>1
<1> QED BY <1>1, <1>2, <1>3

\* A reservation has as many blocks as its bound says.
LEMMA IntervalSize ==
  ASSUME NEW n \in Nat
  PROVE  IsFiniteSet(1 .. n) /\ Cardinality(1 .. n) = n
BY FS_Interval

\* begin_op() admits a system call only if the log holds what all admitted calls
\* may still write.
LEMMA SpaceAdmit ==
  ASSUME SpaceContract, NEW p \in Procs, begin_op(p), ~ (committing \/ LogFull), SpaceInv,
         outstanding \in Nat, Len(lh) \in Nat, outstanding = 0 => lh = <<>>,
         pc \in [Procs -> PCs], wrote \in [Procs -> SUBSET Blocks],
         IsFiniteSet(Active'), Cardinality(Active') = outstanding'
  PROVE  SpaceInv'
<1>1. /\ pc' = [pc EXCEPT ![p] = "op"] /\ pc[p] \in {"idle", "woken"}
      /\ wrote' = [wrote EXCEPT ![p] = {}] /\ lh' = lh /\ held' = held
      /\ outstanding' = outstanding + 1 /\ ~ panicked'
  BY DEF begin_op, enter_op, Goto, SpaceInv
<1>2. Cardinality(Reserve') <= outstanding' * OpBlocks /\ Cardinality(Reserve') \in Nat
  <2>1. IsFiniteSet(1 .. OpBlocks) /\ Cardinality(1 .. OpBlocks) = OpBlocks
    BY IntervalSize, LogAssumption
  <2>2. /\ IsFiniteSet(Active' \X (1 .. OpBlocks))
        /\ Cardinality(Active' \X (1 .. OpBlocks)) = outstanding' * OpBlocks
    BY <2>1, FS_Product, ZenonT(60)
  <2>3. Reserve' \in SUBSET (Active' \X (1 .. OpBlocks))
    BY DEF Reserve, Active
  <2> QED BY <2>2, <2>3, FS_Subset, FS_CardinalityType
<1>3. Len(lh) + (outstanding + 1) * MAXOPBLOCKS <= LOGSIZE
  BY LogAssumption DEF LogFull
<1>4. (outstanding + 1) * OpBlocks <= (outstanding + 1) * MAXOPBLOCKS - (outstanding + 1)
  <2> DEFINE n == outstanding + 1
  <2>1. n \in Nat /\ OpBlocks \in Nat /\ MAXOPBLOCKS \in Nat
    BY LogAssumption
  <2>2. OpBlocks < MAXOPBLOCKS
    BY DEF SpaceContract
  <2> HIDE DEF n
  <2>3. n * OpBlocks <= n * MAXOPBLOCKS - n
    BY <2>1, <2>2, Headroom
  <2> QED BY <2>3 DEF n
<1>5. Cardinality(Reserve') \in Nat
  BY <1>2
<1>6. Len(lh') + Cardinality(Reserve') <= LOGSIZE - 2
  <2>1. CASE outstanding = 0
    <3>1. Cardinality(Reserve') <= OpBlocks
      BY <2>1, <1>1, <1>2, LogAssumption
    <3>2. Len(lh') = 0
      BY <2>1, <1>1
    <3> QED BY <3>1, <3>2, <1>5, LogAssumption DEF SpaceContract
  <2>2. CASE outstanding > 0
    <3> DEFINE x == (outstanding + 1) * OpBlocks
               y == (outstanding + 1) * MAXOPBLOCKS
    <3>1. x \in Nat /\ y \in Nat /\ outstanding \in Nat
      BY LogAssumption
    <3>2. Cardinality(Reserve') <= x /\ x <= y - (outstanding + 1) /\ Len(lh) + y <= LOGSIZE
      BY <1>1, <1>2, <1>3, <1>4
    <3> HIDE DEF x, y
    <3> QED BY <3>1, <3>2, <2>2, <1>1, <1>5, LogAssumption DEF SpaceContract
  <2> QED BY <2>1, <2>2
<1>7. IsFiniteSet({}) /\ Cardinality({}) = 0
  BY FS_EmptySet
<1>8. /\ IsFiniteSet(wrote'[p]) /\ Cardinality(wrote'[p]) = 0 /\ wrote'[p] = {}
      /\ pc'[p] = "op"
  BY <1>1, <1>7
<1>9. \A q \in Procs : q # p => wrote'[q] = wrote[q] /\ pc'[q] = pc[q]
  BY <1>1
<1>10. \A q \in Procs : IsFiniteSet(wrote'[q])
  BY <1>8, <1>9, ZenonT(60) DEF SpaceInv
<1>11. ASSUME NEW q \in Procs, pc'[q] \in OpPCs
       PROVE  Charged(q)'
  <2>1. CASE q = p
    BY <2>1, <1>8, LogAssumption DEF Charged, Modifying
  <2>2. CASE q # p
    <3>1. Charged(q)
      BY <2>2, <1>9, <1>11 DEF SpaceInv
    <3>2. wrote'[q] = wrote[q] /\ pc'[q] = pc[q] /\ lh' = lh /\ held' = held
      BY <2>2, <1>1, <1>9
    <3> QED BY <3>1, <3>2, Zenon DEF Charged
  <2> QED BY <2>1, <2>2
<1> QED BY <1>1, <1>6, <1>10, <1>11 DEF SpaceInv

\* log_write() uses one block of the reservation of its system call, or none if
\* the call has logged the block before.
LEMMA SpaceLogged ==
  ASSUME NEW p \in Procs, NEW b \in Blocks, log_write(p, b), SpaceInv, TypeOK,
         Range(lh') = Range(lh) \cup {b}, Len(lh') <= Len(lh) + 1, Len(lh') \in Nat
  PROVE  SpaceInv'
<1>1. /\ pc' = [pc EXCEPT ![p] = "logged"] /\ pc[p] = "checked" /\ b \in held[p]
      /\ lh' = (IF b \in Range(lh) THEN lh ELSE Append(lh, b)) /\ held' = held
      /\ wrote' = [wrote EXCEPT ![p] = wrote[p] \cup {b}] /\ ~ panicked'
  BY DEF log_write, record, Goto, SpaceInv
<1>2. /\ pc \in [Procs -> PCs] /\ wrote \in [Procs -> SUBSET Blocks] /\ Len(lh) \in Nat
      /\ held \in [Procs -> SUBSET Blocks]
  BY DEF TypeOK
<1>3. /\ pc[p] \in OpPCs /\ pc[p] \in Modifying /\ pc'[p] \in OpPCs /\ pc'[p] \notin Modifying
      /\ \A q \in Procs : q # p => pc'[q] = pc[q] /\ wrote'[q] = wrote[q]
      /\ wrote'[p] = wrote[p] \cup {b}
  BY <1>1, <1>2 DEF OpPCs, Modifying
<1>4. /\ IsFiniteSet(wrote[p]) /\ Cardinality(wrote[p] \cup {b}) <= OpBlocks
      /\ wrote[p] \subseteq Range(lh)
  BY <1>1, <1>3, ZenonT(60) DEF SpaceInv, Charged
<1>5. CASE b \in wrote[p]
  <2>1. wrote[p] \cup {b} = wrote[p] /\ b \in Range(lh)
    BY <1>4, <1>5
  <2>2. wrote' = wrote /\ lh' = lh
    BY <1>1, <1>2, <2>1
  <2>3. /\ \A q \in Procs : pc'[q] \in OpPCs => pc[q] \in OpPCs
        /\ \A q \in Procs : pc'[q] \in Modifying => pc[q] \in Modifying /\ held'[q] = held[q]
    BY <1>1, <1>3
  <2>4. SpaceQuiet
    BY <2>2, <2>3, <1>1 DEF SpaceQuiet
  <2> QED BY <2>4, SpaceKept
<1>6. CASE b \notin wrote[p]
  <2> DEFINE k == Cardinality(wrote[p])
             s == <<p, OpBlocks - k>>
  <2>k. /\ IsFiniteSet(wrote[p] \cup {b}) /\ Cardinality(wrote[p] \cup {b}) = k + 1
        /\ k \in Nat
    <3> HIDE DEF k
    <3>1. Cardinality(wrote[p]) \in Nat
      BY <1>4, FS_CardinalityType
    <3>2. /\ IsFiniteSet(wrote[p] \cup {b})
          /\ Cardinality(wrote[p] \cup {b}) = Cardinality(wrote[p]) + 1
      BY <1>4, <1>6, FS_AddElement, Zenon
    <3> QED BY <3>1, <3>2 DEF k
  <2>1. k \in Nat /\ k + 1 <= OpBlocks
    BY <1>4, <2>k
  <2>2. IsFiniteSet(wrote'[p]) /\ Cardinality(wrote'[p]) = k + 1
    BY <1>3, <2>k
  <2>3. s \in Reserve /\ Reserve' \subseteq Reserve \ {s}
    <3> HIDE DEF k
    <3>1. s \in Procs \X (1 .. OpBlocks)
      BY <2>1, LogAssumption
    <3>2. s \in Reserve
      BY <3>1, <1>3, <2>1, LogAssumption DEF Reserve, k
    <3>3. ASSUME NEW t \in Reserve' PROVE t \in Reserve /\ t # s
      <4>1. /\ t \in Procs \X (1 .. OpBlocks)
            /\ pc'[t[1]] \in OpPCs /\ t[2] + Cardinality(wrote'[t[1]]) <= OpBlocks
        BY <3>3 DEF Reserve
      <4>2. CASE t[1] = p
        BY <4>1, <4>2, <2>1, <2>2, <1>3, LogAssumption DEF Reserve, k
      <4>3. CASE t[1] # p
        BY <4>1, <4>3, <1>3 DEF Reserve
      <4> QED BY <4>2, <4>3
    <3> QED BY <3>2, <3>3
  <2>4. Cardinality(Reserve') <= Cardinality(Reserve) - 1 /\ Cardinality(Reserve') \in Nat
    BY <2>3, ReserveFinite, FS_RemoveElement, FS_Subset, FS_CardinalityType
  <2>5. Len(lh) + Cardinality(Reserve) <= LOGSIZE - 2
    BY DEF SpaceInv
  <2>6. Len(lh') + Cardinality(Reserve') <= LOGSIZE - 2
    BY <2>4, <2>5, <1>2, ReserveFinite, LogAssumption
  <2>7. ASSUME NEW q \in Procs, pc'[q] \in OpPCs
        PROVE  Charged(q)'
    <3>1. CASE q = p
      BY <3>1, <2>1, <2>2, <1>3, <1>4 DEF Charged
    <3>2. CASE q # p
      <4>1. Charged(q)
        BY <3>2, <2>7, <1>3 DEF SpaceInv
      <4>2. /\ wrote'[q] = wrote[q] /\ pc'[q] = pc[q] /\ held' = held
            /\ Range(lh) \subseteq Range(lh')
        BY <3>2, <1>1, <1>3
      <4> QED BY <4>1, <4>2 DEF Charged
    <3> QED BY <3>1, <3>2
  <2>8. \A q \in Procs : IsFiniteSet(wrote'[q])
    BY <2>2, <1>3, Zenon DEF SpaceInv
  <2> QED BY <2>6, <2>7, <2>8, <1>1, ZenonT(60) DEF SpaceInv
<1> QED BY <1>5, <1>6

\* The reservations cover what the admitted system calls still write.
LEMMA SpaceStep ==
  ASSUME LogInvariant, SpaceContract, OpsCounted, TypeOK', ControlInv', [Next]_vars
  PROVE  SpaceInv'
<1>i. TypeOK /\ ControlInv /\ LockInv /\ HeaderInv /\ SpaceInv
  BY DEF LogInvariant
<1>a. outstanding = 0 => \A q \in Procs : pc[q] \notin OpPCs
  BY DEF OpsCounted
<1>t. pc \in [Procs -> PCs] /\ held \in [Procs -> SUBSET Blocks] /\ wrote \in [Procs -> SUBSET Blocks]
  BY <1>i DEF TypeOK
<1>s. ~ panicked /\ \A q \in Procs : IsFiniteSet(wrote[q])
  BY <1>i DEF SpaceInv
<1>q. ASSUME NEW p \in Procs,
             \/ begin_op(p) /\ (committing \/ LogFull)
             \/ log_write_check(p) /\ ~ panicked'
             \/ brelse(p) \/ (\E b \in Blocks : bread(p, b)) \/ write_log(p) \/ write_head(p)
             \/ end_commit(p) \/ install_trans(p, "install", "clear")
             \/ install_trans(p, "recover", "recovered")
      PROVE  SpaceInv'
  BY <1>i, <1>q, <1>t, <1>s, SpaceQuietStep, SpaceKept
<1>b. Len(lh) \in Nat /\ Len(head) \in Nat /\ Len(<<>>) = 0 /\ 0 <= LOGSIZE - 2
  BY <1>i, LogAssumption DEF TypeOK, SpaceContract
<1>1. ASSUME NEW p \in Procs, begin_op(p) PROVE SpaceInv'
  <2>1. CASE committing \/ LogFull
    BY <1>1, <2>1, <1>q
  <2>2. CASE ~ (committing \/ LogFull)
    <3>1. outstanding = 0 => lh = <<>>
      BY <1>1, <2>2, EmptyHeader DEF begin_op
    <3>2. IsFiniteSet(Active') /\ Cardinality(Active') = outstanding'
      BY FS_Subset, LogAssumption DEF ControlInv, Active
    <3>3. outstanding \in Nat
      BY <1>i DEF TypeOK
    <3> QED BY <1>i, <1>1, <1>b, <1>t, <2>2, <3>1, <3>2, <3>3, SpaceAdmit
  <2> QED BY <2>1, <2>2
<1>2. ASSUME NEW p \in Procs, end_op(p) PROVE SpaceInv'
  <2>1. ~ panicked'
    BY <1>2, <1>i, <1>s DEF OpsCounted, end_op, ControlInv
  <2>2. /\ pc[p] = "op" /\ UNCHANGED <<lh, wrote, held>>
        /\ \/ \E l \in {"committed", "write_log"} : pc' = [pc EXCEPT ![p] = l]
           \/ pc' = [q \in Procs |-> IF q = p THEN "idle"
                                      ELSE IF pc[q] = "sleeping" THEN "woken" ELSE pc[q]]
    BY <1>2 DEF end_op, Goto, GotoAndWakeup
  <2>3. /\ \A q \in Procs : pc'[q] \in OpPCs => pc[q] \in OpPCs
        /\ \A q \in Procs : pc'[q] \in Modifying => pc[q] \in Modifying /\ held'[q] = held[q]
    BY <2>2, <1>t DEF OpPCs, Modifying
  <2>4. SpaceQuiet
    BY <2>1, <2>2, <2>3 DEF SpaceQuiet
  <2> QED BY <1>i, <2>4, SpaceKept
<1>3. ASSUME NEW p \in Procs, log_write_check(p) PROVE SpaceInv'
  <2>1. outstanding > 0 /\ outstanding \in Nat
    BY <1>3, <1>i DEF OpsCounted, log_write_check, OpPCs, TypeOK
  <2>2. Len(lh) <= LOGSIZE - 2 /\ Len(lh) < LOGSIZE
    BY <1>b, <1>i, ReserveFinite, LogAssumption DEF SpaceInv, SpaceContract
  <2>3. ~ panicked'
    <3>1. ~ (Len(lh) >= LOGSIZE \/ Len(lh) >= NLOG - 1 \/ outstanding < 1)
      BY <1>b, <2>1, <2>2, LogAssumption DEF SpaceContract
    <3> QED BY <3>1, <1>3, <1>s, ZenonT(60) DEF log_write_check
  <2> QED BY <1>3, <2>3, <1>q
<1>4. ASSUME NEW p \in Procs, NEW b \in Blocks, log_write(p, b) PROVE SpaceInv'
  <2>1. Range(lh') = Range(lh) \cup {b}
    BY <1>4, <1>i, LoggedRange DEF log_write, TypeOK
  <2>2. Len(lh') <= Len(lh) + 1 /\ Len(lh') \in Nat
    BY <1>4, <1>b, <1>i DEF log_write, record, TypeOK
  <2> QED BY <1>4, <1>i, <2>1, <2>2, SpaceLogged
<1>5. ASSUME NEW p \in Procs, NEW b \in Blocks, NEW v \in Data, modify(p, b, v)
      PROVE SpaceInv'
  <2>1. /\ pc' = [pc EXCEPT ![p] = "modified"] /\ pc[p] = "read" /\ b \in held[p]
        /\ lh' = lh /\ held' = held /\ wrote' = wrote /\ ~ panicked'
        /\ Cardinality(wrote[p] \cup {b}) <= OpBlocks
    BY <1>5, <1>s DEF modify, Goto
  <2>2. held[p] = {b}
    BY <1>i, <2>1 DEF LockInv, Holding
  <2>3. Reserve' = Reserve
    BY <2>1, <1>t DEF Reserve, OpPCs
  <2>4. \A q \in Procs : pc'[q] \in OpPCs <=> pc[q] \in OpPCs
    BY <2>1, <1>t DEF OpPCs
  <2>5. \A q \in Procs : q # p => pc'[q] = pc[q]
    BY <2>1, <1>t
  <2>6. ASSUME NEW q \in Procs, Charged(q) PROVE Charged(q)'
    <3>1. CASE q = p
      BY <3>1, <2>1, <2>2, <2>6 DEF Charged
    <3>2. CASE q # p
      BY <3>2, <2>1, <2>5, <2>6 DEF Charged
    <3> QED BY <3>1, <3>2
  <2> QED BY <1>i, <2>1, <2>3, <2>4, <2>6 DEF SpaceInv
<1>6. ASSUME NEW p \in Procs, commit_clear(p) PROVE SpaceInv'
  <2>1. \A q \in Procs : pc'[q] \notin OpPCs
    BY <1>6, <1>a, <1>i, <1>t, SMTT(60) DEF commit_clear, Goto, ControlInv, CommitPCs, OpPCs
  <2>2. ~ panicked' /\ wrote' = wrote /\ lh' = <<>>
    BY <1>6, <1>s DEF commit_clear, clear_head
  <2> QED BY <2>1, <2>2, <1>b, <1>s, SpaceNoActive
<1>7. ASSUME NEW p \in Procs, read_head(p) PROVE SpaceInv'
  <2>1. \A q \in Procs : pc'[q] \notin OpPCs
    BY <1>7, <1>i, <1>t DEF read_head, Goto, ControlInv, RecoverPCs, OpPCs
  <2>2. ~ panicked' /\ wrote' = wrote /\ lh' = head
    BY <1>7, <1>s DEF read_head
  <2>3. Len(head) <= LOGSIZE - 2
    BY <1>b, <1>i DEF HeaderInv
  <2> QED BY <2>1, <2>2, <2>3, <1>b, <1>s, SpaceNoActive
<1>8. ASSUME NEW p \in Procs, recover_clear(p) PROVE SpaceInv'
  <2>1. \A q \in Procs : pc'[q] \notin OpPCs
    BY <1>8 DEF recover_clear, OpPCs
  <2>2. ~ panicked' /\ wrote' = wrote /\ lh' = <<>>
    BY <1>8, <1>s DEF recover_clear, clear_head
  <2> QED BY <2>1, <2>2, <1>b, <1>s, SpaceNoActive
<1>9. ASSUME NEW b \in Blocks, bget_recycle(b) PROVE SpaceInv'
  <2>1. SpaceQuiet
    BY <1>9, <1>s DEF bget_recycle, SpaceQuiet
  <2> QED BY <1>i, <2>1, SpaceKept
<1>10. ASSUME NEW p \in Procs, crash(p) PROVE SpaceInv'
  <2>1. /\ \A q \in Procs : pc'[q] \notin OpPCs
        /\ \A q \in Procs : IsFiniteSet(wrote'[q])
    BY <1>10, FS_EmptySet DEF crash, Boot, OpPCs
  <2>2. ~ panicked' /\ lh' = <<>>
    BY <1>10 DEF crash, Boot
  <2> QED BY <2>1, <2>2, <1>b, SpaceNoActive
<1>11. CASE UNCHANGED vars
  <2>1. SpaceQuiet
    BY <1>11, <1>s DEF vars, SpaceQuiet
  <2> QED BY <1>i, <2>1, SpaceKept
<1> QED
  BY Zenon, <1>q, <1>1, <1>2, <1>3, <1>4, <1>5, <1>6, <1>7, <1>8, <1>9, <1>10, <1>11
  DEF Next, Run, SystemCall, commit, recover_from_log

-----------------------------------------------------------------------------
\* The buffers and the log blocks, whatever step is taken.
LEMMA DataStep ==
  ASSUME LogInvariant, SpaceContract, OpsCounted, TypeOK', [Next]_vars
  PROVE  DataInv'
BY DataSystemCall, DataCommit, Zenon DEF Next, Run

\* The initial states satisfy the invariant.
LEMMA InvariantInit ==
  ASSUME SpaceContract, Init
  PROVE  LogInvariant
<1> USE DEF PCs, OpPCs, CommitPCs, RecoverPCs
<1>1. PICK p \in Procs : pc = [q \in Procs |-> IF q = p THEN "read_head" ELSE "down"]
  BY DEF Init
<1>2. TypeOK
  <2>1. logblk \in [1 .. NLOG - 1 -> Data] /\ cache \in [Blocks -> Data \cup {NoData}]
    BY LogAssumption DEF Init, NoLog
  <2>2. head \in Seq(Blocks) /\ lh \in Seq(Blocks) /\ outstanding \in Nat /\ tail \in Nat
    BY DEF Init
  <2>3. pc \in [Procs -> PCs]
    BY <1>1
  <2> QED BY <2>1, <2>2, <2>3, ZenonT(60) DEF Init, TypeOK
<1>3. \A q \in Procs : pc[q] \in {"read_head", "down"} /\ (q # p => pc[q] = "down")
  BY <1>1
<1>4. Active = {} /\ Cardinality(Active) = 0
  BY <1>3, FS_EmptySet DEF Active
<1>5. ControlInv
  BY <1>3, <1>4 DEF Init, ControlInv
<1>6. LockInv
  BY <1>3 DEF Init, LockInv, Holding
<1>7. Len(<<>>) = 0 /\ 0 <= LOGSIZE - 2
  BY LogAssumption DEF SpaceContract
<1>8. HeaderInv
  BY <1>1, <1>3, <1>7 DEF Init, HeaderInv, Recovering
<1>9. DataInv
  BY <1>1, <1>3 DEF Init, DataInv, NoLostUpdate, Contents, Held
<1>10. SpaceInv
  <2>1. Reserve = {} /\ Cardinality(Reserve) = 0
    BY <1>3, FS_EmptySet DEF Reserve
  <2> QED BY <2>1, <1>3, <1>7, FS_EmptySet DEF Init, SpaceInv
<1> QED BY <1>2, <1>5, <1>6, <1>8, <1>9, <1>10 DEF LogInvariant

\* The invariant of the log holds in every reachable state: whatever the
\* number of processes and blocks, and whenever the power fails.
THEOREM LogInvariantHolds ==
  ASSUME SpaceContract
  PROVE  Spec => []LogInvariant
<1>1. Init => LogInvariant
  BY InvariantInit
<1>2. LogInvariant /\ [Next]_vars => LogInvariant'
  <2> SUFFICES ASSUME LogInvariant, [Next]_vars PROVE LogInvariant'
    OBVIOUS
  <2>1. OpsCounted
    BY ActiveCount DEF LogInvariant
  <2>c. Counting
    BY ActiveCounting DEF LogInvariant
  <2>2. TypeOK' /\ ControlInv' /\ LockInv'
    BY <2>1, <2>c, TypeStep, ControlStep, LockStep
  <2>3. SpaceInv'
    BY <2>1, <2>2, SpaceStep
  <2>4. HeaderFits'
    BY <2>2, <2>3, SpaceSuffices, PTL
  <2>5. HeaderInv'
    BY <2>1, <2>2, <2>4, HeaderStep
  <2>6. DataInv'
    BY <2>1, <2>2, <2>5, DataStep
  <2> QED BY <2>2, <2>3, <2>5, <2>6 DEF LogInvariant
<1> QED BY <1>1, <1>2, PTL DEF Spec

\* Every variable of the log has its type in every reachable state.
THEOREM LogTypeCorrect ==
  ASSUME SpaceContract
  PROVE  Spec => []TypeOK
<1>1. LogInvariant => TypeOK
  BY DEF LogInvariant
<1> QED BY <1>1, LogInvariantHolds, PTL

\* begin_op() admits a system call only if the log has room for everything the
\* admitted calls may still write: no panic of log.c is reachable.
THEOREM LogNeverPanics ==
  ASSUME SpaceContract
  PROVE  Spec => []NoPanic
<1>1. LogInvariant => NoPanic
  BY DEF LogInvariant, SpaceInv, NoPanic
<1> QED BY <1>1, LogInvariantHolds, PTL

\* A modified buffer stays pinned or locked until its block is installed.
THEOREM LogLosesNoUpdate ==
  ASSUME SpaceContract
  PROVE  Spec => []NoLostUpdate
<1>1. LogInvariant => NoLostUpdate
  BY DEF LogInvariant, DataInv
<1> QED BY <1>1, LogInvariantHolds, PTL

\* When commit() is done the group is at its home locations.
THEOREM LogCommitInstalls ==
  ASSUME SpaceContract
  PROVE  Spec => []CommitInstallsAll
<1>1. LogInvariant => CommitInstallsAll
  <2> SUFFICES ASSUME LogInvariant, NEW p \in Procs, pc[p] = "committed"
               PROVE  dirty = {} /\ \A b \in Blocks : Contents(b) = home[b]
    BY DEF CommitInstallsAll
  <2>1. dirty = {}
    BY DEF LogInvariant, DataInv
  <2>2. \A q \in Procs : pc[q] \notin OpPCs
    BY ActiveCount DEF OpsCounted, LogInvariant, ControlInv, CommitPCs
  <2> QED BY <2>1, <2>2 DEF LogInvariant, DataInv, NoLostUpdate, OpPCs
<1> QED BY <1>1, LogInvariantHolds, PTL

\* A sleeper in begin_op() has an admitted call or a commit to wake it.
THEOREM LogSleepersHaveWaker ==
  ASSUME SpaceContract
  PROVE  Spec => []SleepersHaveWaker
<1>1. LogInvariant => SleepersHaveWaker
  BY DEF LogInvariant, TypeOK, ControlInv, HeaderInv, Recovering, SleepersHaveWaker
<1> QED BY <1>1, LogInvariantHolds, PTL

\* log.c implements the atomic disk: system calls are atomic and durable as a
\* group, with respect to crashes at any moment.
THEOREM LogImplementsAtomicDisk ==
  ASSUME SpaceContract
  PROVE  Spec => ImplementsAtomicDisk
<1>1. Init => AD!AInit
  <2> SUFFICES ASSUME Init PROVE AD!AInit
    OBVIOUS
  <2>1. LogInvariant
    BY InvariantInit
  <2>2. Recovering /\ Active = {}
    BY LogAssumption DEF Init, Recovering, Active, RecoverPCs, OpPCs
  <2>3. Durable \in [Blocks -> Data]
    BY <2>1, DurableValue DEF LogInvariant
  <2> QED BY <2>2, <2>3 DEF AD!AInit, Current
<1>2. LogInvariant /\ LogInvariant' /\ [Next]_vars => [AD!ANext]_(AD!avars)
  BY RefinementStep, ActiveCount DEF LogInvariant
<1> QED BY <1>1, <1>2, LogInvariantHolds, PTL DEF Spec, ImplementsAtomicDisk, AD!ASpec

\* Only install_trans() writes home locations, and only blocks the header on
\* the disk names.
THEOREM LogWritesAhead ==
  ASSUME SpaceContract
  PROVE  Spec => WriteAhead
<1>1. LogInvariant /\ [Next]_vars =>
        [\A b \in Blocks : home'[b] # home[b] =>
           \E i \in DOMAIN head : head[i] = b /\ home'[b] = logblk[i]]_vars
  BY WriteAheadStep
<1> QED BY <1>1, LogInvariantHolds, PTL DEF Spec, WriteAhead
=============================================================================
