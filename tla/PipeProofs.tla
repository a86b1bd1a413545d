----------------------------- MODULE PipeProofs -----------------------------
(***************************************************************************)
(* Proofs about Pipe for every number of readers and writers, every size   *)
(* of the ring buffer and every width of the counters that the ring size   *)
(* divides.                                                                *)
(***************************************************************************)
EXTENDS Pipe, TLAPS

(* Arithmetic of the free-running counters. *)

\* A counter below its range is not reduced.
LEMMA ModSmall ==
  ASSUME NEW W \in Nat, NEW x \in Int, 0 <= x, x < W
  PROVE  x % W = x
OBVIOUS

\* A counter that passes its range once is reduced by it.
LEMMA ModOver ==
  ASSUME NEW W \in Nat, NEW x \in Int, W > 0, W <= x, x < 2 * W
  PROVE  x % W = x - W
OBVIOUS

\* A difference of counters below zero wraps to the top of the range.
LEMMA ModBelow ==
  ASSUME NEW W \in Nat, NEW x \in Int, W > 0, -W <= x, x < 0
  PROVE  x % W = x + W
OBVIOUS

\* A remainder lies below its divisor.
LEMMA ModRange ==
  ASSUME NEW W \in Nat, NEW x \in Int, W > 0
  PROVE  x % W \in 0 .. W - 1
OBVIOUS

\* The quotient and the remainder of a number make it up.
LEMMA DivMod ==
  ASSUME NEW P \in Nat, P > 0, NEW x \in Int
  PROVE  x \div P \in Int /\ x = P * (x \div P) + (x % P)
OBVIOUS

\* The quotient and the remainder are unique.
LEMMA ModUnique ==
  ASSUME NEW P \in Nat, P > 0, NEW x \in Int, NEW q \in Int, NEW r \in Int,
         0 <= r, r < P, x = P * q + r
  PROVE  x % P = r
OBVIOUS

\* A counter that wraps points to the same place of the ring: the ring size
\* divides the range of the counters.
LEMMA RingWraps ==
  ASSUME NEW x \in Int
  PROVE  (x + WORD) % PIPESIZE = x % PIPESIZE
<1>1. PIPESIZE \in Nat /\ PIPESIZE > 0 /\ WORD \in Int /\ WORD % PIPESIZE = 0
  BY PipeAssumption
<1> DEFINE q == x \div PIPESIZE
           m == WORD \div PIPESIZE
           r == x % PIPESIZE
<1>2. q \in Int /\ x = PIPESIZE * q + r /\ r \in Int /\ 0 <= r /\ r < PIPESIZE
  BY <1>1, DivMod, ModRange
<1>3. m \in Int /\ WORD = PIPESIZE * m
  BY <1>1, DivMod
<1> HIDE DEF q, m, r
<1>4. x + WORD = PIPESIZE * (q + m) + r
  BY <1>1, <1>2, <1>3
<1>5. (x + WORD) % PIPESIZE = r
  BY <1>1, <1>2, <1>3, <1>4, ModUnique
<1> QED BY <1>5 DEF r

\* Two places of the ring less than its size apart are different.
LEMMA RingDistinct ==
  ASSUME NEW x \in Int, NEW d \in Int, 0 < d, d < PIPESIZE
  PROVE  (x + d) % PIPESIZE # x % PIPESIZE
<1>1. PIPESIZE \in Nat /\ PIPESIZE > 0
  BY PipeAssumption
<1> DEFINE q == x \div PIPESIZE
           r == x % PIPESIZE
<1>2. q \in Int /\ x = PIPESIZE * q + r /\ r \in Int /\ 0 <= r /\ r < PIPESIZE
  BY <1>1, DivMod, ModRange
<1> HIDE DEF q, r
<1>3. CASE r + d < PIPESIZE
  <2>1. x + d = PIPESIZE * q + (r + d)
    BY <1>1, <1>2
  <2>2. (x + d) % PIPESIZE = r + d
    BY <1>1, <1>2, <1>3, <2>1, ModUnique
  <2> QED BY <2>2, <1>2 DEF r
<1>4. CASE r + d >= PIPESIZE
  <2> DEFINE e == r + d - PIPESIZE
             q1 == q + 1
  <2>1. e \in Int /\ 0 <= e /\ e < PIPESIZE /\ q1 \in Int /\ x + d \in Int
    BY <1>1, <1>2, <1>4
  <2>2. x + d = PIPESIZE * q1 + e
    BY <1>1, <1>2
  <2> HIDE DEF e, q1
  <2>3. (x + d) % PIPESIZE = e
    BY <1>1, <2>1, <2>2, ModUnique
  <2> QED BY <2>3, <1>2, <1>1 DEF r, e
<1> QED BY <1>3, <1>4, <1>1, <1>2

\* The counters have their width.
Counters == nread \in 0 .. WORD - 1 /\ nwrite \in 0 .. WORD - 1

\* The unsigned difference counts the bytes in the ring; the tests for an
\* empty and for a full ring read it off, also when a counter has wrapped.
LEMMA CountIs ==
  ASSUME Counters
  PROVE  /\ Count \in 0 .. WORD - 1
         /\ Count = IF nread <= nwrite THEN nwrite - nread ELSE nwrite - nread + WORD
         /\ Empty <=> Count = 0
         /\ Full <=> Count = PIPESIZE
<1>1. WORD \in Nat /\ WORD > PIPESIZE /\ PIPESIZE \in Nat /\ PIPESIZE > 0
  BY PipeAssumption
<1>2. nread \in Int /\ nwrite \in Int /\ 0 <= nread /\ nread < WORD /\ 0 <= nwrite /\ nwrite < WORD
  BY <1>1 DEF Counters
<1>3. CASE nread <= nwrite
  <2>1. (nwrite - nread) % WORD = nwrite - nread
    BY <1>1, <1>2, <1>3, ModSmall
  <2>2. Count = nwrite - nread
    BY <2>1 DEF Count
  <2>3. CASE nread + PIPESIZE < WORD
    <3>1. (nread + PIPESIZE) % WORD = nread + PIPESIZE
      BY <1>1, <1>2, <2>3, ModSmall
    <3> QED BY <3>1, <2>2, <1>1, <1>2, <1>3 DEF Empty, Full
  <2>4. CASE nread + PIPESIZE >= WORD
    <3>1. (nread + PIPESIZE) % WORD = nread + PIPESIZE - WORD
      BY <1>1, <1>2, <2>4, ModOver
    <3> QED BY <3>1, <2>2, <1>1, <1>2, <1>3 DEF Empty, Full
  <2> QED BY <2>3, <2>4, <1>1, <1>2
<1>4. CASE nwrite < nread
  <2>1. (nwrite - nread) % WORD = nwrite - nread + WORD
    BY <1>1, <1>2, <1>4, ModBelow
  <2>2. Count = nwrite - nread + WORD
    BY <2>1 DEF Count
  <2>3. CASE nread + PIPESIZE < WORD
    <3>1. (nread + PIPESIZE) % WORD = nread + PIPESIZE
      BY <1>1, <1>2, <2>3, ModSmall
    <3> QED BY <3>1, <2>2, <1>1, <1>2, <1>4 DEF Empty, Full
  <2>4. CASE nread + PIPESIZE >= WORD
    <3>1. (nread + PIPESIZE) % WORD = nread + PIPESIZE - WORD
      BY <1>1, <1>2, <2>4, ModOver
    <3> QED BY <3>1, <2>2, <1>1, <1>2, <1>4 DEF Empty, Full
  <2> QED BY <2>3, <2>4, <1>1, <1>2
<1> QED BY <1>3, <1>4, <1>2

\* pipewrite() adds one byte to the count, also when nwrite wraps.
LEMMA CountStored ==
  ASSUME Counters, ~ Full, Count <= PIPESIZE, nread' = nread, nwrite' = (nwrite + 1) % WORD
  PROVE  Counters' /\ Count' = Count + 1 /\ Count < PIPESIZE
<1>1. WORD \in Nat /\ WORD > PIPESIZE /\ PIPESIZE \in Nat
  BY PipeAssumption
<1>2. nread \in Int /\ nwrite \in Int /\ 0 <= nread /\ nread < WORD /\ 0 <= nwrite /\ nwrite < WORD
  BY <1>1 DEF Counters
<1>3. nwrite' = IF nwrite + 1 = WORD THEN 0 ELSE nwrite + 1
  <2>1. CASE nwrite + 1 = WORD
    BY <1>1, <1>2, <2>1, ModOver
  <2>2. CASE nwrite + 1 # WORD
    BY <1>1, <1>2, <2>2, ModSmall
  <2> QED BY <2>1, <2>2
<1>4. Counters'
  BY <1>1, <1>2, <1>3 DEF Counters
<1>5. Count' = IF nread' <= nwrite' THEN nwrite' - nread' ELSE nwrite' - nread' + WORD
  <2>1. (Count = IF nread <= nwrite THEN nwrite - nread ELSE nwrite - nread + WORD)'
    BY <1>4, CountIs, PTL
  <2> QED BY <2>1
<1>6. Count < PIPESIZE /\ Count \in Int
  BY <1>1, CountIs
<1> QED BY <1>1, <1>2, <1>3, <1>4, <1>5, <1>6, CountIs

\* piperead() takes one byte away from the count, also when nread wraps.
LEMMA CountTaken ==
  ASSUME Counters, ~ Empty, nwrite' = nwrite, nread' = (nread + 1) % WORD
  PROVE  Counters' /\ Count' = Count - 1 /\ Count > 0
<1>1. WORD \in Nat /\ WORD > PIPESIZE /\ PIPESIZE \in Nat
  BY PipeAssumption
<1>2. nread \in Int /\ nwrite \in Int /\ 0 <= nread /\ nread < WORD /\ 0 <= nwrite /\ nwrite < WORD
  BY <1>1 DEF Counters
<1>3. nread' = IF nread + 1 = WORD THEN 0 ELSE nread + 1
  <2>1. CASE nread + 1 = WORD
    BY <1>1, <1>2, <2>1, ModOver
  <2>2. CASE nread + 1 # WORD
    BY <1>1, <1>2, <2>2, ModSmall
  <2> QED BY <2>1, <2>2
<1>4. Counters'
  BY <1>1, <1>2, <1>3 DEF Counters
<1>5. Count' = IF nread' <= nwrite' THEN nwrite' - nread' ELSE nwrite' - nread' + WORD
  <2>1. (Count = IF nread <= nwrite THEN nwrite - nread ELSE nwrite - nread + WORD)'
    BY <1>4, CountIs, PTL
  <2> QED BY <2>1
<1>6. Count > 0
  BY <1>1, CountIs
<1> QED BY <1>1, <1>2, <1>3, <1>4, <1>5, <1>6, CountIs

-----------------------------------------------------------------------------
(* The inductive invariant. *)

\* Who is inside the loops holds p->lock, and only open ends are used.
LockInv == \A p \in Procs : pc[p] \in {"loop", "copy", "sleep"} <=> lk = p

\* A process inside the pipe has its end open, one that closes it has not.  An
\* end has at most one process before its pipeclose(), and then nobody has the
\* end open.  readopen and writeopen tell whether pipeclose() of the end is still
\* to come.  One process at most is before its kfree(), and both ends are closed
\* then and afterwards.
OpenInv ==
  /\ \A p \in Procs : pc[p] \notin {"user", "close", "kfree"} => p \in open
  /\ \A p \in Procs : pc[p] \in {"close", "kfree"} => p \notin open
  /\ \A p, q \in Readers : pc[p] = "close" => q \notin open /\ (pc[q] = "close" => q = p)
  /\ \A p, q \in Writers : pc[p] = "close" => q \notin open /\ (pc[q] = "close" => q = p)
  /\ readopen <=> \E p \in Readers : p \in open \/ pc[p] = "close"
  /\ writeopen <=> \E p \in Writers : p \in open \/ pc[p] = "close"
  /\ \A p, q \in Procs : pc[p] = "kfree" =>
       ~ readopen /\ ~ writeopen /\ ~ freed /\ (pc[q] = "kfree" => q = p)
  /\ freed => ~ readopen /\ ~ writeopen

\* What a reader has copied, and what it found when it began to copy.
CopyInv ==
  /\ \A p \in Writers : pc[p] # "copy"
  /\ \A p \in Readers : pc[p] # "copy" => addr[p] = <<>>
  /\ \A p \in Readers : pc[p] = "copy" /\ addr[p] = <<>> /\ Empty => ~ writeopen

\* A process on its way into sleep() still has its reason to sleep; a sleeper
\* has it too, or the process that holds p->lock and took the reason away
\* has not come to its wakeup() yet.
SleepInv ==
  /\ \A p \in Writers : pc[p] = "sleep" => Full /\ readopen
  /\ \A p \in Readers : pc[p] = "sleep" => Empty /\ writeopen
  /\ \A p \in Writers : pc[p] = "asleep" =>
       (Full /\ readopen) \/ \E q \in Readers : pc[q] = "copy"
  /\ (\A q \in Writers : ~ killed[q]) =>
       \A p \in Readers : pc[p] = "asleep" =>
         (Empty /\ writeopen) \/ \E q \in Writers : pc[q] = "loop"

PipeInv == TypeOK /\ LockInv /\ OpenInv /\ CopyInv /\ SleepInv

\* A pipe that pipealloc() has just made satisfies the invariant.
LEMMA InvariantInit == Init => PipeInv
<1> SUFFICES ASSUME Init PROVE PipeInv
  OBVIOUS
<1>1. WORD \in Nat /\ WORD > PIPESIZE /\ PIPESIZE \in Nat /\ PIPESIZE > 0 /\ MaxN \in Nat
  BY PipeAssumption
<1>2. PICK r \in Readers, w \in Writers : open = {r, w}
  BY DEF Init
<1>3. TypeOK
  <2>1. data \in [0 .. PIPESIZE - 1 -> Bytes]
    BY PipeAssumption DEF Init, Junk
  <2>2. Counters /\ Count <= PIPESIZE
    <3>1. Counters
      BY <1>1 DEF Init, Counters
    <3> QED BY <3>1, <1>1, CountIs DEF Init
  <2>3. nread \in 0 .. WORD - 1 /\ nwrite \in 0 .. WORD - 1
    BY <2>2 DEF Counters
  <2>4. open \subseteq Procs /\ pc \in [Procs -> PCs] /\ killed \in [Procs -> BOOLEAN]
    BY <1>2 DEF Init, Procs, PCs
  <2>5. left \in [Procs -> 0 .. MaxN] /\ addr \in [Readers -> Seq(Bytes)]
    BY <1>1 DEF Init
  <2> QED BY <2>1, <2>2, <2>3, <2>4, <2>5 DEF Init, TypeOK
<1>4. LockInv /\ CopyInv /\ SleepInv
  BY PipeAssumption DEF Init, LockInv, CopyInv, SleepInv, Procs
<1>5. OpenInv
  BY <1>2 DEF Init, OpenInv, Procs
<1> QED BY <1>3, <1>4, <1>5 DEF PipeInv

\* When both ends are closed nobody uses the pipe, save the process that frees it.
LEMMA Deserted ==
  ASSUME TypeOK, OpenInv, ~ readopen, ~ writeopen
  PROVE  /\ open = {} /\ \A p \in Procs : pc[p] \in {"user", "kfree"}
         /\ freed => \A p \in Procs : pc[p] = "user"
<1>1. open \subseteq Procs /\ Procs = Readers \cup Writers
  BY DEF TypeOK, Procs
<1>2. open = {} /\ \A p \in Procs : pc[p] # "close"
  BY <1>1 DEF OpenInv
<1>3. \A p \in Procs : pc[p] \in {"user", "kfree"}
  BY <1>2 DEF OpenInv
<1> QED BY <1>2, <1>3 DEF OpenInv

\* Every variable keeps its type; the ring never holds more than PIPESIZE bytes.
LEMMA TypeStep ==
  ASSUME TypeOK, [Next]_vars
  PROVE  TypeOK'
<1>1. /\ WORD \in Nat /\ WORD > PIPESIZE /\ PIPESIZE \in Nat /\ PIPESIZE > 0 /\ MaxN \in Nat
      /\ Counters /\ Count \in Int
  BY PipeAssumption, CountIs DEF TypeOK, Counters
<1>2. ASSUME NEW S PROVE Woken(S) \in [Procs -> PCs]
  BY DEF Woken, TypeOK, PCs
<1>3. ASSUME UNCHANGED pipe PROVE Count' = Count
  BY <1>3 DEF pipe, Count
<1>4. ASSUME NEW p \in Procs, sleep(p) \/ acquire(p) PROVE TypeOK'
  BY <1>3, <1>4 DEF sleep, acquire, acquired, Goto, TypeOK, PCs, pipe
<1>5. ASSUME NEW p \in Procs, NEW k \in 1 .. MaxN, call(p, k) PROVE TypeOK'
  BY <1>1, <1>3, <1>5 DEF call, Goto, TypeOK, PCs, pipe
<1>6. ASSUME NEW p \in Procs, NEW b \in Bytes, pipewrite_store(p, b) PROVE TypeOK'
  <2>1. Counters' /\ Count' = Count + 1 /\ Count < PIPESIZE
    BY <1>1, <1>6, CountStored DEF pipewrite_store, TypeOK
  <2>2. left' \in [Procs -> 0 .. MaxN]
    BY <1>1, <1>6 DEF pipewrite_store, TypeOK
  <2>3. data' \in [0 .. PIPESIZE - 1 -> Bytes]
    BY <1>6 DEF pipewrite_store, TypeOK
  <2> QED BY <1>1, <1>6, <2>1, <2>2, <2>3 DEF pipewrite_store, TypeOK, Counters
<1>7. ASSUME NEW p \in Procs, pipewrite_full(p) PROVE TypeOK'
  <2>1. pc' \in [Procs -> PCs]
    <3>1. Woken(Readers) \in [Procs -> PCs]
      BY <1>2
    <3>2. "user" \in PCs /\ "sleep" \in PCs
      BY DEF PCs
    <3> QED BY <1>7, <3>1, <3>2 DEF pipewrite_full, Goto, TypeOK
  <2>2. left' \in [Procs -> 0 .. MaxN] /\ lk' \in Procs \cup {None}
    BY <1>1, <1>7 DEF pipewrite_full, TypeOK
  <2> QED BY <1>3, <1>7, <2>1, <2>2 DEF pipewrite_full, TypeOK, pipe
<1>8. ASSUME NEW p \in Procs, pipewrite_return(p) PROVE TypeOK'
  <2>1. pc' \in [Procs -> PCs]
    BY <1>2, <1>8 DEF pipewrite_return, wakeup_nread, PCs
  <2> QED BY <1>3, <1>8, <2>1 DEF pipewrite_return, TypeOK, pipe
<1>9. ASSUME NEW p \in Procs, piperead_wait(p) PROVE TypeOK'
  <2>1. pc' \in [Procs -> PCs]
    BY <1>9 DEF piperead_wait, Goto, TypeOK, PCs
  <2>2. left' \in [Procs -> 0 .. MaxN] /\ lk' \in Procs \cup {None}
    BY <1>1, <1>9 DEF piperead_wait, TypeOK
  <2> QED BY <1>3, <1>9, <2>1, <2>2 DEF piperead_wait, TypeOK, pipe
<1>10. ASSUME NEW p \in Procs, piperead_copy(p) PROVE TypeOK'
  <2>1. Counters' /\ Count' = Count - 1 /\ Count > 0
    BY <1>1, <1>10, CountTaken DEF piperead_copy
  <2>2. left' \in [Procs -> 0 .. MaxN]
    BY <1>1, <1>10 DEF piperead_copy, TypeOK
  <2>3. data[nread % PIPESIZE] \in Bytes
    BY <1>1, ModRange DEF TypeOK, Counters
  <2>4. addr' \in [Readers -> Seq(Bytes)]
    BY <1>10, <2>3 DEF piperead_copy, TypeOK
  <2> QED BY <1>1, <1>10, <2>1, <2>2, <2>4 DEF piperead_copy, TypeOK, Counters
<1>11. ASSUME NEW p \in Procs, piperead_return(p) PROVE TypeOK'
  <2>1. pc' \in [Procs -> PCs]
    BY <1>2, <1>11 DEF piperead_return, wakeup_nwrite, PCs
  <2>2. left' \in [Procs -> 0 .. MaxN]
    BY <1>1, <1>11 DEF piperead_return, TypeOK
  <2>3. addr' \in [Readers -> Seq(Bytes)]
    <3>1. <<>> \in Seq(Bytes)
      OBVIOUS
    <3> QED BY <1>11, <3>1 DEF piperead_return, TypeOK
  <2> QED BY <1>3, <1>11, <2>1, <2>2, <2>3 DEF piperead_return, TypeOK, pipe
<1>12. ASSUME NEW p \in Procs, close(p) \/ pipeclose(p) \/ kfree(p) PROVE TypeOK'
  <2>1. pc' \in [Procs -> PCs]
    <3>1. CASE close(p) \/ kfree(p)
      BY <3>1 DEF close, kfree, Goto, TypeOK, PCs
    <3>2. CASE pipeclose(p)
      <4>1. PICK l \in PCs, S \in {Readers, Writers} : pc' = [Woken(S) EXCEPT ![p] = l]
        BY <3>2 DEF pipeclose, wake_other_end, PCs
      <4> QED BY <1>2, <4>1
    <3> QED BY <1>12, <3>1, <3>2
  <2>2. readopen' \in BOOLEAN /\ writeopen' \in BOOLEAN /\ freed' \in BOOLEAN
    BY <1>12 DEF close, pipeclose, kfree, TypeOK
  <2>3. open' \subseteq Procs /\ UNCHANGED <<pipe, lk, left, addr, killed>>
    BY <1>12 DEF close, pipeclose, kfree, TypeOK
  <2> QED BY <1>3, <2>1, <2>2, <2>3 DEF TypeOK, pipe
<1>13. ASSUME NEW p \in Procs, kill(p) PROVE TypeOK'
  BY <1>3, <1>13 DEF kill, TypeOK, pipe, PCs
<1>14. ASSUME NEW p \in Procs, NEW q \in Procs, fork(p, q) PROVE TypeOK'
  BY <1>3, <1>14 DEF fork, TypeOK, pipe
<1>15. ASSUME NEW r \in Readers, NEW w \in Writers, pipealloc(r, w) PROVE TypeOK'
  <2>1. Counters' /\ Count' <= PIPESIZE
    <3>1. Counters'
      BY <1>1, <1>15 DEF pipealloc, Counters
    <3>2. (Empty <=> Count = 0)'
      BY <3>1, CountIs, PTL
    <3> QED BY <1>1, <1>15, <3>1, <3>2 DEF pipealloc, Empty
  <2>2. data' \in [0 .. PIPESIZE - 1 -> Bytes]
    BY <1>15, PipeAssumption DEF pipealloc, Junk
  <2>3. open' \subseteq Procs /\ killed' \in [Procs -> BOOLEAN]
    BY <1>15 DEF pipealloc, Procs
  <2> QED BY <1>15, <2>1, <2>2, <2>3 DEF pipealloc, TypeOK, Counters
<1>16. CASE UNCHANGED vars
  BY <1>3, <1>16 DEF vars, TypeOK, pipe
<1> QED
  BY <1>4, <1>5, <1>6, <1>7, <1>8, <1>9, <1>10, <1>11, <1>12, <1>13, <1>14, <1>15, <1>16
  DEF Next, Step

\* p->lock is held by whoever is inside the loops, and by nobody else.
LEMMA LockStep ==
  ASSUME PipeInv, [Next]_vars
  PROVE  LockInv'
<1> USE DEF PCs
<1>1. /\ pc \in [Procs -> PCs] /\ LockInv /\ OpenInv /\ None \notin Procs
      /\ Readers \subseteq Procs /\ Writers \subseteq Procs
  BY PipeAssumption DEF PipeInv, TypeOK, Procs
<1>2. ASSUME NEW p \in Procs, sleep(p) \/ acquire(p) PROVE LockInv'
  BY <1>1, <1>2 DEF sleep, acquire, acquired, Goto, LockInv
<1>3. ASSUME NEW p \in Procs, NEW k \in 1 .. MaxN, call(p, k) PROVE LockInv'
  BY <1>1, <1>3 DEF call, Goto, LockInv
<1>4. ASSUME NEW p \in Procs, NEW b \in Bytes, pipewrite_store(p, b) PROVE LockInv'
  BY <1>1, <1>4 DEF pipewrite_store, LockInv
<1>5. ASSUME NEW p \in Procs, pipewrite_full(p) PROVE LockInv'
  BY <1>1, <1>5 DEF pipewrite_full, Woken, Goto, LockInv
<1>6. ASSUME NEW p \in Procs, pipewrite_return(p) PROVE LockInv'
  BY <1>1, <1>6 DEF pipewrite_return, wakeup_nread, Woken, LockInv
<1>7. ASSUME NEW p \in Procs, piperead_wait(p) PROVE LockInv'
  BY <1>1, <1>7 DEF piperead_wait, Goto, LockInv
<1>8. ASSUME NEW p \in Procs, piperead_copy(p) PROVE LockInv'
  BY <1>1, <1>8 DEF piperead_copy, LockInv
<1>9. ASSUME NEW p \in Procs, piperead_return(p) PROVE LockInv'
  BY <1>1, <1>9 DEF piperead_return, wakeup_nwrite, Woken, LockInv
<1>10. ASSUME NEW p \in Procs, close(p) \/ pipeclose(p) \/ kfree(p) PROVE LockInv'
  BY <1>1, <1>10 DEF close, pipeclose, kfree, wake_other_end, Woken, Goto, LockInv
<1>11. ASSUME NEW p \in Procs, kill(p) PROVE LockInv'
  BY <1>1, <1>11 DEF kill, LockInv
<1>12. ASSUME NEW p \in Procs, NEW q \in Procs, fork(p, q) PROVE LockInv'
  BY <1>1, <1>12 DEF fork, LockInv
<1>13. ASSUME NEW r \in Readers, NEW w \in Writers, pipealloc(r, w) PROVE LockInv'
  <2>1. \A p \in Procs : pc[p] = "user"
    BY <1>13, Deserted DEF pipealloc, PipeInv, OpenInv
  <2> QED BY <1>1, <1>13, <2>1 DEF pipealloc, LockInv
<1>14. CASE UNCHANGED vars
  BY <1>1, <1>14 DEF vars, LockInv
<1> QED
  BY <1>2, <1>3, <1>4, <1>5, <1>6, <1>7, <1>8, <1>9, <1>10, <1>11, <1>12, <1>13, <1>14
  DEF Next, Step

\* The flags of the two ends and kfree() follow the open descriptors.
LEMMA OpenStep ==
  ASSUME PipeInv, [Next]_vars
  PROVE  OpenInv'
<1> USE DEF PCs
<1>1. /\ pc \in [Procs -> PCs] /\ LockInv /\ OpenInv /\ open \subseteq Procs
      /\ Procs = Readers \cup Writers /\ Readers \cap Writers = {}
  BY PipeAssumption DEF PipeInv, TypeOK, Procs
<1>2. ASSUME UNCHANGED <<open, readopen, writeopen, freed>>,
             \A p \in Procs : pc'[p] # pc[p] =>
               /\ pc[p] \notin {"close", "kfree"} /\ pc'[p] \notin {"close", "kfree"}
               /\ p \in open
      PROVE  OpenInv'
  BY <1>1, <1>2 DEF OpenInv
<1>3. ASSUME NEW p \in Procs, sleep(p) \/ acquire(p) PROVE OpenInv'
  BY <1>1, <1>2, <1>3 DEF sleep, acquire, acquired, Goto, OpenInv
<1>4. ASSUME NEW p \in Procs, NEW k \in 1 .. MaxN, call(p, k) PROVE OpenInv'
  BY <1>1, <1>2, <1>4 DEF call, Goto, OpenInv
<1>5. ASSUME NEW p \in Procs, NEW b \in Bytes, pipewrite_store(p, b) PROVE OpenInv'
  BY <1>1, <1>2, <1>5 DEF pipewrite_store, OpenInv
<1>6. ASSUME NEW p \in Procs, pipewrite_full(p) PROVE OpenInv'
  <2>1. pc[p] = "loop" /\ p \in open /\ UNCHANGED <<open, readopen, writeopen, freed>>
    BY <1>1, <1>6 DEF pipewrite_full, OpenInv
  <2>2. \A q \in Procs : pc'[q] # pc[q] =>
          (q = p /\ pc'[q] \in {"user", "sleep"}) \/ (pc[q] = "asleep" /\ pc'[q] = "woken")
    BY <1>1, <1>6 DEF pipewrite_full, Woken, Goto
  <2> QED BY <1>1, <1>2, <2>1, <2>2 DEF OpenInv
<1>7. ASSUME NEW p \in Procs, pipewrite_return(p) PROVE OpenInv'
  BY <1>1, <1>2, <1>7 DEF pipewrite_return, wakeup_nread, Woken, OpenInv
<1>8. ASSUME NEW p \in Procs, piperead_wait(p) PROVE OpenInv'
  BY <1>1, <1>2, <1>8 DEF piperead_wait, Goto, OpenInv
<1>9. ASSUME NEW p \in Procs, piperead_copy(p) PROVE OpenInv'
  BY <1>1, <1>2, <1>9 DEF piperead_copy, OpenInv
<1>10. ASSUME NEW p \in Procs, piperead_return(p) PROVE OpenInv'
  BY <1>1, <1>2, <1>10 DEF piperead_return, wakeup_nwrite, Woken, OpenInv
<1>11. ASSUME NEW p \in Procs, close(p) PROVE OpenInv'
  <2>1. /\ pc[p] = "user" /\ p \in open /\ open' = open \ {p}
        /\ UNCHANGED <<readopen, writeopen, freed>>
        /\ \A q \in Procs \ {p} : pc'[q] = pc[q]
    BY <1>1, <1>11 DEF close, Goto
  <2>2. CASE open \cap SameEnd(p) = {}
    <3>1. pc'[p] = "close"
      BY <1>1, <1>11, <2>2 DEF close, Goto
    <3>2. CASE p \in Readers
      <4>1. \A q \in Readers : q # p => q \notin open /\ pc[q] # "close"
        BY <1>1, <2>1, <2>2, <3>2 DEF SameEnd, OpenInv
      <4> QED BY <1>1, <2>1, <3>1, <3>2, <4>1 DEF OpenInv
    <3>3. CASE p \in Writers
      <4>1. \A q \in Writers : q # p => q \notin open /\ pc[q] # "close"
        BY <1>1, <2>1, <2>2, <3>3 DEF SameEnd, OpenInv
      <4> QED BY <1>1, <2>1, <3>1, <3>3, <4>1 DEF OpenInv
    <3> QED BY <1>1, <3>2, <3>3
  <2>3. CASE open \cap SameEnd(p) # {}
    <3>1. pc' = pc
      BY <1>11, <2>3 DEF close
    <3>2. PICK o \in SameEnd(p) : o \in open
      BY <2>3
    <3>3. o # p /\ (p \in Readers <=> o \in Readers) /\ o \in Procs
      BY <1>1, <3>2 DEF SameEnd
    <3> QED BY <1>1, <2>1, <3>1, <3>2, <3>3 DEF OpenInv
  <2> QED BY <2>2, <2>3
<1>12. ASSUME NEW p \in Procs, pipeclose(p) PROVE OpenInv'
  <2>1. /\ pc[p] = "close" /\ UNCHANGED <<freed, open>>
        /\ readopen' = (readopen /\ p \in Writers) /\ writeopen' = (writeopen /\ p \in Readers)
    BY <1>12 DEF pipeclose
  <2>2. pc'[p] = IF ~ readopen' /\ ~ writeopen' THEN "kfree" ELSE "user"
    BY <1>1, <1>12 DEF pipeclose, wake_other_end, Woken, Unused
  <2>3. \A q \in Procs \ {p} : pc'[q] = pc[q] \/ (pc[q] = "asleep" /\ pc'[q] = "woken")
    BY <1>1, <1>12 DEF pipeclose, wake_other_end, Woken
  <2>4. p \notin open /\ (readopen \/ writeopen) /\ ~ freed /\ \A q \in Procs : pc[q] # "kfree"
    BY <1>1, <2>1 DEF OpenInv
  <2>5. \A q \in Procs : pc'[q] = "close" <=> q # p /\ pc[q] = "close"
    BY <2>2, <2>3
  <2>6. \A q \in Procs : pc'[q] = "kfree" => q = p /\ ~ readopen' /\ ~ writeopen'
    BY <2>2, <2>3, <2>4
  <2>7. \A q \in Procs : pc'[q] \notin {"user", "close", "kfree"} => q \in open
    BY <1>1, <2>2, <2>3 DEF OpenInv
  <2>8. readopen' <=> \E q \in Readers : q \in open \/ pc'[q] = "close"
    <3>1. readopen <=> \E q \in Readers : q \in open \/ pc[q] = "close"
      BY <1>1 DEF OpenInv
    <3>2. CASE p \in Writers
      <4>1. readopen' <=> readopen
        BY <2>1, <3>2, Zenon
      <4> QED BY <1>1, <2>5, <3>1, <3>2, <4>1
    <3>3. CASE p \in Readers
      <4>1. ~ readopen' /\ \A q \in Readers : q \notin open /\ (pc[q] = "close" => q = p)
        BY <1>1, <2>1, <3>3 DEF OpenInv
      <4> QED BY <1>1, <2>5, <3>3, <4>1
    <3> QED BY <1>1, <3>2, <3>3
  <2>9. writeopen' <=> \E q \in Writers : q \in open \/ pc'[q] = "close"
    <3>1. writeopen <=> \E q \in Writers : q \in open \/ pc[q] = "close"
      BY <1>1 DEF OpenInv
    <3>2. CASE p \in Readers
      <4>1. writeopen' <=> writeopen
        BY <2>1, <3>2, Zenon
      <4> QED BY <1>1, <2>5, <3>1, <3>2, <4>1
    <3>3. CASE p \in Writers
      <4>1. ~ writeopen' /\ \A q \in Writers : q \notin open /\ (pc[q] = "close" => q = p)
        BY <1>1, <2>1, <3>3 DEF OpenInv
      <4> QED BY <1>1, <2>5, <3>3, <4>1
    <3> QED BY <1>1, <3>2, <3>3
  <2>10. \A q \in Procs : pc'[q] \in {"close", "kfree"} => q \notin open
    BY <1>1, <2>4, <2>5, <2>6 DEF OpenInv
  <2>11. /\ \A q, o \in Readers : pc'[q] = "close" => o \notin open /\ (pc'[o] = "close" => o = q)
         /\ \A q, o \in Writers : pc'[q] = "close" => o \notin open /\ (pc'[o] = "close" => o = q)
    BY <1>1, <2>5 DEF OpenInv
  <2> QED BY <2>1, <2>4, <2>6, <2>7, <2>8, <2>9, <2>10, <2>11 DEF OpenInv
<1>13. ASSUME NEW p \in Procs, kfree(p) PROVE OpenInv'
  <2>1. /\ pc[p] = "kfree" /\ freed' = TRUE /\ UNCHANGED <<readopen, writeopen, open>>
        /\ pc' = [pc EXCEPT ![p] = "user"]
    BY <1>13 DEF kfree, Goto
  <2>2. ~ readopen /\ ~ writeopen /\ \A q \in Procs : pc'[q] # "kfree"
    BY <1>1, <2>1 DEF OpenInv
  <2>3. \A q \in Procs : pc'[q] = pc[q] \/ (q = p /\ pc'[q] = "user")
    BY <1>1, <2>1
  <2> QED BY <1>1, <2>1, <2>2, <2>3 DEF OpenInv
<1>14. ASSUME NEW p \in Procs, kill(p) PROVE OpenInv'
  BY <1>1, <1>2, <1>14 DEF kill, OpenInv
<1>15. ASSUME NEW p \in Procs, NEW q \in Procs, fork(p, q) PROVE OpenInv'
  BY <1>1, <1>15 DEF fork, OpenInv
<1>16. ASSUME NEW r \in Readers, NEW w \in Writers, pipealloc(r, w) PROVE OpenInv'
  <2>1. \A p \in Procs : pc'[p] = "user"
    BY <1>16, Deserted DEF pipealloc, PipeInv, OpenInv
  <2> QED BY <1>1, <1>16, <2>1 DEF pipealloc, OpenInv
<1>17. CASE UNCHANGED vars
  BY <1>1, <1>2, <1>17 DEF vars, OpenInv
<1> QED
  BY <1>3, <1>4, <1>5, <1>6, <1>7, <1>8, <1>9, <1>10, <1>11, <1>12, <1>13, <1>14, <1>15,
     <1>16, <1>17
  DEF Next, Step

\* A reader begins to copy when there is something to copy or the writers are
\* gone; what it has copied is its own until it returns.
LEMMA CopyStep ==
  ASSUME PipeInv, [Next]_vars
  PROVE  CopyInv'
<1> USE DEF PCs
<1>1. /\ pc \in [Procs -> PCs] /\ addr \in [Readers -> Seq(Bytes)]
      /\ LockInv /\ OpenInv /\ CopyInv
      /\ Procs = Readers \cup Writers /\ Readers \cap Writers = {} /\ None \notin Procs
  BY PipeAssumption DEF PipeInv, TypeOK, Procs
<1>2. ASSUME UNCHANGED pipe PROVE Empty' = Empty
  BY <1>2 DEF pipe, Empty
<1>3. ASSUME UNCHANGED <<pipe, addr>>, writeopen' => writeopen,
             \A p \in Procs : (pc'[p] = "copy") <=> (pc[p] = "copy")
      PROVE  CopyInv'
  BY <1>1, <1>2, <1>3 DEF CopyInv
<1>4. ASSUME NEW p \in Procs, sleep(p) \/ acquire(p) PROVE CopyInv'
  BY <1>1, <1>3, <1>4 DEF sleep, acquire, acquired, Goto
<1>5. ASSUME NEW p \in Procs, NEW k \in 1 .. MaxN, call(p, k) PROVE CopyInv'
  BY <1>1, <1>3, <1>5 DEF call, Goto
<1>6. ASSUME NEW p \in Procs, NEW b \in Bytes, pipewrite_store(p, b) PROVE CopyInv'
  <2>1. \A q \in Readers : pc[q] # "copy"
    BY <1>1, <1>6 DEF pipewrite_store, LockInv
  <2> QED BY <1>1, <1>6, <2>1 DEF pipewrite_store, CopyInv
<1>7. ASSUME NEW p \in Procs, pipewrite_full(p) PROVE CopyInv'
  BY <1>1, <1>3, <1>7 DEF pipewrite_full, Woken, Goto
<1>8. ASSUME NEW p \in Procs, pipewrite_return(p) PROVE CopyInv'
  BY <1>1, <1>3, <1>8 DEF pipewrite_return, wakeup_nread, Woken
<1>9. ASSUME NEW p \in Procs, piperead_wait(p) PROVE CopyInv'
  BY <1>1, <1>2, <1>9 DEF piperead_wait, Goto, MustWait, CopyInv
<1>10. ASSUME NEW p \in Procs, piperead_copy(p) PROVE CopyInv'
  <2>1. addr'[p] # <<>> /\ \A q \in Readers : q # p => addr'[q] = addr[q]
    BY <1>1, <1>10 DEF piperead_copy
  <2>2. \A q \in Procs : q # p => pc[q] # "copy"
    BY <1>1, <1>10 DEF piperead_copy, LockInv
  <2>3. pc' = pc /\ pc[p] = "copy"
    BY <1>10 DEF piperead_copy
  <2> QED BY <1>1, <2>1, <2>2, <2>3 DEF CopyInv
<1>11. ASSUME NEW p \in Procs, piperead_return(p) PROVE CopyInv'
  <2>1. pc'[p] # "copy" /\ addr'[p] = <<>>
    BY <1>1, <1>11 DEF piperead_return, wakeup_nwrite, Woken
  <2>2. \A q \in Procs : q # p => pc[q] # "copy" /\ pc'[q] # "copy"
    BY <1>1, <1>11 DEF piperead_return, wakeup_nwrite, Woken, LockInv
  <2>3. \A q \in Readers : q # p => addr'[q] = addr[q]
    BY <1>1, <1>11 DEF piperead_return
  <2> QED BY <1>1, <2>1, <2>2, <2>3 DEF CopyInv
<1>12. ASSUME NEW p \in Procs, close(p) \/ pipeclose(p) \/ kfree(p) PROVE CopyInv'
  <2>1. UNCHANGED <<pipe, addr>>
    BY <1>12 DEF close, pipeclose, kfree
  <2>2. writeopen' => writeopen
    BY <1>12, Zenon DEF close, pipeclose, kfree
  <2>3. \A q \in Procs : (pc'[q] = "copy") <=> (pc[q] = "copy")
    BY <1>1, <1>12 DEF close, pipeclose, kfree, wake_other_end, Woken, Goto
  <2> QED BY <1>3, <2>1, <2>2, <2>3
<1>13. ASSUME NEW p \in Procs, kill(p) PROVE CopyInv'
  BY <1>1, <1>3, <1>13 DEF kill
<1>14. ASSUME NEW p \in Procs, NEW q \in Procs, fork(p, q) PROVE CopyInv'
  BY <1>1, <1>3, <1>14 DEF fork
<1>15. ASSUME NEW r \in Readers, NEW w \in Writers, pipealloc(r, w) PROVE CopyInv'
  <2>1. \A p \in Procs : pc[p] = "user"
    BY <1>15, Deserted DEF pipealloc, PipeInv, OpenInv
  <2> QED BY <1>1, <1>15, <2>1 DEF pipealloc, CopyInv
<1>16. CASE UNCHANGED vars
  BY <1>3, <1>16 DEF vars, pipe
<1> QED
  BY <1>4, <1>5, <1>6, <1>7, <1>8, <1>9, <1>10, <1>11, <1>12, <1>13, <1>14, <1>15, <1>16
  DEF Next, Step

\* No wakeup is lost: whoever takes the reason of a sleeper away wakes it
\* before it lets p->lock go.
LEMMA SleepStep ==
  ASSUME PipeInv, [Next]_vars
  PROVE  SleepInv'
<1> USE DEF PCs
<1>1. /\ pc \in [Procs -> PCs] /\ killed \in [Procs -> BOOLEAN]
      /\ LockInv /\ OpenInv /\ CopyInv /\ SleepInv
      /\ Procs = Readers \cup Writers /\ Readers \cap Writers = {} /\ None \notin Procs
  BY PipeAssumption DEF PipeInv, TypeOK, Procs
<1>2. ASSUME UNCHANGED pipe PROVE Empty' = Empty /\ Full' = Full
  BY <1>2 DEF pipe, Empty, Full
<1>3. ~ (Empty /\ Full)
  BY CountIs, PipeAssumption DEF PipeInv, TypeOK, Counters
<1>4. ASSUME NEW p \in Procs, sleep(p) \/ acquire(p) PROVE SleepInv'
  BY <1>1, <1>2, <1>4 DEF sleep, acquire, acquired, Goto, SleepInv, LockInv
<1>5. ASSUME NEW p \in Procs, NEW k \in 1 .. MaxN, call(p, k) PROVE SleepInv'
  BY <1>1, <1>2, <1>5 DEF call, Goto, SleepInv, LockInv
<1>6. ASSUME NEW p \in Procs, NEW b \in Bytes, pipewrite_store(p, b) PROVE SleepInv'
  <2>1. \A q \in Procs : pc[q] # "sleep" /\ pc[q] # "copy"
    BY <1>1, <1>6 DEF pipewrite_store, LockInv, CopyInv
  <2>2. \A q \in Writers : pc[q] # "asleep"
    BY <1>1, <1>6, <2>1 DEF pipewrite_store, SleepInv
  <2>3. p \in Writers /\ pc[p] = "loop" /\ pc' = pc
    BY <1>6 DEF pipewrite_store
  <2> QED BY <1>1, <2>1, <2>2, <2>3 DEF SleepInv
<1>7. ASSUME NEW p \in Procs, pipewrite_full(p) PROVE SleepInv'
  <2>1. \A q \in Procs : pc[q] # "sleep" /\ pc[q] # "copy"
    BY <1>1, <1>7 DEF pipewrite_full, LockInv, CopyInv
  <2>2. CASE ~ readopen \/ killed[p]
    BY <1>1, <1>2, <1>7, <2>1, <2>2 DEF pipewrite_full, Goto, SleepInv, OpenInv
  <2>3. CASE ~ (~ readopen \/ killed[p])
    BY <1>1, <1>2, <1>7, <2>1, <2>3 DEF pipewrite_full, Woken, SleepInv
  <2> QED BY <2>2, <2>3
<1>8. ASSUME NEW p \in Procs, pipewrite_return(p) PROVE SleepInv'
  BY <1>1, <1>2, <1>8 DEF pipewrite_return, wakeup_nread, Woken, LockInv, SleepInv
<1>9. ASSUME NEW p \in Procs, piperead_wait(p) PROVE SleepInv'
  <2>1. \A q \in Procs : q # p => pc[q] \notin {"loop", "copy", "sleep"}
    BY <1>1, <1>9 DEF piperead_wait, LockInv
  <2>2. pc[p] = "loop" /\ p \in Readers /\ p \notin Writers /\ \E l \in PCs : pc' = [pc EXCEPT ![p] = l]
    BY <1>1, <1>9 DEF piperead_wait, Goto
  <2>3. pc'[p] = "sleep" => Empty /\ writeopen
    BY <1>1, <1>9 DEF piperead_wait, Goto, MustWait
  <2>4. pc'[p] # "asleep" /\ UNCHANGED <<readopen, writeopen, killed>> /\ Empty' = Empty /\ Full' = Full
    BY <1>1, <1>2, <1>9 DEF piperead_wait, Goto
  <2> QED BY <1>1, <2>1, <2>2, <2>3, <2>4 DEF SleepInv
<1>10. ASSUME NEW p \in Procs, piperead_copy(p) PROVE SleepInv'
  <2>1. \A q \in Procs : pc[q] # "sleep" /\ pc[q] # "loop"
    BY <1>1, <1>10 DEF piperead_copy, LockInv
  <2>2. (\A q \in Writers : ~ killed[q]) => \A q \in Readers : pc[q] # "asleep"
    BY <1>1, <1>10, <2>1 DEF piperead_copy, SleepInv
  <2>3. p \in Readers /\ pc[p] = "copy" /\ pc' = pc /\ killed' = killed
    BY <1>10 DEF piperead_copy
  <2> QED BY <1>1, <2>1, <2>2, <2>3 DEF SleepInv
<1>11. ASSUME NEW p \in Procs, piperead_return(p) PROVE SleepInv'
  BY <1>1, <1>2, <1>11 DEF piperead_return, wakeup_nwrite, Woken, LockInv, SleepInv
<1>12. ASSUME NEW p \in Procs, close(p) \/ kfree(p) PROVE SleepInv'
  <2>1. UNCHANGED <<readopen, writeopen, killed>> /\ Empty' = Empty /\ Full' = Full
    BY <1>2, <1>12 DEF close, kfree
  <2>2. \A q \in Procs : pc'[q] = pc[q] \/ (pc[q] \in {"user", "kfree"} /\ pc'[q] \in {"close", "user"})
    BY <1>1, <1>12 DEF close, kfree, Goto
  <2> QED BY <1>1, <2>1, <2>2 DEF SleepInv
<1>13. ASSUME NEW p \in Procs, pipeclose(p) PROVE SleepInv'
  <2>1. lk = None /\ Empty' = Empty /\ Full' = Full /\ killed' = killed
    BY <1>2, <1>13 DEF pipeclose
  <2>2. \A q \in Procs : pc[q] \notin {"loop", "copy", "sleep"}
    BY <1>1, <2>1 DEF LockInv
  <2>3. pc'[p] \in {"user", "kfree"} /\ \A q \in Procs \ {p} : pc'[q] \in {pc[q], "woken"}
    BY <1>1, <1>13 DEF pipeclose, wake_other_end, Woken
  <2>4. CASE p \in Readers
    <3>1. (writeopen' <=> writeopen) /\ \A q \in Writers : pc'[q] # "asleep"
      BY <1>1, <1>13, <2>4 DEF pipeclose, wake_other_end, Woken
    <3> QED BY <1>1, <2>1, <2>2, <2>3, <3>1 DEF SleepInv
  <2>5. CASE p \in Writers
    <3>1. (readopen' <=> readopen) /\ \A q \in Readers : pc'[q] # "asleep"
      BY <1>1, <1>13, <2>5 DEF pipeclose, wake_other_end, Woken
    <3> QED BY <1>1, <2>1, <2>2, <2>3, <3>1 DEF SleepInv
  <2> QED BY <1>1, <2>4, <2>5
<1>14. ASSUME NEW p \in Procs, kill(p) PROVE SleepInv'
  BY <1>1, <1>2, <1>14 DEF kill, SleepInv
<1>15. ASSUME NEW p \in Procs, NEW q \in Procs, fork(p, q) PROVE SleepInv'
  BY <1>1, <1>2, <1>15 DEF fork, SleepInv
<1>16. ASSUME NEW r \in Readers, NEW w \in Writers, pipealloc(r, w) PROVE SleepInv'
  <2>1. \A p \in Procs : pc'[p] = "user"
    BY <1>16, Deserted DEF pipealloc, PipeInv, OpenInv
  <2> QED BY <1>1, <2>1 DEF SleepInv
<1>17. CASE UNCHANGED vars
  BY <1>2, <1>1, <1>17 DEF vars, pipe, SleepInv
<1> QED
  BY <1>4, <1>5, <1>6, <1>7, <1>8, <1>9, <1>10, <1>11, <1>12, <1>13, <1>14, <1>15, <1>16,
     <1>17
  DEF Next, Step

-----------------------------------------------------------------------------
\* The pipe keeps its invariant, for every number of processes, every size of
\* the ring and every width of the counters that the size divides.
THEOREM PipeInvariantHolds == Spec => []PipeInv
<1>1. PipeInv /\ [Next]_vars => PipeInv'
  BY TypeStep, LockStep, OpenStep, CopyStep, SleepStep DEF PipeInv
<1> QED BY <1>1, InvariantInit, PTL DEF Spec

\* Readers and writers sleep when they must and only then, and a read returns
\* nothing only at the end of the stream.
THEOREM PipeWaitsRight == Spec => []WaitsRight
<1>1. ASSUME PipeInv PROVE WaitsRight
  <2>1. LockInv /\ CopyInv /\ SleepInv /\ None \notin Procs
        /\ Procs = Readers \cup Writers
    BY <1>1, PipeAssumption DEF PipeInv, Procs
  <2> QED BY <2>1 DEF WaitsRight, LockInv, CopyInv, SleepInv
<1> QED BY <1>1, PipeInvariantHolds, PTL

\* From the moment pipeclose() decides to free the page, nobody else is inside
\* the pipe, can come back to it or frees it too.
THEOREM PipeNoUseAfterFree == Spec => []NoUseAfterFree
<1>1. ASSUME PipeInv PROVE NoUseAfterFree
  <2>1. TypeOK /\ LockInv /\ OpenInv
    BY <1>1 DEF PipeInv
  <2>2. ASSUME ~ readopen, ~ writeopen PROVE lk = None
    <3>1. \A p \in Procs : pc[p] \in {"user", "kfree"}
      BY <2>1, <2>2, Deserted
    <3> QED BY <2>1, <3>1 DEF LockInv, TypeOK
  <2>3. ASSUME freed PROVE open = {} /\ lk = None /\ \A p \in Procs : pc[p] = "user"
    BY <2>1, <2>2, <2>3, Deserted DEF OpenInv
  <2>4. ASSUME NEW p \in Procs, pc[p] = "kfree"
        PROVE  open = {} /\ lk = None /\ \A q \in Procs \ {p} : pc[q] = "user"
    <3>1. ~ readopen /\ ~ writeopen /\ \A q \in Procs : pc[q] = "kfree" => q = p
      BY <2>1, <2>4 DEF OpenInv
    <3> QED BY <2>1, <2>2, <3>1, Deserted
  <2> QED BY <2>1, <2>3, <2>4 DEF NoUseAfterFree
<1> QED BY <1>1, PipeInvariantHolds, PTL

-----------------------------------------------------------------------------
(* The pipe implements the byte stream. *)

\* Sequences of the same length with the same elements are equal.
LEMMA SameSequence ==
  ASSUME NEW S, NEW s \in Seq(S), NEW t \in Seq(S), Len(s) = Len(t),
         \A i \in 1 .. Len(s) : s[i] = t[i]
  PROVE  s = t
OBVIOUS

\* The ring holds a sequence of Count bytes.
LEMMA QueueIs ==
  ASSUME TypeOK
  PROVE  /\ Queue \in Seq(Bytes) /\ Len(Queue) = Count /\ Count \in Nat
         /\ \A k \in 1 .. Count : Queue[k] = data[(nread + k - 1) % PIPESIZE]
<1>1. Count \in Nat /\ nread \in Int /\ PIPESIZE \in Nat /\ PIPESIZE > 0
  BY CountIs, PipeAssumption DEF TypeOK, Counters
<1>2. \A k \in 1 .. Count : data[(nread + k - 1) % PIPESIZE] \in Bytes
  BY <1>1, ModRange DEF TypeOK
<1> HIDE DEF Count
<1> QED BY <1>1, <1>2 DEF Queue

\* pipewrite() appends: the place it stores to is none of the places in use.
LEMMA StoreAppends ==
  ASSUME TypeOK, TypeOK', ~ Full, NEW b \in Bytes,
         data' = [data EXCEPT ![nwrite % PIPESIZE] = b],
         nread' = nread, nwrite' = (nwrite + 1) % WORD
  PROVE  Queue' = Append(Queue, b) /\ Len(Queue) < PIPESIZE
<1>1. /\ WORD \in Int /\ PIPESIZE \in Nat /\ PIPESIZE > 0 /\ Counters
      /\ data \in [0 .. PIPESIZE - 1 -> Bytes] /\ Count <= PIPESIZE
  BY PipeAssumption DEF TypeOK, Counters
<1>2. nread \in Int /\ nwrite \in Int
  BY <1>1 DEF Counters
<1>3. Count' = Count + 1 /\ Count < PIPESIZE
  BY <1>1, CountStored
<1>4. Queue \in Seq(Bytes) /\ Len(Queue) = Count /\ Count \in Nat
  BY QueueIs
<1>5. \A k \in 1 .. Count : Queue[k] = data[(nread + k - 1) % PIPESIZE]
  BY QueueIs
<1>6. (/\ Queue \in Seq(Bytes) /\ Len(Queue) = Count
       /\ \A k \in 1 .. Count : Queue[k] = data[(nread + k - 1) % PIPESIZE])'
  BY QueueIs, PTL
<1>7. nwrite % PIPESIZE = (nread + Count) % PIPESIZE
  <2>1. nread + Count = nwrite \/ nread + Count = nwrite + WORD
    <3>1. Count = nwrite - nread \/ Count = nwrite - nread + WORD
      BY <1>1, CountIs
    <3> HIDE DEF Count
    <3> QED BY <1>1, <1>2, <1>4, <3>1
  <2> QED BY <1>2, <2>1, RingWraps
<1>8. \A k \in 1 .. Count : Queue'[k] = Queue[k]
  <2> TAKE k \in 1 .. Count
  <2> DEFINE x == nread + k - 1
             d == Count - k + 1
  <2>1. x \in Int /\ d \in Int /\ 0 < d /\ d < PIPESIZE /\ x + d = nread + Count
    BY <1>1, <1>2, <1>3, <1>4
  <2>2. x % PIPESIZE # nwrite % PIPESIZE
    <3> HIDE DEF x, d
    <3> QED BY <1>7, <2>1, RingDistinct
  <2>3. x % PIPESIZE \in 0 .. PIPESIZE - 1
    BY <1>1, <2>1, ModRange
  <2>4. data'[x % PIPESIZE] = data[x % PIPESIZE]
    BY <1>1, <2>2, <2>3
  <2>5. k \in 1 .. Count'
    BY <1>3, <1>4
  <2> QED BY <1>5, <1>6, <2>4, <2>5
<1>9. Queue'[Count + 1] = b
  <2>1. nwrite % PIPESIZE \in 0 .. PIPESIZE - 1
    BY <1>1, <1>2, ModRange
  <2>2. data'[(nread + Count) % PIPESIZE] = b
    BY <1>1, <1>7, <2>1
  <2>3. Count + 1 \in 1 .. Count' /\ nread + (Count + 1) - 1 = nread + Count
    BY <1>2, <1>3, <1>4
  <2> QED BY <1>6, <2>2, <2>3
<1> HIDE DEF Queue, Count
<1>10. Queue' \in Seq(Bytes) /\ Len(Queue') = Count + 1
  BY <1>3, <1>6
<1>11. /\ Append(Queue, b) \in Seq(Bytes) /\ Len(Append(Queue, b)) = Count + 1
       /\ \A k \in 1 .. Count : Append(Queue, b)[k] = Queue[k]
       /\ Append(Queue, b)[Count + 1] = b
  BY <1>4
<1>12. \A k \in 1 .. Len(Queue') : Queue'[k] = Append(Queue, b)[k]
  BY <1>4, <1>8, <1>9, <1>10, <1>11
<1> QED BY <1>3, <1>4, <1>10, <1>11, <1>12, SameSequence

\* piperead() takes the oldest byte, also when its counter wraps.
LEMMA CopyTakesHead ==
  ASSUME TypeOK, TypeOK', ~ Empty,
         data' = data, nwrite' = nwrite, nread' = (nread + 1) % WORD
  PROVE  /\ Queue # <<>> /\ Head(Queue) = data[nread % PIPESIZE]
         /\ Queue' = Tail(Queue)
<1>1. /\ WORD \in Nat /\ PIPESIZE \in Nat /\ PIPESIZE > 0 /\ Counters /\ WORD > 1
  BY PipeAssumption DEF TypeOK, Counters
<1>2. nread \in Int /\ 0 <= nread /\ nread < WORD
  BY <1>1 DEF Counters
<1>3. Count' = Count - 1 /\ Count > 0
  BY <1>1, CountTaken
<1>4. Queue \in Seq(Bytes) /\ Len(Queue) = Count /\ Count \in Nat
  BY QueueIs
<1>5. \A k \in 1 .. Count : Queue[k] = data[(nread + k - 1) % PIPESIZE]
  BY QueueIs
<1>6. (/\ Queue \in Seq(Bytes) /\ Len(Queue) = Count
       /\ \A k \in 1 .. Count : Queue[k] = data[(nread + k - 1) % PIPESIZE])'
  BY QueueIs, PTL
<1>7. nread' = nread + 1 \/ nread' + WORD = nread + 1
  <2>1. CASE nread + 1 < WORD
    BY <1>1, <1>2, <2>1, ModSmall
  <2>2. CASE nread + 1 = WORD
    BY <1>1, <1>2, <2>2, ModOver
  <2> QED BY <1>1, <1>2, <2>1, <2>2
<1>8. \A k \in 1 .. Count - 1 : Queue'[k] = Queue[k + 1]
  <2> TAKE k \in 1 .. Count - 1
  <2>1. k \in Int /\ k \in 1 .. Count' /\ k + 1 \in 1 .. Count /\ nread' \in Int
    BY <1>1, <1>2, <1>3, <1>4, <1>7
  <2>2. (nread' + k - 1) % PIPESIZE = (nread + (k + 1) - 1) % PIPESIZE
    <3>1. CASE nread' = nread + 1
      BY <1>2, <2>1, <3>1
    <3>2. CASE nread' + WORD = nread + 1
      <4> DEFINE x == nread' + k - 1
      <4>1. x \in Int /\ x + WORD = nread + (k + 1) - 1
        BY <1>1, <1>2, <2>1, <3>2
      <4> HIDE DEF x
      <4>2. x % PIPESIZE = (nread + (k + 1) - 1) % PIPESIZE
        BY <4>1, RingWraps
      <4> QED BY <4>2 DEF x
    <3> QED BY <1>7, <3>1, <3>2
  <2>3. Queue'[k] = data[(nread' + k - 1) % PIPESIZE]
    BY <1>6, <2>1
  <2> QED BY <1>5, <2>1, <2>2, <2>3
<1>9. Queue[1] = data[nread % PIPESIZE]
  <2>1. 1 \in 1 .. Count /\ nread + 1 - 1 = nread
    BY <1>2, <1>3, <1>4
  <2> QED BY <1>5, <2>1
<1> HIDE DEF Queue, Count
<1>10. Queue' \in Seq(Bytes) /\ Len(Queue') = Count - 1
  BY <1>3, <1>6
<1>11. /\ Queue # <<>> /\ Head(Queue) = Queue[1]
       /\ Tail(Queue) \in Seq(Bytes) /\ Len(Tail(Queue)) = Count - 1
       /\ \A k \in 1 .. Count - 1 : Tail(Queue)[k] = Queue[k + 1]
  BY <1>3, <1>4
<1>12. \A k \in 1 .. Len(Queue') : Queue'[k] = Tail(Queue)[k]
  BY <1>8, <1>10, <1>11
<1> QED BY <1>9, <1>10, <1>11, <1>12, SameSequence

\* Every step of the pipe is a step of the byte stream or changes nothing of it.
LEMMA StreamStep ==
  ASSUME PipeInv, TypeOK', [Next]_vars
  PROVE  [BS!BNext]_(BS!bvars)
<1> USE DEF PCs
<1>1. /\ TypeOK /\ OpenInv /\ LockInv /\ writeopen \in BOOLEAN
      /\ Readers \cap Writers = {} /\ Procs = Readers \cup Writers
  BY PipeAssumption DEF PipeInv, TypeOK, Procs
<1>2. ASSUME UNCHANGED pipe PROVE Queue' = Queue
  BY <1>2 DEF pipe, Queue, Count
<1> HIDE DEF Queue
<1>3. ASSUME UNCHANGED <<pipe, writeopen, addr>> PROVE [BS!BNext]_(BS!bvars)
  BY <1>2, <1>3 DEF BS!bvars
<1>4. ASSUME NEW p \in Procs, sleep(p) \/ acquire(p) PROVE [BS!BNext]_(BS!bvars)
  BY <1>3, <1>4 DEF sleep, acquire
<1>5. ASSUME NEW p \in Procs, NEW k \in 1 .. MaxN, call(p, k) PROVE [BS!BNext]_(BS!bvars)
  BY <1>3, <1>5 DEF call
<1>6. ASSUME NEW p \in Procs, NEW b \in Bytes, pipewrite_store(p, b)
      PROVE [BS!BNext]_(BS!bvars)
  <2>1. Queue' = Append(Queue, b) /\ Len(Queue) < PIPESIZE
    BY <1>1, <1>6, StoreAppends DEF pipewrite_store
  <2>2. writeopen /\ UNCHANGED <<writeopen, addr>>
    BY <1>1, <1>6 DEF pipewrite_store, OpenInv
  <2>3. BS!Put(b)
    BY <2>1, <2>2 DEF BS!Put
  <2> QED BY <2>3 DEF BS!BNext
<1>7. ASSUME NEW p \in Procs, pipewrite_full(p) \/ pipewrite_return(p) \/ piperead_wait(p)
      PROVE [BS!BNext]_(BS!bvars)
  BY <1>3, <1>7 DEF pipewrite_full, pipewrite_return, piperead_wait
<1>8. ASSUME NEW p \in Procs, piperead_copy(p) PROVE [BS!BNext]_(BS!bvars)
  <2>1. /\ Queue # <<>> /\ Head(Queue) = data[nread % PIPESIZE]
        /\ Queue' = Tail(Queue)
    BY <1>1, <1>8, CopyTakesHead DEF piperead_copy
  <2>2. p \in Readers /\ BS!Get(p)
    BY <1>8, <2>1 DEF piperead_copy, BS!Get
  <2> QED BY <2>2 DEF BS!BNext
<1>9. ASSUME NEW p \in Procs, piperead_return(p) PROVE [BS!BNext]_(BS!bvars)
  <2>1. p \in Readers /\ BS!Return(p)
    BY <1>2, <1>9 DEF piperead_return, BS!Return
  <2> QED BY <2>1 DEF BS!BNext
<1>10. ASSUME NEW p \in Procs, close(p) \/ pipeclose(p) \/ kfree(p)
       PROVE [BS!BNext]_(BS!bvars)
  <2>1. UNCHANGED <<pipe, addr>> /\ (writeopen' = writeopen \/ writeopen' = FALSE)
    BY <1>1, <1>10 DEF close, pipeclose, kfree
  <2>2. CASE writeopen' = FALSE
    <3>1. BS!CloseWrite
      BY <1>2, <2>1, <2>2 DEF BS!CloseWrite
    <3> QED BY <3>1 DEF BS!BNext
  <2>3. CASE writeopen' = writeopen
    BY <1>3, <2>1, <2>3
  <2> QED BY <2>1, <2>2, <2>3
<1>11. ASSUME NEW p \in Procs, kill(p) PROVE [BS!BNext]_(BS!bvars)
  BY <1>3, <1>11 DEF kill
<1>12. ASSUME NEW p \in Procs, NEW q \in Procs, fork(p, q) PROVE [BS!BNext]_(BS!bvars)
  BY <1>3, <1>12 DEF fork
<1>13. ASSUME NEW r \in Readers, NEW w \in Writers, pipealloc(r, w)
       PROVE [BS!BNext]_(BS!bvars)
  <2>1. (/\ Queue \in Seq(Bytes) /\ Len(Queue) = Count)'
    BY QueueIs, PTL
  <2>2. Count' = 0
    <3>1. (Counters => (Empty <=> Count = 0))'
      BY CountIs, PTL
    <3> QED BY <3>1, <1>13 DEF pipealloc, Empty, TypeOK, Counters
  <2>3. Queue' = <<>>
    BY <2>1, <2>2
  <2>4. ~ writeopen /\ writeopen' = TRUE /\ addr' = addr
    BY <1>1, <1>13 DEF pipealloc, OpenInv
  <2>5. BS!Renew
    BY <2>3, <2>4 DEF BS!Renew
  <2> QED BY <2>5 DEF BS!BNext
<1>14. CASE UNCHANGED vars
  BY <1>3, <1>14 DEF vars, pipe
<1> QED
  BY <1>4, <1>5, <1>6, <1>7, <1>8, <1>9, <1>10, <1>11, <1>12, <1>13, <1>14 DEF Next, Step

\* The pipe is a bounded first-in first-out stream of bytes.
THEOREM PipeImplementsByteStream == Spec => ImplementsByteStream
<1>1. Init => BS!BInit
  <2> SUFFICES ASSUME Init PROVE BS!BInit
    OBVIOUS
  <2>1. TypeOK /\ Counters
    BY InvariantInit DEF PipeInv, TypeOK, Counters
  <2>2. Count = 0
    BY <2>1, CountIs DEF Init, Empty
  <2>3. Queue = <<>>
    BY <2>1, <2>2, QueueIs
  <2> QED BY <2>3 DEF Init, BS!BInit
<1>2. PipeInv /\ PipeInv' /\ [Next]_vars => [BS!BNext]_(BS!bvars)
  BY StreamStep DEF PipeInv
<1> QED BY <1>1, <1>2, PipeInvariantHolds, PTL DEF Spec, ImplementsByteStream, BS!BSpec
=============================================================================
