------------------------------- MODULE LogInv -------------------------------
(***************************************************************************)
(* The inductive invariant behind the properties of Log.  It ties the      *)
(* in-memory header, the header on the disk, the pinned buffers and the    *)
(* contents of the log to the place where the committing or recovering     *)
(* process is, and accounts for the space begin_op() has reserved.         *)
(***************************************************************************)
EXTENDS Log

\* What the callers and mkfs have to respect.  With MAXOPBLOCKS = 10,
\* LOGSIZE = sb.nlog = 30 and system calls that write at most 7 blocks it
\* holds; a call may not use its whole reservation, because log_write()
\* panics at log.size - 1 and a block of the log is its header.
SpaceContract ==
  /\ OpBlocks < MAXOPBLOCKS
  /\ 2 * MAXOPBLOCKS <= LOGSIZE
  /\ LOGSIZE <= NLOG

Modifying == {"modified", "checked"}
Holding == {"peek", "read", "modified", "checked", "logged"}

\* One process commits or recovers at a time, and nobody is in a transaction
\* meanwhile.
ControlInv ==
  /\ outstanding = Cardinality(Active)
  /\ \A p \in Procs : pc[p] \in CommitPCs =>
       committing /\ \A q \in Procs : q # p => pc[q] \notin CommitPCs
  /\ committing => outstanding = 0 /\ \E p \in Procs : pc[p] \in CommitPCs
  /\ \A p \in Procs : pc[p] \in RecoverPCs =>
       ~ committing /\ \A q \in Procs : q # p => pc[q] = "down"
  /\ \A p \in Procs : pc[p] = "sleeping" => committing \/ outstanding > 0

\* What ControlInv says of the number of admitted system calls.
OpsCounted ==
  /\ outstanding \in Nat
  /\ outstanding = 0 => \A p \in Procs : pc[p] \notin OpPCs
  /\ \A p \in Procs : pc[p] \in OpPCs => outstanding > 0

LockInv ==
  /\ \A p \in Procs : IF pc[p] \in Holding THEN \E b \in Blocks : held[p] = {b}
                                           ELSE held[p] = {}
  /\ \A p, q \in Procs : p # q => held[p] \cap held[q] = {}

\* log_write() never makes the in-memory header longer than the log.
HeaderFits == Len(lh) <= LOGSIZE - 2

\* The two headers.
HeaderInv ==
  /\ \A i, j \in DOMAIN lh : lh[i] = lh[j] => i = j
  /\ \A i, j \in DOMAIN head : head[i] = head[j] => i = j
  /\ Len(lh) <= LOGSIZE - 2 /\ Len(head) <= LOGSIZE - 2
  /\ \A p \in Procs :
       /\ pc[p] \in {"write_log", "write_head", "install", "clear"} => lh # <<>>
       /\ pc[p] \in {"write_log", "install", "recover"} => tail < Len(lh)
       /\ pc[p] \in {"install", "clear", "recover", "recovered"} => head = lh
       /\ pc[p] \in {"committed", "read_head"} => lh = <<>>
  /\ (\A p \in Procs : pc[p] \notin {"write_log", "install", "recover"}) => tail = 0
  /\ (\A p \in Procs : pc[p] \notin {"install", "clear"} \cup RecoverPCs) => head = <<>>
  /\ ~ committing /\ outstanding = 0 /\ ~ Recovering => lh = <<>>

\* Which buffers are pinned, and what clean buffers and log blocks hold.
DataInv ==
  /\ \A b \in Blocks : b \in dirty \/ Held(b) => cache[b] # NoData
  /\ \A b \in Blocks : b \in dirty => b \in Range(lh)
  /\ \A p \in Procs : pc[p] = "install" =>
       \A i \in DOMAIN lh : lh[i] \in dirty <=> i > tail
  /\ \A p \in Procs : pc[p] \in {"clear", "committed"} \cup RecoverPCs => dirty = {}
  /\ (\A p \in Procs : pc[p] \notin {"install", "clear"} \cup RecoverPCs)
       => Range(lh) \subseteq dirty
  /\ NoLostUpdate
  /\ \A p \in Procs :
       /\ pc[p] = "write_log" =>
            \A i \in DOMAIN lh : i <= tail => logblk[i] = Contents(lh[i])
       /\ pc[p] \in {"write_head", "install", "clear", "recovered"} =>
            \A i \in DOMAIN lh : logblk[i] = Contents(lh[i])
       /\ pc[p] = "recover" =>
            \A i \in DOMAIN lh : i <= tail => logblk[i] = Contents(lh[i])

\* The log blocks the admitted system calls may still need, one pair for each.
Reserve ==
  {s \in Procs \X (1 .. OpBlocks) :
     pc[s[1]] \in OpPCs /\ s[2] + Cardinality(wrote[s[1]]) <= OpBlocks}

\* What the call of p wrote is in the header and within its bound, the block it is
\* about to log included.
Charged(p) ==
  /\ wrote[p] \subseteq Range(lh)
  /\ Cardinality(wrote[p]) <= OpBlocks
  /\ \A b \in held[p] : pc[p] \in Modifying =>
       Cardinality(wrote[p] \cup {b}) <= OpBlocks

SpaceInv ==
  /\ ~ panicked
  /\ \A p \in Procs : IsFiniteSet(wrote[p])
  /\ \A p \in Procs : pc[p] \in OpPCs => Charged(p)
  /\ Len(lh) + Cardinality(Reserve) <= LOGSIZE - 2

\* The whole invariant: it is true of the initial states, every step
\* preserves it, and it implies the safety properties of Log.
LogInvariant ==
  TypeOK /\ ControlInv /\ LockInv /\ HeaderInv /\ DataInv /\ SpaceInv
=============================================================================
