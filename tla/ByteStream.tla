----------------------------- MODULE ByteStream -----------------------------
(***************************************************************************)
(* What a pipe promises: a first-in first-out stream of bytes that holds   *)
(* at most Capacity of them.  Writers append, readers take from the front. *)
(***************************************************************************)
EXTENDS Naturals, Sequences

CONSTANTS Readers, Bytes, Capacity

VARIABLES queue,   \* the bytes written and not yet read, oldest first
          wopen,   \* some process has the write end open
          got      \* the bytes the read in progress of a reader has taken

bvars == <<queue, wopen, got>>

BInit ==
  /\ queue = <<>> /\ wopen = TRUE
  /\ got = [r \in Readers |-> <<>>]

Put(b) ==
  /\ wopen /\ Len(queue) < Capacity
  /\ queue' = Append(queue, b)
  /\ UNCHANGED <<wopen, got>>

Get(r) ==
  /\ queue # <<>>
  /\ got' = [got EXCEPT ![r] = Append(@, Head(queue))]
  /\ queue' = Tail(queue)
  /\ UNCHANGED wopen

\* The read of r returns; the next one begins with nothing.
Return(r) == got' = [got EXCEPT ![r] = <<>>] /\ UNCHANGED <<queue, wopen>>

CloseWrite == wopen' = FALSE /\ UNCHANGED <<queue, got>>

\* Both ends are closed, and the place is used for another stream.
Renew == ~ wopen /\ wopen' = TRUE /\ queue' = <<>> /\ UNCHANGED got

BNext ==
  \/ \E b \in Bytes : Put(b)
  \/ \E r \in Readers : Get(r) \/ Return(r)
  \/ CloseWrite \/ Renew

BSpec == BInit /\ [][BNext]_bvars
=============================================================================
