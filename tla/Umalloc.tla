------------------------------- MODULE Umalloc -------------------------------
(***************************************************************************)
(* The user memory allocator of umalloc.c: a circular list of free blocks  *)
(* in address order through the empty block base.  Addresses count headers *)
(* (union header): base is 0, and the memory sbrk() gives out starts at 1. *)
(* The program may call sbrk() itself, so the memory of the allocator need *)
(* not be in one piece.                                                    *)
(***************************************************************************)
EXTENDS Integers, FiniteSets, FiniteSetsExt, Functions, TLC

CONSTANTS HDR,       \* sizeof(Header), in bytes
          UINT,      \* the number of values of a uint
          MinCore,   \* the least number of headers morecore() asks for (4096)
          Top,       \* bound: the end of the memory sbrk() can give out
          Requests   \* the sizes, in bytes, that the program asks for

VARIABLES hdr,       \* the headers in memory: address |-> [ptr, size]
          freep,     \* where the search for a block starts
          brk,       \* the end of the process's memory
          want,      \* header units of the malloc() that is under way, 0 if none
          asked,     \* the bytes it was called with
          held,      \* blocks of the program: <<header, bytes asked for>>
          core       \* addresses that morecore() put into the allocator

umVars == <<hdr, freep, brk, want, asked, held, core>>

base == 0
Null == -1
Addr == 0 .. Top

\* The link of a block that is not free means nothing; it is base here.
Header(ptr, size) == [ptr |-> ptr, size |-> size]

umInit ==
  /\ hdr = (base :> Header(base, 0)) /\ freep = Null
  /\ brk = 1 /\ want = 0 /\ asked = 0 /\ held = {} /\ core = {}

\* The block that is k links behind p.
Link(h, p, k) ==
  LET at[j \in 0 .. k] == IF j = 0 THEN p ELSE h[at[j - 1]].ptr
  IN at[k]

\* Whether free() puts the block bp behind p: between two blocks, or at either
\* end of the arena.
Behind(h, p, bp) ==
  \/ p < bp /\ bp < h[p].ptr
  \/ p >= h[p].ptr /\ (bp > p \/ bp < h[p].ptr)

\* Faulty variant: a block is never joined to the one below it.
Faulty_JoinsLower(h, p, bp) == FALSE

JoinsLower(h, p, bp) == p + h[p].size = bp

\* The block bp is linked to what follows p, or joined to it ...
Upper(h, p, bp) ==
  LET nx == h[p].ptr
  IN IF bp + h[bp].size = nx
     THEN [Restrict(h, DOMAIN h \ {nx}) EXCEPT ![bp] = Header(h[nx].ptr, @.size + h[nx].size)]
     ELSE [h EXCEPT ![bp].ptr = nx]

\* ... and p is linked to it, or joined to it.
Lower(h, p, bp) ==
  IF JoinsLower(h, p, bp)
  THEN [Restrict(h, DOMAIN h \ {bp}) EXCEPT ![p] = Header(h[bp].ptr, @.size + h[bp].size)]
  ELSE [h EXCEPT ![p].ptr = bp]

\* The block behind which free() puts bp: the first one after freep.
Place(h, bp) == Link(h, freep, Min({k \in Addr : Behind(h, Link(h, freep, k), bp)}))

Free(h, bp) ==
  \E p \in {Place(h, bp)} : hdr' = Lower(Upper(h, p, bp), p, bp) /\ freep' = p

free(bp) ==
  /\ want = 0
  /\ Free(hdr, bp)
  /\ held' = {b \in held : b[1] # bp}
  /\ UNCHANGED <<brk, want, asked, core>>

\* The blocks behind freep that are large enough, by their distance; freep itself
\* is looked at last.
Round == Min({k \in 1 .. Top + 1 : Link(hdr, freep, k) = freep})
Found(n) == {k \in 1 .. Round : hdr[Link(hdr, freep, k)].size >= n}

\* The header units of nbytes bytes and a header.
nunits(nbytes) == ((nbytes + HDR - 1) % UINT) \div HDR + 1

malloc(nbytes) ==
  /\ want = 0
  /\ want' = nunits(nbytes)
  /\ asked' = nbytes
  /\ freep' = IF freep = Null THEN base ELSE freep
  /\ UNCHANGED <<hdr, brk, held, core>>

\* A block of the right size leaves the list; the tail of a larger one is used.
malloc_found ==
  /\ want > 0
  /\ Found(want) # {}
  /\ LET k     == Min(Found(want))
         prevp == Link(hdr, freep, k - 1)
         p     == Link(hdr, freep, k)
         rest  == hdr[p].size - want
     IN /\ hdr' = IF rest = 0
                  THEN [hdr EXCEPT ![prevp].ptr = hdr[p].ptr, ![p].ptr = base]
                  ELSE [hdr EXCEPT ![p].size = rest] @@ (p + rest :> Header(base, want))
        /\ freep' = prevp
        /\ held' = held \cup {<<p + rest, asked>>}
  /\ want' = 0 /\ asked' = 0
  /\ UNCHANGED <<brk, core>>

\* No block is large enough: sbrk() gives memory that is freed into the list, or
\* fails and malloc() returns 0.
morecore ==
  /\ want > 0
  /\ Found(want) = {}
  /\ \/ LET nu == Max({want, MinCore})
        IN /\ brk + nu <= Top + 1
           /\ Free(hdr @@ (brk :> Header(base, nu)), brk)
           /\ brk' = brk + nu
           /\ core' = core \cup brk .. brk + nu - 1
           /\ UNCHANGED <<want, asked>>
     \/ want' = 0 /\ asked' = 0 /\ UNCHANGED <<hdr, freep, brk, core>>
  /\ UNCHANGED held

\* The program takes a piece of memory for itself.
sbrk ==
  /\ want = 0
  /\ brk < Top
  /\ brk' = brk + 1
  /\ UNCHANGED <<hdr, freep, want, asked, held, core>>

umNext ==
  \/ \E n \in Requests : malloc(n)
  \/ malloc_found
  \/ morecore
  \/ \E b \in held : free(b[1])
  \/ sbrk

umSpec == umInit /\ [][umNext]_umVars

-----------------------------------------------------------------------------

FreeBlocks == IF freep = Null THEN {} ELSE {Link(hdr, freep, k) : k \in Addr} \ {base}
Body(b) == b .. b + hdr[b].size - 1

\* The free blocks and the blocks of the program share out the memory of the
\* allocator, every header of it belonging to one; each block of the program has
\* room for the bytes that were asked for; the list goes round in address order
\* through base; and no two free blocks touch, so that fragmentation is never the
\* fault of free().  It holds of small requests, as Requests has them: one within
\* sizeof(Header) of 2^32 bytes makes nunits wrap and gets too small a block, and
\* from 2^31 bytes on morecore() passes a negative number to sbrk().  (malloc,
\* free and morecore, umalloc.c)
HeapSound ==
  LET mine   == {b[1] : b \in held}
      blocks == FreeBlocks \cup mine
  IN /\ FreeBlocks \cap mine = {}
     /\ UNION {Body(b) : b \in blocks} = core
     /\ \A b, c \in blocks : b # c => Body(b) \cap Body(c) = {}
     /\ \A b \in held : (hdr[b[1]].size - 1) * HDR >= b[2]
     /\ \A b \in FreeBlocks : hdr[b].size > 0 /\
          (hdr[b].ptr = base \/ hdr[b].ptr > b + hdr[b].size)
     /\ freep # Null => base \in {Link(hdr, freep, k) : k \in Addr}
     /\ freep # Null => \E k \in 1 .. Top + 1 : Link(hdr, freep, k) = freep

=============================================================================
