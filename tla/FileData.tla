----------------------------- MODULE FileData ------------------------------
(***************************************************************************)
(* The blocks of files: the disk that mkfs lays out, the block allocator,  *)
(* bmap(), itrunc(), readi() and writei() of fs.c, and read() and write()  *)
(* of file.c over open file structures that processes share.               *)
(*                                                                         *)
(* The log is present as what Log is shown to implement, AtomicDisk: what  *)
(* was written becomes durable when the last open operation ends, and a    *)
(* crash takes the disk back to what was durable.  An inode is read and    *)
(* written under its lock, the bitmap under the lock of its buffer, so a   *)
(* step reaches from one balloc() or bfree() to the next.                  *)
(***************************************************************************)
EXTENDS Integers, Sequences, SequencesExt, FiniteSets, FiniteSetsExt

CONSTANTS
  Procs,        \* processes
  Files,        \* entries of the file table, shared by the processes
  NINODES,      \* inodes on the disk
  IPB, BPB,     \* inodes, and bits of the bitmap, in a block
  BSIZE,        \* bytes, or block numbers, in a block
  NDIRECT,      \* block numbers in an inode
  NLOG,         \* blocks of the log
  FSSIZE,       \* blocks of the disk
  MAXOPBLOCKS,  \* blocks an operation may write
  Programs,     \* the bytes of the files that mkfs copies to the disk
  Buffer,       \* the bytes each process writes
  MaxCalls,     \* bound: system calls made before the model stops making more
  Counts,       \* the numbers of bytes read() and write() are called with
  None          \* a null pointer, an unused register

NINDIRECT == BSIZE
MAXFILE == NDIRECT + NINDIRECT
Inums == 1 .. NINODES - 1
ROOTINO == 1

\* Disk layout: boot block, super block, log, inodes, bitmap, data.
inodestart == 2 + NLOG
bmapstart == inodestart + NINODES \div IPB + 1
nmeta == bmapstart + FSSIZE \div BPB + 1
IBLOCK(i) == inodestart + i \div IPB
BBLOCK(b) == bmapstart + b \div BPB
Meta == 0 .. nmeta - 1
Data == nmeta .. FSSIZE - 1

ASSUME FileDataAssumption ==
  /\ {BSIZE, NDIRECT, IPB, BPB, NINODES, NLOG, FSSIZE, MAXOPBLOCKS} \subseteq Nat \ {0}
  /\ Counts \subseteq Nat \ {0} /\ MaxCalls \in Nat
  /\ Len(Programs) < NINODES - 1
  /\ None \notin Procs \cup Files \cup Nat

VARIABLES
  disk,      \* the blocks as the buffer cache shows them: used (the bitmap), blk, inode
  durable,   \* the blocks a crash leaves
  active,    \* processes between begin_op() and end_op()
  inode,     \* in-memory inodes: valid, type, nlink, size and addrs
  lock,      \* ip->lock: its holder, or None
  file,      \* struct file: the inode, or None, and the offset
  reg,       \* control point and local variables of each process
  calls,     \* system calls made so far
  panicked   \* the panic that was called, or None

vars == <<disk, durable, active, inode, lock, file, reg, calls, panicked>>

Zeros == [k \in 0 .. BSIZE - 1 |-> 0]
NoAddrs == [k \in 0 .. NDIRECT |-> 0]
FreeInode == [type |-> "free", nlink |-> 0, size |-> 0, addrs |-> NoAddrs]

-----------------------------------------------------------------------------
(* The block map of an inode with block numbers a, over the blocks blk.    *)

\* The block number at place fbn of the map; 0 when there is none yet.
BlockAt(blk, a, fbn) ==
  IF fbn < NDIRECT THEN a[fbn]
  ELSE IF a[NDIRECT] = 0 THEN 0 ELSE blk[a[NDIRECT]][fbn - NDIRECT]

\* Block b becomes the part of the map that is missing for place fbn: the block
\* itself, or the indirect block its number goes to.
Attached(blk, a, fbn, b) ==
  IF fbn < NDIRECT THEN [blk |-> blk, addrs |-> [a EXCEPT ![fbn] = b]]
  ELSE IF a[NDIRECT] = 0 THEN [blk |-> blk, addrs |-> [a EXCEPT ![NDIRECT] = b]]
  ELSE [blk |-> [blk EXCEPT ![a[NDIRECT]][fbn - NDIRECT] = b], addrs |-> a]

-----------------------------------------------------------------------------
(* mkfs: the first free inode and block are kept beside the image.         *)

\* ialloc() of mkfs, which numbers the inodes in turn.
mkfs_ialloc(img, type) ==
  [img EXCEPT !.inode[img.freeinode] = [FreeInode EXCEPT !.type = type, !.nlink = 1],
              !.freeinode = @ + 1]

\* The block for place fbn, or the indirect block, is the next free one.
mkfs_block(img, i, fbn) ==
  LET at == Attached(img.blk, img.inode[i].addrs, fbn, img.freeblock)
  IN IF BlockAt(img.blk, img.inode[i].addrs, fbn) # 0 THEN img
     ELSE [img EXCEPT !.blk = at.blk, !.inode[i].addrs = at.addrs, !.freeblock = @ + 1]

\* iappend() writes the pieces of its argument that lie in one block; here one
\* byte at a time, which allocates the same blocks in the same order.
iappend_byte(img, i, byte) ==
  LET off == img.inode[i].size
      m   == mkfs_block(mkfs_block(img, i, off \div BSIZE), i, off \div BSIZE)
      b   == BlockAt(m.blk, m.inode[i].addrs, off \div BSIZE)
  IN [m EXCEPT !.blk[b][off % BSIZE] = byte, !.inode[i].size = off + 1]

iappend(img, i, bytes) ==
  FoldLeft(LAMBDA m, byte : iappend_byte(m, i, byte), img, bytes)

\* A program: an inode, an entry in the root directory (one unit of space that
\* holds the inode number), and the bytes of the file.
mkfs_program(img, bytes) ==
  LET i == img.freeinode
  IN iappend(iappend(mkfs_ialloc(img, "T_FILE"), ROOTINO, <<i>>), i, bytes)

\* The size of the root directory is rounded up to whole blocks.
fix_root(img) ==
  [img EXCEPT !.inode[ROOTINO].size = ((@ \div BSIZE) + 1) * BSIZE]

\* "." and ".." name the root itself; balloc() of mkfs marks the blocks below
\* freeblock as used.
mkfs ==
  LET empty == [freeinode |-> ROOTINO, freeblock |-> nmeta,
                blk |-> [b \in Data |-> Zeros], inode |-> [i \in Inums |-> FreeInode]]
      root  == iappend(mkfs_ialloc(empty, "T_DIR"), ROOTINO, <<ROOTINO, ROOTINO>>)
      img   == fix_root(FoldLeft(mkfs_program, root, Programs))
  IN [used |-> 0 .. img.freeblock - 1, blk |-> img.blk, inode |-> img.inode]

-----------------------------------------------------------------------------
(* Steps of the processes.                                                 *)

Idle == [pc |-> "idle", f |-> None, ip |-> None, n |-> 0, i |-> 0, tot |-> 0,
         old |-> <<>>, wrote |-> {}]

At(p, l) == panicked = None /\ reg[p].pc = l

\* Process p is outside the kernel and makes a system call.
syscall(p) == At(p, "idle") /\ calls < MaxCalls /\ calls' = calls + 1

Goto(p, r) == reg' = [reg EXCEPT ![p] = r]

panic(msg) ==
  /\ panicked' = msg
  /\ UNCHANGED <<disk, durable, active, inode, lock, file, reg>>

\* ilock() once it has the lock.
load(i) == IF inode[i].valid THEN inode[i] ELSE disk.inode[i] @@ [valid |-> TRUE]

\* What iupdate() copies to the disk.
OnDisk(ino) == [type |-> ino.type, nlink |-> ino.nlink, size |-> ino.size, addrs |-> ino.addrs]

\* The pointers to the in-memory inode i.
Refs(i) == Cardinality({f \in Files : file[f].ip = i})
           + Cardinality({p \in Procs : reg[p].pc \in {"iput", "itrunc"} /\ reg[p].ip = i})

\* The bytes of an inode.
Bytes(blk, ino) ==
  [k \in 1 .. ino.size |-> blk[BlockAt(blk, ino.addrs, (k - 1) \div BSIZE)][(k - 1) % BSIZE]]

begin_op(p) == active' = active \cup {p}

\* end_op(): the last open operation commits what all of them wrote.  write()
\* goes on with its next piece.
end_op(p) ==
  /\ At(p, "end_op")
  /\ active' = active \ {p}
  /\ durable' = IF active = {p} THEN disk ELSE durable
  /\ Goto(p, IF reg[p].i < reg[p].n THEN [reg[p] EXCEPT !.pc = "begin_op"] ELSE Idle)
  /\ UNCHANGED <<disk, inode, lock, file, calls, panicked>>

-----------------------------------------------------------------------------
(* write(): filewrite() hands at most MaxPiece bytes at a time to writei() *)

\* Faulty variant: the whole buffer is written in one operation.
Faulty_MaxPiece == MAXFILE * BSIZE

MaxPiece == ((MAXOPBLOCKS - 1 - 1 - 2) \div 2) * BSIZE

\* The bytes of this piece.
n1(p) == Min({reg[p].n - reg[p].i, MaxPiece})

filewrite(p) ==
  /\ syscall(p)
  /\ \E f \in Files, n \in Counts :
       /\ file[f].ip # None
       /\ Goto(p, [Idle EXCEPT !.pc = "begin_op", !.f = f, !.ip = file[f].ip, !.n = n])
  /\ UNCHANGED <<disk, durable, active, inode, lock, file, panicked>>

filewrite_begin(p) ==
  /\ At(p, "begin_op")
  /\ begin_op(p)
  /\ Goto(p, [reg[p] EXCEPT !.pc = "ilock", !.wrote = {}, !.tot = 0])
  /\ UNCHANGED <<disk, durable, inode, lock, file, calls, panicked>>

\* ilock(f->ip) and the tests of writei(); a piece that would end beyond the
\* largest file is refused, and the call with it.
filewrite_ilock(p) ==
  LET i   == reg[p].ip
      ino == load(i)
      off == file[reg[p].f].off IN
    /\ At(p, "ilock")
    /\ lock[i] = None
    /\ UNCHANGED calls
    /\ IF ino.type = "free" THEN panic("ilock: no type")
       ELSE /\ inode' = [inode EXCEPT ![i] = ino]
            /\ \/ /\ off > ino.size \/ off + n1(p) > MAXFILE * BSIZE
                  /\ Goto(p, [reg[p] EXCEPT !.pc = "end_op", !.n = reg[p].i])
                  /\ UNCHANGED lock
               \/ /\ off <= ino.size /\ off + n1(p) <= MAXFILE * BSIZE
                  /\ lock' = [lock EXCEPT ![i] = p]
                  /\ Goto(p, [reg[p] EXCEPT !.pc = "writei", !.old = Bytes(disk.blk, ino)])
            /\ UNCHANGED <<disk, durable, active, file, panicked>>

\* The offset of the next byte, and the block it goes to.
Off(p) == file[reg[p].f].off + reg[p].tot
Target(p) == BlockAt(disk.blk, inode[reg[p].ip].addrs, Off(p) \div BSIZE)

\* Faulty variant: the block keeps what its last owner left in it.
Faulty_bzero(b) == disk.blk

bzero(b) == [disk.blk EXCEPT ![b] = Zeros]

\* One balloc() of bmap(): for the indirect block, or for the block itself.
writei_balloc(p) ==
  LET i    == reg[p].ip
      a    == inode[i].addrs
      fbn  == Off(p) \div BSIZE
      free == Data \ disk.used
      b    == Min(free)
      at   == Attached(bzero(b), a, fbn, b)
      ind  == IF fbn >= NDIRECT /\ a[NDIRECT] # 0 THEN {a[NDIRECT]} ELSE {} IN
    /\ At(p, "writei")
    /\ reg[p].tot < n1(p)
    /\ Target(p) = 0
    /\ UNCHANGED calls
    /\ IF free = {} THEN panic("balloc: out of blocks")
       ELSE /\ disk' = [disk EXCEPT !.used = @ \cup {b}, !.blk = at.blk]
            /\ inode' = [inode EXCEPT ![i].addrs = at.addrs]
            /\ Goto(p, [reg[p] EXCEPT !.wrote = @ \cup {BBLOCK(b), b} \cup ind])
            /\ UNCHANGED <<durable, active, lock, file, panicked>>

\* The bytes that fit into this block.
PieceOfBlock(p) == Min({n1(p) - reg[p].tot, BSIZE - (Off(p) % BSIZE)})

\* One round of writei(): the bytes go into the block and the block to the log.
writei_copy(p) ==
  LET b == Target(p)
      o == Off(p) % BSIZE
      m == PieceOfBlock(p) IN
    /\ At(p, "writei")
    /\ reg[p].tot < n1(p)
    /\ b # 0
    /\ disk' = [disk EXCEPT !.blk[b] =
                  [k \in DOMAIN @ |-> IF k \in o .. o + m - 1
                                      THEN Buffer[p][reg[p].i + reg[p].tot + (k - o) + 1]
                                      ELSE @[k]]]
    /\ Goto(p, [reg[p] EXCEPT !.tot = @ + m, !.wrote = @ \cup {b}])
    /\ UNCHANGED <<durable, active, inode, lock, file, calls, panicked>>

\* Faulty variant: a larger file is not written back.
Faulty_Grown(d, i, ino) == d

\* The disk after iupdate().
Grown(d, i, ino) == [d EXCEPT !.inode[i] = OnDisk(ino)]

\* Faulty variant: the offset is that of the first piece.
Faulty_Advance(f, n) == file

\* f->off += r
Advance(f, n) == [file EXCEPT ![f].off = @ + n]

\* The end of writei(), iupdate() when the file became larger, f->off += r and
\* iunlock().
filewrite_iunlock(p) ==
  LET i    == reg[p].ip
      grew == n1(p) > 0 /\ Off(p) > inode[i].size
      ino  == [inode[i] EXCEPT !.size = Off(p)] IN
    /\ At(p, "writei")
    /\ reg[p].tot = n1(p)
    /\ inode' = [inode EXCEPT ![i] = IF grew THEN ino ELSE @]
    /\ disk' = IF grew THEN Grown(disk, i, ino) ELSE disk
    /\ file' = Advance(reg[p].f, n1(p))
    /\ lock' = [lock EXCEPT ![i] = None]
    /\ Goto(p, [reg[p] EXCEPT !.pc = "end_op", !.i = @ + n1(p), !.old = <<>>, !.tot = 0,
                              !.wrote = IF grew THEN @ \cup {IBLOCK(i)} ELSE @])
    /\ UNCHANGED <<durable, active, calls, panicked>>

-----------------------------------------------------------------------------
(* read(): no operation of the log is open, so a block that is missing     *)
(* would be allocated by bmap() outside of one.                            *)

\* The bytes readi() moves.
ReadCount(ino, off, n) == IF off > ino.size THEN 0 ELSE Min({n, ino.size - off})

fileread(p) ==
  /\ syscall(p)
  /\ \E f \in Files, n \in Counts :
       LET i   == file[f].ip
           ino == load(i)
           off == file[f].off
           r   == ReadCount(ino, off, n) IN
         /\ i # None
         /\ lock[i] = None
         /\ IF \E k \in off .. off + r - 1 : BlockAt(disk.blk, ino.addrs, k \div BSIZE) = 0
            THEN panic("log_write outside of trans")
            ELSE /\ inode' = [inode EXCEPT ![i] = ino]
                 /\ file' = [file EXCEPT ![f].off = @ + r]
                 /\ UNCHANGED <<disk, durable, active, lock, reg, panicked>>

-----------------------------------------------------------------------------
(* open(), close(), unlink() and iput(): what they do to inodes; names are *)
(* in Sysfile.                                                             *)

Uncached == FreeInode @@ [valid |-> FALSE]

\* The in-memory inode once p has dropped its pointer.
Dropped(i, ino) == [inode EXCEPT ![i] = IF Refs(i) = 1 THEN Uncached ELSE ino]

sys_open(p) ==
  /\ syscall(p)
  /\ \E f \in Files, i \in Inums :
       /\ file[f].ip = None
       /\ lock[i] = None
       /\ load(i).type = "T_FILE" /\ load(i).nlink > 0
       /\ file' = [file EXCEPT ![f] = [ip |-> i, off |-> 0]]
       /\ inode' = [inode EXCEPT ![i] = load(i)]
  /\ UNCHANGED <<disk, durable, active, lock, reg, panicked>>

\* open() with O_CREATE: ialloc() takes the first inode that is free on disk.
create(p) ==
  LET free == {i \in Inums : disk.inode[i].type = "free"}
      i    == Min(free)
      new  == [FreeInode EXCEPT !.type = "T_FILE", !.nlink = 1] IN
    /\ syscall(p)
    /\ free # {}
    /\ \E f \in Files :
         /\ file[f].ip = None
         /\ file' = [file EXCEPT ![f] = [ip |-> i, off |-> 0]]
    /\ begin_op(p)
    /\ disk' = [disk EXCEPT !.inode[i] = new]
    /\ inode' = [inode EXCEPT ![i] = new @@ [valid |-> TRUE]]
    /\ Goto(p, [Idle EXCEPT !.pc = "end_op", !.wrote = {IBLOCK(i)}])
    /\ UNCHANGED <<durable, lock, panicked>>

\* The last close of f: no other process has a descriptor for it, so none is in
\* a call on it.
fileclose(p) ==
  /\ syscall(p)
  /\ \E f \in Files :
       /\ file[f].ip # None
       /\ \A q \in Procs : reg[q].f # f
       /\ file' = [file EXCEPT ![f] = [ip |-> None, off |-> 0]]
       /\ Goto(p, [Idle EXCEPT !.pc = "iput", !.ip = file[f].ip])
  /\ begin_op(p)
  /\ UNCHANGED <<disk, durable, inode, lock, panicked>>

\* The file has no name left: nlink-- and iupdate().
sys_unlink(p) ==
  /\ syscall(p)
  /\ \E i \in Inums :
       LET ino == [load(i) EXCEPT !.nlink = 0] IN
         /\ lock[i] = None
         /\ load(i).type = "T_FILE" /\ load(i).nlink > 0
         /\ inode' = [inode EXCEPT ![i] = ino]
         /\ disk' = [disk EXCEPT !.inode[i] = OnDisk(ino)]
         /\ Goto(p, [Idle EXCEPT !.pc = "iput", !.ip = i, !.wrote = {IBLOCK(i)}])
  /\ begin_op(p)
  /\ UNCHANGED <<durable, lock, file, panicked>>

iput(p) ==
  LET i == reg[p].ip IN
    /\ At(p, "iput")
    /\ lock[i] = None
    /\ \/ /\ inode[i].valid /\ inode[i].nlink = 0 /\ Refs(i) = 1
          /\ lock' = [lock EXCEPT ![i] = p]
          /\ Goto(p, [reg[p] EXCEPT !.pc = "itrunc", !.old = Bytes(disk.blk, inode[i])])
          /\ UNCHANGED inode
       \/ /\ ~ (inode[i].valid /\ inode[i].nlink = 0 /\ Refs(i) = 1)
          /\ inode' = Dropped(i, inode[i])
          /\ Goto(p, [reg[p] EXCEPT !.pc = "end_op", !.ip = None])
          /\ UNCHANGED lock
    /\ UNCHANGED <<disk, durable, active, file, calls, panicked>>

\* The places of the inode's map that hold a block number.
Direct(i) == {k \in 0 .. NDIRECT - 1 : inode[i].addrs[k] # 0}

\* bfree() of the blocks bs, after which place k of the inode is 0.
itrunc_free(p, bs, k) ==
  /\ UNCHANGED calls
  /\ IF ~ bs \subseteq disk.used THEN panic("freeing free block")
     ELSE /\ disk' = [disk EXCEPT !.used = @ \ bs]
          /\ inode' = [inode EXCEPT ![reg[p].ip].addrs[k] = 0]
          /\ Goto(p, [reg[p] EXCEPT !.wrote = @ \cup {BBLOCK(b) : b \in bs}])
          /\ UNCHANGED <<durable, active, lock, file, panicked>>

itrunc_direct(p) ==
  /\ At(p, "itrunc")
  /\ Direct(reg[p].ip) # {}
  /\ LET k == Min(Direct(reg[p].ip)) IN itrunc_free(p, {inode[reg[p].ip].addrs[k]}, k)

\* The indirect block and the blocks it names.
Indirect(x) == ({disk.blk[x][j] : j \in 0 .. NINDIRECT - 1} \ {0}) \cup {x}

itrunc_indirect(p) ==
  LET x == inode[reg[p].ip].addrs[NDIRECT] IN
    /\ At(p, "itrunc")
    /\ Direct(reg[p].ip) = {}
    /\ x # 0
    /\ itrunc_free(p, Indirect(x), NDIRECT)

\* size = 0, type = 0, iupdate(), valid = 0, releasesleep() and ref--.
itrunc_done(p) ==
  LET i == reg[p].ip IN
    /\ At(p, "itrunc")
    /\ inode[i].addrs = NoAddrs
    /\ disk' = [disk EXCEPT !.inode[i] = FreeInode]
    /\ inode' = [inode EXCEPT ![i] = Uncached]
    /\ lock' = [lock EXCEPT ![i] = None]
    /\ Goto(p, [reg[p] EXCEPT !.pc = "end_op", !.ip = None, !.old = <<>>,
                              !.wrote = @ \cup {IBLOCK(i)}])
    /\ UNCHANGED <<durable, active, file, calls, panicked>>

-----------------------------------------------------------------------------

\* Everything in memory is gone; recovery shows the durable blocks.
Crash ==
  /\ disk' = durable
  /\ active' = {}
  /\ inode' = [i \in Inums |-> Uncached]
  /\ lock' = [i \in Inums |-> None]
  /\ file' = [f \in Files |-> [ip |-> None, off |-> 0]]
  /\ reg' = [p \in Procs |-> Idle]
  /\ panicked' = None
  /\ UNCHANGED <<durable, calls>>

Init ==
  /\ disk = mkfs
  /\ durable = mkfs
  /\ active = {}
  /\ inode = [i \in Inums |-> Uncached]
  /\ lock = [i \in Inums |-> None]
  /\ file = [f \in Files |-> [ip |-> None, off |-> 0]]
  /\ reg = [p \in Procs |-> Idle]
  /\ calls = 0
  /\ panicked = None

Next ==
  \/ \E p \in Procs :
       \/ filewrite(p) \/ filewrite_begin(p) \/ filewrite_ilock(p)
       \/ writei_balloc(p) \/ writei_copy(p) \/ filewrite_iunlock(p)
       \/ fileread(p)
       \/ sys_open(p) \/ create(p) \/ fileclose(p) \/ sys_unlink(p)
       \/ iput(p) \/ itrunc_direct(p) \/ itrunc_indirect(p) \/ itrunc_done(p)
       \/ end_op(p)
  \/ Crash

Spec == Init /\ [][Next]_vars

-----------------------------------------------------------------------------

\* The inode as the kernel sees it: in memory, or on disk when it is not there.
View(i) == IF inode[i].valid THEN inode[i] ELSE disk.inode[i]

\* The block numbers in the map of an inode, each with the place it stands at.
Places(blk, a) ==
  {<<k, a[k]>> : k \in {j \in 0 .. NDIRECT : a[j] # 0}}
  \cup IF a[NDIRECT] = 0 THEN {}
       ELSE {<<NDIRECT + 1 + k, blk[a[NDIRECT]][k]>> :
               k \in {j \in 0 .. NINDIRECT - 1 : blk[a[NDIRECT]][j] # 0}}

\* Every block is either free or at one place of one inode.
Partitioned(used, blk, ino) ==
  LET at == UNION {{<<i, x>> : x \in Places(blk, ino[i].addrs)} : i \in Inums}
      bs == {e[2][2] : e \in at} IN
    /\ bs \subseteq Data
    /\ Cardinality(bs) = Cardinality(at)
    /\ used = Meta \cup bs

\* No two files share a block, no block in use is free, no block is lost, and no
\* panic of the file layer other than a full disk is reached: balloc(), bfree(),
\* bmap() and itrunc() of processes that create, grow and free files.
BlocksPartitioned ==
  /\ panicked \in {None, "balloc: out of blocks"}
  /\ Partitioned(disk.used, disk.blk, [i \in Inums |-> View(i)])

\* What a crash leaves is a file system: blocks and bitmap agree, a free inode
\* has no blocks, and an inode has exactly the blocks its size calls for, so no
\* read() after the reboot has to allocate one (readi() calls bmap() outside of
\* an operation of the log).
CrashConsistent ==
  /\ Partitioned(durable.used, durable.blk, durable.inode)
  /\ \A i \in Inums :
       LET ino == durable.inode[i] IN
         /\ ino.type = "free" => ino = FreeInode
         /\ \A k \in 0 .. MAXFILE - 1 :
              (BlockAt(durable.blk, ino.addrs, k) # 0) <=> (k * BSIZE < ino.size)

\* No piece of a write() and no iput() fills the space begin_op() reserved: it
\* writes fewer distinct blocks than MAXOPBLOCKS, which is what Log assumes of
\* the callers of log_write() (the limit at file.c:133).
WithinReservation == \A p \in Procs : Cardinality(reg[p].wrote) < MAXOPBLOCKS

\* Bytes as other processes can see them: a file that is being written under its
\* lock still has its old ones.
Content(i) ==
  LET owners == {p \in Procs : reg[p].pc \in {"writei", "itrunc"} /\ reg[p].ip = i}
  IN IF owners = {} THEN Bytes(disk.blk, View(i)) ELSE reg[CHOOSE p \in owners : TRUE].old

Store == INSTANCE FileStore WITH
  Pieces  <- UNION {{SubSeq(Buffer[p], j, k) : j, k \in 1 .. Len(Buffer[p])} : p \in Procs},
  content <- [i \in Inums |-> Content(i)],
  saved   <- [i \in Inums |-> Bytes(durable.blk, durable.inode[i])],
  open    <- [f \in Files |-> file[f].ip],
  pos     <- [f \in Files |-> file[f].off]

\* Bytes, positions and crashes are those of FileStore: a piece of a write()
\* lands at the position its structure has, whoever else uses the structure,
\* block by block through direct and indirect blocks, and survives or is lost as
\* a whole.
ImplementsFileStore == Store!Spec

=============================================================================
