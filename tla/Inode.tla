------------------------------- MODULE Inode -------------------------------
(***************************************************************************)
(* The inode layer of fs.c: the inodes on disk, the directory entries, the *)
(* inode cache with its reference counts, and the subroutines iput() and   *)
(* namex() that every system call on files goes through.                   *)
(*                                                                         *)
(* A process runs one system call at a time; its registers are one record  *)
(* of reg.  A sleep-lock that is taken and given up in one action is never *)
(* seen held; one that a process keeps while it waits for another lock is. *)
(* What the log and the buffer cache do is in Log and Bcache: here a block *)
(* that is written is written at once.                                     *)
(***************************************************************************)
EXTENDS Integers, Sequences, FiniteSets, FiniteSetsExt

CONSTANTS
  Procs,     \* processes
  Inums,     \* inode numbers on the disk
  ROOTINO,   \* the root directory
  NINODE,    \* entries of the inode cache
  Names,     \* names of directory entries, besides "." and ".."
  Fds,       \* file descriptors of a process
  NFILE,     \* entries of the file table
  None       \* a null pointer, an unused register

Slots == 1 .. NINODE
AllNames == Names \cup {".", ".."}

ASSUME InodeAssumption ==
  /\ IsFiniteSet(Procs) /\ IsFiniteSet(Inums) /\ ROOTINO \in Inums
  /\ 0 \notin Inums /\ NINODE \in Nat \ {0} /\ NFILE \in Nat \ {0}
  /\ None \notin Procs \cup Slots \cup (1 .. NFILE)
  /\ {".", ".."} \cap Names = {}

VARIABLES
  dinode,    \* inodes on disk: type ("free" for 0) and nlink
  ents,      \* the entries of each directory: inode numbers, 0 when empty
  inode,     \* icache.inode
  lock,      \* ip->lock: its holder, or None
  cwd,       \* proc->cwd: a cache entry
  file,      \* ftable.file
  ofile,     \* proc->ofile
  reg,       \* control point and local variables of each process
  panicked   \* the panic that was called, or None

fs == <<dinode, ents>>
files == <<file, ofile>>
vars == <<dinode, ents, inode, lock, cwd, file, ofile, reg, panicked>>

Types == {"T_DIR", "T_FILE", "T_DEV"}

panic(msg) ==
  /\ panicked' = msg
  /\ UNCHANGED <<fs, inode, lock, cwd, files, reg>>

-----------------------------------------------------------------------------
(* The inode cache, as operators on its contents ic.                       *)

Cached(ic, i) == {s \in Slots : ic[s].ref > 0 /\ ic[s].inum = i}
Empty(ic) == {s \in Slots : ic[s].ref = 0}

\* The entry iget() returns: the one that caches i, else the first empty one.
SlotFor(ic, i) == IF Cached(ic, i) # {} THEN Min(Cached(ic, i)) ELSE Min(Empty(ic))

NoSlot(ic, i) == Cached(ic, i) \cup Empty(ic) = {}

\* dirlookup() finds the entry i, and iget(i) panics.
NoRoom(ic, i) == i # 0 /\ NoSlot(ic, i)

iget(ic, i) ==
  LET s == SlotFor(ic, i) IN
    IF Cached(ic, i) # {} THEN [ic EXCEPT ![s].ref = @ + 1]
    ELSE [ic EXCEPT ![s] = [@ EXCEPT !.inum = i, !.ref = 1, !.valid = FALSE]]

\* Faulty variant: the copied pointer is not counted.
Faulty_idup(ic, s) == ic

idup(ic, s) == [ic EXCEPT ![s].ref = @ + 1]

\* ilock() once it has the lock: the cache after reading the inode from disk.
load(ic, s) ==
  IF ic[s].valid THEN ic
  ELSE [ic EXCEPT ![s] = [@ EXCEPT !.valid = TRUE, !.type = dinode[ic[s].inum].type,
                                   !.nlink = dinode[ic[s].inum].nlink]]

\* The lock of s is free, so ilock(s) does not sleep.
Unlocked(s) == lock[s] = None

\* The two panics of ilock().
LockPanics(s) == inode[s].ref < 1 \/ load(inode, s)[s].type = "free"

\* iupdate(): the inodes di of the disk after entry s of ic is copied there.
iupdate(di, ic, s) ==
  [di EXCEPT ![ic[s].inum] = [type |-> ic[s].type, nlink |-> ic[s].nlink]]

\* dirlookup(): the inode number of the entry, or 0.
dirlookup(ic, s, name) == ents[ic[s].inum][name]

\* dirlink(): the directory entries e after the entry (name, i) is written into
\* an empty place of the directory s.
dirlink(e, ic, s, name, i) == [e EXCEPT ![ic[s].inum][name] = i]

isdirempty(i) == \A n \in Names : ents[i][n] = 0

-----------------------------------------------------------------------------
(* iput(put), which returns to the control point ret.                      *)

Step(p, r) == reg' = [reg EXCEPT ![p] = r]

At(p, l) == panicked = None /\ reg[p].pc = l

\* The registers of a process that calls iput(s) and goes on at l.
CallIput(r, s, l) == [r EXCEPT !.pc = "iput", !.put = s, !.ret = l]

\* Faulty variant: iput() frees an inode that others still refer to.
Faulty_LastReference(s) == inode[s].valid /\ inode[s].nlink = 0

LastReference(s) == inode[s].valid /\ inode[s].nlink = 0 /\ inode[s].ref = 1

\* acquiresleep(), the test of valid and nlink, and the look at ref under
\* icache.lock.
iput_lock(p) ==
  /\ At(p, "iput")
  /\ Unlocked(reg[p].put)
  /\ IF LastReference(reg[p].put)
     THEN /\ lock' = [lock EXCEPT ![reg[p].put] = p]
          /\ Step(p, [reg[p] EXCEPT !.pc = "iput_free"])
     ELSE /\ Step(p, [reg[p] EXCEPT !.pc = "iput_ref"])
          /\ UNCHANGED lock
  /\ UNCHANGED <<fs, inode, cwd, files, panicked>>

\* itrunc(), type = 0, iupdate(): the inode is free on disk.
iput_free(p) ==
  LET s  == reg[p].put
      ic == [inode EXCEPT ![s].type = "free"] IN
    /\ At(p, "iput_free")
    /\ inode' = ic
    /\ dinode' = iupdate(dinode, ic, s)
    /\ ents' = [ents EXCEPT ![inode[s].inum] = [n \in AllNames |-> 0]]
    /\ Step(p, [reg[p] EXCEPT !.pc = "iput_unlock"])
    /\ UNCHANGED <<lock, cwd, files, panicked>>

\* Faulty variant: the freed entry stays valid.
Faulty_iput_unlock(p) ==
  /\ At(p, "iput_unlock")
  /\ lock' = [lock EXCEPT ![reg[p].put] = None]
  /\ Step(p, [reg[p] EXCEPT !.pc = "iput_ref"])
  /\ UNCHANGED <<fs, inode, cwd, files, panicked>>

\* valid = 0 and releasesleep().
iput_unlock(p) ==
  /\ At(p, "iput_unlock")
  /\ inode' = [inode EXCEPT ![reg[p].put].valid = FALSE]
  /\ lock' = [lock EXCEPT ![reg[p].put] = None]
  /\ Step(p, [reg[p] EXCEPT !.pc = "iput_ref"])
  /\ UNCHANGED <<fs, cwd, files, panicked>>

\* An entry without references: iget() sets inum, ref and valid before ilock()
\* reads the rest, so the old contents, other than valid, are left out.
Released(e) ==
  IF e.ref > 1 THEN [e EXCEPT !.ref = @ - 1]
  ELSE [inum |-> 0, ref |-> e.ref - 1, valid |-> e.valid, type |-> "free", nlink |-> 0]

\* ref-- under icache.lock.
iput_ref(p) ==
  /\ At(p, "iput_ref")
  /\ inode' = [inode EXCEPT ![reg[p].put] = Released(@)]
  /\ Step(p, [reg[p] EXCEPT !.pc = reg[p].ret, !.put = None, !.ret = None])
  /\ UNCHANGED <<fs, lock, cwd, files, panicked>>

iput(p) == iput_lock(p) \/ iput_free(p) \/ iput_unlock(p) \/ iput_ref(p)

-----------------------------------------------------------------------------
(* namex(): walks the elements path of a path from the entry at, and       *)
(* returns at the control point nret; the callers give up when it fails.   *)

Parents == {"unlink", "link_new", "create"}

\* nameiparent(): the caller wants the directory of the last element.
NameiParent(p) == reg[p].nret \in Parents

\* The registers of a process outside the kernel.
Idle == [pc |-> "idle", call |-> None, path |-> <<>>, nret |-> None, at |-> None,
         ip |-> None, dp |-> None, put |-> None, ret |-> None, new |-> None]

\* iput(s), end_op() and return.
PutAndReturn(s) == CallIput(Idle, s, "idle")

\* namex() returns 0 after iput(s): the system call fails, except that link()
\* has a link to take back.
NamexFails(p, s) ==
  IF reg[p].nret = "link_new" THEN CallIput([Idle EXCEPT !.ip = reg[p].ip], s, "link_bad")
  ELSE PutAndReturn(s)

\* The path starts at the root or at the current directory.
namex(p, r) ==
  LET abs == Head(r.path) = "/"
      s   == IF abs THEN SlotFor(inode, ROOTINO) ELSE cwd[p] IN
    IF abs /\ NoSlot(inode, ROOTINO) THEN panic("iget: no inodes")
    ELSE /\ inode' = IF abs THEN iget(inode, ROOTINO) ELSE idup(inode, s)
         /\ Step(p, [r EXCEPT !.pc = "walk", !.at = s, !.path = IF abs THEN Tail(@) ELSE @])
         /\ UNCHANGED <<fs, lock, cwd, files, panicked>>

\* No element is left: a path that nameiparent() cannot split.
walk_end(p) ==
  /\ At(p, "walk")
  /\ reg[p].path = <<>>
  /\ Step(p, IF NameiParent(p)
             THEN NamexFails(p, reg[p].at)
             ELSE [reg[p] EXCEPT !.pc = reg[p].nret, !.nret = None])
  /\ UNCHANGED <<fs, inode, lock, cwd, files, panicked>>

\* The test of ip->type in namex().
IsDir(ic, s) == ic[s].type = "T_DIR"

\* One element: ilock(ip), dirlookup(), iunlock(ip) and the call of iput(ip).
walk_elem(p) ==
  LET s    == reg[p].at
      ic   == load(inode, s)
      dir  == IsDir(ic, s)
      stop == NameiParent(p) /\ Len(reg[p].path) = 1
      i    == dirlookup(ic, s, Head(reg[p].path)) IN
    /\ At(p, "walk")
    /\ reg[p].path # <<>>
    /\ Unlocked(s)
    /\ IF LockPanics(s) \/ (dir /\ ~ stop /\ NoRoom(ic, i)) THEN panic("ilock")
       ELSE /\ \/ /\ ~ dir \/ (~ stop /\ i = 0)
                  /\ inode' = ic
                  /\ Step(p, NamexFails(p, s))
               \/ /\ dir /\ stop
                  /\ inode' = ic
                  /\ Step(p, [reg[p] EXCEPT !.pc = reg[p].nret, !.nret = None])
               \/ /\ dir /\ ~ stop /\ i # 0
                  /\ inode' = iget(ic, i)
                  /\ Step(p, CallIput([reg[p] EXCEPT !.at = SlotFor(ic, i),
                                                     !.path = Tail(@)], s, "walk"))
            /\ UNCHANGED <<fs, lock, cwd, files, panicked>>

=============================================================================
