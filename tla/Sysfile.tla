------------------------------ MODULE Sysfile ------------------------------
(***************************************************************************)
(* The system calls on files and directories (sysfile.c) and the file      *)
(* table (file.c), over the inodes of Inode.                               *)
(***************************************************************************)
EXTENDS Inode

CONSTANTS
  Image,     \* the entries of the root directory that mkfs writes
  MaxLinks,  \* bound: link() is called while every file has fewer links
  Calls      \* the system calls each process makes, with their arguments

Files == 1 .. NFILE

\* The last element of the path, which nameiparent() left for its caller.
Name(p) == Head(reg[p].path)

\* The call returns.
Return(p) == Step(p, Idle)

\* Where namei() or nameiparent() returns to.
Caller(op) ==
  CASE op = "link" -> "link_old"
    [] op = "unlink" -> "unlink"
    [] op \in {"mkdir", "mknod", "open_create"} -> "create"
    [] op \in {"open", "open_rdwr"} -> "open"
    [] op = "chdir" -> "chdir"

\* begin_op() and the start of namei() or nameiparent() for the path of the call.
syscall(p) ==
  /\ At(p, "idle")
  /\ \E c \in Calls[p] :
       /\ c.op = "link" => \A i \in Inums : dinode[i].type = "T_FILE" => dinode[i].nlink < MaxLinks
       /\ namex(p, [Idle EXCEPT !.path = c.path, !.nret = Caller(c.op),
                                !.call = IF c.op \in {"unlink", "chdir"} THEN None ELSE c])

\* Process p has found an inode at and may lock it now.
Found(p, l) == At(p, l) /\ Unlocked(reg[p].at)

-----------------------------------------------------------------------------
(* sys_link()                                                              *)

\* Faulty variant: the link is counted after the entry is written.
Faulty_AddLink(ic, s) == ic

AddLink(ic, s) == [ic EXCEPT ![s].nlink = @ + 1]

link_old(p) ==
  LET s  == reg[p].at
      ic == load(inode, s)
      up == AddLink(ic, s) IN
    /\ Found(p, "link_old")
    /\ IF LockPanics(s) THEN panic("ilock")
       ELSE /\ \/ /\ ic[s].type = "T_DIR"
                  /\ inode' = ic
                  /\ Step(p, PutAndReturn(s))
                  /\ UNCHANGED dinode
               \/ /\ ic[s].type # "T_DIR"
                  /\ inode' = up
                  /\ dinode' = iupdate(dinode, up, s)
                  /\ Step(p, [Idle EXCEPT !.pc = "link_parent", !.ip = s,
                                         !.path = reg[p].call.new, !.nret = "link_new"])
            /\ UNCHANGED <<ents, lock, cwd, files, panicked>>

\* nameiparent(new).
link_parent(p) == At(p, "link_parent") /\ namex(p, reg[p])

\* ilock(dp) and dirlink(): when the name exists its inode is put while dp is
\* still locked.
link_new(p) ==
  LET s  == reg[p].at
      ic == load(inode, s)
      i  == dirlookup(ic, s, Name(p)) IN
    /\ Found(p, "link_new")
    /\ IF LockPanics(s) \/ ic[s].type # "T_DIR" \/ NoRoom(ic, i) THEN panic("dirlookup")
       ELSE /\ \/ /\ i # 0
                  /\ inode' = iget(ic, i)
                  /\ lock' = [lock EXCEPT ![s] = p]
                  /\ Step(p, CallIput([Idle EXCEPT !.ip = reg[p].ip, !.dp = s],
                                      SlotFor(ic, i), "link_exists"))
                  /\ UNCHANGED ents
               \/ /\ i = 0
                  /\ inode' = ic
                  /\ ents' = dirlink(ents, ic, s, Name(p), inode[reg[p].ip].inum)
                  /\ Step(p, CallIput([Idle EXCEPT !.ip = reg[p].ip], s, "link_done"))
                  /\ UNCHANGED lock
            /\ UNCHANGED <<dinode, cwd, files, panicked>>

\* iunlockput(dp) after dirlink() failed.
link_exists(p) ==
  /\ At(p, "link_exists")
  /\ lock' = [lock EXCEPT ![reg[p].dp] = None]
  /\ Step(p, CallIput([reg[p] EXCEPT !.dp = None], reg[p].dp, "link_bad"))
  /\ UNCHANGED <<fs, inode, cwd, files, panicked>>

link_done(p) ==
  /\ At(p, "link_done")
  /\ Step(p, PutAndReturn(reg[p].ip))
  /\ UNCHANGED <<fs, inode, lock, cwd, files, panicked>>

\* bad: the link is taken back.
link_bad(p) ==
  LET s  == reg[p].ip
      ic == [load(inode, s) EXCEPT ![s].nlink = @ - 1] IN
    /\ At(p, "link_bad")
    /\ Unlocked(s)
    /\ IF LockPanics(s) THEN panic("ilock")
       ELSE /\ inode' = ic
            /\ dinode' = iupdate(dinode, ic, s)
            /\ Step(p, PutAndReturn(s))
            /\ UNCHANGED <<ents, lock, cwd, files, panicked>>

sys_link(p) ==
  \/ link_old(p) \/ link_parent(p) \/ link_new(p) \/ link_exists(p) \/ link_done(p)
  \/ link_bad(p)

-----------------------------------------------------------------------------
(* sys_unlink()                                                            *)

\* ilock(dp) and dirlookup(); dp stays locked when the name is found.
unlink_dir(p) ==
  LET s  == reg[p].at
      ic == load(inode, s)
      i  == dirlookup(ic, s, Name(p)) IN
    /\ Found(p, "unlink")
    /\ IF LockPanics(s) \/ ic[s].type # "T_DIR" \/ (Name(p) \in Names /\ NoRoom(ic, i))
       THEN panic("dirlookup")
       ELSE /\ \/ /\ Name(p) \in {".", ".."} \/ i = 0
                  /\ inode' = ic
                  /\ Step(p, PutAndReturn(s))
                  /\ UNCHANGED lock
               \/ /\ Name(p) \in Names /\ i # 0
                  /\ inode' = iget(ic, i)
                  /\ lock' = [lock EXCEPT ![s] = p]
                  /\ Step(p, [reg[p] EXCEPT !.pc = "unlink_ip", !.at = None, !.dp = s,
                                            !.ip = SlotFor(ic, i)])
            /\ UNCHANGED <<fs, cwd, files, panicked>>

MayUnlink(ic, s) == ic[s].type = "T_DIR" => isdirempty(ic[s].inum)

\* The entry is cleared; the removed directory's ".." no longer counts for dp.
\* Then iunlockput(dp), with ip still locked.
unlink_ip(p) ==
  LET s  == reg[p].ip
      d  == reg[p].dp
      ic == load(inode, s)
      up == IF ic[s].type = "T_DIR" THEN [ic EXCEPT ![d].nlink = @ - 1] ELSE ic IN
    /\ At(p, "unlink_ip")
    /\ Unlocked(s)
    /\ IF LockPanics(s) \/ ic[s].nlink < 1 THEN panic("unlink: nlink < 1")
       ELSE /\ \/ /\ ~ MayUnlink(ic, s)
                  /\ inode' = ic
                  /\ Step(p, CallIput([Idle EXCEPT !.dp = d], s, "unlink_bad"))
                  /\ UNCHANGED <<fs, lock>>
               \/ /\ MayUnlink(ic, s)
                  /\ inode' = up
                  /\ dinode' = IF ic[s].type = "T_DIR" THEN iupdate(dinode, up, d) ELSE dinode
                  /\ ents' = [ents EXCEPT ![ic[d].inum][Name(p)] = 0]
                  /\ lock' = [lock EXCEPT ![s] = p, ![d] = None]
                  /\ Step(p, CallIput([Idle EXCEPT !.ip = s], d, "unlink_dec"))
            /\ UNCHANGED <<cwd, files, panicked>>

\* bad: iunlockput(dp).
unlink_bad(p) ==
  /\ At(p, "unlink_bad")
  /\ lock' = [lock EXCEPT ![reg[p].dp] = None]
  /\ Step(p, PutAndReturn(reg[p].dp))
  /\ UNCHANGED <<fs, inode, cwd, files, panicked>>

unlink_dec(p) ==
  LET s  == reg[p].ip
      ic == [inode EXCEPT ![s].nlink = @ - 1] IN
    /\ At(p, "unlink_dec")
    /\ inode' = ic
    /\ dinode' = iupdate(dinode, ic, s)
    /\ lock' = [lock EXCEPT ![s] = None]
    /\ Step(p, PutAndReturn(s))
    /\ UNCHANGED <<ents, cwd, files, panicked>>

sys_unlink(p) == unlink_dir(p) \/ unlink_ip(p) \/ unlink_bad(p) \/ unlink_dec(p)

-----------------------------------------------------------------------------
(* create(), for open with O_CREATE, mkdir and mknod                       *)

NewType(c) ==
  CASE c.op = "mkdir" -> "T_DIR" [] c.op = "mknod" -> "T_DEV" [] OTHER -> "T_FILE"

\* ilock(dp) and dirlookup(); dp stays locked when the name is new.
create_dir(p) ==
  LET s  == reg[p].at
      ic == load(inode, s)
      i  == dirlookup(ic, s, Name(p)) IN
    /\ Found(p, "create")
    /\ IF LockPanics(s) \/ ic[s].type # "T_DIR" \/ NoRoom(ic, i) THEN panic("dirlookup")
       ELSE /\ \/ /\ i # 0
                  /\ inode' = iget(ic, i)
                  /\ Step(p, CallIput([Idle EXCEPT !.call = reg[p].call, !.ip = SlotFor(ic, i)],
                                      s, "create_found"))
                  /\ UNCHANGED lock
               \/ /\ i = 0
                  /\ inode' = ic
                  /\ lock' = [lock EXCEPT ![s] = p]
                  /\ Step(p, [reg[p] EXCEPT !.pc = "ialloc", !.at = None, !.dp = s])
            /\ UNCHANGED <<fs, cwd, files, panicked>>

\* The name exists: only an existing file may be opened with O_CREATE.
create_found(p) ==
  LET s  == reg[p].ip
      ic == load(inode, s) IN
    /\ At(p, "create_found")
    /\ Unlocked(s)
    /\ IF LockPanics(s) THEN panic("ilock")
       ELSE /\ inode' = ic
            /\ IF NewType(reg[p].call) = "T_FILE" /\ ic[s].type = "T_FILE"
               THEN /\ lock' = [lock EXCEPT ![s] = p]
                    /\ Step(p, [Idle EXCEPT !.pc = "open_file", !.ip = s])
               ELSE /\ Step(p, PutAndReturn(s))
                    /\ UNCHANGED lock
            /\ UNCHANGED <<fs, cwd, files, panicked>>

\* ialloc(): marks the first free inode allocated on disk.
ialloc(p) ==
  LET free == {i \in Inums : dinode[i].type = "free"} IN
    /\ At(p, "ialloc")
    /\ IF free = {} THEN panic("ialloc: no inodes")
       ELSE /\ dinode' = [dinode EXCEPT ![Min(free)] = [type |-> NewType(reg[p].call), nlink |-> 0]]
            /\ Step(p, [reg[p] EXCEPT !.pc = "ialloc_iget", !.new = Min(free)])
            /\ UNCHANGED <<ents, inode, lock, cwd, files, panicked>>

ialloc_iget(p) ==
  LET i == reg[p].new IN
    /\ At(p, "ialloc_iget")
    /\ IF NoSlot(inode, i) THEN panic("iget: no inodes")
       ELSE /\ inode' = iget(inode, i)
            /\ Step(p, [reg[p] EXCEPT !.pc = "create_init", !.new = None,
                                      !.ip = SlotFor(inode, i)])
            /\ UNCHANGED <<fs, lock, cwd, files, panicked>>

\* ilock(ip), nlink = 1, the entries "." and ".." of a new directory, the entry
\* in dp, and iunlockput(dp); ip stays locked.
create_init(p) ==
  LET s   == reg[p].ip
      d   == reg[p].dp
      dir == NewType(reg[p].call) = "T_DIR"
      ic  == [load(inode, s) EXCEPT ![s].nlink = 1]
      up  == IF dir THEN [ic EXCEPT ![d].nlink = @ + 1] ELSE ic
      in  == ic[s].inum
      dots == IF dir THEN dirlink(dirlink(ents, ic, s, ".", in), ic, s, "..", ic[d].inum)
                     ELSE ents IN
    /\ At(p, "create_init")
    /\ Unlocked(s)
    /\ IF LockPanics(s) \/ (dir /\ ents[in]["."] # 0) \/ ents[ic[d].inum][Name(p)] # 0
       THEN panic("create: dirlink")
       ELSE /\ inode' = up
            /\ dinode' = IF dir THEN iupdate(iupdate(dinode, up, s), up, d)
                                ELSE iupdate(dinode, up, s)
            /\ ents' = dirlink(dots, ic, d, Name(p), in)
            /\ lock' = [lock EXCEPT ![s] = p, ![d] = None]
            /\ Step(p, CallIput([Idle EXCEPT !.ip = s], d,
                                IF reg[p].call.op = "open_create" THEN "open_file" ELSE "created"))
            /\ UNCHANGED <<cwd, files, panicked>>

\* sys_mkdir() and sys_mknod(): iunlockput(ip).
created(p) ==
  /\ At(p, "created")
  /\ lock' = [lock EXCEPT ![reg[p].ip] = None]
  /\ Step(p, PutAndReturn(reg[p].ip))
  /\ UNCHANGED <<fs, inode, cwd, files, panicked>>

create(p) ==
  \/ create_dir(p) \/ create_found(p) \/ ialloc(p) \/ ialloc_iget(p)
  \/ create_init(p) \/ created(p)

-----------------------------------------------------------------------------
(* sys_open() and the file table                                           *)

FreeFiles == {f \in Files : file[f].ref = 0}
FreeFds(p) == {fd \in Fds : ofile[p][fd] = None}

open_namei(p) ==
  LET s  == reg[p].at
      ic == load(inode, s) IN
    /\ Found(p, "open")
    /\ IF LockPanics(s) THEN panic("ilock")
       ELSE /\ inode' = ic
            /\ IF ic[s].type = "T_DIR" /\ reg[p].call.op = "open_rdwr"
               THEN /\ Step(p, PutAndReturn(s))
                    /\ UNCHANGED lock
               ELSE /\ lock' = [lock EXCEPT ![s] = p]
                    /\ Step(p, [Idle EXCEPT !.pc = "open_file", !.ip = s])
            /\ UNCHANGED <<fs, cwd, files, panicked>>

\* filealloc() and fdalloc(); a file without a descriptor is closed again,
\* which does nothing more as long as a free file has no type.  Then
\* iunlock(ip) and end_op(), or iunlockput(ip).
open_file(p) ==
  /\ At(p, "open_file")
  /\ lock' = [lock EXCEPT ![reg[p].ip] = None]
  /\ IF FreeFiles = {} \/ FreeFds(p) = {}
     THEN /\ Step(p, PutAndReturn(reg[p].ip))
          /\ UNCHANGED files
     ELSE /\ file' = [file EXCEPT ![Min(FreeFiles)].ref = 1]
          /\ ofile' = [ofile EXCEPT ![p][Min(FreeFds(p))] = Min(FreeFiles)]
          /\ Step(p, [reg[p] EXCEPT !.pc = "open_fill", !.new = Min(FreeFiles)])
  /\ UNCHANGED <<fs, inode, cwd, panicked>>

\* The fields of the new file, and the return.
open_fill(p) ==
  /\ At(p, "open_fill")
  /\ file' = [file EXCEPT ![reg[p].new] = [ref |-> @.ref, type |-> "FD_INODE", ip |-> reg[p].ip]]
  /\ Return(p)
  /\ UNCHANGED <<fs, inode, lock, cwd, ofile, panicked>>

\* sys_dup(): fdalloc() and filedup().
sys_dup(p) ==
  /\ At(p, "idle")
  /\ FreeFds(p) # {}
  /\ \E fd \in Fds \ FreeFds(p) :
       LET f == ofile[p][fd] IN
         IF file[f].ref < 1 THEN panic("filedup")
         ELSE /\ ofile' = [ofile EXCEPT ![p][Min(FreeFds(p))] = f]
              /\ file' = [file EXCEPT ![f].ref = @ + 1]
              /\ UNCHANGED <<fs, inode, lock, cwd, reg, panicked>>

LastClose(f) == file[f].ref = 1

closed(f) == [f EXCEPT !.ref = 0, !.type = "FD_NONE"]

\* sys_close() and fileclose(): the last close puts the inode, in a transaction.
sys_close(p) ==
  /\ At(p, "idle")
  /\ \E fd \in Fds \ FreeFds(p) :
       LET f == ofile[p][fd] IN
         IF file[f].ref < 1 THEN panic("fileclose")
         ELSE /\ ofile' = [ofile EXCEPT ![p][fd] = None]
              /\ IF LastClose(f)
                 THEN /\ file' = [file EXCEPT ![f] = closed(@)]
                      /\ Step(p, PutAndReturn(file[f].ip))
                 ELSE /\ file' = [file EXCEPT ![f].ref = @ - 1]
                      /\ UNCHANGED reg
              /\ UNCHANGED <<fs, inode, lock, cwd, panicked>>

\* filestat(), and fileread() or filewrite() of a file: ilock(f->ip) and iunlock().
fileread(p) ==
  /\ At(p, "idle")
  /\ \E fd \in Fds \ FreeFds(p) :
       LET s == file[ofile[p][fd]].ip IN
         /\ Unlocked(s)
         /\ IF LockPanics(s) THEN panic("ilock")
            ELSE /\ inode' = load(inode, s)
                 /\ UNCHANGED <<fs, lock, cwd, files, reg, panicked>>

-----------------------------------------------------------------------------
(* sys_chdir()                                                             *)

chdir(p) ==
  LET s  == reg[p].at
      ic == load(inode, s) IN
    /\ Found(p, "chdir")
    /\ IF LockPanics(s) THEN panic("ilock")
       ELSE /\ inode' = ic
            /\ Step(p, IF ic[s].type # "T_DIR"
                       THEN PutAndReturn(s)
                       ELSE CallIput([Idle EXCEPT !.ip = s], cwd[p], "chdir_set"))
            /\ UNCHANGED <<fs, lock, cwd, files, panicked>>

chdir_set(p) ==
  /\ At(p, "chdir_set")
  /\ cwd' = [cwd EXCEPT ![p] = reg[p].ip]
  /\ Return(p)
  /\ UNCHANGED <<fs, inode, lock, files, panicked>>

-----------------------------------------------------------------------------
Next ==
  \E p \in Procs :
    \/ syscall(p) \/ walk_end(p) \/ walk_elem(p)
    \/ iput(p) \/ sys_link(p) \/ sys_unlink(p) \/ create(p)
    \/ open_namei(p) \/ open_file(p) \/ open_fill(p)
    \/ sys_dup(p) \/ sys_close(p) \/ fileread(p)
    \/ chdir(p) \/ chdir_set(p)

\* The file system mkfs makes, with the processes of userinit() and fork().
Init ==
  /\ dinode = [i \in Inums |->
                 IF i = ROOTINO THEN [type |-> "T_DIR", nlink |-> 1]
                 ELSE IF \E n \in Names : Image[n] = i THEN [type |-> "T_FILE", nlink |-> 1]
                 ELSE [type |-> "free", nlink |-> 0]]
  /\ ents = [i \in Inums |-> [n \in AllNames |->
               IF i # ROOTINO THEN 0 ELSE IF n \in Names THEN Image[n] ELSE ROOTINO]]
  /\ inode = [s \in Slots |-> [inum |-> IF s = 1 THEN ROOTINO ELSE 0,
                               ref |-> IF s = 1 THEN Cardinality(Procs) ELSE 0,
                               valid |-> FALSE, type |-> "free", nlink |-> 0]]
  /\ lock = [s \in Slots |-> None]
  /\ cwd = [p \in Procs |-> 1]
  /\ file = [f \in Files |-> [ref |-> 0, type |-> "FD_NONE", ip |-> None]]
  /\ ofile = [p \in Procs |-> [fd \in Fds |-> None]]
  /\ reg = [p \in Procs |-> Idle]
  /\ panicked = None

Spec == Init /\ [][Next]_vars

-----------------------------------------------------------------------------
(* Properties                                                              *)

\* Types of the inodes, of the cache, of the files and of the registers.
TypeOK ==
  /\ dinode \in [Inums -> [type : Types \cup {"free"}, nlink : Nat]]
  /\ ents \in [Inums -> [AllNames -> Inums \cup {0}]]
  /\ inode \in [Slots -> [inum : Inums \cup {0}, ref : Nat, valid : BOOLEAN,
                          type : Types \cup {"free"}, nlink : Nat]]
  /\ lock \in [Slots -> Procs \cup {None}]
  /\ cwd \in [Procs -> Slots]
  /\ file \in [Files -> [ref : Nat, type : {"FD_NONE", "FD_INODE"}, ip : Slots \cup {None}]]
  /\ ofile \in [Procs -> [Fds -> Files \cup {None}]]
  /\ \A p \in Procs : {reg[p].at, reg[p].ip, reg[p].dp, reg[p].put} \subseteq Slots \cup {None}

Registers == {"at", "ip", "dp", "put"}

\* The pointers of process p to entry s: its local variables and its current
\* directory, which chdir() has already put when it stores the new one.
PointersOf(p, s) ==
  Cardinality({x \in Registers : reg[p][x] = s})
    + IF cwd[p] = s /\ "chdir_set" \notin {reg[p].pc, reg[p].ret} THEN 1 ELSE 0

\* Both reference counts are right.  ip->ref is the number of pointers to the
\* cache entry: local variables of system calls, current directories and open
\* files (fs.c: "ip->ref tracks the number of in-memory pointers to the entry").
\* f->ref is the number of descriptors of the file, and a free file has no type:
\* open() relies on that when it closes a file it could not install.  No call of
\* panic() is reached but that of ialloc() on a full disk, on two conditions: the
\* cache has an entry for every inode (NINODE), or iget() panics, and no path has
\* a "..", which may lead out of a removed directory to an inode without a type.
\* (The variables also keep their types.)
RefIsPointers ==
  /\ TypeOK /\ panicked \in {None, "ialloc: no inodes"}
  /\ \A s \in Slots :
       inode[s].ref = MapThenSumSet(LAMBDA p : PointersOf(p, s), Procs)
                        + Cardinality({f \in Files : file[f].type = "FD_INODE" /\ file[f].ip = s})
  /\ \A f \in Files :
       /\ file[f].ref = Cardinality({pf \in Procs \X Fds : ofile[pf[1]][pf[2]] = f})
       /\ file[f].ref = 0 => file[f].type = "FD_NONE"

\* An inode has one cache entry.  What the next holder of its lock finds in it
\* is what the disk holds, also when ialloc() takes an inode that iput() is
\* just freeing.
CacheCoherent ==
  /\ \A i \in Inums : Cardinality(Cached(inode, i)) <= 1
  /\ \A s \in Slots : inode[s].ref > 0 /\ inode[s].valid /\ Unlocked(s) =>
       dinode[inode[s].inum] = [type |-> inode[s].type, nlink |-> inode[s].nlink]

\* The entries that name i, "." and ".." left out.
NamedBy(i) == {dn \in Inums \X Names : ents[dn[1]][dn[2]] = i}

\* The directories that are named somewhere and whose parent is i.
ChildDirs(i) == {d \in Inums \ {i} : ents[d][".."] = i /\ NamedBy(d) # {}}

\* At every instant the link count covers the names: link() counts before it
\* writes the entry, unlink() clears the entry before it counts.
LinksCounted ==
  \A i \in Inums : Cardinality(NamedBy(i)) + Cardinality(ChildDirs(i)) <= dinode[i].nlink

\* An inode is freed on disk only when no name and no other pointer refers to
\* it (the comment of itrunc()).
FreedWhenUnused ==
  [][\A i \in Inums : dinode[i].type # "free" /\ dinode'[i].type = "free" =>
       /\ NamedBy(i) = {}
       /\ \A s \in Cached(inode, i) : inode[s].ref = 1]_vars

\* The entry whose lock the next step of p takes, or None.
Wants(p) ==
  CASE reg[p].pc = "iput" -> reg[p].put
    [] reg[p].pc \in {"link_bad", "unlink_ip", "create_found", "create_init"} -> reg[p].ip
    [] reg[p].pc \in {"link_old", "link_new", "unlink", "create", "open", "chdir"} -> reg[p].at
    [] reg[p].pc = "walk" /\ reg[p].path # <<>> -> reg[p].at
    [] OTHER -> None

WaitsFor(p) == IF Wants(p) = None THEN None ELSE lock[Wants(p)]

\* No processes wait in a circle for the inode locks they hold.
NoDeadlock ==
  \A D \in SUBSET Procs \ {{}} : \E p \in D : WaitsFor(p) \notin D

=============================================================================
