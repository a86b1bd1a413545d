--------------------------------- MODULE Vm ---------------------------------
(***************************************************************************)
(* The user memory of the processes (vm.c, growproc() in proc.c, the       *)
(* memory part of fork(), exec() and wait()) over the page allocator of    *)
(* kalloc.c.  Every call of kalloc() is a step of its own, so the          *)
(* processes of several CPUs compete for the last pages in the middle of   *)
(* their calls, and every call may fail at any of its allocations.         *)
(*                                                                         *)
(* An address space is a page directory, its page tables and the entries   *)
(* of the user pages.  The page tables of the kernel part are one page     *)
(* here.  Addresses are counted in bytes and pages are PGSIZE bytes long.  *)
(***************************************************************************)
EXTENDS Integers, FiniteSets, FiniteSetsExt

CONSTANTS
  Procs,      \* process slots
  InitProc,   \* the first process
  Pages,      \* physical pages
  None,       \* no page, no process
  PGSIZE,     \* bytes in a page
  NPT,        \* user page tables of a directory
  NPTENTRIES, \* entries of a page table
  Deltas,     \* arguments of sbrk()
  Images,     \* sizes of the programs exec() loads, in bytes
  Ranges      \* arguments of mprotect(): first virtual page and number of pages

ASSUME VmAssumption ==
  /\ InitProc \in Procs /\ None \notin Procs \cup Pages /\ IsFiniteSet(Pages)
  /\ PGSIZE \in Nat \ {0} /\ NPT \in Nat \ {0} /\ NPTENTRIES \in Nat \ {0, 1}
  /\ Deltas \subseteq Int /\ Images \subseteq Nat

VPs == 0 .. NPT * NPTENTRIES - 1     \* user virtual pages
PDEs == 0 .. NPT                     \* the last one is the kernel's
KERNBASE == NPT * NPTENTRIES * PGSIZE
WORD == 2 * KERNBASE                 \* addresses are unsigned words

VARIABLES
  free,      \* kmem.freelist
  mm,        \* proc->pgdir, or None
  vlimit,    \* proc->vlimit
  kstack,    \* proc->kstack, or None
  new,       \* the page directory that fork() or exec() is building, or None
  reg,       \* control point and local variables
  panicked   \* the message panic() stopped the machine with, or "no"

vars == <<free, mm, vlimit, kstack, new, reg, panicked>>

PDX(a) == a \div (NPTENTRIES * PGSIZE)
PAGE(a) == a \div PGSIZE
PGROUNDUP(a) == ((a + PGSIZE - 1) \div PGSIZE) * PGSIZE

\* An address space without user pages.
Unmapped == [pa |-> None, w |-> FALSE, u |-> FALSE]
EmptySpace(d) ==
  [dir |-> d, pt |-> [i \in PDEs |-> None], pte |-> [v \in VPs |-> Unmapped]]

Present(as) == {v \in VPs : as.pte[v].pa # None}

\* The pages of an address space.
UserPages(as) == {as.pte[v].pa : v \in Present(as)}
TablePages(as) == {as.pt[i] : i \in PDEs} \ {None}
AllPages(as) == {as.dir} \cup TablePages(as) \cup UserPages(as)

User == [pc |-> "user", a |-> 0, old |-> 0, lim |-> 0, mem |-> None, child |-> None,
         ret |-> None]
Unused == [User EXCEPT !.pc = "unused"]

At(p, l) == panicked = "no" /\ reg[p].pc = l
Step(p, r) == reg' = [reg EXCEPT ![p] = r]

panic(why) == panicked' = why /\ UNCHANGED <<free, mm, vlimit, kstack, new, reg>>

\* After a panic() every processor loops for ever.
frozen == panicked # "no" /\ UNCHANGED vars

-----------------------------------------------------------------------------
(* kalloc() and kfree()                                                    *)

\* The page kalloc() returns; which one does not matter.
FirstFree == CHOOSE m \in free : TRUE

kalloc == free # {} /\ free' = free \ {FirstFree}
kalloc_fails == free = {}

-----------------------------------------------------------------------------
(* deallocuvm() and freevm() as operators on an address space              *)

\* Faulty variant: the last page, which is only partly below the limit, goes too.
Faulty_Dropped(as, oldv, newv) == {v \in Present(as) : (newv \div PGSIZE) <= v /\ v * PGSIZE < oldv}

\* The virtual pages deallocuvm() unmaps.
Dropped(as, oldv, newv) ==
  {v \in Present(as) : PGROUNDUP(newv) <= v * PGSIZE /\ v * PGSIZE < oldv}

deallocuvm(as, oldv, newv) ==
  [as EXCEPT !.pte = [v \in VPs |-> IF v \in Dropped(as, oldv, newv) THEN Unmapped ELSE @[v]]]

DroppedPages(as, oldv, newv) == {as.pte[v].pa : v \in Dropped(as, oldv, newv)}

\* Faulty variant: the page tables are not freed.
Faulty_freevm(as) == {as.dir} \cup DroppedPages(as, KERNBASE, 0)

\* The pages freevm() gives back.
freevm(as) == {as.dir} \cup TablePages(as) \cup DroppedPages(as, KERNBASE, 0)

-----------------------------------------------------------------------------
(* allocuvm(): grows the space under construction, or else the process's   *)
(* own, from old to lim and returns to ret, with lim = 0 when it fails.    *)

Space(p) == IF new[p] # None THEN new[p] ELSE mm[p]

SetSpace(p, as) ==
  IF new[p] # None THEN new' = [new EXCEPT ![p] = as] /\ UNCHANGED mm
                   ELSE mm' = [mm EXCEPT ![p] = as] /\ UNCHANGED new

\* The call, and the tests before its loop.
allocuvm(r, old, lim, ret) ==
  IF lim >= KERNBASE THEN [r EXCEPT !.pc = ret, !.lim = 0]
  ELSE IF lim < old THEN [r EXCEPT !.pc = ret, !.lim = old]
  ELSE [r EXCEPT !.pc = "alloc", !.a = PGROUNDUP(old), !.old = old, !.lim = lim, !.ret = ret]

alloc_page(p) ==
  /\ At(p, "alloc") /\ reg[p].a < reg[p].lim
  /\ kalloc
  /\ Step(p, [reg[p] EXCEPT !.pc = "map", !.mem = FirstFree])
  /\ UNCHANGED <<mm, vlimit, new, kstack, panicked>>

\* Faulty variant: the child's pages get the flags of new pages.
Faulty_PageEntry(p, v) == [pa |-> reg[p].mem, w |-> TRUE, u |-> TRUE]

\* The entry of the page v: fork() copies the flags of the parent's page.
PageEntry(p, v) ==
  IF reg[p].child # None THEN [mm[p].pte[v] EXCEPT !.pa = reg[p].mem]
                         ELSE [pa |-> reg[p].mem, w |-> TRUE, u |-> TRUE]

\* mappages() and walkpgdir() for one page, whose page table exists.
map_page(p) ==
  LET as == Space(p)
      v  == PAGE(reg[p].a)
      loop == IF reg[p].child # None THEN "copy" ELSE "alloc" IN
    /\ At(p, "map") /\ as.pt[PDX(reg[p].a)] # None
    /\ IF v \in Present(as) THEN panic("remap")
       ELSE /\ SetSpace(p, [as EXCEPT !.pte[v] = PageEntry(p, v)])
            /\ Step(p, [reg[p] EXCEPT !.pc = loop, !.a = @ + PGSIZE, !.mem = None])
            /\ UNCHANGED <<free, vlimit, kstack, panicked>>

\* walkpgdir() makes the page table.
map_table(p) ==
  /\ At(p, "map") /\ Space(p).pt[PDX(reg[p].a)] = None
  /\ kalloc
  /\ SetSpace(p, [Space(p) EXCEPT !.pt[PDX(reg[p].a)] = FirstFree])
  /\ UNCHANGED <<vlimit, reg, kstack, panicked>>

\* The page in the hands of p.
Taken(p) == {reg[p].mem} \ {None}

\* No page, or no page for the page table: what was mapped is unmapped again.
alloc_fails(p) ==
  LET as == Space(p)
      r  == reg[p] IN
    /\ r.child = None
    /\ \/ At(p, "alloc") /\ r.a < r.lim
       \/ At(p, "map") /\ as.pt[PDX(r.a)] = None
    /\ kalloc_fails
    /\ SetSpace(p, deallocuvm(as, r.lim, r.old))
    /\ free' = free \cup DroppedPages(as, r.lim, r.old) \cup Taken(p)
    /\ Step(p, [User EXCEPT !.pc = r.ret])
    /\ UNCHANGED <<vlimit, kstack, panicked>>

alloc_done(p) ==
  /\ At(p, "alloc") /\ reg[p].a >= reg[p].lim
  /\ Step(p, [User EXCEPT !.pc = reg[p].ret, !.lim = reg[p].lim])
  /\ UNCHANGED <<free, mm, vlimit, new, kstack, panicked>>

-----------------------------------------------------------------------------
(* growproc()                                                              *)

\* The process can run: its code is in its first page.
CodeMapped(p) == 1 \in Present(mm[p])

InUser(p) == At(p, "user") /\ CodeMapped(p)

\* sbrk(n) with n > 0, until allocuvm() returns.
grow(p, n) ==
  /\ InUser(p) /\ n > 0
  /\ Step(p, allocuvm(User, vlimit[p], vlimit[p] + n, "grown"))
  /\ UNCHANGED <<free, mm, vlimit, new, kstack, panicked>>

grown(p) ==
  /\ At(p, "grown")
  /\ vlimit' = IF reg[p].lim = 0 THEN vlimit ELSE [vlimit EXCEPT ![p] = reg[p].lim]
  /\ Step(p, User)
  /\ UNCHANGED <<free, mm, new, kstack, panicked>>

\* What deallocuvm() returns.
NewLimit(oldv, newv) == IF newv >= oldv THEN oldv ELSE newv

\* sbrk(n) with n < 0.  The new limit is an unsigned word; when it is 0 sbrk()
\* fails although the pages are gone.
shrink(p, n) ==
  LET old == vlimit[p]
      lim == (old + n) % WORD IN
    /\ InUser(p) /\ n < 0
    /\ mm' = [mm EXCEPT ![p] = deallocuvm(@, old, lim)]
    /\ free' = free \cup DroppedPages(mm[p], old, lim)
    /\ vlimit' = [vlimit EXCEPT ![p] = IF NewLimit(old, lim) = 0 THEN old ELSE NewLimit(old, lim)]
    /\ UNCHANGED <<kstack, new, reg, panicked>>

-----------------------------------------------------------------------------
(* mprotect() (w = FALSE) and munprotect() (w = TRUE): the pages from v on *)
(* are changed one by one, up to the first that is not a user's page.      *)
(* When that one has no page table, walkpgdir() returns 0 and the code     *)
(* reads *pte all the same: a page fault in the kernel, for which trap()   *)
(* panics.                                                                 *)

protect(p, v, n, w) ==
  LET as    == mm[p]
      bad   == {i \in v .. v + n - 1 : ~(i \in Present(as) /\ as.pte[i].u)}
      stop  == IF bad = {} THEN v + n ELSE Min(bad)
      fault == bad # {} /\ as.pt[PDX(stop * PGSIZE)] = None IN
    /\ InUser(p)
    /\ mm' = [mm EXCEPT ![p].pte =
               [i \in VPs |-> IF i \in v .. stop - 1 THEN [@[i] EXCEPT !.w = w] ELSE @[i]]]
    /\ panicked' = IF fault THEN "trap" ELSE "no"
    /\ UNCHANGED <<free, vlimit, new, reg, kstack>>

-----------------------------------------------------------------------------
(* setupkvm(), for fork() and exec()                                       *)

kvm_dir(p) ==
  /\ At(p, "kvm_dir")
  /\ kalloc
  /\ new' = [new EXCEPT ![p] = EmptySpace(FirstFree)]
  /\ Step(p, [reg[p] EXCEPT !.pc = "kvm_map"])
  /\ UNCHANGED <<mm, vlimit, kstack, panicked>>

\* The kernel part is mapped.  copyuvm() goes on with the parent's pages and
\* exec() with the pages of the program.
kvm_map(p) ==
  /\ At(p, "kvm_map")
  /\ kalloc
  /\ new' = [new EXCEPT ![p].pt[NPT] = FirstFree]
  /\ Step(p, IF reg[p].child # None
             THEN [reg[p] EXCEPT !.pc = "copy", !.a = PGSIZE, !.lim = vlimit[p]]
             ELSE allocuvm(reg[p], PGSIZE, reg[p].lim, "loaded"))
  /\ UNCHANGED <<mm, vlimit, kstack, panicked>>

\* The call of p ends with an error: what it was building is freed, and so are
\* the slot and the kernel stack of the child.
Abandon(p) ==
  LET child == {reg[p].child} \ {None} IN
    /\ free' = free \cup Taken(p) \cup (IF new[p] = None THEN {} ELSE freevm(new[p]))
                    \cup ({kstack[c] : c \in child} \ {None})
    /\ new' = [new EXCEPT ![p] = None]
    /\ kstack' = [q \in Procs |-> IF q \in child THEN None ELSE kstack[q]]
    /\ reg' = [q \in Procs |-> IF q = p THEN User ELSE IF q \in child THEN Unused ELSE reg[q]]
    /\ UNCHANGED <<mm, vlimit, panicked>>

kvm_fails(p) ==
  /\ At(p, "kvm_dir") \/ At(p, "kvm_map")
  /\ kalloc_fails
  /\ Abandon(p)

-----------------------------------------------------------------------------
(* fork() with copyuvm(), exit() and wait()                                *)

\* allocproc() has found the slot c.
fork(p, c) ==
  /\ InUser(p) /\ reg[c] = Unused
  /\ reg' = [reg EXCEPT ![p].pc = "allocproc", ![p].child = c, ![c].pc = "embryo"]
  /\ UNCHANGED <<free, mm, vlimit, new, kstack, panicked>>

alloc_kstack(p) ==
  /\ At(p, "allocproc")
  /\ kalloc
  /\ kstack' = [kstack EXCEPT ![reg[p].child] = FirstFree]
  /\ Step(p, [reg[p] EXCEPT !.pc = "kvm_dir"])
  /\ UNCHANGED <<mm, vlimit, new, panicked>>

kstack_fails(p) ==
  /\ At(p, "allocproc")
  /\ kalloc_fails
  /\ Abandon(p)

copy_page(p) ==
  /\ At(p, "copy") /\ reg[p].a < reg[p].lim
  /\ IF PAGE(reg[p].a) \notin Present(mm[p]) THEN panic("copyuvm")
     ELSE /\ kalloc
          /\ Step(p, [reg[p] EXCEPT !.pc = "map", !.mem = FirstFree])
          /\ UNCHANGED <<mm, vlimit, new, kstack, panicked>>

copy_fails(p) ==
  /\ reg[p].child # None
  /\ \/ At(p, "copy") /\ reg[p].a < reg[p].lim /\ PAGE(reg[p].a) \in Present(mm[p])
     \/ At(p, "map") /\ new[p].pt[PDX(reg[p].a)] = None
  /\ kalloc_fails
  /\ Abandon(p)

\* The child gets the copy.
fork_done(p) ==
  LET c == reg[p].child IN
    /\ At(p, "copy") /\ reg[p].a >= reg[p].lim
    /\ mm' = [mm EXCEPT ![c] = new[p]]
    /\ vlimit' = [vlimit EXCEPT ![c] = vlimit[p]]
    /\ new' = [new EXCEPT ![p] = None]
    /\ reg' = [reg EXCEPT ![p] = User, ![c] = User]
    /\ UNCHANGED <<free, kstack, panicked>>

\* exit(), of its own accord or after a page fault.
exit(p) ==
  /\ At(p, "user") /\ p # InitProc
  /\ Step(p, [User EXCEPT !.pc = "zombie"])
  /\ UNCHANGED <<free, mm, vlimit, new, kstack, panicked>>

\* The parent's wait() frees the zombie p.  (p->pgdir keeps its value, which
\* nothing uses before fork() sets it again.)
wait(p) ==
  /\ At(p, "zombie")
  /\ free' = free \cup freevm(mm[p]) \cup {kstack[p]}
  /\ mm' = [mm EXCEPT ![p] = None]
  /\ kstack' = [kstack EXCEPT ![p] = None]
  /\ Step(p, Unused)
  /\ UNCHANGED <<vlimit, new, panicked>>

-----------------------------------------------------------------------------
(* exec(): a program of one segment of img - PGSIZE bytes                  *)

exec(p, img) ==
  /\ InUser(p)
  /\ Step(p, [User EXCEPT !.pc = "kvm_dir", !.lim = img])
  /\ UNCHANGED <<free, mm, vlimit, kstack, new, panicked>>

\* The segment is loaded; next come the guard page and the stack.
loaded(p) ==
  LET top == PGROUNDUP(reg[p].lim) IN
    /\ At(p, "loaded") /\ reg[p].lim # 0
    /\ Step(p, allocuvm(User, top, top + 2 * PGSIZE, "stacked"))
    /\ UNCHANGED <<free, mm, vlimit, kstack, new, panicked>>

\* The page below the stack.
GuardPage(top) == PAGE(top - 2 * PGSIZE)

\* clearpteu(), and the commit to the new image.
exec_commit(p) ==
  LET top == reg[p].lim IN
    /\ At(p, "stacked") /\ top # 0
    /\ mm' = [mm EXCEPT ![p] = [new[p] EXCEPT !.pte[GuardPage(top)].u = FALSE]]
    /\ vlimit' = [vlimit EXCEPT ![p] = top]
    /\ free' = free \cup freevm(mm[p])
    /\ new' = [new EXCEPT ![p] = None]
    /\ Step(p, User)
    /\ UNCHANGED <<kstack, panicked>>

\* An allocation failed, the program could not be read, or its arguments do
\* not fit the stack.
exec_bad(p) ==
  /\ At(p, "loaded") \/ At(p, "stacked")
  /\ Abandon(p)

-----------------------------------------------------------------------------
SystemCall(p) ==
  \/ \E c \in Procs : fork(p, c)
  \/ \E img \in Images : exec(p, img)
  \/ \E n \in Deltas : grow(p, n) \/ (p # InitProc /\ shrink(p, n))
  \/ \E r \in Ranges, w \in BOOLEAN : protect(p, r[1], r[2], w)
  \/ exit(p)
  \/ wait(p)

Resume(p) ==
  \/ alloc_page(p) \/ map_page(p) \/ map_table(p) \/ alloc_fails(p) \/ alloc_done(p)
  \/ grown(p)
  \/ kvm_dir(p) \/ kvm_map(p) \/ kvm_fails(p)
  \/ alloc_kstack(p) \/ kstack_fails(p) \/ copy_page(p) \/ copy_fails(p) \/ fork_done(p)
  \/ loaded(p) \/ exec_commit(p) \/ exec_bad(p)

Next == (\E p \in Procs : SystemCall(p) \/ Resume(p)) \/ frozen

\* userinit() has built the first process: its kernel stack, page directory,
\* kernel and user page tables and one page of code.
Init ==
  LET pg == CHOOSE f \in [1 .. 5 -> Pages] : \A i, j \in 1 .. 5 : f[i] = f[j] => i = j IN
    /\ free = Pages \ {pg[i] : i \in 1 .. 5}
    /\ mm = [p \in Procs |-> IF p # InitProc THEN None ELSE
               [EmptySpace(pg[2]) EXCEPT !.pt[NPT] = pg[3], !.pt[PDX(PGSIZE)] = pg[4],
                                         !.pte[1] = [pa |-> pg[5], w |-> TRUE, u |-> TRUE]]]
    /\ kstack = [p \in Procs |-> IF p = InitProc THEN pg[1] ELSE None]
    /\ vlimit = [p \in Procs |-> IF p = InitProc THEN 2 * PGSIZE ELSE 0]
    /\ new = [p \in Procs |-> None]
    /\ reg = [p \in Procs |-> IF p = InitProc THEN User ELSE Unused]
    /\ panicked = "no"

Spec == Init /\ [][Next]_vars

-----------------------------------------------------------------------------
(* Properties                                                              *)

Spaces == [dir : Pages, pt : [PDEs -> Pages \cup {None}],
           pte : [VPs -> [pa : Pages \cup {None}, w : BOOLEAN, u : BOOLEAN]]]

\* The types of proc->pgdir, proc->vlimit (a user address) and the page lists.
TypeOK ==
  /\ free \subseteq Pages /\ panicked \in {"no", "remap", "copyuvm", "trap"}
  /\ \A p \in Procs :
       /\ mm[p] = None \/ mm[p] \in Spaces
       /\ new[p] = None \/ new[p] \in Spaces
       /\ vlimit[p] \in 0 .. KERNBASE - 1
       /\ kstack[p] \in Pages \cup {None}
       /\ reg[p].mem \in Pages \cup {None}
       /\ reg[p].child \in Procs \cup {None}

\* The pages an address space, or none, takes.
PagesOf(as) == IF as = None THEN {} ELSE AllPages(as)

\* The pages p holds, in each of its roles: its memory, the memory it is
\* building, a page it has just allocated, and its kernel stack.
Holdings == Procs \X {"mm", "new", "mem", "kstack"}
Held(h) ==
  LET p == h[1] IN
    CASE h[2] = "mm" -> PagesOf(mm[p])
      [] h[2] = "new" -> PagesOf(new[p])
      [] h[2] = "mem" -> {reg[p].mem} \ {None}
      [] h[2] = "kstack" -> {kstack[p]} \ {None}

\* No page is lost, none is in use twice and none is in use and free, however
\* the calls of the processes interleave and wherever they run out of memory:
\* kalloc() and kfree() calls of vm.c, fork(), exec() and wait() match.
PagesPartitioned ==
  /\ Pages = free \cup UNION {Held(h) : h \in Holdings}
  /\ \A h \in Holdings : Held(h) \cap free = {}
  /\ \A g, h \in Holdings : g # h => Held(g) \cap Held(h) = {}
  /\ \A as \in ({mm[p] : p \in Procs} \cup {new[p] : p \in Procs}) \ {None} :
       Cardinality(AllPages(as)) =
         1 + Cardinality({i \in PDEs : as.pt[i] # None}) + Cardinality(Present(as))

\* A process in user mode has exactly the pages below proc->vlimit, without page
\* 0 and in page tables that exist: also after an sbrk(), fork() or exec() that
\* failed halfway.  copyuvm() relies on it: the panics "remap", "copyuvm: pte
\* should exist" and "copyuvm: page not present" do not happen.  The panic of
\* trap() does: mprotect() and munprotect() of an address without a page table
\* fault in the kernel, and until then the rest holds.  (The variables also keep
\* their types.)
Mapped ==
  /\ TypeOK /\ panicked \in {"no", "trap"}
  /\ \A p \in Procs : reg[p].pc = "user" /\ CodeMapped(p) =>
       /\ Present(mm[p]) = 1 .. PAGE(PGROUNDUP(vlimit[p])) - 1
       /\ \A v \in Present(mm[p]) : mm[p].pt[PDX(v * PGSIZE)] # None

Flags(as) == [v \in VPs |-> [present |-> as.pte[v].pa # None, w |-> as.pte[v].w, u |-> as.pte[v].u]]

\* A process is started with the right address space.  The child of fork() has a
\* copy of every page of its parent, with the same protection: the guard page and
\* the pages mprotect() made read-only too.  exec() leaves one page the program
\* cannot touch, right below the stack page at the top ("Make the first
\* inaccessible.  Use the second as the user stack").
ImagesRight ==
  [][/\ \A p, c \in Procs : reg[p].child = c /\ reg'[c].pc = "user" =>
          mm'[p] = mm[p] /\ Flags(mm'[c]) = Flags(mm[p]) /\ vlimit'[c] = vlimit[p]
     /\ \A p \in Procs : reg[p].pc = "stacked" /\ mm'[p] # mm[p] =>
          LET top == PAGE(vlimit'[p]) - 1 IN
            {v \in Present(mm'[p]) : ~mm'[p].pte[v].u} = {top - 1}]_vars

=============================================================================
