------------------------------- MODULE Startup -------------------------------
(***************************************************************************)
(* Starting a multiprocessor: mpinit() reads the processors out of a table *)
(* of the BIOS, startothers() starts them one after the other through one  *)
(* shared block of arguments below 0x7000 (entryother.S), and main() turns *)
(* on the lock of the page allocator only after that.  A processor is      *)
(* named by its local APIC id.  Start-up messages of the APIC are          *)
(* delivered later, in the order in which they were sent.                  *)
(***************************************************************************)
EXTENDS Integers, Sequences, FiniteSets, SequencesExt

CONSTANTS Apics,    \* processors
          Bsp,      \* the one that runs main()
          NCPU,     \* entries of cpus[]
          Tables,   \* BIOS tables: sequences of <<"proc", id>>, <<"other">>, <<"unknown">>
          Pages     \* pages of the first 4 MB, used as stacks

ASSUME StartupAssumption == Bsp \in Apics /\ NCPU \in Nat \ {0}

VARIABLES cpu,        \* per processor: where it runs, its stack and what it was sent
          table,      \* the table entries mpinit() has yet to read
          cpus,       \* the processors found: cpus[] up to ncpu
          c,          \* loop variable of startothers(), an index of cpus
          stackarg,   \* the word at code-4
          started,    \* processors that have set started
          freelist,   \* the free pages
          use_lock,   \* kmem.use_lock
          runnable    \* whether userinit() has made a process

suVars == <<cpu, table, cpus, c, stackarg, started, freelist, use_lock, runnable>>

NoPage == 0

suInit ==
  /\ cpu = [a \in Apics |-> [pc |-> IF a = Bsp THEN "mpinit" ELSE "halted",
                             stack |-> NoPage, ipi |-> <<>>]]
  /\ table \in Tables
  /\ cpus = <<>> /\ c = 1 /\ stackarg = NoPage /\ started = {}
  /\ freelist = Pages /\ use_lock = FALSE /\ runnable = FALSE

At(a, pc) == cpu[a].pc = pc
Goto(a, pc) == cpu' = [cpu EXCEPT ![a].pc = pc]
Known(a) == a \in ToSet(cpus)

\* One entry of the table.  Processors beyond NCPU are left out.  An entry of an
\* unknown type is not skipped: the loop looks at it for ever.
mpinit ==
  /\ At(Bsp, "mpinit")
  /\ table # <<>>
  /\ \/ /\ Head(table)[1] = "proc"
        /\ cpus' = IF Len(cpus) < NCPU THEN Append(cpus, Head(table)[2]) ELSE cpus
        /\ table' = Tail(table)
     \/ /\ Head(table)[1] = "other"
        /\ table' = Tail(table)
        /\ UNCHANGED cpus
     \/ /\ Head(table)[1] = "unknown"
        /\ UNCHANGED <<table, cpus>>
  /\ UNCHANGED <<cpu, c, stackarg, started, freelist, use_lock, runnable>>

\* lapicinit() and seginit() of main(): mycpu() panics on a processor that is not
\* in cpus[].
main_seginit ==
  /\ At(Bsp, "mpinit")
  /\ table = <<>>
  /\ Goto(Bsp, IF Known(Bsp) THEN "startothers" ELSE "panic")
  /\ UNCHANGED <<table, cpus, c, stackarg, started, freelist, use_lock, runnable>>

\* The messages of lapicstartap(): INIT, and STARTUP twice.
lapicstartap == <<"INIT", "STARTUP", "STARTUP">>

\* The next processor gets a stack and is told to start.
startothers ==
  /\ At(Bsp, "startothers")
  /\ c <= Len(cpus)
  /\ IF cpus[c] = Bsp
     THEN c' = c + 1 /\ UNCHANGED <<cpu, stackarg, freelist>>
     ELSE \E page \in freelist :
            /\ freelist' = freelist \ {page}
            /\ stackarg' = page
            /\ cpu' = [cpu EXCEPT ![cpus[c]].ipi = @ \o lapicstartap, ![Bsp].pc = "wait"]
            /\ UNCHANGED c
  /\ UNCHANGED <<table, cpus, started, use_lock, runnable>>

\* Faulty variant: the next processor is started without waiting for this one.
Faulty_IsUp(a) == TRUE

IsUp(a) == a \in started

\* The spin loop on started.
startothers_wait ==
  /\ At(Bsp, "wait")
  /\ IsUp(cpus[c])
  /\ c' = c + 1
  /\ Goto(Bsp, "startothers")
  /\ UNCHANGED <<table, cpus, stackarg, started, freelist, use_lock, runnable>>

startothers_done ==
  /\ At(Bsp, "startothers")
  /\ c > Len(cpus)
  /\ Goto(Bsp, "kinit2")
  /\ UNCHANGED <<table, cpus, c, stackarg, started, freelist, use_lock, runnable>>

\* kinit2() has freed the rest of memory, all of it without the lock.
kinit2 ==
  /\ At(Bsp, "kinit2")
  /\ use_lock' = TRUE
  /\ Goto(Bsp, "userinit")
  /\ UNCHANGED <<table, cpus, c, stackarg, started, freelist, runnable>>

userinit ==
  /\ At(Bsp, "userinit")
  /\ runnable' = TRUE
  /\ Goto(Bsp, "mpmain")
  /\ UNCHANGED <<table, cpus, c, stackarg, started, freelist, use_lock>>

\* A message of the APIC: INIT resets the processor, STARTUP is for one that waits.
deliver(a) ==
  /\ cpu[a].ipi # <<>>
  /\ cpu' = [cpu EXCEPT
       ![a].ipi = Tail(@),
       ![a].pc = IF Head(cpu[a].ipi) = "INIT" THEN "wait_startup"
                 ELSE IF @ = "wait_startup" THEN "start32" ELSE @]
  /\ UNCHANGED <<table, cpus, c, stackarg, started, freelist, use_lock, runnable>>

\* entryother.S takes its stack from the arguments.
start32(a) ==
  /\ At(a, "start32")
  /\ cpu' = [cpu EXCEPT ![a].stack = stackarg, ![a].pc = "mpenter"]
  /\ UNCHANGED <<table, cpus, c, stackarg, started, freelist, use_lock, runnable>>

mpenter(a) ==
  /\ At(a, "mpenter")
  /\ Goto(a, IF Known(a) THEN "mpmain" ELSE "panic")
  /\ UNCHANGED <<table, cpus, c, stackarg, started, freelist, use_lock, runnable>>

mpmain(a) ==
  /\ At(a, "mpmain")
  /\ started' = started \cup {a}
  /\ Goto(a, "scheduler")
  /\ UNCHANGED <<table, cpus, c, stackarg, freelist, use_lock, runnable>>

\* A processor that runs a process comes to allocate pages, and back.
scheduler(a) ==
  /\ \/ At(a, "scheduler") /\ runnable /\ Goto(a, "kalloc")
     \/ At(a, "kalloc") /\ Goto(a, "scheduler")
  /\ UNCHANGED <<table, cpus, c, stackarg, started, freelist, use_lock, runnable>>

suNext ==
  \/ mpinit \/ main_seginit
  \/ startothers \/ startothers_wait \/ startothers_done
  \/ kinit2 \/ userinit
  \/ \E a \in Apics : deliver(a) \/ start32(a) \/ mpenter(a) \/ mpmain(a) \/ scheduler(a)

suSpec == suInit /\ [][suNext]_suVars

-----------------------------------------------------------------------------

\* Processors that may be inside the page allocator.
Allocating == {a \in Apics : cpu[a].pc \in {"startothers", "kinit2", "userinit", "kalloc"}}

\* No two processors run on one stack, though all take theirs from one shared
\* word, and while the page allocator runs without its lock only one processor
\* is in it, so that main() may leave kinit2() until "after startothers()".
\* (startothers, mpenter and main, main.c)
StartsAlone ==
  /\ \A a, b \in Apics \ {Bsp} : a # b /\ cpu[a].stack # NoPage => cpu[a].stack # cpu[b].stack
  /\ ~ use_lock => Cardinality(Allocating) <= 1
  /\ \A a \in Apics \ {Bsp} : cpu[a].pc # "panic"

=============================================================================
