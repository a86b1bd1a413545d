------------------------------- MODULE Shell -------------------------------
(***************************************************************************)
(* init (init.c), the shell (sh.c) and the programs it runs: processes     *)
(* with descriptors that fork, make pipes, wait for each other and exit.   *)
(*                                                                         *)
(* A process runs runcmd() on a command cmd, which stands at the path at   *)
(* of the tree that parsecmd() made of its line.  A program either writes  *)
(* (echo) or copies its input to its output (cat), and ends at end of file *)
(* or when it cannot write.  The kernel's part (fork, wait, exit, pipes)   *)
(* is in Proc, Sysfile and Pipe; here it is what the programs see of it.   *)
(***************************************************************************)
EXTENDS ShellParse, FiniteSets, TLC

CONSTANTS
  Lines,      \* lines that are typed at the shell
  NPROC,      \* processes at most
  NOFILE,     \* descriptors of a process
  PIPESIZE,   \* bytes in a pipe
  MaxBack,    \* bound: processes in the background when a line has been typed
  Output,     \* bytes that echo writes, and that a file or the console holds
  None        \* a descriptor that is not open, an unused register

Pids == 1 .. NPROC
Fds == 0 .. NOFILE - 1
INIT == 1

ASSUME ShellAssumption ==
  /\ {NPROC, NOFILE, PIPESIZE, MaxBack} \subseteq Nat \ {0} /\ Output \in Nat
  /\ \A t \in Lines : parsecmd(t) # {}

\* runcmd(parsecmd(buf)) runs the tree of its line.
Tree == [t \in Lines |-> [text |-> t, cmd |-> CHOOSE c \in parsecmd(t) : TRUE]]

VARIABLES
  proc,       \* the processes
  pipe        \* the bytes each pipe holds

vars == <<proc, pipe>>

Console == <<"console">>
File(w) == <<"file", w.q>>
\* An end of pipe id; tree and at say which command made the pipe.
End(end, id, tree, at) == <<end, id, tree, at>>

Unused == [st |-> "unused", parent |-> None, pc |-> None, cmd |-> None,
           tree |-> None, at |-> <<>>, fds |-> [d \in Fds |-> None], p |-> None, n |-> 0, b |-> 0, back |-> FALSE]

cmd(p) == proc[p].cmd

At(p, l) == proc[p].st = "running" /\ proc[p].pc = l

-----------------------------------------------------------------------------
(* System calls, as the programs see them.                                 *)

close(fds, d) == [fds EXCEPT ![d] = None]

\* open(), dup() and pipe() return the lowest descriptor that is not open.
Closed(fds) == {d \in Fds : fds[d] = None}

install(fds, f) == [fds EXCEPT ![Min(Closed(fds))] = f]

dup(fds, d) == install(fds, fds[d])

IsOpen(end, id) ==
  \E p \in Pids, d \in Fds :
    LET f == proc[p].fds[d] IN f # None /\ f[1] = end /\ f[2] = id

FreeSlots == {p \in Pids : proc[p].st = "unused"}

\* exit(): descriptors are closed and children go to init.
Exited(ps, p) ==
  [q \in Pids |->
     IF q = p THEN [Unused EXCEPT !.st = "zombie", !.parent = ps[p].parent, !.back = ps[p].back]
     ELSE IF ps[q].parent = p THEN [ps[q] EXCEPT !.parent = INIT] ELSE ps[q]]

exit(p) == proc' = Exited(proc, p) /\ UNCHANGED pipe

\* A shell gave up: nobody waits for all of its line any more, so the processes of
\* the line count as processes in the background.
Abandoned(ps) ==
  [q \in Pids |-> IF ps[q].st = "unused" \/ q = INIT \/ ps[q].pc \in {"getcmd", "main_wait"} THEN ps[q]
                  ELSE [ps[q] EXCEPT !.back = TRUE]]

\* fork1(): the parent goes on as parent, the child as child; a shell that cannot
\* fork exits.
fork1(p, parent, child) ==
  /\ proc' = IF FreeSlots = {} THEN Exited(Abandoned(proc), p)
             ELSE [proc EXCEPT ![p] = parent, ![Min(FreeSlots)] = [child EXCEPT !.parent = p]]
  /\ UNCHANGED pipe

Children(p) == {q \in Pids : proc[q].st # "unused" /\ proc[q].parent = p}

\* wait(): takes a child that has exited, or returns -1 when there is none at all;
\* the process then goes on as next.
wait(p, next) ==
  /\ \/ /\ Children(p) = {}
        /\ proc' = [proc EXCEPT ![p] = next]
     \/ \E q \in Children(p) :
          /\ proc[q].st = "zombie"
          /\ proc' = [proc EXCEPT ![p] = next, ![q] = Unused]
  /\ UNCHANGED pipe

-----------------------------------------------------------------------------
(* init and the main loop of the shell                                     *)

\* init and its descriptors when the kernel starts it.
Boot ==
  [p \in Pids |->
     IF p # INIT THEN Unused
     ELSE [Unused EXCEPT !.st = "running", !.pc = "init_fork",
                         !.fds = [d \in Fds |-> IF d <= 2 THEN Console ELSE None]]]

\* fork(), and exec("sh") in the child.  When init cannot fork it exits, exit()
\* panics, and the machine is started again.
init_fork(p) ==
  /\ At(p, "init_fork")
  /\ IF FreeSlots = {} THEN proc' = Boot /\ UNCHANGED pipe
     ELSE fork1(p, [proc[p] EXCEPT !.pc = "init_wait", !.n = Min(FreeSlots)],
                   [proc[p] EXCEPT !.pc = "getcmd"])

\* wait() until it returns the shell.
init_wait(p) ==
  /\ At(p, "init_wait")
  /\ \E q \in Children(p) :
       /\ proc[q].st = "zombie"
       /\ proc' = [proc EXCEPT ![q] = Unused,
                     ![p].pc = IF q = proc[p].n THEN "init_fork" ELSE "init_wait"]
  /\ UNCHANGED pipe

\* A line is read, and a child runs it; end of file ends the shell.
getcmd(p) ==
  /\ At(p, "getcmd")
  /\ \/ exit(p)
     \/ \E t \in Lines :
          /\ Cardinality({q \in Pids : proc[q].back})
               <= (IF Tree[t].cmd.type = "BACK" THEN MaxBack - 1 ELSE MaxBack)
          /\ fork1(p, [proc[p] EXCEPT !.pc = "main_wait"],
                      [proc[p] EXCEPT !.pc = "runcmd", !.cmd = Tree[t].cmd, !.tree = Tree[t],
                                      !.at = <<"cmd">>])

main_wait(p) ==
  /\ At(p, "main_wait")
  /\ wait(p, [proc[p] EXCEPT !.pc = "getcmd"])

-----------------------------------------------------------------------------
(* runcmd()                                                                *)

Running(p, type) == At(p, "runcmd") /\ cmd(p).type = type

\* The process runs the command below it in the tree.
Down(r, field) == [r EXCEPT !.pc = "runcmd", !.cmd = @[field], !.at = Append(@, field)]

\* exec(): echo has its output at hand, other programs read descriptor 0.  The
\* shell that cannot exec() says so and exits.
run_exec(p) ==
  LET argv == cmd(p).argv
      text == proc[p].tree.text IN
    /\ Running(p, "EXEC")
    /\ \/ exit(p)
       \/ /\ argv # <<>>
          /\ proc' = [proc EXCEPT ![p].pc = IF text[argv[1].q] = "e" THEN "echo" ELSE "cat",
                                  ![p].n = Output]
          /\ UNCHANGED pipe

\* Faulty variant: the file is opened before the descriptor is closed.
Faulty_Redirect(fds, d, f) == close(install(fds, f), d)

Redirect(fds, d, f) == install(close(fds, d), f)

run_redir(p) ==
  /\ Running(p, "REDIR")
  /\ \/ exit(p)
     \/ /\ proc' = [proc EXCEPT ![p] =
                      [Down(@, "cmd") EXCEPT !.fds = Redirect(@, cmd(p).fd, File(cmd(p).file))]]
        /\ UNCHANGED pipe

run_list(p) ==
  /\ Running(p, "LIST")
  /\ fork1(p, [proc[p] EXCEPT !.pc = "list_wait"], Down(proc[p], "left"))

list_wait(p) == At(p, "list_wait") /\ wait(p, Down(proc[p], "right"))

\* pipe() takes the two lowest descriptors, or fails and the shell exits.
run_pipe(p) ==
  /\ Running(p, "PIPE")
  /\ \/ exit(p)
     \/ \E id \in {Min({k \in Pids : ~ IsOpen("read", k) /\ ~ IsOpen("write", k)})},
           p0 \in {Min(Closed(proc[p].fds))} :
          \E p1 \in {Min(Closed(proc[p].fds) \ {p0})} :
            /\ proc' = [proc EXCEPT ![p].fds[p0] = End("read", id, proc[p].tree, proc[p].at),
                                    ![p].fds[p1] = End("write", id, proc[p].tree, proc[p].at),
                                    ![p].p = <<p0, p1>>, ![p].pc = "pipe_left"]
            /\ pipe' = [pipe EXCEPT ![id] = 0]

\* close(p[0]) and close(p[1])
ClosePipe(r) == [r EXCEPT !.fds = close(close(@, r.p[1]), r.p[2]), !.p = None]

\* The child on one side of the pipe: close(d), dup(p[k]) and the two closes.
Side(r, d, k, field) ==
  Down(ClosePipe([r EXCEPT !.fds = dup(close(@, d), r.p[k])]), field)

pipe_left(p) ==
  /\ At(p, "pipe_left")
  /\ fork1(p, [proc[p] EXCEPT !.pc = "pipe_right"], Side(proc[p], 1, 2, "left"))

pipe_right(p) ==
  /\ At(p, "pipe_right")
  /\ fork1(p, [ClosePipe(proc[p]) EXCEPT !.pc = "pipe_wait1"], Side(proc[p], 0, 1, "right"))

\* Faulty variant: the parent waits for one of its two children.
Faulty_pipe_wait1(p) ==
  At(p, "pipe_wait1") /\ wait(p, [proc[p] EXCEPT !.pc = "exit"])

pipe_wait1(p) ==
  At(p, "pipe_wait1") /\ wait(p, [proc[p] EXCEPT !.pc = "pipe_wait2"])

pipe_wait2(p) ==
  At(p, "pipe_wait2") /\ wait(p, [proc[p] EXCEPT !.pc = "exit"])

run_back(p) ==
  /\ Running(p, "BACK")
  /\ fork1(p, [proc[p] EXCEPT !.pc = "exit"], [Down(proc[p], "cmd") EXCEPT !.back = TRUE])

run_exit(p) == At(p, "exit") /\ exit(p)

-----------------------------------------------------------------------------
(* The programs                                                            *)

\* Faulty variant: the program goes on reading at end of file.
Faulty_AtEof(p) == UNCHANGED vars

\* read() returned 0: the loop of cat() ends, and the program with it.
AtEof(p) == exit(p)

\* A byte is read.
prog_read(p) ==
  LET f == IF proc[p].pc = "echo" THEN Console ELSE proc[p].fds[0] IN
    /\ At(p, "echo") \/ At(p, "cat")
    /\ proc[p].b = 0
    /\ IF f[1] # "read"
       THEN IF proc[p].n = 0 THEN AtEof(p)
            ELSE /\ proc' = [proc EXCEPT ![p].n = @ - 1, ![p].b = 1]
                 /\ UNCHANGED pipe
       ELSE \/ /\ pipe[f[2]] > 0
               /\ pipe' = [pipe EXCEPT ![f[2]] = @ - 1]
               /\ proc' = [proc EXCEPT ![p].b = 1]
            \/ /\ pipe[f[2]] = 0 /\ ~ IsOpen("write", f[2])
               /\ AtEof(p)

\* The byte is written; a pipe that nobody can read ends the program.
prog_write(p) ==
  LET f == proc[p].fds[1] IN
    /\ proc[p].st = "running" /\ proc[p].b = 1
    /\ IF f[1] # "write" THEN proc' = [proc EXCEPT ![p].b = 0] /\ UNCHANGED pipe
       ELSE \/ /\ ~ IsOpen("read", f[2])
               /\ exit(p)
            \/ /\ IsOpen("read", f[2]) /\ pipe[f[2]] < PIPESIZE
               /\ pipe' = [pipe EXCEPT ![f[2]] = @ + 1]
               /\ proc' = [proc EXCEPT ![p].b = 0]

-----------------------------------------------------------------------------

Init ==
  /\ proc = Boot
  /\ pipe = [k \in Pids |-> 0]

\* What a process does by itself; lines come from outside.
Step(p) ==
  \/ init_fork(p) \/ init_wait(p) \/ main_wait(p)
  \/ run_exec(p) \/ run_redir(p) \/ run_list(p) \/ list_wait(p)
  \/ run_pipe(p) \/ pipe_left(p) \/ pipe_right(p) \/ pipe_wait1(p) \/ pipe_wait2(p)
  \/ run_back(p) \/ run_exit(p)
  \/ prog_read(p) \/ prog_write(p)

Next == \E p \in Pids : Step(p) \/ getcmd(p)

Spec == Init /\ [][Next]_vars /\ WF_vars(\E p \in Pids : Step(p))

-----------------------------------------------------------------------------

\* The programs that are running.
Programs == {p \in Pids : At(p, "echo") \/ At(p, "cat")}

\* The command at a path of a tree.
Cmd(tree, at) == FoldLeft(LAMBDA c, field : c[field], tree, at)

\* The commands around a program that say where its descriptor d leads, as the
\* lengths of their paths: pipes it is on that side of, and redirections of d.
Around(p, d) ==
  {k \in 1 .. Len(proc[p].at) - 1 :
     LET c == Cmd(proc[p].tree, SubSeq(proc[p].at, 1, k)) IN
       \/ c.type = "PIPE" /\ proc[p].at[k + 1] = (IF d = 0 THEN "right" ELSE "left")
       \/ c.type = "REDIR" /\ c.fd = d}

\* What descriptor d of a program has to be: that of the innermost such command.
Leads(p, d) ==
  LET k == Max(Around(p, d))
      c == Cmd(proc[p].tree, SubSeq(proc[p].at, 1, k))
      f == proc[p].fds[d] IN
    IF Around(p, d) = {} THEN f = Console
    ELSE IF c.type = "REDIR" THEN f = File(c.file)
    ELSE /\ f[1] = (IF d = 0 THEN "read" ELSE "write")
         /\ f[3] = proc[p].tree /\ f[4] = SubSeq(proc[p].at, 1, k)

\* A program starts with the input and the output its line gives it, with the
\* console for errors, and with no other descriptor: a copy of a pipe left open
\* anywhere would keep a reader from its end of file (the close() and dup() calls
\* of runcmd()).
StdioRight ==
  \A p \in Programs :
    /\ Leads(p, 0) /\ Leads(p, 1) /\ proc[p].fds[2] = Console
    /\ \A d \in Fds : d > 2 => proc[p].fds[d] = None

\* The shell prompts only when everything it runs in the foreground has ended, the
\* processes of a line whose fork() failed apart (the wait() calls of main() and
\* runcmd()).
PromptAfterForeground ==
  \A p \in Pids : At(p, "getcmd") =>
    \A q \in Pids \ {INIT, p} : proc[q].st = "running" => proc[q].back

\* Every line ends: no process of it waits for ever for an end of file, for room
\* in a pipe or for a child.
LineEnds == \A p \in Pids : At(p, "main_wait") ~> ~ At(p, "main_wait")

=============================================================================
