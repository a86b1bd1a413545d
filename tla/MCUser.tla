------------------------------- MODULE MCUser -------------------------------
(***************************************************************************)
(* User programs for TLC: init and the shell, calls of library routines    *)
(* and of the shell's parser, and the memory allocator.  The three do not  *)
(* share state; a behavior is one of one of them.                          *)
(*                                                                         *)
(* Shell: e is the program echo, c is cat, f a file; a pipe holds less     *)
(* than what goes through it.                                              *)
(***************************************************************************)
EXTENDS Shell, LibraryCalls, Umalloc

VARIABLE part

MCLines == {
  <<"(", "e", ";", "c", "<", "f", ")", "|", "c", ">", "f">>,
  <<"e", "&">> }

UpTo(S, n) == UNION {[1 .. k -> S] : k \in 0 .. n}

MCTexts == UpTo({"a", "b", "\n"}, 3) \cup [1 .. 4 -> {"a", "\n"}]
MCPatterns == UpTo({"a", ".", "*", "^", "$"}, 3)
MCFormats == UpTo({"a", "%", "d", "c"}, 4)
MCPaths == UpTo({"a", "b", "/"}, 5)
MCCommands == UpTo({"a", " ", "|", ";", "&", "(", ")", "<", ">"}, 4)
              \cup [1 .. 6 -> {"a", " ", "|"}]
              \cup [1 .. 6 -> {"a", ";", "(", ")"}]
MCLimits == {<<0, 32>>, <<1, 32>>, <<4, 20>>, <<8, 12>>}
Ph(paddr, off, filesz, memsz) == [paddr |-> paddr, off |-> off, filesz |-> filesz, memsz |-> memsz]
MCImages == {<<Ph(5, o, f, f), Ph(5 + f + g, o + f + g, 3, 3 + z)>> :
               o \in 0 .. 5, f \in 1 .. 5, g \in 0 .. 2, z \in 0 .. 3}

UserInit ==
  /\ part \in {"shell", "library", "umalloc"}
  /\ Init /\ lcInit /\ umInit

UserNext ==
  /\ UNCHANGED part
  /\ \/ part = "shell"   /\ Next   /\ UNCHANGED <<lcVars, umVars>>
     \/ part = "library" /\ lcNext /\ UNCHANGED <<vars, umVars>>
     \/ part = "umalloc" /\ umNext /\ UNCHANGED <<vars, lcVars>>

userVars == <<part, vars, lcVars, umVars>>

\* The fairness of Shell.
ShellStep == part = "shell" /\ (\E p \in Pids : Step(p)) /\ UNCHANGED <<part, lcVars, umVars>>

UserSpec == UserInit /\ [][UserNext]_userVars /\ WF_userVars(ShellStep)

=============================================================================
