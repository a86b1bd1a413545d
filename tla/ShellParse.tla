----------------------------- MODULE ShellParse -----------------------------
(***************************************************************************)
(* The parser of sh.c.  A line is a sequence of characters; a position of  *)
(* it is a pointer of the code, and the position behind the last character *)
(* holds the terminating NUL.  A parsing function returns the set of its   *)
(* results: the position it stopped at and the command, or nothing when it *)
(* calls panic(), which ends the process.                                  *)
(***************************************************************************)
EXTENDS Integers, Sequences, FiniteSets, SequencesExt, FiniteSetsExt

CONSTANT MAXARGS    \* entries of argv, the terminating 0 included

whitespace == {" ", "\n"}
symbols == {"<", "|", ">", "&", ";", "(", ")"}

Ch(t, s) == IF s <= Len(t) THEN t[s] ELSE "NUL"

Skip(t, s) == Min({k \in s .. Len(t) + 1 : Ch(t, k) \notin whitespace})

WordEnd(t, s) == Min({k \in s .. Len(t) + 1 : Ch(t, k) \in whitespace \cup symbols \cup {"NUL"}})

\* The next token: its kind ("a" for a word, "+" for >>), its ends q and eq, and
\* the position behind it and the white space that follows.
gettoken(t, s) ==
  LET q    == Skip(t, s)
      c    == Ch(t, q)
      more == c = ">" /\ Ch(t, q + 1) = ">"
      eq   == IF c = "NUL" THEN q
              ELSE IF c \notin symbols THEN WordEnd(t, q)
              ELSE IF more THEN q + 2 ELSE q + 1
  IN [tok |-> IF more THEN "+" ELSE IF c \in symbols \cup {"NUL"} THEN c ELSE "a",
      q |-> q, eq |-> eq, s |-> Skip(t, eq)]

peek(t, s, toks) == Ch(t, Skip(t, s)) \in toks

\* Commands
execcmd(argv) == [type |-> "EXEC", argv |-> argv]
redircmd(c, file, fd) == [type |-> "REDIR", cmd |-> c, file |-> file, fd |-> fd]
pipecmd(l, r) == [type |-> "PIPE", left |-> l, right |-> r]
listcmd(l, r) == [type |-> "LIST", left |-> l, right |-> r]
backcmd(c) == [type |-> "BACK", cmd |-> c]

-----------------------------------------------------------------------------

RECURSIVE parseredirs(_, _, _)
RECURSIVE parseargs(_, _, _, _)
RECURSIVE parseblock(_, _)
RECURSIVE parseexec(_, _)
RECURSIVE parsepipe(_, _)
RECURSIVE parsebacks(_, _, _)
RECURSIVE parseline(_, _)
RECURSIVE Terminators(_)

\* The redirections that follow, behind those in rs.
parseredirs(t, s, rs) ==
  IF ~ peek(t, s, {"<", ">"}) THEN {[s |-> s, rs |-> rs]}
  ELSE UNION {
    UNION {IF file.tok # "a" THEN {}
           ELSE parseredirs(t, file.s,
                  Append(rs, [file |-> [q |-> file.q, eq |-> file.eq],
                              fd |-> IF op.tok = "<" THEN 0 ELSE 1])) :
             file \in {gettoken(t, op.s)}} :
      op \in {gettoken(t, s)}}

\* The first redirection is the innermost command.
Redirected(c, rs) == FoldLeft(LAMBDA d, r : redircmd(d, r.file, r.fd), c, rs)

\* Faulty variant: argv has no room for its terminating 0.
Faulty_TooMany(argc) == argc > MAXARGS

TooMany(argc) == argc >= MAXARGS

\* The loop of parseexec() over words, each with the redirections behind it.
parseargs(t, s, argv, rs) ==
  IF peek(t, s, {"|", ")", "&", ";", "NUL"})
  THEN {[s |-> Skip(t, s), cmd |-> Redirected(execcmd(argv), rs)]}
  ELSE UNION {
    IF w.tok # "a" \/ TooMany(Len(argv) + 1) THEN {}
    ELSE UNION {parseargs(t, r.s, Append(argv, [q |-> w.q, eq |-> w.eq]), r.rs) :
                  r \in parseredirs(t, w.s, rs)} :
      w \in {gettoken(t, s)}}

parseexec(t, s) ==
  IF peek(t, s, {"("}) THEN parseblock(t, s)
  ELSE UNION {parseargs(t, r.s, <<>>, r.rs) : r \in parseredirs(t, s, <<>>)}

parseblock(t, s) ==
  UNION {IF ~ peek(t, b.s, {")"}) THEN {}
         ELSE {[s |-> r.s, cmd |-> Redirected(b.cmd, r.rs)] :
                 r \in parseredirs(t, gettoken(t, b.s).s, <<>>)} :
           b \in parseline(t, gettoken(t, s).s)}

parsepipe(t, s) ==
  UNION {IF ~ peek(t, l.s, {"|"}) THEN {l}
         ELSE {[s |-> r.s, cmd |-> pipecmd(l.cmd, r.cmd)] :
                 r \in parsepipe(t, gettoken(t, l.s).s)} :
           l \in parseexec(t, s)}

\* The loop of parseline() over "&".
parsebacks(t, s, c) ==
  IF peek(t, s, {"&"}) THEN parsebacks(t, gettoken(t, s).s, backcmd(c))
  ELSE {[s |-> s, cmd |-> c]}

parseline(t, s) ==
  UNION {UNION {IF ~ peek(t, b.s, {";"}) THEN {b}
                ELSE {[s |-> r.s, cmd |-> listcmd(b.cmd, r.cmd)] :
                        r \in parseline(t, gettoken(t, b.s).s)} :
                  b \in parsebacks(t, l.s, l.cmd)} :
           l \in parsepipe(t, s)}

\* The command of the whole line; leftovers are an error.
parsecmd(t) == {r.cmd : r \in {c \in parseline(t, 1) : Skip(t, c.s) = Len(t) + 1}}

\* The positions at which nulterminate() puts a NUL.
Terminators(c) ==
  CASE c.type = "EXEC"  -> {w.eq : w \in ToSet(c.argv)}
    [] c.type = "REDIR" -> Terminators(c.cmd) \cup {c.file.eq}
    [] c.type = "BACK"  -> Terminators(c.cmd)
    [] OTHER            -> Terminators(c.left) \cup Terminators(c.right)

\* The line after nulterminate(); the word at q ends before the next NUL.
nulterminate(t, c) ==
  [k \in 1 .. Len(t) + 1 |-> IF k \in Terminators(c) THEN "NUL" ELSE Ch(t, k)]

-----------------------------------------------------------------------------
(* The grammar of command lines, on sequences of tokens.                   *)

RECURSIVE IsSimple(_, _)
RECURSIVE IsRedirs(_)
RECURSIVE IsExec(_)
RECURSIVE IsPipe(_)
RECURSIVE IsLine(_)
RECURSIVE Words(_)
RECURSIVE Count(_, _)
RECURSIVE InOrder(_)

\* The characters from k on that are of a word, and those before k that are ">".
WordAt(t, k) == {j \in k .. Len(t) : \A i \in k .. j : t[i] \notin whitespace \cup symbols}
Arrows(t, k) == {j \in 1 .. k - 1 : \A i \in j .. k - 1 : t[i] = ">"}

\* Where tokens start: at symbols, but for the second half of >>, and words.
StartsToken(t, k) ==
  CASE t[k] \in whitespace -> FALSE
    [] t[k] = ">"          -> Cardinality(Arrows(t, k)) % 2 = 0
    [] t[k] \in symbols    -> TRUE
    [] OTHER               -> k = 1 \/ t[k - 1] \in whitespace \cup symbols

Tokens(t) ==
  LET starts == SetToSortSeq({k \in 1 .. Len(t) : StartsToken(t, k)}, <)
  IN [j \in 1 .. Len(starts) |->
        LET k == starts[j]
        IN [tok |-> IF t[k] = ">" /\ Ch(t, k + 1) = ">" THEN "+"
                    ELSE IF t[k] \in symbols THEN t[k] ELSE "a",
            q   |-> k,
            eq  |-> k + Cardinality(WordAt(t, k))]]

IsRedir(x) == Len(x) >= 2 /\ x[1] \in {"<", ">", "+"} /\ x[2] = "a"

IsRedirs(x) == x = <<>> \/ (IsRedir(x) /\ IsRedirs(SubSeq(x, 3, Len(x))))

\* Words, fewer than n, and redirections.
IsSimple(x, n) ==
  \/ x = <<>>
  \/ x[1] = "a" /\ n > 1 /\ IsSimple(Tail(x), n - 1)
  \/ IsRedir(x) /\ IsSimple(SubSeq(x, 3, Len(x)), n)

IsExec(x) ==
  \/ IsSimple(x, MAXARGS)
  \/ \E k \in 2 .. Len(x) :
       x[1] = "(" /\ x[k] = ")" /\ IsLine(SubSeq(x, 2, k - 1)) /\ IsRedirs(SubSeq(x, k + 1, Len(x)))

IsPipe(x) ==
  \/ IsExec(x)
  \/ \E k \in 1 .. Len(x) :
       x[k] = "|" /\ IsExec(SubSeq(x, 1, k - 1)) /\ IsPipe(SubSeq(x, k + 1, Len(x)))

IsLine(x) ==
  \/ IsPipe(x)
  \/ x # <<>> /\ Last(x) = "&" /\ \E k \in 0 .. Len(x) - 1 :
       IsPipe(SubSeq(x, 1, k)) /\ \A j \in k + 1 .. Len(x) : x[j] = "&"
  \/ \E k \in 1 .. Len(x) : x[k] = ";" /\ IsLine(SubSeq(x, k + 1, Len(x))) /\
       \E j \in 0 .. k - 1 :
         IsPipe(SubSeq(x, 1, j)) /\ \A i \in j + 1 .. k - 1 : x[i] = "&"

\* The words of a command, its commands of one type, and whether what stands left
\* in the line stands left in the command.
Words(c) ==
  CASE c.type = "EXEC"  -> c.argv
    [] c.type = "REDIR" -> Append(Words(c.cmd), c.file)
    [] c.type = "BACK"  -> Words(c.cmd)
    [] OTHER            -> Words(c.left) \o Words(c.right)

Count(c, type) ==
  (IF c.type = type THEN 1 ELSE 0) +
  CASE c.type = "EXEC"            -> 0
    [] c.type \in {"REDIR", "BACK"} -> Count(c.cmd, type)
    [] OTHER                      -> Count(c.left, type) + Count(c.right, type)

InOrder(c) ==
  CASE c.type = "EXEC" -> \A j, k \in 1 .. Len(c.argv) : j < k => c.argv[j].eq <= c.argv[k].q
    [] c.type \in {"REDIR", "BACK"} -> InOrder(c.cmd)
    [] OTHER -> /\ InOrder(c.left) /\ InOrder(c.right)
                /\ \A v \in ToSet(Words(c.left)), w \in ToSet(Words(c.right)) : v.eq <= w.q

=============================================================================
