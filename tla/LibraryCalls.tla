---------------------------- MODULE LibraryCalls ----------------------------
(***************************************************************************)
(* Calls of the routines of Library and of the shell's parser: a call      *)
(* leaves its arguments and its result to be judged, and returns.          *)
(***************************************************************************)
EXTENDS Library, ShellParse

CONSTANTS Texts,     \* texts for the text tools, sequences of characters
          Patterns,  \* patterns for grep
          Formats,   \* formats for printf
          Paths,     \* path names
          Commands,  \* lines for the shell
          Space1,    \* the bytes of a memory or a buffer
          Limits,    \* address spaces: <<vbase, vlimit>>
          Images     \* kernel images: sequences of program headers

VARIABLES call,      \* the routine and its arguments
          ret        \* the routine and its result

lcVars == <<call, ret>>

Idle == <<"none">>

lcInit == call = Idle /\ ret = Idle

Call(fn, arg, value) == call' = <<fn, arg>> /\ \E v \in {value} : ret' = <<fn, v>>

\* The ways in which read() may hand out a text.
Chunks(text) ==
  {[j \in 1 .. Cardinality(cut) + 1 |->
      LET lo == IF j = 1 THEN 1 ELSE 1 + CHOOSE k \in cut : Cardinality({i \in cut : i < k}) = j - 2
          hi == IF j = Cardinality(cut) + 1 THEN Len(text)
                ELSE CHOOSE k \in cut : Cardinality({i \in cut : i < k}) = j - 1
      IN SubSeq(text, lo, hi)] : cut \in SUBSET (1 .. Len(text) - 1)}

Cells == 1 .. Space1
Memory == [a \in Cells |-> a]
Buffer == [a \in Cells |-> "old"]

call_match == \E re \in Patterns, t \in Texts : Call("match", <<re, t>>, match(re, t))
call_grep ==
  \E t \in Texts, re \in {<<"a">>, <<"^", "$">>} : \E r \in Chunks(t) : Call("grep", <<re, r>>, grep(re, r))
call_wc == \E t \in Texts : \E r \in Chunks(t) : Call("wc", r, wc(r))
call_printint ==
  \E x \in - (WORD \div 2) .. (WORD \div 2) - 1, b \in {10, 16}, sgn \in BOOLEAN :
    Call("printint", <<x, b, sgn>>, printint(x, b, sgn))
call_printf == \E f \in Formats : Call("printf", f, printf(f))
call_memmove ==
  \E d, s \in Cells : \E n \in 0 .. Space1 + 1 - Max({d, s}), user \in BOOLEAN :
    Call("memmove", <<d, s, n, user>>,
         IF user THEN user_memmove(Memory, d, s, n) ELSE memmove(Memory, d, s, n))
call_strncpy ==
  \E t \in Texts, n \in 0 .. Space1, safe \in BOOLEAN :
    Call("strncpy", <<t, n, safe>>,
         IF safe THEN safestrcpy(Buffer, t, n, 1) ELSE strncpy(Buffer, t, n, 1))
call_strncmp ==
  \E p, q \in Texts, n \in 0 .. 3 : Len(p) < 3 /\ Call("strncmp", <<p, q, n>>, strncmp(p, q, n))
call_gets == \E t \in Texts, max \in 1 .. 4 : Call("gets", <<t, max>>, gets(<<>>, max, t))
call_skipelem == \E p \in Paths : Call("skipelem", p, skipelem(p))
call_argptr ==
  \E v \in Limits, addr \in 0 .. WORD - 1, size \in - (WORD \div 2) .. (WORD \div 2) - 1 :
    Call("argptr", <<v, addr, size>>, argptr(v[1], v[2], addr, size))
call_fetch ==
  \E v \in Limits : \E addr \in 0 .. WORD - 1, nul \in {{}, {v[1]}, {v[2] - 1, v[2]}} :
    Call("fetch", <<v, addr, nul>>,
         <<fetchint(v[1], v[2], addr), fetchstr(v[1], v[2], addr, nul)>>)
call_bootmain == \E phs \in Images : Call("bootmain", phs, bootmain(Memory, phs))
call_parsecmd == \E t \in Commands : Call("parsecmd", t, parsecmd(t))

return ==
  /\ call # Idle
  /\ call' = Idle
  /\ ret' = Idle

lcNext ==
  \/ /\ call = Idle
     /\ \/ call_match \/ call_grep \/ call_wc \/ call_printint \/ call_printf \/ call_memmove
        \/ call_strncpy \/ call_strncmp \/ call_gets \/ call_skipelem \/ call_argptr
        \/ call_fetch \/ call_bootmain \/ call_parsecmd
  \/ return

lcSpec == lcInit /\ [][lcNext]_lcVars

-----------------------------------------------------------------------------
(* What the results should be, of the arguments x.                         *)

Result == ret[2]

Take(s, n) == SubSeq(s, 1, Min({n, Len(s)}))
AllOf(reads) == FlattenSeq(reads)

\* grep: the matching lines, if every read brings a line's end; a line that begins
\* in a read without one loses that beginning.
GrepRight(re, reads) ==
  /\ (\A j \in 1 .. Len(reads) : "\n" \in ToSet(reads[j])) =>
       Result = SelectSeq(LinesOf(AllOf(reads)), LAMBDA l : match(re, l))
  /\ \A l \in ToSet(Result) : \E whole \in ToSet(LinesOf(AllOf(reads))) : IsSuffix(l, whole)

WcRight(text) ==
  /\ Result.c = Len(text)
  /\ Result.l = Cardinality({k \in 1 .. Len(text) : text[k] = "\n"})
  /\ Result.w = Cardinality({k \in 1 .. Len(text) :
                            text[k] \notin Space /\ (k = 1 \/ text[k - 1] \in Space)})

\* printint: the number reads back, the most negative one too, and atoi() reads it.
PrintintRight(n, base, sgn) ==
  /\ Value(Result.digits, base) = (IF Result.neg THEN - n ELSE IF sgn THEN n ELSE n % WORD)
  /\ Result.neg <=> sgn /\ n < 0
  /\ Len(Result.digits) > 1 => Result.digits[1] # 0
  /\ sgn /\ base = 10 /\ n >= 0 => atoi(Result.digits) = n

\* printf and cprintf agree, but for %c, which the kernel does not know.
PrintfRight(fmt) ==
  (\A j \in 1 .. Len(Result) : Len(Result[j]) = 2 => Result[j][1] # "c") => Result = cprintf(fmt, 1, 1)

\* memmove: as if all at once; the user library's only when it need not go down.
MemmoveRight(d, s, n, user) == ~ user \/ ~ (s < d /\ d < s + n) => Result = Moved(Memory, d, s, n)

StrncpyRight(t, n, safe) ==
  /\ \A k \in Cells : k > n => Result[k] = Buffer[k]
  /\ IF safe THEN n > 0 => /\ \A k \in 1 .. Min({Len(t), n - 1}) : Result[k] = t[k]
                           /\ Result[Min({Len(t), n - 1}) + 1] = NUL
     ELSE \A k \in 1 .. n : Result[k] = At1(t, k)

GetsRight(t, max) ==
  /\ IsPrefix(Result, t) /\ Len(Result) < max
  /\ \A k \in 1 .. Len(Result) - 1 : Result[k] # "\n"
  /\ Len(Result) < max - 1 => Result = t \/ Result[Len(Result)] = "\n"

SkipelemRight(path) ==
  /\ Result = {} <=> Elements(path) = <<>>
  /\ \A r \in Result : <<r.name>> \o Elements(r.rest) = Elements(path)

\* argptr and fetchint: what is accepted lies in the process, and all that does is
\* accepted, but for no bytes at vbase.
ArgptrRight(v, addr, size) ==
  /\ Result => v[1] <= addr /\ 0 <= size /\ addr + size <= v[2]
  /\ v[1] <= addr /\ 0 < size /\ addr + size <= v[2] => Result

FetchRight(v, addr, nul) ==
  /\ Result[1] <=> v[1] <= addr /\ addr + INTSIZE <= v[2]
  /\ Result[2] >= 0 => /\ addr + Result[2] \in nul /\ v[1] <= addr /\ addr + Result[2] < v[2]
                    /\ nul \cap addr .. addr + Result[2] - 1 = {}
  /\ Result[2] < 0 <=> addr < v[1] \/ nul \cap addr .. v[2] - 1 = {}

\* bootmain: every segment is in its place though whole sectors are read.
BootmainRight(phs) ==
  \A j \in 1 .. Len(phs) : \A k \in 0 .. phs[j].memsz - 1 :
    Result[phs[j].paddr + k] = IF k < phs[j].filesz THEN phs[j].off + k ELSE Zero

\* Every routine computes what it is for: at the ends of its ranges, with numbers
\* that overflow, with copies that overlap, and with a text that read() hands out
\* in any pieces.  Two routines do not, and the formula asks less of them: grep()
\* must print exactly the matching lines only when every piece has a newline, and
\* otherwise no more than ends of lines, because grep.c:29 drops what it has read
\* of a line when a piece has none; and memmove() of ulib.c, which copies upwards,
\* need not be right when the destination is inside the source and above its
\* start.  (string.c, ulib.c, printf.c, console.c, grep.c, wc.c, syscall.c,
\* bootmain.c and skipelem() of fs.c)
LibraryRight ==
  LET x == IF call = Idle THEN <<>> ELSE call[2]
  IN CASE call[1] = "match"    -> Result = Matches(x[1], x[2])
       [] call[1] = "grep"     -> GrepRight(x[1], x[2])
       [] call[1] = "wc"       -> WcRight(AllOf(x))
       [] call[1] = "printint" -> PrintintRight(x[1], x[2], x[3])
       [] call[1] = "printf"   -> PrintfRight(x)
       [] call[1] = "memmove"  -> MemmoveRight(x[1], x[2], x[3], x[4])
       [] call[1] = "strncpy"  -> StrncpyRight(x[1], x[2], x[3])
       [] call[1] = "strncmp"  -> Result <=> Take(x[1], x[3]) = Take(x[2], x[3])
       [] call[1] = "gets"     -> GetsRight(x[1], x[2])
       [] call[1] = "skipelem" -> SkipelemRight(x)
       [] call[1] = "argptr"   -> ArgptrRight(x[1], x[2], x[3])
       [] call[1] = "fetch"    -> FetchRight(x[1], x[2], x[3])
       [] call[1] = "bootmain" -> BootmainRight(x)
       [] OTHER                -> TRUE

\* The parser accepts exactly the lines of the grammar, with fewer than MAXARGS
\* words in a command; the command it builds holds every word of the line once and
\* in order and a node for every operator; and nulterminate(), which writes into
\* the line that the words point into, ends each word and spoils none.
\* (parsecmd and nulterminate, sh.c)
ParserRight ==
  call[1] = "parsecmd" =>
    LET t      == call[2]
        tokens == Tokens(t)
        kinds  == [j \in 1 .. Len(tokens) |-> tokens[j].tok]
        Number(ks) == Cardinality({j \in 1 .. Len(kinds) : kinds[j] \in ks})
    IN /\ Result # {} <=> IsLine(kinds)
       /\ \A cmd \in Result :
            LET words == Words(cmd)
                ended == nulterminate(t, cmd)
            IN /\ Len(words) = Number({"a"})
               /\ ToSet(words) = {[q |-> tokens[j].q, eq |-> tokens[j].eq] :
                                    j \in {k \in 1 .. Len(tokens) : kinds[k] = "a"}}
               /\ InOrder(cmd)
               /\ Count(cmd, "PIPE") = Number({"|"}) /\ Count(cmd, "BACK") = Number({"&"})
               /\ Count(cmd, "LIST") = Number({";"}) /\ Count(cmd, "REDIR") = Number({"<", ">", "+"})
               /\ \A w \in ToSet(words) :
                    /\ ended[w.eq] = NUL
                    /\ \A k \in w.q .. w.eq - 1 : ended[k] = t[k]

=============================================================================
