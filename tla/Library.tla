------------------------------- MODULE Library -------------------------------
(***************************************************************************)
(* Sequential routines of the kernel, the boot loader and the user         *)
(* programs, as operators written from their loops, each beside a          *)
(* definition of what it should compute.  Characters are model strings, a  *)
(* C string is the sequence of its characters without the NUL.             *)
(***************************************************************************)
EXTENDS Integers, Sequences, FiniteSets, SequencesExt, FiniteSetsExt

CONSTANTS WORD,      \* the number of values of a machine word
          SECTSIZE,  \* bytes of a disk sector (bootmain.c)
          DIRSIZ,    \* characters of a directory entry's name
          INTSIZE    \* sizeof(int)

From(s, k) == SubSeq(s, k, Len(s))
NUL == "NUL"
At1(s, k) == IF k <= Len(s) THEN s[k] ELSE NUL

-----------------------------------------------------------------------------
(* grep.c                                                                  *)

RECURSIVE matchhere(_, _)
RECURSIVE matchstar(_, _, _)

matchhere(re, text) ==
  IF re = <<>> THEN TRUE
  ELSE IF At1(re, 2) = "*" THEN matchstar(re[1], From(re, 3), text)
  ELSE IF re = <<"$">> THEN text = <<>>
  ELSE /\ text # <<>>
       /\ re[1] \in {".", text[1]}
       /\ matchhere(Tail(re), Tail(text))

matchstar(c, re, text) ==
  \/ matchhere(re, text)
  \/ text # <<>> /\ c \in {".", text[1]} /\ matchstar(c, re, Tail(text))

match(re, text) ==
  IF At1(re, 1) = "^" THEN matchhere(Tail(re), text)
  ELSE \E k \in 1 .. Len(text) + 1 : matchhere(re, From(text, k))

\* Reference: the items of a pattern without anchors, and a split of the text
\* into one piece for each of them.
RECURSIVE Items(_)
Items(re) ==
  IF re = <<>> THEN <<>>
  ELSE IF At1(re, 2) = "*" THEN <<<<re[1], TRUE>>>> \o Items(From(re, 3))
  ELSE <<<<re[1], FALSE>>>> \o Items(Tail(re))

Covers(items, text) ==
  \E cut \in [0 .. Len(items) -> 0 .. Len(text)] :
    /\ cut[0] = 0 /\ cut[Len(items)] = Len(text)
    /\ \A j \in 1 .. Len(items) :
         /\ IF items[j][2] THEN cut[j] >= cut[j - 1] ELSE cut[j] = cut[j - 1] + 1
         /\ \A k \in cut[j - 1] + 1 .. cut[j] : items[j][1] \in {".", text[k]}

Matches(re, text) ==
  LET head == At1(re, 1) = "^"
      body == IF head THEN Tail(re) ELSE re
      its  == Items(body)
      tail == its # <<>> /\ its[Len(its)] = <<"$", FALSE>>
      core == IF tail THEN SubSeq(its, 1, Len(its) - 1) ELSE its
  IN \E i \in 1 .. (IF head THEN 1 ELSE Len(text) + 1) :
       \E j \in (IF tail THEN Len(text) ELSE i - 1) .. Len(text) : Covers(core, SubSeq(text, i, j))

\* Complete lines of a text.
RECURSIVE LinesOf(_)
LinesOf(text) ==
  IF \A k \in 1 .. Len(text) : text[k] # "\n" THEN <<>>
  ELSE LET k == Min({j \in 1 .. Len(text) : text[j] = "\n"})
       IN <<SubSeq(text, 1, k - 1)>> \o LinesOf(From(text, k + 1))

\* What follows the last newline, nothing if there is none: a line that a read
\* leaves unfinished is kept only if the buffer holds another one before it.
Kept(text) ==
  IF \A k \in 1 .. Len(text) : text[k] # "\n" THEN <<>>
  ELSE From(text, Max({j \in 1 .. Len(text) : text[j] = "\n"}) + 1)

\* The loop of grep() over what read() returns; out is what it has written.
grep(pattern, reads) ==
  FoldLeft(LAMBDA g, chunk :
             [buf |-> Kept(g.buf \o chunk),
              out |-> g.out \o SelectSeq(LinesOf(g.buf \o chunk), LAMBDA l : match(pattern, l))],
           [buf |-> <<>>, out |-> <<>>], reads).out

-----------------------------------------------------------------------------
(* wc.c                                                                    *)

Space == {" ", "\n"}

\* Faulty variant: a read starts outside a word.
Faulty_NextRead(w) == [w EXCEPT !.inword = FALSE]

NextRead(w) == w

wc(reads) ==
  FoldLeft(LAMBDA v, chunk :
             FoldLeft(LAMBDA w, ch :
                        [l |-> IF ch = "\n" THEN w.l + 1 ELSE w.l,
                         w |-> IF ch \notin Space /\ ~ w.inword THEN w.w + 1 ELSE w.w,
                         c |-> w.c + 1,
                         inword |-> ch \notin Space],
                      NextRead(v), chunk),
           [l |-> 0, w |-> 0, c |-> 0, inword |-> FALSE], reads)

-----------------------------------------------------------------------------
(* printf.c, console.c and ulib.c: numbers                                 *)

\* The digits of printint(), the least first.
RECURSIVE Digits(_, _)
Digits(x, base) == <<x % base>> \o (IF x \div base = 0 THEN <<>> ELSE Digits(x \div base, base))

\* printint(): the sign and the digits.
printint(xx, base, sgn) ==
  [neg    |-> sgn /\ xx < 0,
   digits |-> Reverse(Digits((IF sgn /\ xx < 0 THEN - xx ELSE xx) % WORD, base))]

Signed(x) == IF x >= WORD \div 2 THEN x - WORD ELSE x

atoi(digits) == FoldLeft(LAMBDA n, d : Signed((n * 10 + d) % WORD), 0, digits)

Value(digits, base) == FoldLeft(LAMBDA n, d : n * base + d, 0, digits)

\* printf(): what is printed is a character, or an argument and how it is shown.
Directive == {"d", "x", "p", "s", "c"}

printf(fmt) ==
  FoldLeft(LAMBDA p, ch :
             IF p.state = 0
             THEN IF ch = "%" THEN [p EXCEPT !.state = 1] ELSE [p EXCEPT !.out = Append(@, <<ch>>)]
             ELSE IF ch \in Directive
             THEN [p EXCEPT !.state = 0, !.ap = @ + 1, !.out = Append(@, <<ch, p.ap>>)]
             ELSE [p EXCEPT !.state = 0,
                            !.out = @ \o (IF ch = "%" THEN <<<<"%">>>> ELSE <<<<"%">>, <<ch>>>>)],
           [state |-> 0, ap |-> 1, out |-> <<>>], fmt).out

\* cprintf() of the kernel, from character i on and with argument argp next.
RECURSIVE cprintf(_, _, _)
cprintf(fmt, i, argp) ==
  IF i > Len(fmt) THEN <<>>
  ELSE IF fmt[i] # "%" THEN <<<<fmt[i]>>>> \o cprintf(fmt, i + 1, argp)
  ELSE IF i = Len(fmt) THEN <<>>
  ELSE IF fmt[i + 1] \in Directive \ {"c"}
  THEN <<<<fmt[i + 1], argp>>>> \o cprintf(fmt, i + 2, argp + 1)
  ELSE IF fmt[i + 1] = "%" THEN <<<<"%">>>> \o cprintf(fmt, i + 2, argp)
  ELSE <<<<"%">>, <<fmt[i + 1]>>>> \o cprintf(fmt, i + 2, argp)

-----------------------------------------------------------------------------
(* string.c and ulib.c: memory is a function of addresses                  *)

\* n bytes, one after the other: upwards, or downwards from the end.
Upwards(mem, d, s, n) ==
  FoldLeft(LAMBDA m, k : [m EXCEPT ![d + k] = m[s + k]], mem, [k \in 1 .. n |-> k - 1])
Downwards(mem, d, s, n) ==
  FoldLeft(LAMBDA m, k : [m EXCEPT ![d + k] = m[s + k]], mem, [k \in 1 .. n |-> n - k])

memmove(mem, d, s, n) ==
  IF s < d /\ s + n > d THEN Downwards(mem, d, s, n) ELSE Upwards(mem, d, s, n)

\* memmove() of the user library.
user_memmove(mem, d, s, n) == Upwards(mem, d, s, n)

Moved(mem, d, s, n) == [a \in DOMAIN mem |-> IF a \in d .. d + n - 1 THEN mem[a - d + s] ELSE mem[a]]

\* The buffer buf after strncpy() has copied or cleared n bytes of it, from byte k on.
RECURSIVE strncpy(_, _, _, _)
strncpy(buf, t, n, k) ==
  IF n <= 0 THEN buf ELSE strncpy([buf EXCEPT ![k] = At1(t, k)], t, n - 1, k + 1)

RECURSIVE safestrcpy(_, _, _, _)
safestrcpy(buf, t, n, k) ==
  IF n <= 0 THEN buf
  ELSE IF n = 1 THEN [buf EXCEPT ![k] = NUL]
  ELSE IF k > Len(t) THEN [buf EXCEPT ![k] = NUL, ![k + 1] = NUL]
  ELSE safestrcpy([buf EXCEPT ![k] = t[k]], t, n - 1, k + 1)

\* Whether strncmp() says that two strings are equal.
RECURSIVE strncmp(_, _, _)
strncmp(p, q, n) ==
  IF n > 0 /\ p # <<>> /\ At1(p, 1) = At1(q, 1) THEN strncmp(Tail(p), Tail(q), n - 1)
  ELSE n = 0 \/ At1(p, 1) = At1(q, 1)

\* gets(): the line, from what read() returns a character at a time.
RECURSIVE gets(_, _, _)
gets(buf, max, input) ==
  IF Len(buf) + 1 >= max \/ input = <<>> THEN buf
  ELSE IF Head(input) \in {"\n", "\r"} THEN Append(buf, Head(input))
  ELSE gets(Append(buf, Head(input)), max, Tail(input))

-----------------------------------------------------------------------------
(* fs.c: path names                                                        *)

\* The leading slashes of a path.
Slashes(path) == Max({k \in 0 .. Len(path) : \A j \in 1 .. k : path[j] = "/"})
NameLen(path) == Max({k \in 0 .. Len(path) : \A j \in 1 .. k : path[j] # "/"})

\* The next element and the rest of the path, or nothing.
skipelem(path) ==
  LET p == From(path, Slashes(path) + 1)
      r == From(p, NameLen(p) + 1)
  IN IF p = <<>> THEN {}
     ELSE {[name |-> SubSeq(p, 1, Min({NameLen(p), DIRSIZ})), rest |-> From(r, Slashes(r) + 1)]}

\* Reference: the elements of a path are its maximal runs between slashes.
Elements(path) ==
  LET starts == {k \in 1 .. Len(path) : path[k] # "/" /\ (k = 1 \/ path[k - 1] = "/")}
      Elem(k) == SubSeq(path, k, k + Min({NameLen(From(path, k)), DIRSIZ}) - 1)
  IN [j \in 1 .. Cardinality(starts) |->
        Elem(CHOOSE k \in starts : Cardinality({i \in starts : i < k}) = j - 1)]

-----------------------------------------------------------------------------
(* syscall.c: arguments in the memory of a process, vbase up to vlimit     *)

fetchint(vbase, vlimit, addr) ==
  ~ \/ addr >= vlimit \/ (addr + INTSIZE) % WORD > vlimit
    \/ addr < vbase   \/ (addr + INTSIZE) % WORD <= vbase

\* argptr() behind its argint(); size is an int.
argptr(vbase, vlimit, addr, size) ==
  ~ \/ size < 0
    \/ addr >= vlimit \/ (addr + size) % WORD > vlimit
    \/ addr < vbase   \/ (addr + size) % WORD <= vbase

\* The length of the string at addr, or -1; nul holds the addresses of NULs.
fetchstr(vbase, vlimit, addr, nul) ==
  IF addr >= vlimit \/ addr < vbase \/ nul \cap addr .. vlimit - 1 = {} THEN -1
  ELSE Min(nul \cap addr .. vlimit - 1) - addr

-----------------------------------------------------------------------------
(* bootmain.c: memory from a disk that holds byte k of the kernel at k     *)

\* readseg(): whole sectors, from the one of the first byte on.
RECURSIVE Sectors(_, _, _, _)
Sectors(mem, pa, epa, sector) ==
  IF pa >= epa THEN mem
  ELSE Sectors([a \in DOMAIN mem |-> IF a \in pa .. pa + SECTSIZE - 1
                                     THEN sector * SECTSIZE + (a - pa) ELSE mem[a]],
               pa + SECTSIZE, epa, sector + 1)

readseg(mem, pa, count, offset) ==
  Sectors(mem, pa - (offset % SECTSIZE), pa + count, offset \div SECTSIZE)

Zero == -1

\* The loop over program headers.
bootmain(mem, phs) ==
  FoldLeft(LAMBDA m, ph :
             LET seg == readseg(m, ph.paddr, ph.filesz, ph.off)
             IN [a \in DOMAIN mem |-> IF a \in ph.paddr + ph.filesz .. ph.paddr + ph.memsz - 1
                                      THEN Zero ELSE seg[a]],
           mem, phs)

=============================================================================
