------------------------------ MODULE Console ------------------------------
(***************************************************************************)
(* Input from the keyboard and the serial port (kbd.c, uart.c), the input  *)
(* buffer of console.c, and the processes that read it.                    *)
(*                                                                         *)
(* consoleintr() keeps cons.lock while it handles the characters of one    *)
(* interrupt; here each character has an interrupt of its own, which is    *)
(* the interrupt that comes before the next character.  consoleread()      *)
(* keeps the lock from one sleep to the next.  What is echoed is left out. *)
(***************************************************************************)
EXTENDS Integers, Sequences, SequencesExt, FiniteSetsExt

CONSTANTS
  Readers,     \* processes that read the console
  INPUT_BUF,   \* characters in the buffer
  UINT,        \* number of values of an unsigned int
  Keys,        \* keys of the keyboard: [code, ext], ext for those sent after 0xE0
  Keymaps,     \* normalmap, shiftmap and ctlmap, for the codes of Keys
  Serial,      \* characters that arrive on the serial port
  Counts,      \* what read() asks for
  MaxScan,     \* bound: scan codes the keyboard holds
  None         \* no process; of a process that is not in read()

ASSUME ConsoleAssumption ==
  /\ INPUT_BUF \in Nat \ {0} /\ UINT \in Nat \ {0} /\ UINT % INPUT_BUF = 0 /\ UINT > INPUT_BUF
  /\ None \notin Readers \cup Nat

VARIABLES
  buf, r, w, e,   \* struct input
  shift,          \* the modifiers kbdgetc() remembers
  scan, held,     \* the keyboard: scan codes not yet fetched, keys that are down
  lock,           \* cons.lock: the reader that holds it, or None
  want, got,      \* of each reader: the argument n of read() and what it has so far
  asleep, killed  \* readers that sleep on &input.r; readers that were killed

input == <<buf, r, w, e>>
kbd == <<shift, scan, held>>
reader == <<lock, want, got, asleep, killed>>
vars == <<input, kbd, reader>>

-----------------------------------------------------------------------------
(* The keyboard and kbdgetc().                                             *)

Codes(k, up) ==
  (IF k.ext THEN <<224>> ELSE <<>>) \o <<IF up THEN k.code + 128 ELSE k.code>>

\* A key goes down, or repeats; a key goes up.
press(k) ==
  /\ Len(scan \o Codes(k, FALSE)) <= MaxScan
  /\ scan' = scan \o Codes(k, FALSE)
  /\ held' = held \cup {k}
  /\ UNCHANGED <<input, shift, reader>>

release(k) ==
  /\ k \in held
  /\ Len(scan \o Codes(k, TRUE)) <= MaxScan
  /\ scan' = scan \o Codes(k, TRUE)
  /\ held' = held \ {k}
  /\ UNCHANGED <<input, shift, reader>>

shiftcode(data) ==
  CASE data \in {29, 157} -> {"CTL"}
    [] data \in {42, 54}  -> {"SHIFT"}
    [] data \in {56, 184} -> {"ALT"}
    [] OTHER              -> {}

togglecode(data) ==
  CASE data = 58 -> {"CAPSLOCK"}
    [] data = 69 -> {"NUMLOCK"}
    [] data = 70 -> {"SCROLLLOCK"}
    [] OTHER     -> {}

\* charcode[shift & (CTL | SHIFT)][data]; letters change case with CAPSLOCK.
charcode(sh, data) ==
  LET map == IF "CTL" \in sh THEN "ctlmap" ELSE IF "SHIFT" \in sh THEN "shiftmap" ELSE "normalmap"
      c   == IF data \in DOMAIN Keymaps[map] THEN Keymaps[map][data] ELSE "NO"
      lower == "a" :> "A" @@ "d" :> "D"
  IN IF "CAPSLOCK" \notin sh THEN c
     ELSE IF c \in DOMAIN lower THEN lower[c]
     ELSE IF \E l \in DOMAIN lower : lower[l] = c THEN CHOOSE l \in DOMAIN lower : lower[l] = c
     ELSE c

\* Faulty variant: the release of an extended key leaves the escape behind.
Faulty_Released(data) ==
  shift \ shiftcode(IF "E0ESC" \in shift THEN data ELSE data - 128)

\* The modifiers after a key was released.
Released(data) ==
  shift \ (shiftcode(IF "E0ESC" \in shift THEN data ELSE data - 128) \cup {"E0ESC"})

\* The modifiers and the character after scan code data.
kbdgetc(data) ==
  IF data = 224 THEN [shift |-> shift \cup {"E0ESC"}, c |-> "NO"]
  ELSE IF data >= 128 THEN [shift |-> Released(data), c |-> "NO"]
  ELSE LET d  == IF "E0ESC" \in shift THEN data + 128 ELSE data
           sh == SymDiff((shift \ {"E0ESC"}) \cup shiftcode(d), togglecode(d))
       IN [shift |-> sh, c |-> charcode(sh, d)]

-----------------------------------------------------------------------------
(* consoleintr()                                                           *)

Char(k) == buf[k % INPUT_BUF]
Inc(k) == (k + 1) % UINT
Dec(k) == (k - 1) % UINT
Minus(j, k) == (j - k) % UINT

\* Kill line: back to the last newline, or to what is entered.
KillTo ==
  CHOOSE k \in 0 .. UINT - 1 :
    /\ Minus(e, k) <= Minus(e, w)
    /\ k = w \/ Char(Dec(k)) = "\n"
    /\ \A d \in 0 .. Minus(e, k) - 1 : Char(Dec(Minus(e, d))) # "\n"

\* Faulty variant: a buffer that fills up is not handed to the readers.
Faulty_Enters(c, j) == c \in {"\n", "^D"}

\* The character that arrives makes the line available to readers.
Enters(c, j) == c \in {"\n", "^D"} \/ j = (r + INPUT_BUF) % UINT

insert(ch) ==
  LET c == IF ch = "\r" THEN "\n" ELSE ch IN
    /\ buf' = [buf EXCEPT ![e % INPUT_BUF] = c]
    /\ e' = Inc(e)
    /\ IF Enters(c, Inc(e)) THEN w' = Inc(e) /\ asleep' = {} ELSE UNCHANGED <<w, asleep>>
    /\ UNCHANGED <<r, lock, want, got, killed>>

\* One character: ^P only lists the processes, once the lock is released.
consoleintr(c) ==
  /\ lock = None
  /\ CASE c = "^P" -> UNCHANGED <<input, reader>>
       [] c = "^U" -> e' = KillTo /\ UNCHANGED <<buf, r, w, reader>>
       [] c = "^H" -> /\ e' = IF e # w THEN Dec(e) ELSE e
                      /\ UNCHANGED <<buf, r, w, reader>>
       [] OTHER    -> IF c # "NO" /\ Minus(e, r) < INPUT_BUF THEN insert(c)
                      ELSE UNCHANGED <<input, reader>>

kbdintr ==
  /\ scan # <<>>
  /\ LET k == kbdgetc(Head(scan)) IN consoleintr(k.c) /\ shift' = k.shift
  /\ scan' = Tail(scan)
  /\ UNCHANGED held

uartintr == \E c \in Serial : consoleintr(c) /\ UNCHANGED kbd

-----------------------------------------------------------------------------
(* consoleread()                                                           *)

\* iunlock(ip) and acquire(&cons.lock); also a reader that was woken.
consoleread(p) ==
  /\ lock = None
  /\ p \notin asleep
  /\ lock' = p
  /\ want' \in {[want EXCEPT ![p] = n] : n \in IF want[p] = None THEN Counts ELSE {want[p]}}
  /\ UNCHANGED <<input, kbd, got, asleep, killed>>

\* release(&cons.lock), ilock(ip) and return; a killed process does not come back
\* to user space, and another takes its place.
Return(p) ==
  /\ lock' = None
  /\ want' = [want EXCEPT ![p] = None]
  /\ got' = [got EXCEPT ![p] = <<>>]
  /\ killed' = killed \ {p}
  /\ UNCHANGED <<kbd, asleep>>

\* n > 0, and the last character was not a newline.
More(p) == Len(got[p]) < want[p] /\ ~ (got[p] # <<>> /\ Last(got[p]) = "\n")

read_empty(p) ==
  /\ lock = p /\ More(p)
  /\ r = w
  /\ IF p \in killed THEN Return(p) /\ UNCHANGED input
     ELSE /\ lock' = None
          /\ asleep' = asleep \cup {p}
          /\ UNCHANGED <<input, kbd, want, got, killed>>

\* Faulty variant: the mark is dropped by a read that returns characters.
Faulty_AfterMark(p) == Inc(r)

\* The mark is kept for the next read() when this one has characters to return.
AfterMark(p) == IF got[p] # <<>> THEN r ELSE Inc(r)

read_char(p) ==
  /\ lock = p /\ More(p)
  /\ r # w
  /\ \/ /\ Char(r) = "^D"
        /\ r' = AfterMark(p)
        /\ Return(p)
     \/ /\ Char(r) # "^D"
        /\ r' = Inc(r)
        /\ got' = [got EXCEPT ![p] = Append(@, Char(r))]
        /\ UNCHANGED <<kbd, lock, want, asleep, killed>>
  /\ UNCHANGED <<buf, w, e>>

read_done(p) ==
  /\ lock = p /\ ~ More(p)
  /\ Return(p)
  /\ UNCHANGED input

\* kill(): the process notices when it is awake and there is nothing to read.
kill(p) ==
  /\ want[p] # None /\ lock # p
  /\ killed' = killed \cup {p}
  /\ asleep' = asleep \ {p}
  /\ UNCHANGED <<input, kbd, lock, want, got>>

-----------------------------------------------------------------------------

Init ==
  /\ buf = [k \in 0 .. INPUT_BUF - 1 |-> "NO"]
  /\ r = 0 /\ w = 0 /\ e = 0
  /\ shift = {} /\ scan = <<>> /\ held = {}
  /\ lock = None
  /\ want = [p \in Readers |-> None]
  /\ got = [p \in Readers |-> <<>>]
  /\ asleep = {} /\ killed = {}

Next ==
  \/ \E k \in Keys : press(k) \/ release(k)
  \/ kbdintr \/ uartintr
  \/ \E p \in Readers :
       consoleread(p) \/ read_empty(p) \/ read_char(p) \/ read_done(p) \/ kill(p)

Spec == Init /\ [][Next]_vars

-----------------------------------------------------------------------------

\* No reader sleeps while there is entered input, and a buffer without room for
\* another character always has entered input: otherwise interrupts would drop
\* every character and the readers would sleep for ever (the test of
\* input.r+INPUT_BUF in consoleintr() and the loop of consoleread()).
NeverWedged ==
  /\ asleep # {} => r = w
  /\ Minus(e, r) = INPUT_BUF => r # w

\* Once every scan code is handled, CTL, SHIFT and ALT are on only while a key for
\* them is down, and no escape waits to change the meaning of the next code: what
\* kbdgetc() keeps in shift across interrupts.
NoStuckModifier ==
  scan = <<>> =>
    /\ "E0ESC" \notin shift
    /\ \A m \in shift \cap {"CTL", "SHIFT", "ALT"} :
         \E k \in held : m \in shiftcode(IF k.ext THEN k.code + 128 ELSE k.code)

\* The characters of the buffer from index j up to index k.
Between(j, k) == [d \in 1 .. Minus(k, j) |-> Char((j + d - 1) % UINT)]

Discipline == INSTANCE LineDiscipline WITH
  Chars <- {"a", "A", "d", "D", "\n", "^D"}, NL <- "\n", EOF <- "^D", Cap <- INPUT_BUF,
  queue <- Between(r, w), line <- Between(w, e)

\* The three wrapping indices of struct input implement an edited line and a
\* queue: no character is lost, read twice or overtaken, erasing never reaches
\* what was entered, and an end-of-file mark ends one read() with nothing.
ImplementsLineDiscipline == Discipline!Spec

=============================================================================
