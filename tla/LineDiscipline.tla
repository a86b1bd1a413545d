--------------------------- MODULE LineDiscipline ---------------------------
(***************************************************************************)
(* What the console promises about its input: the line that is being typed *)
(* can be edited until it is entered, entered characters are read once and *)
(* in order, and an end-of-file mark makes exactly one read() return       *)
(* nothing.                                                                *)
(***************************************************************************)
EXTENDS Integers, Sequences, SequencesExt

CONSTANTS
  Readers,   \* processes that read the console
  Chars,     \* characters that can be entered
  NL, EOF,   \* the two characters that enter a line
  Cap,       \* characters held at most; a line that fills the space is entered
  Counts,    \* what read() may ask for
  None       \* of a process that is not in read()

VARIABLES
  queue,     \* entered characters
  line,      \* the line being edited
  want, got  \* the characters read() asks for, and has taken so far

vars == <<queue, line, want, got>>
input == <<queue, line>>
reads == <<want, got>>

Type(c) ==
  /\ Len(queue) + Len(line) < Cap
  /\ LET l == Append(line, c) IN
       IF c \in {NL, EOF} \/ Len(queue) + Len(l) = Cap
       THEN queue' = queue \o l /\ line' = <<>>
       ELSE line' = l /\ UNCHANGED queue
  /\ UNCHANGED reads

Erase == line # <<>> /\ line' = Front(line) /\ UNCHANGED <<queue, reads>>

EraseLine == line' = <<>> /\ UNCHANGED <<queue, reads>>

Read(p, n) ==
  /\ want[p] = None
  /\ want' = [want EXCEPT ![p] = n]
  /\ UNCHANGED <<input, got>>

\* A read that has what it asked for, or a whole line, takes nothing more.
Complete(p) == want[p] = Len(got[p]) \/ (got[p] # <<>> /\ Last(got[p]) = NL)

Take(p) ==
  /\ want[p] # None /\ ~ Complete(p)
  /\ queue # <<>> /\ Head(queue) # EOF
  /\ got' = [got EXCEPT ![p] = Append(@, Head(queue))]
  /\ queue' = Tail(queue)
  /\ UNCHANGED <<line, want>>

Done(p) ==
  /\ want' = [want EXCEPT ![p] = None]
  /\ got' = [got EXCEPT ![p] = <<>>]

Return(p) == want[p] # None /\ Complete(p) /\ Done(p) /\ UNCHANGED input

\* The mark ends the read; it goes only with a read that returns nothing.
EndOfFile(p) ==
  /\ want[p] # None /\ ~ Complete(p)
  /\ queue # <<>> /\ Head(queue) = EOF
  /\ queue' = IF got[p] = <<>> THEN Tail(queue) ELSE queue
  /\ Done(p)
  /\ UNCHANGED line

\* A killed process gives up when there is nothing to take.
GiveUp(p) == want[p] # None /\ queue = <<>> /\ Done(p) /\ UNCHANGED input

Init ==
  /\ queue = <<>> /\ line = <<>>
  /\ want = [p \in Readers |-> None]
  /\ got = [p \in Readers |-> <<>>]

Next ==
  \/ \E c \in Chars : Type(c)
  \/ Erase \/ EraseLine
  \/ \E p \in Readers :
       \/ \E n \in Counts : Read(p, n)
       \/ Take(p) \/ Return(p) \/ EndOfFile(p) \/ GiveUp(p)

Spec == Init /\ [][Next]_vars

=============================================================================
