----------------------------- MODULE FileStore -----------------------------
(***************************************************************************)
(* What the file layer promises to its callers: a file is a sequence of    *)
(* bytes, an open file is a position in it, one piece of a write() takes   *)
(* effect at once and at the position the piece before it ended, and a     *)
(* crash takes every file back to one earlier moment.                      *)
(***************************************************************************)
EXTENDS Integers, Sequences, SequencesExt, FiniteSetsExt

CONSTANTS
  Files,     \* open file structures
  Inums,     \* files on the disk
  Pieces,    \* what one piece of a write() may hold
  Counts,    \* what read() may ask for
  None       \* a structure that is not in use

VARIABLES
  content,   \* the bytes of every file
  saved,     \* the bytes of every file that a crash leaves
  open,      \* the file each structure stands for, or None
  pos        \* the position of each structure

vars == <<content, saved, open, pos>>

\* The bytes s with the bytes d written at position k.
Overwrite(s, k, d) ==
  [j \in 1 .. Max({Len(s), k + Len(d)}) |->
     IF j \in k + 1 .. k + Len(d) THEN d[j - k] ELSE s[j]]

Open(f) ==
  /\ open[f] = None
  /\ \E i \in Inums : open' = [open EXCEPT ![f] = i]
  /\ pos' = [pos EXCEPT ![f] = 0]
  /\ UNCHANGED <<content, saved>>

Close(f) ==
  /\ open' = [open EXCEPT ![f] = None]
  /\ pos' = [pos EXCEPT ![f] = 0]
  /\ UNCHANGED <<content, saved>>

Write(f, d) ==
  /\ open[f] # None
  /\ content' = [content EXCEPT ![open[f]] = Overwrite(@, pos[f], d)]
  /\ pos' = [pos EXCEPT ![f] = @ + Len(d)]
  /\ UNCHANGED <<saved, open>>

Read(f, n) ==
  /\ open[f] # None
  /\ pos' = [pos EXCEPT ![f] = Max({@, Min({@ + n, Len(content[open[f]])})})]
  /\ UNCHANGED <<content, saved, open>>

\* A file that no structure stands for is emptied when its last link goes.
Empty(i) ==
  /\ \A f \in Files : open[f] # i
  /\ content' = [content EXCEPT ![i] = <<>>]
  /\ UNCHANGED <<saved, open, pos>>

Save == saved' = content /\ UNCHANGED <<content, open, pos>>

Crash ==
  /\ content' = saved
  /\ open' = [f \in Files |-> None]
  /\ pos' = [f \in Files |-> 0]
  /\ UNCHANGED saved

Init ==
  /\ content = saved
  /\ open = [f \in Files |-> None]
  /\ pos = [f \in Files |-> 0]

Next ==
  \/ \E f \in Files :
       \/ Open(f) \/ Close(f)
       \/ \E d \in Pieces : Write(f, d)
       \/ \E n \in Counts : Read(f, n)
  \/ \E i \in Inums : Empty(i)
  \/ Save \/ Crash

Spec == Init /\ [][Next]_vars

=============================================================================
