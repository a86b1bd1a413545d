------------------------------ MODULE MCDevices ------------------------------
(***************************************************************************)
(* The console, the start of the other processors and the real-time clock  *)
(* for TLC.  The three do not share state; a behavior is one of one of     *)
(* them, with the others at one of their initial states.                   *)
(*                                                                         *)
(* Console: two readers, a keyboard with an extended control key and the   *)
(* key d, and a serial port with newline and the editing characters.       *)
(* Cells of the buffer outside of r..e hold characters that nothing reads  *)
(* again; the view leaves them out.                                        *)
(*                                                                         *)
(* Startup: tables with an entry that is skipped, with more processors     *)
(* than NCPU, with the boot processor behind NCPU others, and with an      *)
(* entry of no known type.                                                 *)
(*                                                                         *)
(* Clock: shortly before a year ends, and before a minute ends.            *)
(***************************************************************************)
EXTENDS Console, Startup, Clock

CONSTANTS r1, r2

VARIABLE part

MCKeys == {[code |-> 29, ext |-> TRUE], [code |-> 32, ext |-> FALSE]}
MCKeymaps == [normalmap |-> 32 :> "d", shiftmap |-> 32 :> "D", ctlmap |-> 32 :> "^D"]
MCSerial == {"\r", "^U", "^H", "^P"}

Table1 == <<<<"proc", 1>>, <<"proc", 2>>, <<"other">>, <<"proc", 3>>>>
MCTables == {
  Table1,
  <<<<"proc", 2>>, <<"proc", 1>>, <<"proc", 3>>, <<"proc", 4>>>>,
  <<<<"proc", 2>>, <<"proc", 3>>, <<"proc", 4>>, <<"proc", 1>>>>,
  <<<<"proc", 1>>, <<"unknown">>>> }

Start1 == <<58, 59, 23, 31, 12, 24>>
MCStarts == {Start1, <<59, 9, 10, 8, 1, 9>>}

DevicesInit ==
  /\ part \in {"console", "startup", "clock"}
  /\ Init /\ suInit /\ clInit
  /\ part # "startup" => table = Table1
  /\ part # "clock" => time = Start1 /\ ~ bcd

DevicesNext ==
  /\ UNCHANGED part
  /\ \/ part = "console" /\ Next   /\ UNCHANGED <<suVars, clVars>>
     \/ part = "startup" /\ suNext /\ UNCHANGED <<vars, clVars>>
     \/ part = "clock"   /\ clNext /\ UNCHANGED <<vars, suVars>>

devicesVars == <<part, vars, suVars, clVars>>

DevicesSpec == DevicesInit /\ [][DevicesNext]_devicesVars

MCView == <<part, Between(r, e), r, w, e, kbd, reader, suVars, clVars>>
MCSymmetry == Permutations(Readers)

=============================================================================
