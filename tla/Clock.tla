-------------------------------- MODULE Clock --------------------------------
(***************************************************************************)
(* cmostime() of lapic.c against a running real-time clock.  The registers *)
(* of the clock are read one at a time, while the clock sets its           *)
(* update-in-progress bit, changes one register after the other and clears *)
(* the bit again.                                                          *)
(***************************************************************************)
EXTENDS Integers, Sequences

CONSTANTS Starts,    \* times the clock may show first
          MaxTicks   \* bound: ticks of the clock during a call

\* A time is second, minute, hour, day, month and year, the year counted from 2000.
Fields == 1 .. 6
First == <<0, 0, 0, 1, 1, 0>>
Last31 == <<59, 59, 23, 31, 12, 99>>   \* the last value of each, in a month of 31 days

VARIABLES time,   \* the time of the clock, not encoded
          reg,    \* what the registers show
          left,   \* fields of an update that are still to be written
          uip,    \* the update-in-progress bit of register A
          bcd,    \* whether register B says that values are BCD
          ticks,  \* ticks so far
          pc,     \* where cmostime() is
          t1, t2, \* its two readings, fields read so far
          shown,  \* the times the clock has had since the call
          date    \* what it returns

clVars == <<time, reg, left, uip, bcd, ticks, pc, t1, t2, shown, date>>

Encode(x) == IF bcd THEN (x \div 10) * 16 + (x % 10) ELSE x

clInit ==
  /\ bcd \in BOOLEAN
  /\ time \in Starts
  /\ reg = [f \in Fields |-> Encode(time[f])]
  /\ left = {} /\ uip = FALSE /\ ticks = 0
  /\ pc = "t1"
  /\ t1 = <<>> /\ t2 = <<>> /\ date = <<>>
  /\ shown = {time}

\* The fields that change with the next second: a field whose lower ones are last.
Carry == {f \in Fields : \A g \in 1 .. f - 1 : time[g] = Last31[g]}

\* A second is over: the clock announces the update.
tick ==
  /\ ~ uip /\ ticks < MaxTicks
  /\ uip' = TRUE
  /\ left' = Carry
  /\ time' = [f \in Fields |-> IF f \notin Carry THEN time[f]
                               ELSE IF time[f] = Last31[f] THEN First[f] ELSE time[f] + 1]
  /\ ticks' = ticks + 1
  /\ UNCHANGED <<reg, bcd, pc, t1, t2, shown, date>>

\* One register changes, in no order that is promised.
update ==
  /\ uip
  /\ \E f \in left : reg' = [reg EXCEPT ![f] = Encode(time[f])] /\ left' = left \ {f}
  /\ UNCHANGED <<time, uip, bcd, ticks, pc, t1, t2, shown, date>>

updated ==
  /\ uip /\ left = {}
  /\ uip' = FALSE
  /\ shown' = shown \cup {time}
  /\ UNCHANGED <<time, reg, left, bcd, ticks, pc, t1, t2, date>>

-----------------------------------------------------------------------------

\* One cmos_read() of fill_rtcdate(), into t1 or t2.
fill_rtcdate ==
  /\ \/ pc = "t1" /\ Len(t1) < 6 /\ t1' = Append(t1, reg[Len(t1) + 1]) /\ UNCHANGED t2
     \/ pc = "t2" /\ Len(t2) < 6 /\ t2' = Append(t2, reg[Len(t2) + 1]) /\ UNCHANGED t1
  /\ UNCHANGED <<time, reg, left, uip, bcd, ticks, pc, shown, date>>

\* Faulty variant: the update-in-progress bit is not looked at.
Faulty_Stable(up) == TRUE

Stable(up) == ~ up

\* The loop starts again if an update is in progress behind the first reading.
cmos_stata ==
  /\ pc = "t1" /\ Len(t1) = 6
  /\ IF Stable(uip) THEN pc' = "t2" /\ UNCHANGED t1 ELSE t1' = <<>> /\ UNCHANGED pc
  /\ UNCHANGED <<time, reg, left, uip, bcd, ticks, t2, shown, date>>

CONV(x) == (x \div 16) * 10 + (x % 16)

\* Two equal readings end the loop; they are converted and the century is added.
cmostime ==
  /\ pc = "t2" /\ Len(t2) = 6
  /\ IF t1 = t2
     THEN /\ pc' = "done"
          /\ date' = [[f \in Fields |-> IF bcd THEN CONV(t1[f]) ELSE t1[f]] EXCEPT ![6] = @ + 2000]
          /\ UNCHANGED <<t1, t2>>
     ELSE pc' = "t1" /\ t1' = <<>> /\ t2' = <<>> /\ UNCHANGED date
  /\ UNCHANGED <<time, reg, left, uip, bcd, ticks, shown>>

clNext == tick \/ update \/ updated \/ fill_rtcdate \/ cmos_stata \/ cmostime

clSpec == clInit /\ [][clNext]_clVars

-----------------------------------------------------------------------------

\* The date that cmostime() returns is one the clock showed as a whole at some
\* moment of the call: no mixture of two seconds, however the reads of its
\* registers fall between the updates.  (cmostime, "make sure CMOS doesn't modify
\* time while we read it", lapic.c:205)
NoTornTime == pc = "done" => [date EXCEPT ![6] = @ - 2000] \in shown

=============================================================================
