----------------------------- MODULE DailyUsage -----------------------------
(***************************************************************************)
(* What the quota records promise: for every device the seconds it used on *)
(* the day it was last seen, and a copy of that for the next start.  There *)
(* is room for some devices; a new one then takes the place of one other.  *)
(***************************************************************************)
EXTENDS Integers, FiniteSets

CONSTANTS Device,   \* MAC addresses
          Day,      \* days
          Room,     \* devices that are remembered
          FullUse   \* seconds of a day's quota

VARIABLES usage, kept

Forgotten == [day |-> 0, used |-> 0]
Nobody == [d \in Device |-> Forgotten]
Remembered(u) == {d \in Device : u[d] # Forgotten}

Init == usage = Nobody /\ kept = Nobody

\* Who makes room for d
Leaving(d) ==
  IF usage[d] = Forgotten /\ Cardinality(Remembered(usage)) >= Room
  THEN Remembered(usage) ELSE {d}

\* d is seen: on the same day its use grows, on another it starts afresh.
Count(d) ==
  /\ usage'[d] \in [day : Day, used : 0 .. FullUse]
  /\ usage'[d].day = usage[d].day => usage'[d].used >= usage[d].used
  /\ \E gone \in Leaving(d) :
        usage' = [u \in Device |-> IF u = d THEN usage'[d]
                                  ELSE IF u = gone THEN Forgotten ELSE usage[u]]

Keep == UNCHANGED usage /\ kept' = usage

Restart ==
  /\ usage' \in {kept, Nobody}
  /\ kept' \in {kept, Nobody}

Next ==
  \/ (\E d \in Device : Count(d)) /\ UNCHANGED kept
  \/ Keep
  \/ Restart

Spec == Init /\ [][Next]_<<usage, kept>>

=============================================================================
