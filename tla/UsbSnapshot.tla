---------------------------- MODULE UsbSnapshot ----------------------------
(***************************************************************************)
(* What bus_sync promises: the other side sees one value after another, in *)
(* the order the source had them.  It may miss some, and sees none that    *)
(* was not there.  A value is taken when the one before has been given.    *)
(***************************************************************************)
CONSTANTS Data, Data0

VARIABLES din,    \* the source
          full,   \* whether a value has been taken and not yet given
          held,   \* the value taken last
          dout    \* the value given last

vars == <<din, full, held, dout>>

Init == din \in Data /\ full = FALSE /\ held = Data0 /\ dout = Data0

Change == din' \in Data /\ UNCHANGED <<full, held, dout>>

Take == ~full /\ full' = TRUE /\ held' = din /\ din' \in Data /\ UNCHANGED dout

Give == full /\ full' = FALSE /\ dout' = held /\ din' \in Data /\ UNCHANGED held

Next == Change \/ Take \/ Give

Spec == Init /\ [][Next]_vars
=============================================================================
