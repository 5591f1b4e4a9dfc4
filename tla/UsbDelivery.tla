----------------------------- MODULE UsbDelivery -----------------------------
(***************************************************************************)
(* What the handshakes and data toggles of a stream promise: the receiver  *)
(* takes every packet exactly once and in order, and the sender goes on to *)
(* the next packet only when the receiver has taken the last one.          *)
(* Packets are numbered 1 .. N, over and over.                             *)
(***************************************************************************)
EXTENDS Naturals

CONSTANT N     \* at least 2

VARIABLES
  sending,   \* the packet the sender is at
  taking     \* the packet the receiver waits for

NextSeq(n) == (n % N) + 1

Init == sending = 1 /\ taking = 1

Take == /\ taking = sending
        /\ taking' = NextSeq(taking)
        /\ UNCHANGED sending

Confirm == /\ taking = NextSeq(sending)
           /\ sending' = taking
           /\ UNCHANGED taking

Next == Take \/ Confirm

Spec == Init /\ [][Next]_<<sending, taking>>
=============================================================================
