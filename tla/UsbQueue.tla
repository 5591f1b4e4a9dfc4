------------------------------ MODULE UsbQueue ------------------------------
(***************************************************************************)
(* What a byte FIFO of the device promises: a bounded queue.  In one clock *)
(* cycle it may take a byte, give up its oldest byte, do both, or be       *)
(* emptied.  UsbfFifo implements it (see UsbfFifo!Queue).                  *)
(***************************************************************************)
EXTENDS Naturals, Sequences

CONSTANTS Data,     \* the bytes
          DEPTH     \* how many the queue holds

VARIABLE queue

Put(d) == /\ Len(queue) < DEPTH
          /\ queue' = Append(queue, d)

Get == /\ queue # << >>
       /\ queue' = Tail(queue)

PutGet(d) == /\ queue # << >>
             /\ Len(queue) < DEPTH
             /\ queue' = Append(Tail(queue), d)

Clear == queue' = << >>

Init == queue = << >>

Next == \/ \E d \in Data : Put(d) \/ PutGet(d)
        \/ Get
        \/ Clear

Spec == Init /\ [][Next]_queue
=============================================================================
