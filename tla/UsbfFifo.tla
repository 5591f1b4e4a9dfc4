------------------------------ MODULE UsbfFifo ------------------------------
(***************************************************************************)
(* The byte FIFO between the processor's bus and an endpoint               *)
(* (usbf_fifo.v, built with USB_REG_FIFO as usbf_cfg_defs.v defines it).   *)
(*                                                                         *)
(* The registers are variables, and so are the input pins, so that a       *)
(* design that contains a FIFO instantiates this module and puts           *)
(* expressions of its own in place of the pins, as the Verilog             *)
(* instantiation does.  One Clock step is one rising edge of clk_i.        *)
(*                                                                         *)
(* The definitions called Bug_... are mistakes, each of the definition that*)
(* follows it: the properties must notice them (README).                   *)
(***************************************************************************)
EXTENDS Naturals, Sequences

CONSTANTS Data,      \* the bytes
          ADDR_W,    \* width of the two pointers
          DEPTH      \* number of bytes

ASSUME FifoAssumption == /\ ADDR_W \in Nat
                         /\ DEPTH \in Nat \ {0}
                         /\ DEPTH = 2^ADDR_W

VARIABLES
  ram, rd_ptr, wr_ptr, count,          \* registers
  push_i, pop_i, flush_i, data_i       \* input pins

regs == <<ram, rd_ptr, wr_ptr, count>>
pins == <<push_i, pop_i, flush_i, data_i>>
vars == <<ram, rd_ptr, wr_ptr, count, push_i, pop_i, flush_i, data_i>>

Ptr == 0 .. DEPTH - 1

Bug_FullTooLate == count > DEPTH
full_o  == count = DEPTH
empty_o == count = 0
data_o  == ram[rd_ptr]

Bug_PushWhenFull == push_i
push == push_i /\ ~full_o
pop  == pop_i /\ ~empty_o

Bug_NoWrap(p) == p + 1
(* A pointer is ADDR_W bits wide: it wraps from DEPTH - 1 to 0. *)
Succ(p) == IF p = DEPTH - 1 THEN 0 ELSE p + 1

TypeOK == /\ ram \in [Ptr -> Data]
          /\ rd_ptr \in Ptr
          /\ wr_ptr \in Ptr
          /\ count \in 0 .. DEPTH
          /\ push_i \in BOOLEAN
          /\ pop_i \in BOOLEAN
          /\ flush_i \in BOOLEAN
          /\ data_i \in Data

(* The state after rstn_i; the memory holds whatever it powered up with. *)
RegsInit == /\ ram \in [Ptr -> Data]
            /\ rd_ptr = 0
            /\ wr_ptr = 0
            /\ count = 0

(***************************************************************************)
(* One clock edge.  The flush is assigned first and the push and pop after *)
(* it, so a register that both assign takes the value of the push or pop.  *)
(***************************************************************************)
Clock ==
  /\ ram' = IF push THEN [ram EXCEPT ![wr_ptr] = data_i] ELSE ram
  /\ wr_ptr' = IF push THEN Succ(wr_ptr) ELSE IF flush_i THEN 0 ELSE wr_ptr
  /\ rd_ptr' = IF pop THEN Succ(rd_ptr) ELSE IF flush_i THEN 0 ELSE rd_ptr
  /\ count' = IF push /\ ~pop THEN count + 1
              ELSE IF pop /\ ~push THEN count - 1
              ELSE IF flush_i THEN 0 ELSE count

-----------------------------------------------------------------------------
(* The surroundings drive the pins for the next edge as they like ...      *)
Drive == /\ push_i' \in BOOLEAN
         /\ pop_i' \in BOOLEAN
         /\ flush_i' \in BOOLEAN
         /\ data_i' \in Data

(* ... or never flush in the cycle of a push or a pop.                     *)
FlushAlone == flush_i => ~push_i /\ ~pop_i

PinsInit == /\ push_i = FALSE
            /\ pop_i = FALSE
            /\ flush_i = FALSE
            /\ data_i \in Data

Init == RegsInit /\ PinsInit

Next == Clock /\ Drive
Spec == Init /\ [][Next]_vars

CarefulNext == Clock /\ Drive /\ FlushAlone'
CarefulSpec == Init /\ [][CarefulNext]_vars

-----------------------------------------------------------------------------
(* The slot of the i-th byte that is still to be read. *)
Slot(i) == IF rd_ptr + i - 1 < DEPTH THEN rd_ptr + i - 1
                                     ELSE rd_ptr + i - 1 - DEPTH

(* The bytes that are still to be read, oldest first. *)
contents == [i \in 1 .. count |-> ram[Slot(i)]]

Queue == INSTANCE UsbQueue WITH queue <- contents

(* As long as nobody flushes in the cycle of a push or a pop, the three    *)
(* registers of usbf_fifo.v behave as one bounded queue: bytes come out in *)
(* the order in which they went in, none is lost, repeated or overwritten. *)
IsAQueue == Queue!Spec

(* The write pointer is `count' slots after the read pointer: what is      *)
(* counted is what lies between the pointers.                              *)
PointersAgree == wr_ptr = Slot(count + 1)

(* README.md 92 and 100: TX_FLUSH and RX_FLUSH "invalidate" the buffer, so *)
(* of the bytes that lay in the FIFO before the edge that takes a flush    *)
(* none is left after it; a byte pushed by that very edge may be.          *)
FlushInvalidates == [][flush_i => count' <= (IF push THEN 1 ELSE 0)]_vars
=============================================================================
