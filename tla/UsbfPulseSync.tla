--------------------------- MODULE UsbfPulseSync ---------------------------
(***************************************************************************)
(* pulse_sync (usbf_sync_utilities.v): a pulse of one clock crosses to     *)
(* another clock as a change of level.  Its registers are a record; each   *)
(* operator is a rising edge of one of the clocks.                         *)
(***************************************************************************)
EXTENDS Naturals

PulseSync == [s_pulse2level_r : BOOLEAN,
              d_sample_r : BOOLEAN, d_sync2_r : BOOLEAN, d_sync3_r : BOOLEAN]

PulseSync0 == [s_pulse2level_r |-> FALSE,
               d_sample_r |-> FALSE, d_sync2_r |-> FALSE, d_sync3_r |-> FALSE]

(* The clock of the source. *)
Bug_Follows(p, din) == [p EXCEPT !.s_pulse2level_r = din]

SrcEdge(p, din) == [p EXCEPT !.s_pulse2level_r = @ # din]

(* The clock of the destination, which sees `level': the register of the   *)
(* source, or, when both clocks rise, its old or its new value.            *)
Bug_OneStage(p, level) == [p EXCEPT !.d_sample_r = level, !.d_sync2_r = level,
                                    !.d_sync3_r = level]

DstEdge(p, level) == [p EXCEPT !.d_sample_r = level, !.d_sync2_r = p.d_sample_r,
                               !.d_sync3_r = p.d_sync2_r]

(* The output, in the clock of the destination. *)
Out(p) == p.d_sync2_r # p.d_sync3_r

bit(b) == IF b THEN 1 ELSE 0
=============================================================================
