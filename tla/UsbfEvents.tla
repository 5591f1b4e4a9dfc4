----------------------------- MODULE UsbfEvents -----------------------------
(***************************************************************************)
(* An event of the core on its way to the processor.  It sets a bit of an  *)
(* interrupt, which crosses from phy_clk to hclk through set_pulse_sync,   *)
(* and a bit of a status (rx_ready with a packet, tx_busy low after one),  *)
(* which crosses through bus_sync (usbf_sync.v 161-191, 222-242).  The     *)
(* handler is called for the one and looks at the other.                   *)
(*                                                                         *)
(* Most events are set for one clock; rx_ready for as long as the core is  *)
(* in RX_DATA_READY, three clocks for a packet with data (UsbfCore, where  *)
(* rx_data_complete_w ends it); the reset of the bus as long as it lasts.  *)
(***************************************************************************)
EXTENDS UsbfClocks, UsbfPulseSync, UsbfBusSync

CONSTANTS WIDTH,   \* for how many edges of phy_clk an event may be set
          GAP,     \* how many it is not set before the next
          LATE     \* edges of hclk from the event to when the handler looks

ASSUME EventsAssumption == /\ WIDTH \subseteq Nat \ {0} /\ GAP \in Nat \ {0}
                           /\ LATE \in Nat /\ Data = BOOLEAN /\ Data0 = FALSE

VARIABLES
  lasts,       \* edges of phy_clk that the event is still set
  since,       \* edges of phy_clk since, up to GAP
  sync,        \* the synchroniser of the event
  width,       \* of the last event; 0 before the first
  told,        \* how often the register file has been told of it
  late         \* edges of hclk since the first time, up to LATE

event    == <<lasts, since, width>>
register == <<told, late>>
vars     == <<clocks, event, sync, register, busVars>>

intr_set == lasts > 0
begins   == ~intr_set /\ lasts' > 0

(* The core: the event goes on, or the next one begins, and the status with*)
(* it.  Later the processor accepts the packet or starts the next one.     *)
Core == /\ lasts' \in IF intr_set THEN {lasts - 1}
                      ELSE {0} \cup {n \in WIDTH : since = GAP /\ ~din}
        /\ since' = IF lasts' > 0 THEN 0
                    ELSE IF since < GAP THEN since + 1 ELSE GAP
        /\ width' = IF begins THEN lasts' ELSE width
        /\ din' \in IF begins THEN {TRUE} ELSE IF intr_set THEN {din} ELSE {din, FALSE}

(* The register file takes Out for an event in every clock it is set. *)
Register ==
  /\ told' = IF begins THEN 0 ELSE told + bit(Out(sync))
  /\ late' = IF begins \/ told = 0 THEN 0 ELSE IF late < LATE THEN late + 1 ELSE LATE

Forgotten == IF begins THEN told' = 0 /\ late' = 0 ELSE UNCHANGED register

Hclk == /\ HclkRises
        /\ sync' = DstEdge(sync, sync.s_pulse2level_r)
        /\ UNCHANGED <<event, din>> /\ Register /\ DstAlone

PhyClk == /\ PhyRises /\ Core
          /\ sync' = SrcEdge(sync, intr_set)
          /\ Forgotten /\ SrcAlone

Together == /\ BothRise /\ Core
            /\ LET new == SrcEdge(sync, intr_set)
               IN  \E p \in {sync, new} : sync' = DstEdge(new, p.s_pulse2level_r)
            /\ Register /\ BothEdges

Init == /\ ClocksInit /\ BusInit /\ din = FALSE
        /\ lasts = 0 /\ since = 0 /\ width = 0
        /\ sync = PulseSync0 /\ told = 0 /\ late = 0

Next == Hclk \/ PhyClk \/ Together

Spec == Init /\ [][Next]_vars

(* Both clocks run: neither can be ahead of the other for good. *)
FairSpec == Spec /\ WF_vars(Next)

-----------------------------------------------------------------------------
(* No event is lost and none comes from nowhere: the register file is told *)
(* of each before the next, and not more often than it has clocks.         *)
EventsCross == [][begins => /\ width > 0 => told > 0
                            /\ told <= width]_vars

(* Every event gets there in the end, the last one too. *)
EventIsTold == width > 0 /\ told = 0 ~> told > 0

(* What the interrupt says, the status says too when the handler looks:    *)
(* openusb_service (openusb_common.c 413) reads it after the interrupt and *)
(* clears the interrupt when it has, so that a packet not yet seen in the  *)
(* status would be left alone.                                             *)
StatusIsThere == late = LATE /\ din => dout
=============================================================================
