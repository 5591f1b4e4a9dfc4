---------------------------- MODULE UsbfCrossing ----------------------------
(***************************************************************************)
(* An access of the processor to an endpoint: the AHB slave (usbf_biu.v),  *)
(* the registers whose bits are pulses (usbf_csr.v), the synchronisers     *)
(* between hclk and phy_clk (usbf_sync.v), and of the endpoint what they   *)
(* touch.  A read or a write of USB_EPi_DATA is held until it has been     *)
(* done on the other side; a write of a control register is not, and the   *)
(* status comes back later still.                                          *)
(*                                                                         *)
(* The processor leaves the bus alone for IDLE clocks between two accesses *)
(* ("Do not surpport burst transfer and back-to-back", usbf_cfg_defs.v 22) *)
(* and keeps hsel, which enables the registers, while an access lasts.     *)
(*                                                                         *)
(* The definitions called Bug_... are mistakes, each of the definition that*)
(* follows it: the properties must notice them (README).                   *)
(***************************************************************************)
EXTENDS UsbfClocks, UsbfPulseSync, Sequences

CONSTANTS Byte,    \* what a FIFO may hold
          Length,  \* the lengths of a packet
          IDLE

ASSUME CrossingAssumption == 0 \in Length /\ IDLE \in Nat

Strobe  == {"tx_start", "tx_flush", "rx_accept", "rx_flush"}
Request == {"rd_req", "wt_req"}
Down    == Strobe \cup Request          \* hclk to phy_clk
Up      == {"rd_ready", "wt_ready"}     \* phy_clk to hclk

VARIABLES
  \* the processor
  phase,       \* of the access: none ("idle"), its address, its data
  op,          \* the access: what it does, and what is written or will be read
  idle,        \* clocks since the last, up to IDLE
  readdata,    \* what it has read
  \* in hclk
  wt_en_r, wt_ready_r, rd_ready_r,
  strobe_r,    \* ep_tx_ctrl_tx_start_r, ..._tx_flush_r, ep_rx_ctrl_rx_accept_r, ..._rx_flush_r
  tx_len_r,
  \* the synchronisers of pulses
  sync,
  \* in phy_clk
  rx_head,     \* the first byte of the receive FIFO
  actual_rx_data_r,
  tx_active_q,
  \* bus_sync of the status, of which TX_BUSY is left here
  s2d_tgl_r, data_in_r, s_sample_r, s_d2s_tgl,
  d2s_tgl_r, d_sample_r, s_s2d_tgl, tx_busy,
  \* what has been asked of the endpoint and is not yet done
  pending

Status == INSTANCE UsbfBusSync WITH Data <- BOOLEAN, Data0 <- FALSE,
                                    din <- tx_active_q, dout <- tx_busy

access  == <<phase, op, idle, readdata>>
ahb     == <<wt_en_r, wt_ready_r, rd_ready_r>>
hclkVars == <<access, ahb, strobe_r, tx_len_r>>
phyVars == <<rx_head, actual_rx_data_r, tx_active_q>>
vars    == <<clocks, hclkVars, sync, phyVars, Status!source, Status!dest, pending>>

-----------------------------------------------------------------------------
(* usbf_biu.v: the address in one clock, the data in the next ones, until  *)
(* hready.                                                                 *)
reads      == op.kind \in {"rd_req", "sts"}
wt_en      == phase = "address" /\ ~reads
rd_en      == phase = "address" /\ reads
mem_access == op.kind \in Request

Bug_WriteNotHeld == wt_en_r

wt_ready == IF mem_access THEN Out(sync["wt_ready"]) ELSE wt_en_r

rd_ready == IF mem_access THEN Out(sync["rd_ready"]) ELSE rd_en
hready   == wt_ready_r /\ rd_ready_r

Bug_Unregistered == IF op.kind = "sts" THEN tx_busy ELSE rx_head

rdata == IF op.kind = "sts" THEN tx_busy ELSE actual_rx_data_r

Ahb == /\ wt_en_r' = wt_en
       /\ wt_ready_r' = (wt_ready \/ (wt_ready_r /\ ~wt_en))
       /\ rd_ready_r' = (rd_ready \/ (rd_ready_r /\ ~rd_en))

(* usbf_csr.v: a bit of a control register is set for one clock. *)
Bug_StrobeStays(s) == strobe_r[s] \/ (wt_en_r /\ op.kind = s)

strobe_next(s) == wt_en_r /\ op.kind = s

Registers ==
  /\ strobe_r' = [s \in Strobe |-> strobe_next(s)]
  /\ tx_len_r' = IF wt_en_r /\ op.kind \in {"tx_start", "tx_flush"} THEN op.val ELSE tx_len_r

(* What goes into each synchroniser. *)
done(s) == Out(sync[s])      \* the endpoint is told, or the AHB slave

pulse(s) == CASE s \in Strobe   -> strobe_r[s]
              [] s = "wt_req"   -> wt_en_r /\ op.kind = "wt_req"
              [] s = "rd_req"   -> rd_en /\ op.kind = "rd_req"
              [] s = "wt_ready" -> done("wt_req")
              [] s = "rd_ready" -> done("rd_req")

(* hclk rises, phy_clk, or both; then those in `fresh' are seen as they    *)
(* are after the edge.                                                     *)
Sync(h, p, fresh) ==
  sync' = [s \in Down \cup Up |->
             LET new  == IF (IF s \in Down THEN h ELSE p) THEN SrcEdge(sync[s], pulse(s))
                         ELSE sync[s]
                 seen == IF s \in fresh THEN new ELSE sync[s]
             IN  IF (IF s \in Down THEN p ELSE h) THEN DstEdge(new, seen.s_pulse2level_r)
                 ELSE new]

-----------------------------------------------------------------------------
(* The processor begins an access, goes on with it, or ends it. *)
Ops == [kind : {"wt_req"}, val : Byte] \cup [kind : {"tx_start"}, val : Length]
         \cup [kind : {"tx_flush", "rx_accept", "rx_flush", "sts"}, val : {0}]
         \cup {[kind |-> "rd_req", val |-> rx_head]}

Begins(rest) ==
  /\ phase = "idle" /\ idle = IDLE
  /\ op' \in Ops /\ phase' = "address"
  /\ pending' = IF op'.kind = "sts" THEN rest ELSE Append(rest, op')
  /\ UNCHANGED <<idle, readdata>>

Waits(rest) ==
  /\ phase = "idle" /\ idle' = IF idle < IDLE THEN idle + 1 ELSE IDLE
  /\ pending' = rest
  /\ UNCHANGED <<phase, op, readdata>>

Continues(rest) ==
  /\ phase # "idle" /\ pending' = rest /\ UNCHANGED op
  /\ IF phase = "data" /\ hready
       THEN phase' = "idle" /\ idle' = 0 /\ readdata' = IF reads THEN rdata ELSE readdata
       ELSE phase' = "data" /\ UNCHANGED <<idle, readdata>>

HclkEdge(rest) == /\ Begins(rest) \/ Waits(rest) \/ Continues(rest)
                  /\ Ahb /\ Registers

(* The endpoint does what it is told, and ends the transmission. *)
PhyEdge ==
  /\ actual_rx_data_r' = IF done("rd_req") THEN rx_head ELSE actual_rx_data_r
  /\ rx_head' \in IF done("rd_req") THEN Byte ELSE {rx_head}
  /\ tx_active_q' \in IF done("tx_flush") THEN {FALSE}
                      ELSE IF done("tx_start") THEN {TRUE}
                      ELSE {FALSE, tx_active_q}

undone == IF pending # << >> /\ \E s \in Down : done(s) THEN Tail(pending) ELSE pending

Hclk == /\ HclkRises
        /\ HclkEdge(pending) /\ Sync(TRUE, FALSE, {})
        /\ Status!DstAlone /\ UNCHANGED phyVars

PhyClk == /\ PhyRises
          /\ PhyEdge /\ pending' = undone /\ Sync(FALSE, TRUE, {})
          /\ Status!SrcAlone /\ UNCHANGED hclkVars

Together == /\ BothRise
            /\ HclkEdge(undone) /\ PhyEdge
            /\ \E fresh \in SUBSET {s \in Down \cup Up : pulse(s)} : Sync(TRUE, TRUE, fresh)
            /\ Status!BothEdges

Init == /\ ClocksInit
        /\ phase = "idle" /\ op = [kind |-> "sts", val |-> 0] /\ idle = IDLE
        /\ readdata = FALSE
        /\ wt_en_r = FALSE /\ wt_ready_r = TRUE /\ rd_ready_r = TRUE
        /\ strobe_r = [s \in Strobe |-> FALSE] /\ tx_len_r = 0
        /\ sync = [s \in Down \cup Up |-> PulseSync0]
        /\ rx_head \in Byte /\ actual_rx_data_r \in Byte
        /\ tx_active_q = FALSE /\ Status!BusInit
        /\ pending = << >>

Next == Hclk \/ PhyClk \/ Together

Spec == Init /\ [][Next]_vars

(* Both clocks run, neither ahead of the other for good. *)
FairSpec == Spec /\ WF_vars(Next)

(* A synchroniser, and the ring, work alike when all their levels are      *)
(* inverted: for TLC, a state is what differs.                             *)
change(p) == <<p.s_pulse2level_r # p.d_sample_r, p.d_sample_r # p.d_sync2_r,
               p.d_sync2_r # p.d_sync3_r>>

view == <<clocks, hclkVars, phyVars, pending, [s \in DOMAIN sync |-> change(sync[s])],
          [i \in DOMAIN Status!ring |-> Status!ring[i] # s2d_tgl_r], data_in_r, tx_busy>>

-----------------------------------------------------------------------------
(* The endpoint is told each thing once, one at a time and in the order of *)
(* the accesses.  The length and the byte, which cross without a           *)
(* synchroniser, are those of the access, and do not change in the moment  *)
(* they are taken (usbf_sync.v 218, 285).                                  *)
phyRises == hedges' = 0

DoneInOrder ==
  [][phyRises => \A s \in Down : done(s) =>
       /\ pending # << >> /\ Head(pending).kind = s
       /\ s = "tx_start" => tx_len_r = Head(pending).val /\ tx_len_r' = tx_len_r
       /\ s = "wt_req"   => /\ phase = "data" /\ op = Head(pending)
                            /\ phase' = "data" /\ op' = op]_vars

(* A read or a write of the FIFO ends after it has been done. *)
DataIsDone == phase = "idle" => \A k \in DOMAIN pending : pending[k].kind \notin Request

(* A read gives the byte that was the first when it began. *)
ReadsHead == phase = "idle" /\ op.kind = "rd_req" => readdata = op.val

(* README 108: TX_BUSY says "Transmit busy (active)".  What reads as not   *)
(* busy is not: neither is a packet under way nor the start of one.        *)
(* openusb_tx_data relies on it for each byte it writes, also when it has  *)
(* just started the packet before (openusb_common.c 181-203).  Start and   *)
(* status both take their time to cross, so that it holds only if the      *)
(* processor does too (IDLE).                                              *)
FreeIsFree ==
  phase = "idle" /\ op.kind = "sts" /\ readdata = FALSE =>
    ~tx_active_q /\ \A k \in DOMAIN pending : pending[k].kind # "tx_start"

(* Every access ends. *)
AccessEnds == phase = "data" ~> phase = "idle"
=============================================================================
