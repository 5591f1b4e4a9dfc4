-------------------------- MODULE UsbTransactions --------------------------
(***************************************************************************)
(* The device as it goes from one transaction to the next: the registers   *)
(* of UsbDevice that last longer than a packet, under their names, and one *)
(* step for what takes the core, the endpoint unit, the FIFOs and the      *)
(* register file many clocks: a token, a data packet and its handshake, an *)
(* IN transaction, a bus reset; and one step for an access of the          *)
(* processor, which may come between a token and its data packet.          *)
(*                                                                         *)
(* Nothing is lost or damaged on this bus, and the device acknowledges, so *)
(* that rx_err_q is left out; tx_zlp_q is tx_active_q with a tx_len_q of 0,*)
(* addr_update_pending_q is a func_addr_r that is not current_addr_q.      *)
(*                                                                         *)
(* The definitions called Bug_... are mistakes, each of the definition that*)
(* follows it: the properties must notice them (README).                   *)
(***************************************************************************)
EXTENDS UsbRegs, Sequences

CONSTANTS EP, Dev, Payload, Stale, DEPTH    \* Stale: what an empty FIFO gives

ASSUME TransactionsAssumption == /\ 0 \in EP /\ EP \subseteq Nat
                                 /\ 0 \in Dev /\ Dev \subseteq Nat
                                 /\ Stale \in Payload
                                 /\ DEPTH \in Nat \ {0}

VARIABLES
  token,        \* the token whose data packet is to come, or NoToken
  current_addr_q, ep0_dir_in_q, ep0_dir_out_q, ep_data_bit_q,
  rx_ready_q, rx_len_q, rx_setup_q, tx_active_q, tx_len_q, rx_fifo, tx_fifo,
  ep_cfg_int_rx_r, ep_cfg_int_tx_r, ep_cfg_stall_ep_r, func_addr_r,
  int_en_rst_r, phy_termselect_r,
  intr_ep_rx_ready_r, intr_ep_tx_complete_r, intr_reset_r

coreVars == <<token, current_addr_q, ep0_dir_in_q, ep0_dir_out_q, ep_data_bit_q>>
rxVars   == <<rx_ready_q, rx_len_q, rx_setup_q, rx_fifo>>
txVars   == <<tx_active_q, tx_len_q, tx_fifo>>
cfgVars  == <<ep_cfg_int_rx_r, ep_cfg_int_tx_r, func_addr_r, int_en_rst_r, phy_termselect_r>>
intrVars == <<intr_ep_rx_ready_r, intr_ep_tx_complete_r, intr_reset_r>>
deviceVars == <<coreVars, rxVars, txVars, cfgVars, ep_cfg_stall_ep_r, intrVars>>

(* room: rx_space_q; open: the core is in RX_DATA, not in RX_DATA_IGNORE. *)
NoToken == [ep |-> 0, room |-> FALSE, open |-> FALSE, valid |-> FALSE]

DeviceInit ==
  /\ token = NoToken /\ current_addr_q = 0
  /\ ep0_dir_in_q = FALSE /\ ep0_dir_out_q = FALSE
  /\ LET Each(v) == [i \in EP |-> v]
     IN  /\ ep_data_bit_q = Each(FALSE) /\ rx_setup_q = Each(FALSE)
         /\ rx_ready_q = Each(FALSE) /\ rx_len_q = Each(0) /\ rx_fifo = Each(<< >>)
         /\ tx_active_q = Each(FALSE) /\ tx_len_q = Each(0) /\ tx_fifo = Each(<< >>)
         /\ ep_cfg_int_rx_r = Each(FALSE) /\ ep_cfg_int_tx_r = Each(FALSE)
         /\ ep_cfg_stall_ep_r = Each(FALSE)
         /\ intr_ep_rx_ready_r = Each(FALSE) /\ intr_ep_tx_complete_r = Each(FALSE)
  /\ func_addr_r = 0 /\ int_en_rst_r = FALSE /\ phy_termselect_r = FALSE
  /\ intr_reset_r = FALSE

-----------------------------------------------------------------------------
(* What the processor reads (usbf_csr.v).  The status flags of every       *)
(* endpoint are those of endpoint 0.                                       *)
Sts(i) == [rx_count |-> rx_len_q[i], rx_ready |-> rx_ready_q[0], rx_setup |-> rx_setup_q[0],
           rx_err |-> FALSE, tx_busy |-> tx_active_q[0], tx_err |-> FALSE]
EpCfg(i) == [iso |-> FALSE, stall_ep |-> FALSE,
             int_tx |-> ep_cfg_int_tx_r[i], int_rx |-> ep_cfg_int_rx_r[i]]
EpIntsts == [rx |-> {i \in EP : intr_ep_rx_ready_r[i]},
             tx |-> {i \in EP : intr_ep_tx_complete_r[i]}]
RxByte(i) == IF rx_fifo[i] # << >> THEN Head(rx_fifo[i]) ELSE Stale
intr_o == \/ \E i \in EP : \/ intr_ep_rx_ready_r[i] /\ ep_cfg_int_rx_r[i]
                           \/ intr_ep_tx_complete_r[i] /\ ep_cfg_int_tx_r[i]
          \/ int_en_rst_r /\ intr_reset_r

-----------------------------------------------------------------------------
(* The accesses of the processor. *)
Put(f, i, v) == [f EXCEPT ![i] = v]

Bug_LenNotCleared(i) ==
  /\ rx_ready_q' = Put(rx_ready_q, i, FALSE)
  /\ rx_setup_q' = Put(rx_setup_q, i, FALSE)
  /\ UNCHANGED <<rx_len_q, rx_fifo>>

(* The FIFO keeps what has not been read. *)
Accepted(i) ==
  /\ rx_ready_q' = Put(rx_ready_q, i, FALSE)
  /\ rx_len_q' = Put(rx_len_q, i, 0)
  /\ rx_setup_q' = Put(rx_setup_q, i, FALSE)
  /\ UNCHANGED rx_fifo

CpuRx(cpu) ==
  CASE cpu.op = "accept" -> Accepted(cpu.ep)
    [] cpu.op = "read" /\ rx_fifo[cpu.ep] # << >> ->
         rx_fifo' = Put(rx_fifo, cpu.ep, Tail(rx_fifo[cpu.ep]))
           /\ UNCHANGED <<rx_ready_q, rx_len_q, rx_setup_q>>
    [] cpu.op = "rx_flush" ->
         rx_fifo' = Put(rx_fifo, cpu.ep, << >>)
           /\ UNCHANGED <<rx_ready_q, rx_len_q, rx_setup_q>>
    [] OTHER -> UNCHANGED rxVars

(* A start in the same write as a flush is lost. *)
CpuTx(cpu) ==
  CASE cpu.op \in {"tx_flush", "flush_start"} ->
         /\ tx_active_q' = Put(tx_active_q, cpu.ep, FALSE)
         /\ tx_len_q' = Put(tx_len_q, cpu.ep, 0)
         /\ tx_fifo' = Put(tx_fifo, cpu.ep, << >>)
    [] cpu.op = "start" ->
         /\ tx_active_q' = Put(tx_active_q, cpu.ep, TRUE)
         /\ tx_len_q' = Put(tx_len_q, cpu.ep, cpu.arg)
         /\ UNCHANGED tx_fifo
    [] cpu.op = "write" /\ Len(tx_fifo[cpu.ep]) < DEPTH ->
         tx_fifo' = Put(tx_fifo, cpu.ep, Append(tx_fifo[cpu.ep], cpu.arg))
           /\ UNCHANGED <<tx_active_q, tx_len_q>>
    [] OTHER -> UNCHANGED txVars

(* A stall lasts until a SETUP is in the endpoint, and does not begin      *)
(* while one is.                                                           *)
CpuCfg(cpu) ==
  CASE cpu.op = "cfg" ->
         /\ ep_cfg_int_rx_r' = Put(ep_cfg_int_rx_r, cpu.ep, cpu.arg.int_rx)
         /\ ep_cfg_int_tx_r' = Put(ep_cfg_int_tx_r, cpu.ep, cpu.arg.int_tx)
         /\ ep_cfg_stall_ep_r' = Put(ep_cfg_stall_ep_r, cpu.ep,
              (ep_cfg_stall_ep_r[cpu.ep] \/ cpu.arg.stall_ep) /\ ~rx_setup_q[cpu.ep])
         /\ UNCHANGED <<func_addr_r, int_en_rst_r, phy_termselect_r>>
    [] cpu.op = "ctrl" ->
         /\ int_en_rst_r' = cpu.arg.int_en_rst
         /\ phy_termselect_r' = cpu.arg.phy_termselect
         /\ UNCHANGED <<ep_cfg_int_rx_r, ep_cfg_int_tx_r, ep_cfg_stall_ep_r, func_addr_r>>
    [] cpu.op = "addr" ->
         /\ func_addr_r' = cpu.arg
         /\ UNCHANGED <<ep_cfg_int_rx_r, ep_cfg_int_tx_r, ep_cfg_stall_ep_r,
                        int_en_rst_r, phy_termselect_r>>
    [] OTHER -> UNCHANGED <<cfgVars, ep_cfg_stall_ep_r>>

CpuIntr(cpu) ==
  CASE cpu.op = "intsts" ->
         /\ intr_ep_rx_ready_r' = [i \in EP |-> intr_ep_rx_ready_r[i] /\ i \notin cpu.arg.rx]
         /\ intr_ep_tx_complete_r' = [i \in EP |-> intr_ep_tx_complete_r[i] /\ i \notin cpu.arg.tx]
         /\ UNCHANGED intr_reset_r
    [] cpu.op = "stat" ->
         /\ intr_reset_r' = (intr_reset_r /\ ~cpu.rst)
         /\ UNCHANGED <<intr_ep_rx_ready_r, intr_ep_tx_complete_r>>
    [] OTHER -> UNCHANGED intrVars

Cpu(cpu) == CpuRx(cpu) /\ CpuTx(cpu) /\ CpuCfg(cpu) /\ CpuIntr(cpu) /\ UNCHANGED coreVars

-----------------------------------------------------------------------------
(* The transactions of the host (usbf_core.v, usbf_sie_ep.v).  A token for *)
(* another address changes nothing.                                        *)
mine(t) == t.dev = current_addr_q

ep_data_bit_r(i) == ep_data_bit_q[i] \/ (i = 0 /\ ep0_dir_in_q /\ ep0_dir_out_q)

(* OUT or SETUP: is there room, and what is known of the transfer. *)
TokenOut(t) ==
  /\ mine(t) /\ ~token.valid
  /\ LET room == ~rx_ready_q[t.ep]
     IN  token' = [ep |-> t.ep, room |-> room, valid |-> TRUE,
                   open |-> room /\ (t.pid = "OUT" => ~ep_cfg_stall_ep_r[t.ep])]
  /\ IF t.pid = "SETUP"
       THEN /\ rx_setup_q' = [rx_setup_q EXCEPT ![0] = TRUE]
            /\ ep_cfg_stall_ep_r' = [ep_cfg_stall_ep_r EXCEPT ![0] = FALSE]
            /\ ep_data_bit_q' = [ep_data_bit_q EXCEPT ![0] = FALSE]
            /\ ep0_dir_in_q' = FALSE /\ ep0_dir_out_q' = FALSE
       ELSE /\ ep0_dir_out_q' = (ep0_dir_out_q \/ t.ep = 0)
            /\ UNCHANGED <<rx_setup_q, ep_cfg_stall_ep_r, ep_data_bit_q, ep0_dir_in_q>>
  /\ UNCHANGED <<current_addr_q, rx_ready_q, rx_len_q, rx_fifo, txVars, cfgVars, intrVars>>

(* The handshake that a data packet for the token gets. *)
mismatch(t)  == (t.datapid = "DATA1") # ep_data_bit_r(t.ep)
handshake(t) == CASE ep_cfg_stall_ep_r[t.ep] -> "STALL"
                  [] ~ep_cfg_stall_ep_r[t.ep] /\ (mismatch(t) \/ token.room) -> "ACK"
                  [] OTHER -> "NAK"

(* The data packet: its bytes, as many as find room; rx_ready, also for an *)
(* empty packet that is a repetition; its interrupt, for any packet that   *)
(* found room; and the toggle, for a packet that is taken.                 *)
Data(t) ==
  /\ token.valid /\ token.ep = t.ep
  /\ LET i     == t.ep
         fits  == DEPTH - Len(rx_fifo[i])
         bytes == IF token.open /\ ~mismatch(t) THEN t.data ELSE << >>
         kept  == IF Len(bytes) <= fits THEN bytes ELSE SubSeq(bytes, 1, fits)
     IN  /\ rx_fifo' = [rx_fifo EXCEPT ![i] = @ \o kept]
         /\ rx_len_q' = [rx_len_q EXCEPT ![i] = @ + Len(bytes)]
         /\ rx_ready_q' = [rx_ready_q EXCEPT ![i] =
              @ \/ (token.open /\ (mismatch(t) => t.data = << >>))]
         /\ intr_ep_rx_ready_r' = [intr_ep_rx_ready_r EXCEPT ![i] = @ \/ token.room]
         /\ ep_data_bit_q' = [ep_data_bit_q EXCEPT ![i] =
              IF handshake(t) = "ACK" /\ ~mismatch(t) THEN ~ep_data_bit_r(i) ELSE ep_data_bit_r(i)]
  /\ token' = NoToken
  /\ UNCHANGED <<current_addr_q, ep0_dir_in_q, ep0_dir_out_q, rx_setup_q, txVars, cfgVars,
                 ep_cfg_stall_ep_r, intr_ep_tx_complete_r, intr_reset_r>>

(* IN: the answer, and what it leaves behind.  The bytes of a packet that  *)
(* is longer than what is in the FIFO are stale.  The toggle flips when the*)
(* host acknowledges the packet, everything else when it is sent.          *)
inAnswer(t) == CASE ep_cfg_stall_ep_r[t.ep] -> "STALL"
                 [] ~ep_cfg_stall_ep_r[t.ep] /\ ~tx_active_q[t.ep] -> "NAK"
                 [] OTHER -> IF ep_data_bit_r(t.ep) THEN "DATA1" ELSE "DATA0"
sent(n) == IF n = 0 THEN 1 ELSE n      \* an empty packet pops the FIFO once
inData(t) == [k \in 1 .. tx_len_q[t.ep] |->
                IF k <= Len(tx_fifo[t.ep]) THEN tx_fifo[t.ep][k] ELSE Stale]

In(t, acked) ==
  /\ mine(t) /\ ~token.valid
  /\ ep0_dir_in_q' = (ep0_dir_in_q \/ t.ep = 0)
  /\ IF inAnswer(t) \in {"DATA0", "DATA1"}
       THEN /\ tx_active_q' = [tx_active_q EXCEPT ![t.ep] = FALSE]
            /\ tx_len_q' = [tx_len_q EXCEPT ![t.ep] = 0]
            /\ tx_fifo' = [tx_fifo EXCEPT ![t.ep] = SubSeq(@, sent(tx_len_q[t.ep]) + 1, Len(@))]
            /\ intr_ep_tx_complete_r' = [intr_ep_tx_complete_r EXCEPT ![t.ep] = TRUE]
            /\ ep_data_bit_q' = [ep_data_bit_q EXCEPT ![t.ep] =
                 acked # (@ \/ (t.ep = 0 /\ ep0_dir_in_q' /\ ep0_dir_out_q))]
            /\ current_addr_q' = IF t.ep = 0 /\ tx_len_q[0] = 0 THEN func_addr_r
                                                                ELSE current_addr_q
       ELSE UNCHANGED <<txVars, intr_ep_tx_complete_r, ep_data_bit_q, current_addr_q>>
  /\ UNCHANGED <<token, ep0_dir_out_q, rxVars, cfgVars, ep_cfg_stall_ep_r,
                 intr_ep_rx_ready_r, intr_reset_r>>

Bug_ResetKeepsAddress ==
  /\ token' = NoToken
  /\ ep0_dir_in_q' = FALSE /\ ep0_dir_out_q' = FALSE
  /\ ep_data_bit_q' = [i \in EP |-> FALSE]
  /\ intr_reset_r' = TRUE
  /\ UNCHANGED <<current_addr_q, rxVars, txVars, cfgVars, ep_cfg_stall_ep_r,
                 intr_ep_rx_ready_r, intr_ep_tx_complete_r>>

(* The bus is reset: what is in the endpoints and in USB_FUNC_ADDR stays. *)
BusReset ==
  /\ token' = NoToken /\ current_addr_q' = 0
  /\ ep0_dir_in_q' = FALSE /\ ep0_dir_out_q' = FALSE
  /\ ep_data_bit_q' = [i \in EP |-> FALSE]
  /\ intr_reset_r' = TRUE
  /\ UNCHANGED <<rxVars, txVars, cfgVars, ep_cfg_stall_ep_r,
                 intr_ep_rx_ready_r, intr_ep_tx_complete_r>>

DeviceTypeOK ==
  /\ current_addr_q \in Dev /\ func_addr_r \in Dev
  /\ {ep_data_bit_q, rx_ready_q, rx_setup_q, tx_active_q, ep_cfg_int_rx_r, ep_cfg_int_tx_r,
      ep_cfg_stall_ep_r, intr_ep_rx_ready_r, intr_ep_tx_complete_r} \subseteq [EP -> BOOLEAN]
  /\ rx_len_q \in [EP -> Nat] /\ tx_len_q \in [EP -> Nat]
  /\ \A i \in EP : /\ rx_fifo[i] \in Seq(Payload) /\ Len(rx_fifo[i]) <= DEPTH
                   /\ tx_fifo[i] \in Seq(Payload) /\ Len(tx_fifo[i]) <= DEPTH
=============================================================================
