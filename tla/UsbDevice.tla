----------------------------- MODULE UsbDevice -----------------------------
(***************************************************************************)
(* The PHY-clock side of the device, wired as usbf_device.v and            *)
(* usbf_core.v wire it: the two halves of the serial interface engine, the *)
(* core, the endpoint unit and the FIFOs, all clocked together.            *)
(*                                                                         *)
(* A FIFO is the queue that UsbfFifo implements.  The processor's side is  *)
(* one read or write of a register per clock.  The two clock domains of    *)
(* usbf_sync.v are folded into one: a write acts in the clock it is made.  *)
(*                                                                         *)
(* The definitions called Bug_... are mistakes, each of the definition that*)
(* follows it: the properties must notice them (README).                   *)
(***************************************************************************)
EXTENDS UsbRegs, Sequences

CONSTANTS EP, Dev, Payload, NoByte, DEPTH, RESET_CNT_W, LEN_W

ASSUME DeviceAssumption == /\ 0 \in EP /\ EP \subseteq Nat
                           /\ 0 \in Dev /\ Dev \subseteq Nat
                           /\ NoByte.pid = "none" /\ NoByte.data \in Payload
                           /\ DEPTH \in Nat \ {0}
                           /\ RESET_CNT_W \in Nat \ {0} /\ LEN_W \in Nat \ {0}

VARIABLES
  \* UsbfSieRx
  data_buffer_q, data_valid_q, data_crc_q, rx_active_q,
  sie_rx_state_q, token_pid_q, token_dev_q, token_ep_q, token_valid_q,
  handshake_valid_q, frame_valid_q,
  crc_good_q, crc_err_q, data_complete_q, rx_zlp_q,
  valid_q, data_q, mask_q, last_q,
  \* UsbfSieTx
  sie_tx_state_q, data_pid_q, tx_data_zlp_q, crc_sum_q, pid_valid_q, pid_q,
  \* UsbfCore
  state_q, se0_cnt_q, rx_space_q, tx_valid_q, tx_pid_q, rx_enable_q,
  rx_setup_pulse_q, addr_update_pending_q, current_addr_q, ep0_dir_in_q,
  ep0_dir_out_q, ep_data_bit_q,
  \* UsbfEpu
  rx_ready_q, rx_len_q, rx_err_q, rx_setup_q,
  tx_active_q, tx_zlp_q, tx_len_q, tx_err_q,
  \* UsbfCsr
  ep_cfg_int_rx_r, ep_cfg_int_tx_r, ep_cfg_stall_ep_r, ep_cfg_iso_r,
  func_addr_r, int_en_sof_r, int_en_rst_r, phy_termselect_r,
  intr_ep_rx_ready_r, intr_ep_tx_complete_r, intr_sof_r, intr_reset_r,
  \* the FIFOs
  rx_fifo, tx_fifo

sieRxRegs == <<data_buffer_q, data_valid_q, data_crc_q, rx_active_q,
               sie_rx_state_q, token_pid_q, token_dev_q, token_ep_q,
               token_valid_q, handshake_valid_q, frame_valid_q,
               crc_good_q, crc_err_q, data_complete_q, rx_zlp_q,
               valid_q, data_q, mask_q, last_q>>
sieTxRegs == <<sie_tx_state_q, data_pid_q, tx_data_zlp_q, crc_sum_q,
               pid_valid_q, pid_q>>
coreRegs  == <<state_q, se0_cnt_q, rx_space_q, tx_valid_q, tx_pid_q,
               rx_enable_q, rx_setup_pulse_q, addr_update_pending_q,
               current_addr_q, ep0_dir_in_q, ep0_dir_out_q, ep_data_bit_q>>
epuRegs   == <<rx_ready_q, rx_len_q, rx_err_q, rx_setup_q,
               tx_active_q, tx_zlp_q, tx_len_q, tx_err_q>>
csrRegs   == <<ep_cfg_int_rx_r, ep_cfg_int_tx_r, ep_cfg_stall_ep_r, ep_cfg_iso_r,
               func_addr_r, int_en_sof_r, int_en_rst_r, phy_termselect_r,
               intr_ep_rx_ready_r, intr_ep_tx_complete_r, intr_sof_r, intr_reset_r>>
deviceVars == <<sieRxRegs, sieTxRegs, coreRegs, epuRegs, csrRegs, rx_fifo, tx_fifo>>

(* What the lines of the bus carry into the device in one clock: whether a *)
(* packet is being received, whether there is a byte of it, the byte,      *)
(* whether the line is SE0, and whether the PHY takes a byte to transmit.  *)
Line(active, valid, byte, se0, txready) ==
  [active |-> active, valid |-> valid, data |-> byte, se0 |-> se0, txready |-> txready]
Quiet == Line(FALSE, FALSE, NoByte, FALSE, FALSE)

(* What the processor does to the registers in one clock is an access of   *)
(* UsbRegs.                                                                *)
Is(cpu, name)  == [i \in EP |-> cpu.op = name /\ cpu.ep = i]
txFlush(cpu)   == [i \in EP |-> cpu.op \in {"tx_flush", "flush_start"} /\ cpu.ep = i]
txStart(cpu)   == [i \in EP |-> cpu.op \in {"start", "flush_start"} /\ cpu.ep = i]

-----------------------------------------------------------------------------
(* The wiring.  The clocks are those of the component modules with the     *)
(* outputs of one module in place of the pins of another.                  *)

usb_rst_w == se0_cnt_q >= 2^(RESET_CNT_W - 1)
chirp_en  == FALSE     \* the program never sets HS_CHIRP_EN

(* Outputs of the endpoint unit that the transmitter needs. *)
ep_tx_last_w == [i \in EP |-> tx_zlp_q[i] \/ tx_len_q[i] = 1]
ep_tx_strb_w == [i \in EP |-> ~tx_zlp_q[i]]
OfEp(signal) == token_ep_q \in EP /\ signal[token_ep_q]

(* The byte the selected endpoint offers; of an empty FIFO it is some byte *)
(* that was there before.                                                  *)
tx_byte_w == IF token_ep_q \in EP /\ tx_fifo[token_ep_q] # << >>
               THEN Head(tx_fifo[token_ep_q]) ELSE NoByte.data

SieRx(line) == INSTANCE UsbfSieRx WITH
  state_q         <- sie_rx_state_q,
  data_zlp_q      <- rx_zlp_q,
  utmi_data_i     <- line.data,
  utmi_rxvalid_i  <- line.valid,
  utmi_rxactive_i <- line.active,
  enable_i        <- ~usb_rst_w /\ ~chirp_en,
  current_addr_i  <- current_addr_q

SieTx(line) == INSTANCE UsbfSieTx WITH
  state_q        <- sie_tx_state_q,
  data_zlp_q     <- tx_data_zlp_q,
  valid_q        <- pid_valid_q,
  enable_i       <- ~usb_rst_w,
  chirp_i        <- chirp_en,
  utmi_txready_i <- line.txready,
  tx_valid_i     <- tx_valid_q,
  tx_pid_i       <- tx_pid_q,
  data_valid_i   <- OfEp(tx_active_q),
  data_strb_i    <- OfEp(ep_tx_strb_w),
  data_i         <- tx_byte_w,
  data_last_i    <- OfEp(ep_tx_last_w)

Epu(line, cpu) == INSTANCE UsbfEpu WITH
  rx_valid_i       <- [i \in EP |-> rx_enable_q /\ valid_q /\ token_ep_q = i],
  rx_setup_i       <- [i \in EP |-> rx_setup_pulse_q /\ token_ep_q = i],
  rx_full_i        <- [i \in EP |-> Len(rx_fifo[i]) = DEPTH],
  rx_ack_i         <- Is(cpu, "accept"),
  tx_empty_i       <- [i \in EP |-> tx_fifo[i] = << >>],
  tx_flush_i       <- txFlush(cpu),
  tx_length_i      <- [i \in EP |-> IF txStart(cpu)[i] THEN cpu.arg ELSE 0],
  tx_start_i       <- txStart(cpu),
  tx_data_accept_i <- [i \in EP |-> SieTx(line)!data_accept_o /\ token_ep_q = i],
  rx_strb_i        <- mask_q,
  rx_last_i        <- SieRx(line)!data_last_o,
  rx_crc_err_i     <- crc_err_q

Core(line) == INSTANCE UsbfCore WITH
  rx_setup_q         <- rx_setup_pulse_q,
  token_valid_w      <- token_valid_q,
  token_pid_w        <- token_pid_q,
  token_ep_w         <- token_ep_q,
  rx_handshake_w     <- handshake_valid_q,
  rx_data_valid_w    <- valid_q,
  rx_last_w          <- SieRx(line)!data_last_o,
  rx_data_complete_w <- data_complete_q,
  rx_crc_err_w       <- crc_err_q,
  tx_accept_w        <- SieTx(line)!tx_accept_o,
  tx_data_accept_w   <- SieTx(line)!data_accept_o,
  ep_rx_space_i      <- [i \in EP |-> Epu(line, NoOp)!rx_space_o(i)],
  ep_tx_ready_i      <- [i \in EP |-> Epu(line, NoOp)!tx_ready_o(i)],
  ep_tx_strb_i       <- [i \in EP |-> Epu(line, NoOp)!tx_data_strb_o(i)],
  ep_tx_last_i       <- [i \in EP |-> Epu(line, NoOp)!tx_data_last_o(i)],
  ep_stall_i         <- ep_cfg_stall_ep_r,
  ep_iso_i           <- ep_cfg_iso_r,
  func_addr_i        <- func_addr_r,
  chirp_en_i         <- chirp_en,
  linestate_se0_i    <- line.se0

Csr(line, cpu) == INSTANCE UsbfCsr WITH
  ep_cfg_wt_en              <- Is(cpu, "cfg"),
  cfg_wdata_i               <- cpu.arg,
  func_addr_wt_en           <- cpu.op = "addr",
  addr_wdata_i              <- cpu.arg,
  func_ctrl_wt_en           <- cpu.op = "ctrl",
  ctrl_wdata_i              <- cpu.arg,
  ep_intsts_rx_ready_clr    <- [i \in EP |-> cpu.op = "intsts" /\ i \in cpu.arg.rx],
  ep_intsts_tx_complete_clr <- [i \in EP |-> cpu.op = "intsts" /\ i \in cpu.arg.tx],
  stat_sof_clr              <- FALSE,    \* the program never clears it
  stat_rst_clr              <- cpu.op = "stat" /\ cpu.rst,
  ep_sts_tx_err_i           <- tx_err_q,
  ep_sts_tx_busy_i          <- tx_active_q,
  ep_sts_rx_err_i           <- rx_err_q,
  ep_sts_rx_setup_i         <- rx_setup_q,
  ep_sts_rx_ready_i         <- rx_ready_q,
  ep_sts_rx_count_i         <- rx_len_q,
  ep_rx_ready_intr_set_i    <- [i \in EP |-> Core(line)!rx_ready_intr_set_o(i)],
  ep_tx_complete_intr_set_i <- [i \in EP |-> Core(line)!tx_complete_intr_set_o(i)],
  sof_intr_set_i            <- frame_valid_q,
  rst_intr_set_i            <- usb_rst_w

(* What the processor reads. *)
Sts(i)       == Csr(Quiet, NoOp)!Sts(i)
intr_o       == Csr(Quiet, NoOp)!intr_o
EpCfg(i)     == Csr(Quiet, NoOp)!EpCfg(i)
EpIntsts     == Csr(Quiet, NoOp)!EpIntsts
RxByte(i)    == IF rx_fifo[i] # << >> THEN Head(rx_fifo[i]) ELSE NoByte.data

-----------------------------------------------------------------------------
(* The FIFOs: the endpoint unit pushes into the one and pops the other,    *)
(* the processor has their other ends and flushes both.                    *)
Bug_PushWhenFull(q, flush, push, pop, byte) ==
  LET rest == IF pop /\ q # << >> THEN Tail(q) ELSE q
  IN  IF flush THEN << >> ELSE IF push THEN Append(rest, byte) ELSE rest

FifoClock(q, flush, push, pop, byte) ==
  LET rest == IF pop /\ q # << >> THEN Tail(q) ELSE q
  IN  IF flush THEN << >>
      ELSE IF push /\ Len(q) < DEPTH THEN Append(rest, byte) ELSE rest

Mem(line, cpu) ==
  /\ rx_fifo' = [i \in EP |->
       FifoClock(rx_fifo[i], Is(cpu, "rx_flush")[i], Epu(line, cpu)!rx_push_o(i),
                 Is(cpu, "read")[i], data_q.data)]
  /\ tx_fifo' = [i \in EP |->
       FifoClock(tx_fifo[i], txFlush(cpu)[i], Is(cpu, "write")[i],
                 Epu(line, cpu)!tx_pop_o(i),
                 IF cpu.op = "write" THEN cpu.arg ELSE NoByte.data)]

DeviceInit ==
  /\ SieRx(Quiet)!Init
  /\ SieTx(Quiet)!Init
  /\ Core(Quiet)!Init
  /\ Epu(Quiet, NoOp)!Init
  /\ Csr(Quiet, NoOp)!Init
  /\ rx_fifo = [i \in EP |-> << >>]
  /\ tx_fifo = [i \in EP |-> << >>]

DeviceClock(line, cpu) ==
  /\ SieRx(line)!Clock
  /\ SieTx(line)!Clock
  /\ Core(line)!Clock
  /\ Epu(line, cpu)!Clock
  /\ Mem(line, cpu)
  /\ Csr(line, cpu)!Clock

DeviceTypeOK ==
  /\ SieRx(Quiet)!TypeOK
  /\ SieTx(Quiet)!TypeOK
  /\ Core(Quiet)!TypeOK
  /\ Epu(Quiet, NoOp)!TypeOK
  /\ Csr(Quiet, NoOp)!TypeOK
  /\ \A i \in EP : /\ rx_fifo[i] \in Seq(Payload) /\ Len(rx_fifo[i]) <= DEPTH
                   /\ tx_fifo[i] \in Seq(Payload) /\ Len(tx_fifo[i]) <= DEPTH

(* What the device drives onto the bus. *)
txvalid == SieTx(Quiet)!utmi_txvalid_o
txdata  == SieTx(Quiet)!utmi_data_o
=============================================================================
