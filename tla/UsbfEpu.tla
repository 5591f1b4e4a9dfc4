------------------------------ MODULE UsbfEpu ------------------------------
(***************************************************************************)
(* The endpoint unit: one set of endpoint registers (usbf_sie_ep.v) for    *)
(* each endpoint, as usbf_epu.v generates them.  It stands between the     *)
(* core, which moves bytes, the FIFOs, which hold them, and the register   *)
(* file, through which the processor starts, flushes and accepts packets.  *)
(* One Clock step is one edge of the PHY clock.                            *)
(*                                                                         *)
(* The definitions called Bug_... are mistakes, each of the definition that*)
(* follows it: the properties must notice them (README).                   *)
(***************************************************************************)
EXTENDS Naturals

CONSTANTS EP,       \* the endpoints
          LEN_W     \* width of the length registers (11)

LEN == 2^LEN_W

VARIABLES
  rx_ready_q, rx_len_q, rx_err_q, rx_setup_q,
  tx_active_q, tx_zlp_q, tx_len_q, tx_err_q,
  \* input pins of every endpoint
  rx_valid_i, rx_setup_i, rx_full_i, rx_ack_i,
  tx_empty_i, tx_flush_i, tx_length_i, tx_start_i, tx_data_accept_i,
  \* input pins the endpoints share
  rx_strb_i, rx_last_i, rx_crc_err_i

rxRegs == <<rx_ready_q, rx_len_q, rx_err_q, rx_setup_q>>
txRegs == <<tx_active_q, tx_zlp_q, tx_len_q, tx_err_q>>
regs   == <<rxRegs, txRegs>>

TypeOK == /\ rx_ready_q \in [EP -> BOOLEAN]
          /\ rx_len_q \in [EP -> 0 .. LEN - 1]
          /\ rx_err_q \in [EP -> BOOLEAN]
          /\ rx_setup_q \in [EP -> BOOLEAN]
          /\ tx_active_q \in [EP -> BOOLEAN]
          /\ tx_zlp_q \in [EP -> BOOLEAN]
          /\ tx_len_q \in [EP -> 0 .. LEN - 1]
          /\ tx_err_q \in [EP -> BOOLEAN]

Init == /\ rx_ready_q = [i \in EP |-> FALSE]
        /\ rx_len_q = [i \in EP |-> 0]
        /\ rx_err_q = [i \in EP |-> FALSE]
        /\ rx_setup_q = [i \in EP |-> FALSE]
        /\ tx_active_q = [i \in EP |-> FALSE]
        /\ tx_zlp_q = [i \in EP |-> FALSE]
        /\ tx_len_q = [i \in EP |-> 0]
        /\ tx_err_q = [i \in EP |-> FALSE]

-----------------------------------------------------------------------------
(* Receive.  The processor accepts a packet, and with it all that the      *)
(* registers say of it.                                                    *)
Bug_SpaceAlways(i) == TRUE
rx_space_o(i) == ~rx_ready_q[i]
rx_push_o(i)  == rx_valid_i[i] /\ rx_strb_i

Bug_ReadyNotCleared(i) == rx_ready_q[i] \/ (rx_valid_i[i] /\ rx_last_i)
rx_ready_next(i) == ~rx_ack_i[i] /\ (rx_ready_q[i] \/ (rx_valid_i[i] /\ rx_last_i))

rx_len_next(i) == IF rx_ack_i[i] THEN 0
                  ELSE IF rx_push_o(i) THEN (rx_len_q[i] + 1) % LEN ELSE rx_len_q[i]

Bug_OverflowUnnoticed(i) ==
  ~rx_ack_i[i] /\ (rx_err_q[i] \/ (rx_valid_i[i] /\ rx_last_i /\ rx_crc_err_i))
rx_err_next(i) == /\ ~rx_ack_i[i]
                  /\ \/ rx_err_q[i]
                     \/ rx_valid_i[i] /\ rx_last_i /\ rx_crc_err_i
                     \/ rx_full_i[i] /\ rx_push_o(i)

Bug_SetupNotCleared(i) == rx_setup_q[i] \/ rx_setup_i[i]
rx_setup_next(i) == ~rx_ack_i[i] /\ (rx_setup_q[i] \/ rx_setup_i[i])

RxClock == /\ rx_ready_q' = [i \in EP |-> rx_ready_next(i)]
           /\ rx_len_q' = [i \in EP |-> rx_len_next(i)]
           /\ rx_err_q' = [i \in EP |-> rx_err_next(i)]
           /\ rx_setup_q' = [i \in EP |-> rx_setup_next(i)]

-----------------------------------------------------------------------------
(* Transmit.  A packet is started by the processor, is over with its last  *)
(* byte, and can be flushed at any time.                                   *)
tx_ready_o(i)      == tx_active_q[i]
tx_data_strb_o(i)  == ~tx_zlp_q[i]
tx_data_last_o(i)  == tx_zlp_q[i] \/ tx_len_q[i] = 1
Bug_LastNotPopped(i) == tx_data_accept_i[i] /\ tx_active_q[i] /\ ~tx_data_last_o(i)
tx_pop_o(i)        == tx_data_accept_i[i] /\ tx_active_q[i]

tx_active_next(i) ==
  /\ ~tx_flush_i[i]
  /\ tx_start_i[i] \/ (tx_active_q[i] /\ ~(tx_data_last_o(i) /\ tx_data_accept_i[i]))

tx_zlp_next(i) ==
  /\ ~tx_flush_i[i]
  /\ IF tx_start_i[i] THEN tx_length_i[i] = 0 ELSE tx_zlp_q[i]

tx_len_next(i) ==
  IF tx_flush_i[i] THEN 0
  ELSE IF tx_start_i[i] THEN tx_length_i[i]
  ELSE IF tx_active_q[i] /\ tx_data_accept_i[i] /\ ~tx_zlp_q[i]
    THEN (tx_len_q[i] + LEN - 1) % LEN
  ELSE tx_len_q[i]

tx_err_next(i) ==
  /\ ~tx_flush_i[i] /\ ~tx_start_i[i]
  /\ tx_err_q[i] \/ (~tx_zlp_q[i] /\ tx_empty_i[i] /\ tx_active_q[i])

TxClock == /\ tx_active_q' = [i \in EP |-> tx_active_next(i)]
           /\ tx_zlp_q' = [i \in EP |-> tx_zlp_next(i)]
           /\ tx_len_q' = [i \in EP |-> tx_len_next(i)]
           /\ tx_err_q' = [i \in EP |-> tx_err_next(i)]

Clock == RxClock /\ TxClock
=============================================================================
