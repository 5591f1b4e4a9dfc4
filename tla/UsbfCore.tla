------------------------------ MODULE UsbfCore ------------------------------
(***************************************************************************)
(* The protocol engine of the device (usbf_core.v, without the two halves  *)
(* of the serial interface engine it contains, which are UsbfSieRx and     *)
(* UsbfSieTx).  It decides for every token whether the endpoint takes or   *)
(* gives data and what handshake answers it, keeps the data toggles, the   *)
(* device address and the direction of the control transfer, and detects   *)
(* a reset of the bus.  One Clock step is one edge of the PHY clock.       *)
(*                                                                         *)
(* The definitions called Bug_... are mistakes, each of the definition that*)
(* follows it: the properties must notice them (README).                   *)
(***************************************************************************)
EXTENDS Naturals

CONSTANTS EP,             \* the endpoints; 0 is the control endpoint
          Dev,            \* device addresses; 0 is the default address
          RESET_CNT_W     \* width of the counter that detects a bus reset

NoPid == "none"

VARIABLES
  state_q, se0_cnt_q, rx_space_q,
  tx_valid_q, tx_pid_q, rx_enable_q, rx_setup_q,
  addr_update_pending_q, current_addr_q, ep0_dir_in_q, ep0_dir_out_q,
  ep_data_bit_q,
  \* input pins: the two halves of the serial interface engine
  token_valid_w, token_pid_w, token_ep_w, rx_handshake_w,
  rx_data_valid_w, rx_last_w, rx_data_complete_w, rx_crc_err_w,
  tx_accept_w, tx_data_accept_w,
  \* input pins: the endpoint unit
  ep_rx_space_i, ep_tx_ready_i, ep_tx_strb_i, ep_tx_last_i,
  \* input pins: the register file and the line state of the PHY
  ep_stall_i, ep_iso_i, func_addr_i, chirp_en_i, linestate_se0_i

regs == <<state_q, se0_cnt_q, rx_space_q, tx_valid_q, tx_pid_q, rx_enable_q,
          rx_setup_q, addr_update_pending_q, current_addr_q, ep0_dir_in_q,
          ep0_dir_out_q, ep_data_bit_q>>

State == {"RX_IDLE", "RX_DATA", "RX_DATA_READY", "RX_DATA_IGNORE", "TX_DATA",
          "TX_DATA_COMPLETE", "TX_HANDSHAKE", "TX_CHIRP"}

TypeOK == /\ state_q \in State
          /\ se0_cnt_q \in 0 .. 2^RESET_CNT_W - 1
          /\ tx_pid_q \in {"DATA0", "DATA1", "ACK", "NAK", "STALL", NoPid}
          /\ current_addr_q \in Dev
          /\ ep_data_bit_q \in [EP -> BOOLEAN]
          /\ {rx_space_q, tx_valid_q, rx_enable_q, rx_setup_q,
              addr_update_pending_q, ep0_dir_in_q, ep0_dir_out_q} \subseteq BOOLEAN

Init == /\ state_q = "RX_IDLE"
        /\ se0_cnt_q = 0
        /\ rx_space_q = FALSE
        /\ tx_valid_q = FALSE
        /\ tx_pid_q = NoPid
        /\ rx_enable_q = FALSE
        /\ rx_setup_q = FALSE
        /\ addr_update_pending_q = FALSE
        /\ current_addr_q = 0
        /\ ep0_dir_in_q = FALSE
        /\ ep0_dir_out_q = FALSE
        /\ ep_data_bit_q = [i \in EP |-> FALSE]

-----------------------------------------------------------------------------
(* The endpoint of the last token; a token may name one the device does    *)
(* not have, and then every signal of the endpoint is low.                 *)
OfEp(signal) == token_ep_w \in EP /\ signal[token_ep_w]

status_stage_w == ep0_dir_in_q /\ ep0_dir_out_q /\ token_ep_w = 0

rx_space_r    == OfEp(ep_rx_space_i)
tx_ready_r    == OfEp(ep_tx_ready_i)
ep_stall_r    == OfEp(ep_stall_i)
ep_iso_r      == OfEp(ep_iso_i)
ep_data_bit_r == token_ep_w \in EP /\ (ep_data_bit_q[token_ep_w] \/ status_stage_w)
tx_last_r     == OfEp(ep_tx_ready_i) /\ OfEp(ep_tx_last_i)

usb_rst_w == se0_cnt_q >= 2^(RESET_CNT_W - 1)

Token(pid) == token_valid_w /\ token_pid_w = pid

Bug_RepeatsUnnoticed == FALSE

(* A data packet whose id is not the one the endpoint expects. *)
toggleMismatch == \/ token_pid_w = "DATA0" /\ ep_data_bit_r
                  \/ token_pid_w = "DATA1" /\ ~ep_data_bit_r

(* Where a data packet is judged: its CRC16 has been checked. *)
judged == state_q = "RX_DATA_READY" /\ rx_data_complete_w

Bug_TakenUnchecked == judged /\ ~ep_iso_r /\ ~ep_stall_r /\ ~toggleMismatch /\ rx_space_q
Bug_TakenTwice     == judged /\ ~rx_crc_err_w /\ ~ep_iso_r /\ ~ep_stall_r /\ rx_space_q
Bug_TakenWhenFull  == judged /\ ~rx_crc_err_w /\ ~ep_iso_r /\ ~ep_stall_r /\ ~toggleMismatch

(* The packet is taken: it is new, there was room for it, it is wanted. *)
taken == judged /\ ~rx_crc_err_w /\ ~ep_iso_r /\ ~ep_stall_r
                /\ ~toggleMismatch /\ rx_space_q

-----------------------------------------------------------------------------
(* The state machine. *)
AfterToken ==
  CASE Token("IN") /\ ~ep_stall_r /\ tx_ready_r  -> "TX_DATA"
    [] Token("IN") /\ (ep_stall_r \/ ~tx_ready_r) -> "TX_HANDSHAKE"
    [] Token("PING")                              -> "TX_HANDSHAKE"
    [] Token("OUT") /\ ~ep_stall_r /\ rx_space_r  -> "RX_DATA"
    [] Token("OUT") /\ (ep_stall_r \/ ~rx_space_r) -> "RX_DATA_IGNORE"
    [] Token("SETUP") /\ rx_space_r               -> "RX_DATA"
    [] Token("SETUP") /\ ~rx_space_r              -> "RX_DATA_IGNORE"
    [] OTHER                                      -> "RX_IDLE"

dataEnds == rx_data_valid_w /\ rx_last_w

next_state_r ==
  IF usb_rst_w /\ ~chirp_en_i THEN "RX_IDLE"
  ELSE CASE state_q = "RX_IDLE" ->
              IF token_valid_w THEN AfterToken
              ELSE IF chirp_en_i THEN "TX_CHIRP" ELSE "RX_IDLE"
         [] state_q = "RX_DATA" ->
              IF toggleMismatch /\ ~ep_iso_r THEN "RX_DATA_IGNORE"
              ELSE IF dataEnds THEN "RX_DATA_READY" ELSE "RX_DATA"
         [] state_q = "RX_DATA_IGNORE" ->
              IF dataEnds THEN "RX_DATA_READY" ELSE "RX_DATA_IGNORE"
         [] state_q = "RX_DATA_READY" ->
              IF ~rx_data_complete_w THEN "RX_DATA_READY"
              ELSE IF rx_crc_err_w \/ ep_iso_r THEN "RX_IDLE" ELSE "TX_HANDSHAKE"
         [] state_q = "TX_DATA" ->
              IF (~tx_valid_q \/ tx_accept_w) /\ tx_last_r /\ tx_data_accept_w
                THEN "TX_DATA_COMPLETE" ELSE "TX_DATA"
         [] state_q = "TX_DATA_COMPLETE" -> "RX_IDLE"
         [] state_q = "TX_HANDSHAKE" ->
              IF tx_accept_w THEN "RX_IDLE" ELSE "TX_HANDSHAKE"
         [] state_q = "TX_CHIRP" -> IF chirp_en_i THEN "TX_CHIRP" ELSE "RX_IDLE"

(* The packet id to answer with, or NoPid. *)
tx_pid_r ==
  CASE state_q = "RX_IDLE" /\ (Token("IN") \/ Token("PING")) /\ ep_stall_r -> "STALL"
    [] state_q = "RX_IDLE" /\ Token("IN") /\ ~ep_stall_r ->
         IF ~tx_ready_r THEN "NAK" ELSE IF ep_data_bit_r THEN "DATA1" ELSE "DATA0"
    [] state_q = "RX_IDLE" /\ Token("PING") /\ ~ep_stall_r ->
         IF rx_space_r THEN "ACK" ELSE "NAK"
    [] judged /\ ~rx_crc_err_w /\ ~ep_iso_r ->
         IF ep_stall_r THEN "STALL"
         ELSE IF toggleMismatch \/ rx_space_q THEN "ACK" ELSE "NAK"
    [] OTHER -> NoPid

tx_valid_r == tx_pid_r # NoPid \/ state_q = "TX_CHIRP"

Respond == IF ~tx_valid_q \/ tx_accept_w
             THEN /\ tx_valid_q' = tx_valid_r
                  /\ tx_pid_q' = tx_pid_r
             ELSE UNCHANGED <<tx_valid_q, tx_pid_q>>

-----------------------------------------------------------------------------
(* Reset detection: a pulse of usb_rst_w whenever the line has been SE0    *)
(* for half the range of the counter.                                      *)
DetectReset == se0_cnt_q' = IF linestate_se0_i /\ ~usb_rst_w THEN se0_cnt_q + 1 ELSE 0

(* Reception into the selected endpoint, and the mark of a SETUP.          *)
setupToken == state_q = "RX_IDLE" /\ Token("SETUP") /\ token_ep_w = 0
quiet      == usb_rst_w \/ chirp_en_i

Receive ==
  /\ rx_space_q' = IF state_q = "RX_IDLE" THEN rx_space_r ELSE rx_space_q
  /\ rx_enable_q' = (~quiet /\ state_q = "RX_DATA")
  /\ rx_setup_q' = (~quiet /\ setupToken)

Bug_AddressAtToken == state_q = "RX_IDLE" /\ Token("IN") /\ token_ep_w = 0

(* The new address is taken when endpoint 0 sends an empty packet.         *)
ep0_tx_zlp_w == /\ ep_tx_ready_i[0] /\ ~ep_tx_strb_i[0] /\ ep_tx_last_i[0]
                /\ tx_data_accept_w /\ token_ep_w = 0

SetAddress ==
  /\ addr_update_pending_q' = (/\ ~ep0_tx_zlp_w
                               /\ ~usb_rst_w
                               /\ addr_update_pending_q \/ func_addr_i # current_addr_q)
  /\ current_addr_q' = IF usb_rst_w THEN 0
                       ELSE IF ep0_tx_zlp_w /\ addr_update_pending_q THEN func_addr_i
                       ELSE current_addr_q

(* The direction of the control transfer that the last SETUP began.        *)
TrackSetup ==
  LET seen(pid) == state_q = "RX_IDLE" /\ Token(pid) /\ token_ep_w = 0
  IN  /\ ep0_dir_in_q' = (~quiet /\ ~setupToken /\ (ep0_dir_in_q \/ seen("IN")))
      /\ ep0_dir_out_q' = (~quiet /\ ~setupToken /\ (ep0_dir_out_q \/ seen("OUT")))

Bug_AckUnnoticed == FALSE

(* The host acknowledges the packet of the last IN token.                  *)
hostAcked == state_q = "RX_IDLE" /\ ~token_valid_w /\ rx_handshake_w /\ token_pid_w = "ACK"

(* The data toggles.                                                       *)
new_data_bit_r ==
  IF taken THEN ~ep_data_bit_r
  ELSE IF state_q = "RX_IDLE" /\ Token("SETUP") THEN FALSE
  ELSE IF hostAcked THEN ~ep_data_bit_r
  ELSE ep_data_bit_r

Toggle == ep_data_bit_q' = [i \in EP |-> IF usb_rst_w THEN FALSE
                                         ELSE IF token_ep_w = i THEN new_data_bit_r
                                         ELSE ep_data_bit_q[i]]

Clock == /\ state_q' = next_state_r
         /\ Respond
         /\ DetectReset
         /\ Receive
         /\ SetAddress
         /\ TrackSetup
         /\ Toggle

-----------------------------------------------------------------------------
(* Outputs to the interrupt latches. *)
rx_ready_intr_set_o(i)  == state_q = "RX_DATA_READY" /\ rx_space_q /\ token_ep_w = i
tx_complete_intr_set_o(i) == state_q = "TX_DATA_COMPLETE" /\ token_ep_w = i
=============================================================================
