----------------------------- MODULE UsbfSieRx -----------------------------
(***************************************************************************)
(* The receiver of the serial interface engine (usbf_sie_rx.v): it takes   *)
(* the bytes of the UTMI interface, strips the CRC16 off data packets by   *)
(* delaying every byte, and turns packets into tokens, handshakes and data *)
(* for the core.  One Clock step is one edge of the PHY clock.             *)
(*                                                                         *)
(* A byte on the bus is a record that says how the receiver would read it  *)
(* in each position of a packet: as a packet id, as the second byte of a   *)
(* token (device address and the low bit of the endpoint), as the third    *)
(* (the rest of the endpoint), and as a byte of data.  `good' is FALSE for *)
(* a byte that was damaged on the wire; the CRC16 residue is abstracted to *)
(* "every byte since the packet id was good".                              *)
(*                                                                         *)
(* The definitions called Bug_... are mistakes, each of the definition that*)
(* follows it: the properties must notice them (README).                   *)
(***************************************************************************)
EXTENDS Naturals, Sequences

CONSTANTS Dev,       \* device addresses; 0 is the default address
          Payload,   \* values of a data byte
          NoByte     \* what is on the data lines between packets

TokenPid     == {"OUT", "IN", "SETUP", "PING"}
DataPid      == {"DATA0", "DATA1"}
HandshakePid == {"ACK", "NAK", "STALL", "NYET"}
OtherPid     == {"SOF", "SPLIT"}
NoPid        == "none"
Pid          == TokenPid \cup DataPid \cup HandshakePid \cup OtherPid

Byte == [pid  : Pid \cup {NoPid},
         dev  : Dev, ep_lo : 0 .. 1, ep_hi : 0 .. 7,
         data : Payload, good : BOOLEAN]

VARIABLES
  \* the delay line
  data_buffer_q, data_valid_q, data_crc_q, rx_active_q,
  \* the packet being received
  state_q, token_pid_q, token_dev_q, token_ep_q, token_valid_q,
  handshake_valid_q, frame_valid_q,
  \* data to the core
  crc_good_q, crc_err_q, data_complete_q, data_zlp_q,
  valid_q, data_q, mask_q, last_q,
  \* input pins
  utmi_data_i, utmi_rxvalid_i, utmi_rxactive_i, enable_i, current_addr_i

delayLine == <<data_buffer_q, data_valid_q, data_crc_q, rx_active_q>>
packet    == <<state_q, token_pid_q, token_dev_q, token_ep_q, token_valid_q,
               handshake_valid_q, frame_valid_q>>
dataOut   == <<crc_good_q, crc_err_q, data_complete_q, data_zlp_q,
               valid_q, data_q, mask_q, last_q>>
regs == <<delayLine, packet, dataOut>>

State == {"IDLE", "TOKEN2", "TOKEN3", "TOKEN_COMPLETE", "SOF2", "SOF3",
          "DATA", "DATA_COMPLETE", "IGNORED"}

TypeOK ==
  /\ data_buffer_q \in [1 .. 4 -> Byte]
  /\ data_valid_q \in [1 .. 4 -> BOOLEAN]
  /\ data_crc_q \in [1 .. 2 -> BOOLEAN]
  /\ rx_active_q \in [1 .. 4 -> BOOLEAN]
  /\ state_q \in State
  /\ token_pid_q \in Pid \cup {NoPid}
  /\ token_dev_q \in Dev
  /\ token_ep_q \in 0 .. 15
  /\ data_q \in Byte
  /\ {token_valid_q, handshake_valid_q, frame_valid_q, crc_good_q, crc_err_q,
      data_complete_q, data_zlp_q, valid_q, mask_q, last_q} \subseteq BOOLEAN

Init ==
  /\ data_buffer_q = [i \in 1 .. 4 |-> NoByte]
  /\ data_valid_q = [i \in 1 .. 4 |-> FALSE]
  /\ data_crc_q = [i \in 1 .. 2 |-> FALSE]
  /\ rx_active_q = [i \in 1 .. 4 |-> FALSE]
  /\ state_q = "IDLE"
  /\ token_pid_q = NoPid
  /\ token_dev_q = 0
  /\ token_ep_q = 0
  /\ token_valid_q = FALSE
  /\ handshake_valid_q = FALSE
  /\ frame_valid_q = FALSE
  /\ crc_good_q = TRUE
  /\ crc_err_q = FALSE
  /\ data_complete_q = FALSE
  /\ data_zlp_q = FALSE
  /\ valid_q = FALSE
  /\ data_q = NoByte
  /\ mask_q = FALSE
  /\ last_q = FALSE

-----------------------------------------------------------------------------
(* The delay line.  Element 1 of a line is its oldest. *)
Shifted(line, new) == Append(Tail(line), new)

byteIn   == utmi_rxvalid_i /\ utmi_rxactive_i
shift_en == byteIn \/ ~utmi_rxactive_i

data_w          == data_buffer_q[1]
data_ready_w    == data_valid_q[1]
crc_byte_w      == data_crc_q[1]
rx_active_w     == rx_active_q[1]
Bug_AnyAddress  == TRUE
address_match_w == token_dev_q = current_addr_i

DelayLine ==
  /\ data_buffer_q' = IF shift_en THEN Shifted(data_buffer_q, utmi_data_i)
                                  ELSE data_buffer_q
  /\ data_valid_q' = IF shift_en THEN Shifted(data_valid_q, byteIn)
                                 ELSE [data_valid_q EXCEPT ![1] = FALSE]
  /\ data_crc_q' = IF shift_en THEN Shifted(data_crc_q, ~utmi_rxactive_i)
                               ELSE data_crc_q
  /\ rx_active_q' = Shifted(rx_active_q, utmi_rxactive_i)

-----------------------------------------------------------------------------
(* The packet state machine. *)
AfterPid == CASE data_w.pid \in TokenPid     -> "TOKEN2"
              [] data_w.pid = "SOF"          -> "SOF2"
              [] data_w.pid \in DataPid      -> "DATA"
              [] data_w.pid \in HandshakePid -> "IDLE"
              [] OTHER                       -> "IGNORED"

(* Go on with the next byte, or give up at the end of a short packet. *)
OnByte(next) == IF data_ready_w THEN next
                ELSE IF ~rx_active_w THEN "IDLE" ELSE state_q

next_state_r ==
  CASE state_q = "IDLE"           -> IF data_ready_w THEN AfterPid ELSE "IDLE"
    [] state_q = "IGNORED"        -> IF rx_active_w THEN "IGNORED" ELSE "IDLE"
    [] state_q = "SOF2"           -> OnByte("SOF3")
    [] state_q = "SOF3"           -> OnByte("IDLE")
    [] state_q = "TOKEN2"         -> OnByte("TOKEN3")
    [] state_q = "TOKEN3"         -> OnByte("TOKEN_COMPLETE")
    [] state_q = "TOKEN_COMPLETE" -> "IDLE"
    [] state_q = "DATA"           -> IF crc_byte_w THEN "DATA_COMPLETE" ELSE "DATA"
    [] state_q = "DATA_COMPLETE"  -> IF rx_active_w THEN "DATA_COMPLETE" ELSE "IDLE"

pidByte == state_q = "IDLE" /\ data_ready_w

Packet ==
  /\ state_q' = IF enable_i THEN next_state_r ELSE "IDLE"
  /\ handshake_valid_q' = (pidByte /\ data_w.pid \in HandshakePid /\ address_match_w)
  /\ frame_valid_q' = (state_q = "SOF3" /\ data_ready_w)
  /\ token_pid_q' = IF pidByte THEN data_w.pid
                    ELSE IF enable_i THEN token_pid_q ELSE NoPid
  /\ token_valid_q' = (state_q = "TOKEN_COMPLETE" /\ address_match_w)
  /\ token_dev_q' = IF state_q = "TOKEN2" /\ data_ready_w THEN data_w.dev
                    ELSE IF enable_i THEN token_dev_q ELSE 0
  /\ token_ep_q' =
       IF state_q = "TOKEN2" /\ data_ready_w
         THEN (2 * (token_ep_q \div 2)) + data_w.ep_lo
       ELSE IF state_q = "TOKEN3" /\ data_ready_w
         THEN (2 * data_w.ep_hi) + (token_ep_q % 2)
       ELSE IF enable_i THEN token_ep_q ELSE 0

-----------------------------------------------------------------------------
(* The data bytes of a packet, without its CRC16. *)
input_ready_w == state_q = "DATA" /\ data_ready_w /\ ~crc_byte_w
packetEnds    == state_q = "DATA_COMPLETE" /\ next_state_r = "IDLE"

DataOut ==
  /\ crc_good_q' = (state_q = "IDLE" \/ (crc_good_q /\ (data_ready_w => data_w.good)))
  /\ crc_err_q' = IF state_q = "IDLE" THEN FALSE
                  ELSE IF packetEnds THEN ~crc_good_q ELSE crc_err_q
  /\ data_complete_q' = packetEnds
  /\ data_zlp_q' = IF state_q = "IDLE" /\ next_state_r = "DATA" THEN TRUE
                   ELSE data_zlp_q /\ ~input_ready_w
  /\ valid_q' = (input_ready_w \/ (state_q = "DATA" /\ crc_byte_w /\ data_zlp_q))
  /\ data_q' = data_w
  /\ mask_q' = input_ready_w
  /\ last_q' = (state_q = "DATA" /\ crc_byte_w)

data_last_o == last_q \/ crc_byte_w

Clock == DelayLine /\ Packet /\ DataOut
=============================================================================
