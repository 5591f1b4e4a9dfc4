----------------------------- MODULE UsbfSieTx -----------------------------
(***************************************************************************)
(* The transmitter of the serial interface engine (usbf_sie_tx.v): it      *)
(* sends the packet id the core asks for, then the bytes of the selected   *)
(* endpoint when that id is a data id, then the CRC16.                     *)
(*                                                                         *)
(* What is on the UTMI data lines is a record: a packet id, a data byte,   *)
(* or half of a CRC16.  The CRC16 of some bytes is abstracted to the       *)
(* sequence of those bytes, so that two CRCs are equal only if they are    *)
(* taken over the same bytes.                                              *)
(*                                                                         *)
(* The definitions called Bug_... are mistakes, each of the definition that*)
(* follows it: the properties must notice them (README).                   *)
(***************************************************************************)
EXTENDS Naturals, Sequences

CONSTANTS Payload    \* values of a data byte

NoPid   == "none"
DataPid == {"DATA0", "DATA1"}
Pid     == DataPid \cup {"ACK", "NAK", "STALL"}

VARIABLES
  state_q, data_pid_q, data_zlp_q, crc_sum_q, valid_q, pid_q,
  \* input pins
  enable_i, chirp_i, utmi_txready_i, tx_valid_i, tx_pid_i,
  data_valid_i, data_strb_i, data_i, data_last_i

regs == <<state_q, data_pid_q, data_zlp_q, crc_sum_q, valid_q, pid_q>>

State == {"IDLE", "PID", "DATA", "CRC1", "CRC2", "DONE", "CHIRP"}

TypeOK == /\ state_q \in State
          /\ data_pid_q \in BOOLEAN
          /\ data_zlp_q \in BOOLEAN
          /\ crc_sum_q \in Seq(Payload)
          /\ valid_q \in BOOLEAN
          /\ pid_q \in Pid \cup {NoPid}

Init == /\ state_q = "IDLE"
        /\ data_pid_q = FALSE
        /\ data_zlp_q = FALSE
        /\ crc_sum_q = << >>
        /\ valid_q = FALSE
        /\ pid_q = NoPid

-----------------------------------------------------------------------------
(* Outputs. *)
tx_accept_o == state_q = "IDLE"

Bug_AcceptUnready == state_q = "DATA" \/ (state_q = "PID" /\ data_zlp_q)

data_accept_o == /\ state_q = "DATA" \/ (state_q = "PID" /\ data_zlp_q)
                 /\ utmi_txready_i

utmi_txvalid_o == \/ state_q \in {"CHIRP", "CRC1", "CRC2"}
                  \/ state_q = "DATA" /\ data_valid_i
                  \/ state_q \in {"IDLE", "PID", "DONE"} /\ valid_q

(* The kind of the byte on the data lines, and the byte. *)
utmi_data_o ==
  CASE state_q \in {"CRC1", "CRC2"} -> [kind |-> state_q, crc |-> crc_sum_q]
    [] state_q = "DATA"             -> [kind |-> "DATA", data |-> data_i]
    [] OTHER                        -> [kind |-> "PID", pid |-> pid_q]

-----------------------------------------------------------------------------
start == tx_valid_i /\ tx_accept_o

next_state_r ==
  IF ~enable_i /\ ~chirp_i THEN "IDLE"
  ELSE CASE state_q = "IDLE"  -> IF chirp_i THEN "CHIRP"
                                 ELSE IF tx_valid_i THEN "PID" ELSE "IDLE"
         [] state_q = "PID"   -> IF ~utmi_txready_i THEN "PID"
                                 ELSE IF data_zlp_q THEN "CRC1"
                                 ELSE IF data_pid_q THEN "DATA" ELSE "DONE"
         [] state_q = "DATA"  -> IF utmi_txready_i /\ data_last_i THEN "CRC1" ELSE "DATA"
         [] state_q = "CRC1"  -> IF utmi_txready_i THEN "CRC2" ELSE "CRC1"
         [] state_q = "CRC2"  -> IF utmi_txready_i THEN "DONE" ELSE "CRC2"
         [] state_q = "DONE"  -> IF utmi_txready_i \/ ~utmi_txvalid_o THEN "IDLE" ELSE "DONE"
         [] state_q = "CHIRP" -> IF chirp_i THEN "CHIRP" ELSE "IDLE"

Clock ==
  /\ state_q' = next_state_r
  /\ data_pid_q' = (/\ enable_i
                    /\ IF start THEN tx_pid_i \in DataPid
                       ELSE data_pid_q /\ next_state_r # "CRC1")
  /\ data_zlp_q' = (/\ enable_i
                    /\ IF start THEN /\ tx_pid_i \in DataPid
                                     /\ data_valid_i /\ ~data_strb_i /\ data_last_i
                       ELSE data_zlp_q /\ next_state_r # "CRC1")
  /\ valid_q' = (enable_i /\ (start \/ (valid_q /\ ~utmi_txready_i)))
  /\ pid_q' = IF ~enable_i THEN NoPid
              ELSE IF start THEN tx_pid_i
              ELSE IF utmi_txready_i THEN NoPid ELSE pid_q
  /\ crc_sum_q' = IF state_q = "IDLE" THEN << >>
                  ELSE IF state_q = "DATA" /\ utmi_txvalid_o /\ utmi_txready_i
                    THEN Append(crc_sum_q, data_i)
                  ELSE crc_sum_q
=============================================================================
