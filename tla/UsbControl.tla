----------------------------- MODULE UsbControl -----------------------------
(***************************************************************************)
(* Control transfers on endpoint 0, clock by clock: the host of UsbHost,   *)
(* the device, and the program of UsbFirmware, which takes one step per    *)
(* access to a register and as long as it likes between two steps, unless  *)
(* the host is patient and waits for it.  The retries of openusb_tx_data   *)
(* do not run out here.                                                    *)
(***************************************************************************)
EXTENDS UsbBus, UsbHost

CONSTANTS
  Line0,      \* _line_coding when the program starts
  Data0,      \* data_buffer of _ctrl_xfer when the program starts
  Buffer0,    \* rx_packet_buf when the program starts
  Patient     \* whether the host waits until the program waits for it

ASSUME ControlAssumption == /\ Patient \in BOOLEAN
                            /\ DOMAIN Request \subseteq Payload
                            /\ \A r \in DOMAIN Request : addressOf(Request[r]) \in Dev

VARIABLES
  \* the program
  mpc, mwrites, irq, enable_rst_intr, mlen, mcnt, mflush,
  ep1_rx_suc, ep1_rx_len, rx_packet_buf,
  fpc, fwrites, func_stat_rst, ep_intsts,
  request, data_expected, data_buffer, data_idx, fbuf, fcnt, send, fflush,
  configured, remote_wake_enabled, endpoint_stalled, line_coding

Program == INSTANCE UsbFirmware WITH
  intr_o   <- intr_o,
  stat_rst <- intr_reset_r,
  intsts   <- EpIntsts,
  sts      <- [i \in EP |-> Sts(i)],
  cfg      <- [i \in EP |-> EpCfg(i)],
  rx_byte  <- [i \in EP |-> RxByte(i)],
  away     <- FALSE

ASSUME ProgramAssumption == Program!FirmwareConstants

program == <<mpc, mwrites, irq, enable_rst_intr, mlen, mcnt, mflush,
             ep1_rx_suc, ep1_rx_len, rx_packet_buf,
             fpc, fwrites, func_stat_rst, ep_intsts,
             request, data_expected, data_buffer, data_idx, fbuf, fcnt, send, fflush,
             configured, remote_wake_enabled, endpoint_stalled, line_coding>>
vars    == <<deviceVars, bus, host, program>>

-----------------------------------------------------------------------------
(* The host sees the device when it is attached, and begins a transaction  *)
(* when it has nothing to wait for.                                        *)
mayAct == phy_termselect_r /\ (Patient => Program!waiting)

HostAsks(op, rdy) ==
  /\ hpc = "idle" /\ mayAct
  /\ BusIdle(op, rdy)
  /\ \E r \in DOMAIN Request : Asks(r)

HostBegins(op, rdy) ==
  /\ inTransfer /\ mayAct
  /\ BusBegin(StageTr, op, rdy)
  /\ UNCHANGED host

Answer(pid) == answered /\ WellFormed(hrx) /\ hrx[1].pid = pid

HostHearsAck(op, rdy)   == Answer("ACK") /\ BusDone(op, rdy) /\ HearsAck
HostHearsStall(op, rdy) == Answer("STALL") /\ BusDone(op, rdy) /\ HearsStall

HostHearsData(op, rdy) ==
  /\ answered /\ isData /\ WellFormed(hrx)
  /\ BusAcknowledge(op, rdy)
  /\ HearsData(hrx[1].pid, payload)

(* NAK, nothing, or something that is not a packet: it tries again. *)
HostRetries(op, rdy) ==
  /\ Answer("NAK") \/ timedOut \/ (answered /\ ~WellFormed(hrx))
  /\ BusDone(op, rdy)
  /\ UNCHANGED host

Host(op, rdy) == \/ BusCarryOn(op, rdy) /\ UNCHANGED host
                 \/ HostAsks(op, rdy) \/ HostBegins(op, rdy)
                 \/ HostHearsAck(op, rdy) \/ HostHearsData(op, rdy)
                 \/ HostHearsStall(op, rdy) \/ HostRetries(op, rdy)

During(op) == \E rdy \in now.ready : Host(op, rdy)

-----------------------------------------------------------------------------
Init == DeviceInit /\ BusInit /\ HostInit /\ Program!FirmwareInit

Main      == Program!Main /\ During(Program!mainOp)
Handler   == Program!Handler /\ During(Program!handlerOp)
Elsewhere == During(NoOp) /\ UNCHANGED program

Next == Main \/ Handler \/ Elsewhere

Spec == Init /\ [][Next]_vars

(* The clock runs, the program gets on, and the host carries on with its   *)
(* transfer.                                                               *)
HostProceeds == \E rdy \in now.ready : (HostAsks(NoOp, rdy) \/ HostBegins(NoOp, rdy))
                                     /\ UNCHANGED program

FairSpec == /\ Spec /\ WF_vars(Next) /\ WF_vars(Main) /\ WF_vars(Handler)
            /\ SF_vars(HostProceeds)

-----------------------------------------------------------------------------
(* The registers of the device and the program's variables stay in their   *)
(* types; the program never collects more than a request may carry, nor    *)
(* sends more than a packet of endpoint 0 holds.                           *)
TypeOK ==
  /\ DeviceTypeOK
  /\ hstage \in {"setup", "data", "status", "done", "failed"}
  /\ haddr \in Dev
  /\ ep_intsts \in EP_INTSTS(EP)
  /\ \A i \in EP : Sts(i) \in EPx_STS /\ EpCfg(i) \in EPx_CFG
  /\ data_buffer \in Seq(Payload) /\ Len(data_buffer) = MAXDATA
  /\ data_idx <= MAXDATA /\ Len(fbuf) <= DEPTH
  /\ endpoint_stalled \subseteq EP
  /\ tx_len_q[0] <= MAXP

(* What openusb_service takes for a SETUP is one, and what it takes for    *)
(* data is not.                                                            *)
FlagTellsSetup ==
  fpc = "service" /\ Sts(0).rx_ready /\ rx_fifo[0] # << >> =>
    (Sts(0).rx_setup <=> Head(rx_fifo[0]) \in DOMAIN Request)

(* When the host has seen a transfer through, and the program is back from *)
(* its interrupt handler, the device has done what was asked.              *)
DoneMeansDone ==
  hstage = "done" /\ fpc = "idle" /\ ~intr_o /\ ~irq =>
    CASE reading -> hdata = reply(asked, configured, remote_wake_enabled,
                                  endpoint_stalled, line_coding)
      [] Standard(asked, REQ_SET_ADDRESS) -> current_addr_q = addressOf(asked)
      [] Standard(asked, REQ_SET_CONFIGURATION) -> configured = asked.wValue
      [] Class(asked, CDC_SET_LINE_CODING) -> line_coding = asked.data
      [] setsStall(asked) -> /\ endpointOf(asked) \in endpoint_stalled
                             /\ ep_cfg_stall_ep_r[endpointOf(asked)]
      [] OTHER -> TRUE

(* The device answers to the old address until the status stage of         *)
(* SET_ADDRESS is over, and to the new one from then on: whenever the host *)
(* begins a transaction they mean the same address.                        *)
AddressAgreed == hpc = "idle" /\ hwait = 0 => current_addr_q = haddr

(* README 72: EP0_RX_READY says "Receive ready (data available)", so while *)
(* a packet lies in the buffer of endpoint 0 and nobody serves it, its     *)
(* interrupt is pending.                                                   *)
ReadyIsLatched ==
  fpc = "idle" /\ ~irq /\ Sts(0).rx_ready /\ hpc = "idle" => intr_ep_rx_ready_r[0]

(* openusb_device.c 522: the empty packet is the "ACK for Status stage",   *)
(* so the host must be able to take it: its id is DATA1.                   *)
StatusIsData1 == answered /\ isData /\ hstage = "status" => hrx[1].pid = "DATA1"

(* openusb_common.c 235: openusb_has_tx_space asks "Is there sapce in the  *)
(* tx buffer", so the wait for it ends once the status has been sent.      *)
SendStatusReturns == fpc = "statusSpin" ~> fpc # "statusSpin"

(* Every request is answered, with success or with a stall.                *)
TransfersEnd == hstage = "setup" ~> ~inTransfer
=============================================================================
