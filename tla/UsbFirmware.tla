---------------------------- MODULE UsbFirmware ----------------------------
(***************************************************************************)
(* The program on the processor: main and my_usb_intr (cdc_test/main.c)    *)
(* with all that they call (openusb_common.c, openusb_device.c,            *)
(* openusb_cdc.c).  One step is one access to a register of the device,    *)
(* which mainOp or handlerOp names; a read is of the input pins below, and *)
(* takes in the computation up to the next access.  Read-modify-write of a *)
(* configuration register is one step.  The interrupt handler runs to its  *)
(* end before main goes on.                                                *)
(*                                                                         *)
(* Left out are the variables nobody reads (_addressed, _attached,         *)
(* ep1_tx_suc, ep2_tx_suc) and the start-of-frame interrupt, which is      *)
(* never enabled.                                                          *)
(*                                                                         *)
(* The definitions called Bug_... are mistakes, each of the definition that*)
(* follows it: the properties must notice them (README).                   *)
(***************************************************************************)
EXTENDS UsbRequest, UsbRegs

CONSTANTS
  EP,          \* the endpoints
  Request,     \* what the byte of a SETUP packet stands for (UsbHost)
  Line0,       \* _line_coding when the program starts
  Data0,       \* data_buffer of _ctrl_xfer when the program starts
  Buffer0      \* rx_packet_buf when the program starts

(* Assumed by the modules that give the constants their values. *)
FirmwareConstants ==
  /\ Len(Data0) = MAXDATA
  /\ \A r \in DOMAIN Request :
       LET q == Request[r]
       IN  /\ setsStall(q) \/ clearsStall(q) => endpointOf(q) \in EP
           /\ Class(q, CDC_SET_LINE_CODING) => Len(Line0) <= MAXDATA

VARIABLES
  \* input pins: what the processor reads
  intr_o,      \* the interrupt line
  stat_rst,    \* rst of USB_FUNC_STAT
  intsts,      \* USB_EP_INTSTS
  sts,         \* USB_EPi_STS
  cfg,         \* USB_EPi_CFG
  rx_byte,     \* the byte a read of USB_EPi_DATA gives
  away,        \* the host has been away for as long as 990 polls take
  \* main
  mpc,         \* where it is
  mwrites,     \* the writes it is about to make
  irq,         \* an interrupt has been raised and is not yet taken
  enable_rst_intr,
  mlen, mcnt, mflush,        \* tx_len, len and tx_flush in openusb_tx_data
  ep1_rx_suc, ep1_rx_len, rx_packet_buf,
  \* my_usb_intr
  fpc, fwrites,
  func_stat_rst, ep_intsts,
  request, data_expected, data_buffer, data_idx,    \* _ctrl_xfer
  fbuf,        \* bytes read of a packet, or still to be written of it
  fcnt,        \* bytes_ready, or count in usb_control_send
  send, fflush,              \* in usb_control_send and openusb_tx_data
  \* static variables
  configured, remote_wake_enabled, endpoint_stalled, line_coding

mainVars    == <<mpc, mwrites, enable_rst_intr, mlen, mcnt, mflush>>
echoVars    == <<ep1_rx_suc, ep1_rx_len, rx_packet_buf>>
handlerVars == <<fpc, fwrites, func_stat_rst, ep_intsts>>
xferVars    == <<request, data_expected, data_buffer, data_idx>>
copyVars    == <<fbuf, fcnt, send, fflush>>
staticVars  == <<configured, remote_wake_enabled, endpoint_stalled, line_coding>>

-----------------------------------------------------------------------------
(* Sequences of writes. *)
Each(ops(_)) == IF EP = {0} THEN ops(0)
                ELSE IF EP = {0, 1} THEN ops(0) \o ops(1)
                ELSE ops(0) \o ops(1) \o ops(2)

FlushBoth(i) == <<TxFlush(i), RxFlush(i)>>
EnableInt(i) == <<Cfg(i, [iso |-> FALSE, stall_ep |-> FALSE, int_tx |-> i # 0, int_rx |-> TRUE])>>
FuncCtrl(term, rst) ==
  Ctrl([int_en_sof |-> FALSE, int_en_rst |-> rst, phy_termselect |-> term])

(* openusb_attach *)
Attach(state) == <<FuncCtrl(state = 1, FALSE), Stat(TRUE)>>

(* main up to its loop: openusb_attach, usbf_init, openusb_enable_int. *)
StartUp == Attach(0) \o Each(FlushBoth) \o Attach(0) \o Attach(1)
             \o Each(EnableInt) \o <<FuncCtrl(TRUE, TRUE)>>

Bug_ResetFlushesNothing == <<Stat(TRUE)>>

(* process_reset, and the reset event in openusb_service. *)
ResetWrites == Each(FlushBoth) \o <<Stat(TRUE)>>

NoInts == [rx |-> {}, tx |-> {}]

FirmwareInit ==
  /\ mpc = "startUp" /\ mwrites = StartUp /\ enable_rst_intr = FALSE /\ irq = FALSE
  /\ mlen = 0 /\ mcnt = 0 /\ mflush = FALSE
  /\ ep1_rx_suc = FALSE /\ ep1_rx_len = 0 /\ rx_packet_buf = Buffer0
  /\ fpc = "idle" /\ fwrites = << >> /\ func_stat_rst = FALSE /\ ep_intsts = NoInts
  /\ request \in DOMAIN Request /\ data_expected = FALSE
  /\ data_buffer = Data0 /\ data_idx = 0
  /\ fbuf = << >> /\ fcnt = 0 /\ send = 0 /\ fflush = FALSE
  /\ configured = 0 /\ remote_wake_enabled = FALSE /\ endpoint_stalled = {}
  /\ line_coding = Line0

-----------------------------------------------------------------------------
(* main.  An access it has begun when the interrupt is raised is still     *)
(* made.                                                                   *)
MainWrites ==
  /\ mpc \in {"startUp", "flush"}
  /\ mwrites' = Tail(mwrites)
  /\ mpc' = IF mwrites' # << >> THEN mpc
            ELSE IF mpc = "startUp" THEN "enable" ELSE "loop"
  /\ UNCHANGED <<enable_rst_intr, mlen, mcnt, mflush, echoVars>>

MainEnables ==
  /\ mpc = "enable"
  /\ mpc' = "loop" /\ enable_rst_intr' = TRUE
  /\ UNCHANGED <<mwrites, mlen, mcnt, mflush, echoVars>>

(* process_reset *)
MainReset ==
  /\ mpc = "loop" /\ stat_rst
  /\ mpc' = "flush" /\ mwrites' = ResetWrites
  /\ UNCHANGED <<enable_rst_intr, mlen, mcnt, mflush, echoVars>>

(* The echo: endpoint 1 has received something ... *)
MainEcho ==
  /\ mpc = "loop" /\ ep1_rx_suc /\ ep1_rx_len # 0
  /\ mpc' = "txCall"
  /\ UNCHANGED <<mwrites, enable_rst_intr, mlen, mcnt, mflush, echoVars>>

Bug_WholeBuffer ==
  /\ mpc = "txCall"
  /\ mlen' = Len(rx_packet_buf) /\ mcnt' = 0 /\ mflush' = FALSE
  /\ mpc' = "txPoll"
  /\ UNCHANGED <<mwrites, enable_rst_intr, echoVars>>

(* ... which openusb_tx_data(2, rx_packet_buf, ep1_rx_len) sends back. *)
MainCalls ==
  /\ mpc = "txCall"
  /\ mlen' = ep1_rx_len /\ mcnt' = 0 /\ mflush' = FALSE
  /\ mpc' = IF mlen' = 0 THEN "txStart" ELSE "txPoll"
  /\ UNCHANGED <<mwrites, enable_rst_intr, echoVars>>

MainPolls ==
  /\ mpc = "txPoll" /\ ~sts[2].tx_busy
  /\ mpc' = "txWrite"
  /\ UNCHANGED <<mwrites, enable_rst_intr, mlen, mcnt, mflush, echoVars>>

MainGivesUp ==
  /\ mpc = "txPoll" /\ sts[2].tx_busy /\ away /\ ~mflush
  /\ mpc' = "txWrite" /\ mflush' = TRUE
  /\ UNCHANGED <<mwrites, enable_rst_intr, mlen, mcnt, echoVars>>

MainTxByte ==
  /\ mpc = "txWrite"
  /\ mcnt' = mcnt + 1
  /\ mpc' = IF mcnt' = mlen THEN "txStart" ELSE "txPoll"
  /\ UNCHANGED <<mwrites, enable_rst_intr, mlen, mflush, echoVars>>

MainTxStart ==
  /\ mpc = "txStart"
  /\ mpc' = "txDone"
  /\ UNCHANGED <<mwrites, enable_rst_intr, mlen, mcnt, mflush, echoVars>>

MainForgets ==
  /\ mpc = "txDone"
  /\ mpc' = "loop" /\ mlen' = 0 /\ mcnt' = 0 /\ mflush' = FALSE
  /\ ep1_rx_suc' = FALSE /\ ep1_rx_len' = 0
  /\ UNCHANGED <<mwrites, enable_rst_intr, rx_packet_buf>>

Main ==
  /\ fpc = "idle" /\ ~irq
  /\ irq' = intr_o
  /\ \/ MainWrites \/ MainEnables \/ MainReset
     \/ MainEcho \/ MainCalls \/ MainPolls \/ MainGivesUp \/ MainTxByte \/ MainTxStart
     \/ MainForgets
  /\ UNCHANGED <<handlerVars, xferVars, copyVars, staticVars>>

mainOp ==
  CASE mpc \in {"startUp", "flush"}             -> Head(mwrites)
    [] mpc = "txPoll" /\ sts[2].tx_busy         -> TxFlush(2)
    [] mpc = "txWrite"                          -> Write(2, rx_packet_buf[mcnt + 1])
    [] mpc = "txStart"                          -> IF mflush THEN FlushStart(2, mlen)
                                                             ELSE Start(2, mlen)
    [] OTHER                                    -> NoOp

-----------------------------------------------------------------------------
(* my_usb_intr: it reads what has happened, serves a reset of the bus,     *)
(* endpoint 0 and endpoint 1, and clears what it has read.                 *)
Bug_Ep0Only(ints) == "clear"

afterEp0(ints) == IF 1 \in ints.rx THEN "ep1Count" ELSE "clear"
service(ints)  == IF 0 \in ints.rx THEN "service" ELSE afterEp0(ints)
doneEp0        == afterEp0(ep_intsts)
Goto(pc)       == fpc' = pc /\ UNCHANGED <<fwrites, func_stat_rst, ep_intsts>>

FwInterrupt ==
  /\ fpc = "idle" /\ (intr_o \/ irq)
  /\ irq' = FALSE
  /\ func_stat_rst' = stat_rst
  /\ fpc' = "intsts"
  /\ UNCHANGED <<fwrites, ep_intsts, echoVars, xferVars, copyVars, staticVars>>

Bug_KeepsConfiguration ==
  /\ fpc' = "reset" /\ fwrites' = ResetWrites
  /\ endpoint_stalled' = {} /\ UNCHANGED configured

BusResetEvent ==
  /\ fpc' = "reset" /\ fwrites' = ResetWrites
  /\ configured' = 0 /\ endpoint_stalled' = {}

(* The reset event comes first in openusb_service. *)
FwIntsts ==
  /\ fpc = "intsts"
  /\ ep_intsts' = intsts
  /\ IF func_stat_rst /\ enable_rst_intr
       THEN BusResetEvent
       ELSE /\ fpc' = service(intsts)
            /\ UNCHANGED <<fwrites, configured, endpoint_stalled>>
  /\ UNCHANGED <<irq, func_stat_rst, echoVars, xferVars, copyVars,
                 remote_wake_enabled, line_coding>>

FwReset ==
  /\ fpc = "reset"
  /\ fwrites' = Tail(fwrites)
  /\ fpc' = IF fwrites' = << >> THEN service(ep_intsts) ELSE "reset"
  /\ UNCHANGED <<irq, func_stat_rst, ep_intsts, echoVars, xferVars, copyVars, staticVars>>

FwService ==
  /\ fpc = "service"
  /\ Goto(CASE sts[0].rx_setup                     -> "setupCount"
            [] ~sts[0].rx_setup /\ data_expected   -> "outCount"
            [] ~sts[0].rx_setup /\ ~data_expected  -> "stall")
  /\ UNCHANGED <<irq, echoVars, xferVars, copyVars, staticVars>>

FwClear ==
  /\ fpc = "clear"
  /\ ep_intsts' = NoInts
  /\ fpc' = IF func_stat_rst THEN "stat" ELSE "idle"
  /\ UNCHANGED <<irq, fwrites, func_stat_rst, echoVars, xferVars, copyVars, staticVars>>

FwStat ==
  /\ fpc = "stat"
  /\ func_stat_rst' = FALSE /\ fpc' = "idle"
  /\ UNCHANGED <<irq, fwrites, ep_intsts, echoVars, xferVars, copyVars, staticVars>>

-----------------------------------------------------------------------------
(* Endpoint 1: read as many bytes as USB_EP1_STS counts and rx_packet_buf  *)
(* holds, and accept the packet.                                           *)
FwEp1Count ==
  /\ fpc = "ep1Count"
  /\ Goto("ep1Read")
  /\ ep1_rx_len' = MIN(sts[1].rx_count, Len(rx_packet_buf)) /\ fcnt' = 0
  /\ UNCHANGED <<irq, ep1_rx_suc, rx_packet_buf, xferVars, fbuf, send, fflush, staticVars>>

FwEp1Read ==
  /\ fpc = "ep1Read" /\ fcnt < ep1_rx_len
  /\ rx_packet_buf' = [rx_packet_buf EXCEPT ![fcnt + 1] = rx_byte[1]]
  /\ fcnt' = fcnt + 1
  /\ UNCHANGED <<irq, handlerVars, ep1_rx_suc, ep1_rx_len, xferVars, fbuf, send, fflush, staticVars>>

FwEp1Accept ==
  /\ fpc = "ep1Read" /\ fcnt = ep1_rx_len
  /\ Goto("clear")
  /\ ep1_rx_suc' = TRUE /\ fcnt' = 0
  /\ UNCHANGED <<irq, ep1_rx_len, rx_packet_buf, xferVars, fbuf, send, fflush, staticVars>>

-----------------------------------------------------------------------------
(* openusb_get_rx_data: read the count, then the bytes.  Data that does    *)
(* not fit the buffer is not read.  usb_process_out reads the count once   *)
(* more, of a packet that stays in the endpoint until it is accepted.      *)
FwCount ==
  /\ fpc \in {"setupCount", "outCount"}
  /\ fcnt' = IF fpc = "setupCount" THEN MIN(sts[0].rx_count, MAXP) ELSE sts[0].rx_count
  /\ fbuf' = << >>
  /\ Goto(CASE fpc = "setupCount"                              -> "setupRead"
            [] fpc = "outCount" /\ data_idx + fcnt' <= MAXDATA -> "outRead"
            [] fpc = "outCount" /\ data_idx + fcnt' > MAXDATA  -> "stall")
  /\ UNCHANGED <<irq, echoVars, xferVars, send, fflush, staticVars>>

FwRead ==
  /\ fpc \in {"setupRead", "outRead"} /\ Len(fbuf) < fcnt
  /\ fbuf' = Append(fbuf, rx_byte[0])
  /\ UNCHANGED <<irq, handlerVars, echoVars, xferVars, fcnt, send, fflush, staticVars>>

(* usb_process_request: what is left to do of a request.  The class        *)
(* requests and set_feature change their variables before they answer.     *)
Process(q) ==
  /\ Goto(CASE answerTo(q) = "send" -> "mask"
            [] answerTo(q) = "none" -> doneEp0
            [] OTHER                -> answerTo(q))
  /\ remote_wake_enabled' = newRemoteWake(q, remote_wake_enabled)
  /\ line_coding' = newLineCoding(q, data_buffer, line_coding)

(* usb_process_setup.  Of a packet whose first byte is not that of a       *)
(* SETUP, any request is made.                                             *)
FwSetup ==
  /\ fpc = "setupRead" /\ Len(fbuf) = fcnt
  /\ \E r \in DOMAIN Request :
       /\ fbuf # << >> /\ Head(fbuf) \in DOMAIN Request => Head(fbuf) = r
       /\ request' = r
       /\ data_expected' = dataExpected(Request[r]) /\ data_idx' = 0
       /\ IF answeredAtOnce(Request[r]) THEN Process(Request[r])
          ELSE /\ Goto(IF data_expected' THEN doneEp0 ELSE "stall")
               /\ UNCHANGED <<remote_wake_enabled, line_coding>>
  /\ fbuf' = << >> /\ fcnt' = 0
  /\ UNCHANGED <<irq, echoVars, data_buffer, send, fflush, configured, endpoint_stalled>>

req == Request[request]

(* usb_process_out: collect the data, and at its end send the status. *)
FwOut ==
  /\ fpc = "outRead" /\ Len(fbuf) = fcnt
  /\ data_idx' = data_idx + fcnt
  /\ data_buffer' = [i \in DOMAIN data_buffer |->
       IF i \in data_idx + 1 .. data_idx' THEN fbuf[i - data_idx] ELSE data_buffer[i]]
  /\ Goto(IF fcnt < MAXP \/ data_idx' >= req.wLength THEN "status" ELSE doneEp0)
  /\ fbuf' = << >> /\ fcnt' = 0
  /\ UNCHANGED <<irq, echoVars, request, data_expected, send, fflush, staticVars>>

(* openusb_set_address *)
FwAddress ==
  /\ fpc = "address"
  /\ Goto("status")
  /\ UNCHANGED <<irq, echoVars, xferVars, copyVars, staticVars>>

(* openusb_control_endpoint_send_status: start an empty packet, then wait  *)
(* until openusb_has_tx_space, which is when the endpoint is busy.         *)
FwStatus ==
  /\ fpc = "status"
  /\ Goto("statusSpin")
  /\ UNCHANGED <<irq, echoVars, xferVars, copyVars, staticVars>>

(* After the data stage the request is only now carried out; set_config-   *)
(* uration, set_feature and clear_feature go on after their status.        *)
FwStatusSpin ==
  /\ fpc = "statusSpin" /\ sts[0].tx_busy
  /\ data_expected' = FALSE
  /\ IF data_expected
       THEN Process(req) /\ UNCHANGED configured
       ELSE /\ Goto(IF setsStall(req) \/ clearsStall(req) THEN "halt" ELSE doneEp0)
            /\ configured' = newConfigured(req, configured)
            /\ UNCHANGED <<remote_wake_enabled, line_coding>>
  /\ UNCHANGED <<irq, echoVars, request, data_buffer, data_idx, copyVars, endpoint_stalled>>

(* openusb_set_endpoint_stall, openusb_clear_endpoint_stall *)
FwHalt ==
  /\ fpc = "halt"
  /\ Goto(doneEp0)
  /\ endpoint_stalled' = IF setsStall(req) THEN endpoint_stalled \cup {endpointOf(req)}
                                         ELSE endpoint_stalled \ {endpointOf(req)}
  /\ UNCHANGED <<irq, echoVars, xferVars, copyVars, configured, remote_wake_enabled, line_coding>>

(* openusb_control_endpoint_stall *)
FwStall ==
  /\ fpc = "stall"
  /\ Goto(doneEp0)
  /\ endpoint_stalled' = endpoint_stalled \cup {0}
  /\ UNCHANGED <<irq, echoVars, xferVars, copyVars, configured, remote_wake_enabled, line_coding>>

-----------------------------------------------------------------------------
(* usb_control_send(answer, Len(answer), wLength): with the interrupt      *)
(* masked, send packet after packet and wait for the host's empty packet.  *)
answer == reply(req, configured, remote_wake_enabled, endpoint_stalled, line_coding)

Bug_WholeAtOnce(n) == Len(answer) - n

chunk(n) == MIN(Len(answer) - n, MAXP)

(* The next packet after n bytes; after the last, none or an empty one. *)
NextPacket(n) ==
  /\ fcnt' = n /\ fflush' = FALSE
  /\ send' = chunk(n)
  /\ fbuf' = SubSeq(answer, n + 1, n + send')
  /\ Goto(CASE n < Len(answer)                             -> "sendPoll"
            [] n = Len(answer) /\ Len(answer) = req.wLength  -> "sendAck"
            [] n = Len(answer) /\ Len(answer) # req.wLength  -> "sendStart")

FwMask ==
  /\ fpc = "mask"
  /\ NextPacket(0)
  /\ UNCHANGED <<irq, echoVars, xferVars, staticVars>>

(* openusb_tx_data *)
FwSendPoll ==
  /\ fpc = "sendPoll" /\ ~sts[0].tx_busy
  /\ Goto("sendWrite")
  /\ UNCHANGED <<irq, echoVars, xferVars, copyVars, staticVars>>

FwSendGivesUp ==
  /\ fpc = "sendPoll" /\ sts[0].tx_busy /\ away /\ ~fflush
  /\ Goto("sendWrite") /\ fflush' = TRUE
  /\ UNCHANGED <<irq, echoVars, xferVars, fbuf, fcnt, send, staticVars>>

FwSendWrite ==
  /\ fpc = "sendWrite"
  /\ fbuf' = Tail(fbuf)
  /\ Goto(IF fbuf' = << >> THEN "sendStart" ELSE "sendPoll")
  /\ UNCHANGED <<irq, echoVars, xferVars, fcnt, send, fflush, staticVars>>

FwSendStart ==
  /\ fpc = "sendStart"
  /\ fcnt' = fcnt + send
  /\ Goto("sendSpin")
  /\ UNCHANGED <<irq, echoVars, xferVars, fbuf, send, fflush, staticVars>>

(* Wait until the endpoint is busy or a packet has come, whichever is read *)
(* first; then go on after a full packet.                                  *)
FwSendSpin ==
  /\ fpc = "sendSpin" /\ (sts[0].tx_busy \/ sts[0].rx_ready)
  /\ IF send >= MAXP THEN NextPacket(fcnt) ELSE Goto("sendAck") /\ UNCHANGED copyVars
  /\ UNCHANGED <<irq, echoVars, xferVars, staticVars>>

FwSendAck ==
  /\ fpc = "sendAck" /\ sts[0].rx_ready
  /\ Goto("sendAccept")
  /\ UNCHANGED <<irq, echoVars, xferVars, copyVars, staticVars>>

FwSendAccept ==
  /\ fpc = "sendAccept"
  /\ Goto("unmask") /\ fcnt' = 0 /\ send' = 0 /\ fflush' = FALSE
  /\ UNCHANGED <<irq, echoVars, xferVars, fbuf, staticVars>>

FwUnmask ==
  /\ fpc = "unmask"
  /\ Goto(doneEp0)
  /\ UNCHANGED <<irq, echoVars, xferVars, copyVars, staticVars>>

-----------------------------------------------------------------------------
Handler ==
  /\ \/ FwInterrupt \/ FwIntsts \/ FwReset \/ FwService \/ FwClear \/ FwStat
     \/ FwEp1Count \/ FwEp1Read \/ FwEp1Accept
     \/ FwCount \/ FwRead \/ FwSetup \/ FwOut
     \/ FwAddress \/ FwStatus \/ FwStatusSpin \/ FwHalt \/ FwStall
     \/ FwMask \/ FwSendPoll \/ FwSendGivesUp \/ FwSendWrite \/ FwSendStart
     \/ FwSendSpin \/ FwSendAck \/ FwSendAccept \/ FwUnmask
  /\ UNCHANGED mainVars

reading == fpc \in {"setupRead", "outRead"}
stalling(i, on) == Cfg(i, [cfg[i] EXCEPT !.stall_ep = on])

Bug_ClearsAll == [rx |-> EP, tx |-> EP]

served == ep_intsts     \* what it clears at its end: what it read at its start

handlerOp ==
  CASE fpc = "reset"                               -> Head(fwrites)
    [] fpc = "clear"                               -> Intsts(served)
    [] fpc = "stat"                                -> Stat(TRUE)
    [] fpc = "ep1Read" /\ fcnt < ep1_rx_len        -> Read(1)
    [] fpc = "ep1Read" /\ fcnt = ep1_rx_len        -> Accept(1)
    [] reading /\ Len(fbuf) < fcnt                 -> Read(0)
    [] reading /\ Len(fbuf) = fcnt                 -> Accept(0)
    [] fpc = "address"                             -> SetAddr(addressOf(req))
    [] fpc = "status"                              -> Start(0, 0)
    [] fpc = "halt"                                -> stalling(endpointOf(req), setsStall(req))
    [] fpc = "stall"                               -> stalling(0, TRUE)
    [] fpc = "mask"                                -> Cfg(0, [cfg[0] EXCEPT !.int_rx = FALSE])
    [] fpc = "sendPoll" /\ sts[0].tx_busy          -> TxFlush(0)
    [] fpc = "sendWrite"                           -> Write(0, Head(fbuf))
    [] fpc = "sendStart"                           -> IF fflush THEN FlushStart(0, send)
                                                                ELSE Start(0, send)
    [] fpc = "sendAccept"                          -> Accept(0)
    [] fpc = "unmask"                              -> Cfg(0, [cfg[0] EXCEPT !.int_rx = TRUE])
    [] OTHER                                       -> NoOp

(* The program has nothing to do before the host does something: it is in  *)
(* its main loop, or waits for the device.                                 *)
resting == /\ fpc = "idle" /\ mpc = "loop" /\ ~intr_o /\ ~irq /\ ~stat_rst
           /\ ~(ep1_rx_suc /\ ep1_rx_len # 0)
waiting ==
  \/ resting
  \/ fpc = "idle" /\ ~intr_o /\ ~irq /\ mpc = "txPoll" /\ sts[2].tx_busy /\ ~(away /\ ~mflush)
  \/ fpc = "statusSpin" /\ ~sts[0].tx_busy
  \/ fpc = "sendPoll" /\ sts[0].tx_busy /\ ~(away /\ ~fflush)
  \/ fpc = "sendSpin" /\ ~sts[0].tx_busy /\ ~sts[0].rx_ready
  \/ fpc = "sendAck" /\ ~sts[0].rx_ready
=============================================================================
