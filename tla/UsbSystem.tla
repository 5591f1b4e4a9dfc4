----------------------------- MODULE UsbSystem -----------------------------
(***************************************************************************)
(* The whole system, transaction by transaction: the host of UsbHost, which*)
(* also resets the bus, and sends packets to endpoint 1 that it expects    *)
(* back from endpoint 2; the device of UsbTransactions; the program of     *)
(* UsbFirmware, all of it, from its start.                                 *)
(***************************************************************************)
EXTENDS UsbTransactions, UsbHost

CONSTANTS
  Line0, Data0, Buffer0,      \* as in UsbFirmware
  Scenario    \* a function from names to what the host does:
              \*   requests: the requests it makes
              \*   echo:     the packets it sends to endpoint 1
              \*   resets:   how often it resets the bus
              \*   hasty:    whether it does not wait until the program waits
              \*             for it: "never", "resets", "always"
              \*   slow:     whether it lets the status stage wait for longer
              \*             than openusb_tx_data polls

ASSUME SystemAssumption ==
  /\ DOMAIN Request \cup {"0", "1", "2", "3"} \subseteq Payload
  /\ 1 \in EP => 2 \in EP
  /\ {Line0, Data0, Buffer0} \subseteq Seq(Payload)
  /\ \A d \in DescriptorName : Descriptor[d] \in Seq(Payload)
  /\ \A r \in DOMAIN Request : Request[r].data \in Seq(Payload)
  /\ \A s \in DOMAIN Scenario : LET c == Scenario[s]
                                IN  /\ c.requests \subseteq DOMAIN Request
                                    /\ c.echo \in Seq(Seq(Payload))
                                    /\ c.echo # << >> => {1, 2} \subseteq EP
                                    /\ c.resets \in Nat /\ c.slow \in BOOLEAN
                                    /\ c.hasty \in {"never", "resets", "always"}

VARIABLES
  \* the host
  scenario,   \* a name in Scenario
  hsent,      \* how many packets endpoint 1 took
  hback,      \* what came back from endpoint 2
  hresets,    \* how often it has reset the bus
  hfails,     \* how many requests it has given up
  hfuncs,     \* what it knows of the device, see UsbFunction
  \* the program
  mpc, mwrites, irq, enable_rst_intr, mlen, mcnt, mflush,
  ep1_rx_suc, ep1_rx_len, rx_packet_buf,
  fpc, fwrites, func_stat_rst, ep_intsts,
  request, data_expected, data_buffer, data_idx, fbuf, fcnt, send, fflush,
  configured, remote_wake_enabled, endpoint_stalled, line_coding

Program == INSTANCE UsbFirmware WITH
  intr_o   <- intr_o,
  stat_rst <- intr_reset_r,
  intsts   <- EpIntsts,
  sts      <- [i \in EP |-> Sts(i)],
  cfg      <- [i \in EP |-> EpCfg(i)],
  rx_byte  <- [i \in EP |-> RxByte(i)],
  away     <- ~inTransfer \/ (hstage = "status" /\ Scenario[scenario].slow)

ASSUME ProgramAssumption ==
  /\ Program!FirmwareConstants
  /\ \A r \in DOMAIN Request : LET q == Request[r]
                               IN  Program!answerTo(q) = "address" => Program!addressOf(q) \in Dev

program == <<mpc, mwrites, irq, enable_rst_intr, mlen, mcnt, mflush,
             ep1_rx_suc, ep1_rx_len, rx_packet_buf,
             fpc, fwrites, func_stat_rst, ep_intsts,
             request, data_expected, data_buffer, data_idx, fbuf, fcnt, send, fflush,
             configured, remote_wake_enabled, endpoint_stalled, line_coding>>
counts  == <<hsent, hback, hresets, hfails, hfuncs>>
vars    == <<deviceVars, host, scenario, counts, program>>

now == Scenario[scenario]

new == [configured |-> 0, wake |-> FALSE, halted |-> {}, line |-> Line0]

Function == INSTANCE UsbFunction WITH
  New       <- new,
  phase     <- IF inTransfer THEN "asked" ELSE hstage,
  asked     <- hreq,
  data      <- IF hstage = "done" /\ dirIn(asked) THEN hdata ELSE << >>,
  functions <- hfuncs

-----------------------------------------------------------------------------
(* The host sees the device when it is attached. *)
mayAct == /\ phy_termselect_r /\ ~token.valid
          /\ now.hasty # "always" => Program!waiting

(* A host asks a device that has no address for descriptors, and gives it  *)
(* an address.                                                             *)
askable == {r \in now.requests :
              haddr # 0 \/ Standard(Request[r], REQ_GET_DESCRIPTOR)
                        \/ Standard(Request[r], REQ_SET_ADDRESS)}

HostAsks ==
  /\ mayAct
  /\ \E r \in askable : Asks(r)
  /\ UNCHANGED <<deviceVars, counts>>

(* What the host learns when a transfer ends: that it has done what was    *)
(* asked, that it was refused, or nothing.                                 *)
KeepsScore(gaveUp) ==
  /\ hfails' = IF gaveUp THEN hfails + 1 ELSE hfails
  /\ hfuncs' = IF hstage' = "done" THEN Function!Effects(asked, hfuncs)
               ELSE IF gaveUp THEN hfuncs \cup Function!Effects(asked, hfuncs)
               ELSE hfuncs
  /\ UNCHANGED <<hsent, hback, hresets>>

HostToken ==
  /\ mayAct /\ inTransfer /\ StageTr.pid \in {"SETUP", "OUT"}
  /\ TokenOut(StageTr)
  /\ UNCHANGED <<host, counts>>

HostData ==
  /\ token.ep = 0 /\ Data(StageTr)
  /\ CASE handshake(StageTr) = "ACK"   -> HearsAck
       [] handshake(StageTr) = "STALL" -> HearsStall
       [] OTHER                        -> UNCHANGED host
  /\ KeepsScore(FALSE)

(* A packet that is longer than what it waits for the host does not take,  *)
(* and it gives the request up.                                            *)
expected == IF hstage = "status" THEN 0 ELSE MIN(MAXP, asked.wLength - Len(hdata))
tooLong  == Len(inData(StageTr)) > expected

HostIn ==
  /\ mayAct /\ inTransfer /\ StageTr.pid = "IN"
  /\ In(StageTr, ~tooLong)
  /\ LET isData == inAnswer(StageTr) \in {"DATA0", "DATA1"}
     IN  /\ CASE isData /\ ~tooLong -> HearsData(inAnswer(StageTr), inData(StageTr))
              [] inAnswer(StageTr) = "STALL" \/ (isData /\ tooLong) -> HearsStall
              [] OTHER -> UNCHANGED host
         /\ KeepsScore(isData /\ tooLong)

(* The program waits, and the device would not answer or not take the      *)
(* packet: after a while the host gives the request up.                    *)
noAnswer ==
  \/ ~mine(StageTr)
  \/ StageTr.pid = "IN" /\ inAnswer(StageTr) = "NAK"
  \/ StageTr.pid = "OUT" /\ rx_ready_q[0] /\ ~ep_cfg_stall_ep_r[0] /\ ~mismatch(StageTr)
  \/ StageTr.pid = "SETUP" /\ rx_ready_q[0]

HostAbandons ==
  /\ mayAct /\ inTransfer /\ Program!waiting /\ noAnswer
  /\ HearsStall /\ KeepsScore(TRUE)
  /\ UNCHANGED deviceVars

HostResets ==
  /\ phy_termselect_r /\ hresets < now.resets
  /\ now.hasty = "never" => Program!waiting
  /\ BusReset /\ Forgets
  /\ hresets' = hresets + 1
  /\ hfuncs' = Function!Reset(hfuncs \cup
                  IF inTransfer THEN Function!Effects(asked, hfuncs) ELSE {})
  /\ UNCHANGED <<hsent, hback, hfails>>

-----------------------------------------------------------------------------
(* Ping-pong: the next packet goes out when the last has come back. *)
EchoTr(pid, n) == [pid |-> pid, dev |-> haddr, ep |-> IF pid = "OUT" THEN 1 ELSE 2,
                   datapid |-> IF n % 2 = 1 THEN "DATA1" ELSE "DATA0",
                   data |-> IF pid = "OUT" THEN now.echo[n + 1] ELSE << >>]
outTr == EchoTr("OUT", hsent)
inTr  == EchoTr("IN", Len(hback))

HostPings ==
  /\ mayAct /\ haddr # 0 /\ hsent < Len(now.echo) /\ Len(hback) = hsent
  /\ TokenOut(outTr)
  /\ UNCHANGED <<host, counts>>

HostPingData ==
  /\ token.ep = 1 /\ Data(outTr)
  /\ hsent' = IF handshake(outTr) = "ACK" THEN hsent + 1 ELSE hsent
  /\ UNCHANGED <<host, hback, hresets, hfails, hfuncs>>

HostPongs ==
  /\ mayAct /\ Len(hback) < hsent
  /\ In(inTr, TRUE)
  /\ hback' = IF inAnswer(inTr) = inTr.datapid THEN Append(hback, inData(inTr)) ELSE hback
  /\ UNCHANGED <<host, hsent, hresets, hfails, hfuncs>>

-----------------------------------------------------------------------------
Init == /\ DeviceInit /\ HostInit
        /\ scenario \in DOMAIN Scenario
        /\ hsent = 0 /\ hback = << >> /\ hresets = 0
        /\ hfails = 0 /\ hfuncs = {new}
        /\ Program!FirmwareInit /\ request = hreq

Host == /\ \/ HostAsks \/ HostToken \/ HostData \/ HostIn \/ HostAbandons \/ HostResets
           \/ HostPings \/ HostPingData \/ HostPongs
        /\ UNCHANGED <<scenario, program>>

Main    == Program!Main /\ Cpu(Program!mainOp) /\ UNCHANGED <<host, scenario, counts>>
Handler == Program!Handler /\ Cpu(Program!handlerOp) /\ UNCHANGED <<host, scenario, counts>>

Next == Main \/ Handler \/ Host

Spec == Init /\ [][Next]_vars

(* The program gets on, the host carries on with the transaction and the   *)
(* transfer it has begun, and asks for its packets again and again.        *)
FairSpec == /\ Spec /\ WF_vars(Main) /\ WF_vars(Handler)
            /\ WF_vars((HostToken \/ HostData \/ HostIn \/ HostAbandons \/ HostPingData)
                         /\ UNCHANGED <<scenario, program>>)
            /\ SF_vars(HostPongs /\ UNCHANGED <<scenario, program>>)

-----------------------------------------------------------------------------
(* The registers of the device and the variables of the program stay in    *)
(* their types: the program collects no more than its buffers hold, and    *)
(* starts no packet longer than endpoint 0 may send.                       *)
TypeOK ==
  /\ DeviceTypeOK
  /\ ep_intsts \in EP_INTSTS(EP)
  /\ \A i \in EP : Sts(i) \in EPx_STS /\ EpCfg(i) \in EPx_CFG
  /\ Len(data_buffer) = MAXDATA /\ data_idx <= MAXDATA
  /\ Len(rx_packet_buf) = Len(Buffer0) /\ ep1_rx_len <= Len(Buffer0)
  /\ endpoint_stalled \subseteq EP
  /\ tx_len_q[0] <= MAXP

(* What the host reads is what it has written, through every bus reset: the*)
(* transfers implement UsbFunction.                                        *)
ImplementsFunction == Function!Spec

(* And so does the program: back in its loop it remembers nothing else.    *)
(* openusb_control_endpoint_stall marks endpoint 0, which nobody halts.    *)
MemoryAgrees ==
  Program!resting /\ ~inTransfer =>
    [configured |-> configured, wake |-> remote_wake_enabled,
     halted |-> endpoint_stalled \ {0}, line |-> line_coding] \in hfuncs

(* Host and device mean the same address whenever the host may begin a     *)
(* transaction, also after a bus reset, which USB_FUNC_ADDR survives.      *)
AddressAgreed == current_addr_q = haddr

(* A bus reset, wherever in a transfer the program waits, costs the host   *)
(* at most the one request that comes after it.                            *)
Recovers == hfails <= hresets

(* README 100: RX_FLUSH says "Invalidate Rx buffer": what a reset has      *)
(* flushed the program does not read.                                      *)
ReadsWhatCame == Program!reading /\ Len(fbuf) < fcnt => rx_fifo[0] # << >>

(* What comes back from endpoint 2 is what went to endpoint 1.             *)
EchoFaithful == \A n \in 1 .. Len(hback) : hback[n] = now.echo[n]

(* A packet that endpoint 1 has taken and that has not come back is on its *)
(* way: in the endpoint, in the buffer of the program, or in endpoint 2.   *)
(* It may be lost if the host is slow: endpoint 0 is taken for busy, and   *)
(* openusb_tx_data flushes endpoint 2 with the write that starts it.       *)
EchoIsUnderWay ==
  Len(hback) < hsent /\ ~now.slow =>
    \/ intr_ep_rx_ready_r[1] \/ 1 \in ep_intsts.rx
    \/ ep1_rx_suc /\ ep1_rx_len # 0
    \/ tx_active_q[2]

(* It does come back, whatever is going on at endpoint 0. *)
EchoComes == Len(hback) < hsent ~> Len(hback) = hsent \/ now.slow
=============================================================================
