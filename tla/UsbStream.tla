----------------------------- MODULE UsbStream -----------------------------
(***************************************************************************)
(* A stream of packets through one endpoint.  The host sends or fetches    *)
(* them and retries what was not acknowledged.  The processor takes or     *)
(* provides them with the functions of openusb_common.c: it polls          *)
(* openusb_is_rx_ready, reads as many bytes as openusb_get_rx_count says   *)
(* and accepts the packet; or it calls openusb_tx_data.                    *)
(* The stream repeats itself after N packets.                              *)
(***************************************************************************)
EXTENDS UsbBus

CONSTANTS
  SEP,        \* the endpoint of the stream
  N           \* the number of its packets

(* A scenario says also                                                    *)
(*   stream: "OUT" or "IN", the direction of the stream                    *)
(*   packets: its packets, a sequence of sequences of bytes                *)
(*   noise: other transactions the host makes in between                   *)
(*   impatient: whether the retries of openusb_tx_data may run out         *)
ASSUME StreamAssumption ==
  /\ SEP \in EP /\ N \in Nat \ {0, 1}
  /\ \A n \in DOMAIN Scenario : /\ Scenario[n].stream \in {"OUT", "IN"}
                                /\ Len(Scenario[n].packets) = N
                                /\ Scenario[n].impatient \in BOOLEAN

VARIABLES
  hseq,     \* the number of the packet the host is at
  htog,     \* its data toggle
  cpc,      \* what the processor is doing
  cbuf,     \* bytes it has read of the packet, or still has to write
  ccnt,     \* bytes_ready in openusb_get_rx_data
  cflush,   \* ep_tx_ctrl.b.tx_flush in openusb_tx_data
  cseq      \* the number of the packet it is at

cpu  == <<cpc, cbuf, ccnt, cflush, cseq>>
vars == <<deviceVars, bus, hseq, htog, cpu>>

outgoing == now.stream = "OUT"
Packets  == now.packets

NextSeq(n) == (n % N) + 1

-----------------------------------------------------------------------------
(* The transaction that carries on with the stream. *)
StreamTr == IF outgoing
              THEN Transaction("OUT", 0, SEP, DataPidOf(htog), Packets[hseq])
              ELSE Transaction("IN", 0, SEP, DataPidOf(htog), << >>)
isStream == htr = StreamTr

(* The device's answer moves the host on to the next packet. *)
accepted == /\ isStream /\ WellFormed(hrx)
            /\ hrx[1].pid = (IF outgoing THEN "ACK" ELSE htr.datapid)

MoveOn == htog' = ~htog /\ hseq' = NextSeq(hseq)
Stay   == UNCHANGED <<htog, hseq>>

HostBegins(t, op, rdy) == BusBegin(t, op, rdy) /\ Stay

HostHearsHandshake(op, rdy) ==
  /\ answered /\ ~(isData /\ WellFormed(hrx))
  /\ BusDone(op, rdy)
  /\ \/ IF accepted THEN MoveOn ELSE Stay
     \/ "ackLost" \in now.faults /\ Stay

(* New data is taken, repeated data is only acknowledged, damaged data is  *)
(* left alone.                                                             *)
HostHearsData(op, rdy) ==
  /\ answered /\ isData /\ WellFormed(hrx)
  /\ \/ /\ BusAcknowledge(op, rdy) \/ ("hostAckLost" \in now.faults /\ BusDone(op, rdy))
        /\ IF accepted THEN MoveOn ELSE Stay
     \/ "inBad" \in now.faults /\ BusDone(op, rdy) /\ Stay

HostGivesUp(op, rdy) == timedOut /\ BusDone(op, rdy) /\ Stay

Host(op, rdy) == \/ BusCarryOn(op, rdy) /\ Stay
                 \/ \E t \in now.noise \cup {StreamTr} : HostBegins(t, op, rdy)
                 \/ HostHearsHandshake(op, rdy)
                 \/ HostHearsData(op, rdy)
                 \/ HostGivesUp(op, rdy)

(* One clock of everything but the processor, which does `op' meanwhile. *)
During(op) == \E rdy \in now.ready : Host(op, rdy)

-----------------------------------------------------------------------------
(* The processor is busy with something else, or waits for the device. *)
CpuElsewhere == During(NoOp) /\ UNCHANGED cpu

(* openusb_is_rx_ready *)
CpuPollRx == /\ outgoing /\ cpc = "wait" /\ Sts(SEP).rx_ready
             /\ During(NoOp)
             /\ cpc' = "count"
             /\ UNCHANGED <<cbuf, ccnt, cflush, cseq>>

(* openusb_get_rx_data *)
CpuCount == /\ cpc = "count"
            /\ During(NoOp)
            /\ ccnt' = Sts(SEP).rx_count
            /\ cpc' = "read"
            /\ UNCHANGED <<cbuf, cflush, cseq>>

CpuRead == /\ cpc = "read" /\ Len(cbuf) < ccnt
           /\ During(Read(SEP))
           /\ cbuf' = Append(cbuf, RxByte(SEP))
           /\ UNCHANGED <<cpc, ccnt, cflush, cseq>>

(* openusb_clear_rx_ready_flag *)
CpuAccept == /\ cpc = "read" /\ Len(cbuf) = ccnt
             /\ During(Accept(SEP))
             /\ cpc' = "wait" /\ cbuf' = << >> /\ ccnt' = 0 /\ cseq' = NextSeq(cseq)
             /\ UNCHANGED cflush

(* openusb_tx_data: for every byte, wait until the endpoint is not busy    *)
(* and write the byte; then start the packet.                              *)
CpuTxBegin == /\ ~outgoing /\ cpc = "wait"
              /\ During(NoOp)
              /\ cbuf' = Packets[cseq]
              /\ cpc' = IF cbuf' = << >> THEN "start" ELSE "poll"
              /\ UNCHANGED <<ccnt, cflush, cseq>>

CpuPollTx == /\ cpc = "poll" /\ ~Sts(SEP).tx_busy
             /\ During(NoOp)
             /\ cpc' = "write"
             /\ UNCHANGED <<cbuf, ccnt, cflush, cseq>>

CpuGivesUp == /\ now.impatient /\ ~cflush     \* its counter passes 10 once
              /\ cpc = "poll" /\ Sts(SEP).tx_busy
              /\ During(TxFlush(SEP))
              /\ cpc' = "write" /\ cflush' = TRUE
              /\ UNCHANGED <<cbuf, ccnt, cseq>>

CpuWrite == /\ cpc = "write"
            /\ During(Write(SEP, Head(cbuf)))
            /\ cbuf' = Tail(cbuf)
            /\ cpc' = IF cbuf' = << >> THEN "start" ELSE "poll"
            /\ UNCHANGED <<ccnt, cflush, cseq>>

CpuStart == /\ cpc = "start"
            /\ During(IF cflush THEN FlushStart(SEP, Len(Packets[cseq]))
                                ELSE Start(SEP, Len(Packets[cseq])))
            /\ cpc' = "wait" /\ cflush' = FALSE /\ cseq' = NextSeq(cseq)
            /\ UNCHANGED <<cbuf, ccnt>>

-----------------------------------------------------------------------------
Init == /\ DeviceInit
        /\ BusInit
        /\ hseq = 1 /\ htog = FALSE
        /\ cpc = "wait" /\ cbuf = << >> /\ ccnt = 0 /\ cflush = FALSE /\ cseq = 1

CpuProceeds == \/ CpuPollRx \/ CpuCount \/ CpuRead \/ CpuAccept
               \/ CpuTxBegin \/ CpuPollTx \/ CpuGivesUp \/ CpuWrite \/ CpuStart

Next == CpuElsewhere \/ CpuProceeds

Spec == Init /\ [][Next]_vars

(* The clock runs, the processor gets on with its program, and the host    *)
(* comes back to the stream however much else it does.                     *)
HostReturns == \E rdy \in now.ready : HostBegins(StreamTr, NoOp, rdy) /\ UNCHANGED cpu

FairSpec == Spec /\ WF_vars(Next) /\ WF_vars(CpuProceeds) /\ SF_vars(HostReturns)

-----------------------------------------------------------------------------
(* The registers of the device stay in their types, the FIFOs in their     *)
(* depth.                                                                  *)
TypeOK == /\ DeviceTypeOK
          /\ hseq \in 1 .. N /\ cseq \in 1 .. N
          /\ htog \in BOOLEAN /\ cflush \in BOOLEAN
          /\ cpc \in {"wait", "count", "read", "poll", "write", "start"}
          /\ cbuf \in Seq(Payload) /\ ccnt \in Nat

(* The processor reads the packets of the OUT stream as the host sent      *)
(* them: in order, none lost, none twice, and nothing else with them.      *)
OutInOrder == cpc = "read" /\ Len(cbuf) = ccnt => cbuf = Packets[cseq]

(* The host takes the packets of the IN stream as the processor wrote      *)
(* them: in order, none lost, none twice.                                  *)
InInOrder == ~outgoing /\ answered /\ isData /\ accepted => payload = Packets[hseq]

(* The buffer of the endpoint: the receiver has a packet for the processor *)
(* from its last byte on until the processor accepts it.                   *)
taking == IF rx_ready_q[SEP] THEN NextSeq(cseq) ELSE cseq

Delivery == INSTANCE UsbDelivery WITH sending <- IF outgoing THEN hseq ELSE 1,
                                      taking  <- IF outgoing THEN taking ELSE 1

(* The OUT stream implements UsbDelivery: a packet is put into the         *)
(* endpoint's buffer once, and the host goes on only after that.           *)
DeliveredOnce == Delivery!Spec

(* The data toggle of the endpoint (usbf_core.v 715-784) and that of the   *)
(* host differ exactly while the device has taken a packet whose           *)
(* acknowledgement has not reached the host.                               *)
ToggleTracksStream ==
  outgoing /\ hpc = "idle" => (ep_data_bit_q[SEP] = htog <=> taking = hseq)

(* A packet the processor may take is as long as RX_COUNT says, or RX_ERR  *)
(* says that bytes of it were lost (README 109, 111, 112).                 *)
CountIsContents ==
  Sts(SEP).rx_ready /\ ~Sts(SEP).rx_err =>
    Sts(SEP).rx_count = Len(rx_fifo[SEP]) + Len(cbuf)

(* README 109: RX_ERR is "Receive error - CRC mismatch or buffer           *)
(* overflow", so it is set with the clock in which a packet that went into *)
(* the buffer is found to be damaged.                                      *)
DamageReported ==
  [][Core(Quiet)!judged /\ crc_err_q /\ token_ep_q = SEP /\ rx_space_q => rx_err_q'[SEP]]_vars

(* README 103, 111: RX_READY of USB_EPi_STS is that of endpoint i.         *)
StsIsOwn == Sts(SEP).rx_ready <=> rx_ready_q[SEP]

(* README 93: TX_START is "Transmit start - enable transmit of endpoint    *)
(* data": after openusb_tx_data has written it the endpoint is active.     *)
StartTransmits == [][CpuStart => tx_active_q'[SEP]]_vars

(* Between transactions host and device agree on the toggle.               *)
TogglesAgree == hpc = "idle" /\ hwait = 0 => ep_data_bit_q[SEP] = htog

(* A data packet of the device is one packet of the processor, whole.      *)
InWhole == answered /\ isData => WellFormed(hrx) /\ \E n \in DOMAIN Packets : payload = Packets[n]

(* Every packet gets its turn, over and over, if the bus does its part:    *)
(* host, device and processor never wait for each other for good.          *)
StreamProceeds == \A n \in 1 .. N : []<>(hseq = n \/ now.faults # {})
=============================================================================
