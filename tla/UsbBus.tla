------------------------------- MODULE UsbBus -------------------------------
(***************************************************************************)
(* A host on the other end of the bus, as far as the lines go: it sends a  *)
(* token, a data packet if the token asks for one, and waits for the       *)
(* answer or a timeout.  The bus damages or loses packets as the scenario allows. *)
(* Which transactions the host makes, and what it makes of the answers, is *)
(* said by the modules that extend this one.  One step is one clock of the *)
(* PHY, in which the processor may do one operation `op' on the device.    *)
(***************************************************************************)
EXTENDS UsbDevice

CONSTANTS
  Scenario,   \* a function from names to records that say, with other things,
              \*   faults: what the bus may do, a subset of FaultKind
              \*   ready: whether the PHY takes a byte, {TRUE} or BOOLEAN
  Gaps,       \* clocks the PHY may pause after each byte it receives
  IPG,        \* clocks between two packets
  TIMEOUT     \* clocks the host waits for an answer

FaultKind == {"dataLost",      \* a data packet of the host does not arrive
              "dataBad",       \* ... or arrives damaged
              "ackLost",       \* a handshake of the device does not arrive
              "inBad",         \* a data packet of the device arrives damaged
              "hostAckLost"}   \* a handshake of the host does not arrive

ASSUME BusAssumption == /\ \A n \in DOMAIN Scenario : /\ Scenario[n].faults \subseteq FaultKind
                                                      /\ Scenario[n].ready \subseteq BOOLEAN
                        /\ Gaps \subseteq Nat
                        /\ IPG \in Nat /\ TIMEOUT \in Nat

VARIABLES
  scenario, \* the scenario, which never changes
  hpc,      \* what the host is doing
  hq,       \* the bytes of its packet that are still to be sent
  hwait,    \* the clocks it still waits
  htr,      \* the transaction
  hrx       \* what it has received of the device's packet

bus == <<scenario, hpc, hq, hwait, htr, hrx>>

now == Scenario[scenario]

-----------------------------------------------------------------------------
(* Packets of the host. *)
PidByte(pid)    == [NoByte EXCEPT !.pid = pid]
AddrByte(d, e)  == [NoByte EXCEPT !.dev = d, !.ep_lo = e % 2]
EndpByte(e)     == [NoByte EXCEPT !.ep_hi = e \div 2]
DataByte(v)     == [NoByte EXCEPT !.data = v]
CrcByte(good)   == [NoByte EXCEPT !.good = good]

TokenPacket(t) == <<PidByte(t.pid), AddrByte(t.dev, t.ep), EndpByte(t.ep)>>
DataPacket(t, good) ==
  <<PidByte(t.datapid)>> \o [i \in 1 .. Len(t.data) |-> DataByte(t.data[i])]
                         \o <<CrcByte(good), CrcByte(TRUE)>>
HandshakePacket == <<PidByte("ACK")>>

DataPidOf(bit) == IF bit THEN "DATA1" ELSE "DATA0"

(* A transaction: the token, and the data packet sent with it or the data  *)
(* packet id expected for it.                                              *)
Transaction(pid, dev, ep, datapid, data) ==
  [pid |-> pid, dev |-> dev, ep |-> ep, datapid |-> datapid, data |-> data]

-----------------------------------------------------------------------------
(* What the device's packet says, once it has ended. *)
answered == hpc = "await" /\ hrx # << >> /\ ~txvalid
isData   == hrx[1].kind = "PID" /\ hrx[1].pid \in {"DATA0", "DATA1"}
payload  == [i \in 1 .. Len(hrx) - 3 |-> hrx[i + 1].data]
timedOut == hpc = "await" /\ hrx = << >> /\ ~txvalid /\ hwait = 0

(* A packet id alone, or a data packet whose CRC16 covers its bytes. *)
WellFormed(p) ==
  IF p[1].kind = "PID" /\ p[1].pid \in {"DATA0", "DATA1"}
  THEN /\ Len(p) >= 3
       /\ \A i \in 2 .. Len(p) - 2 : p[i].kind = "DATA"
       /\ LET crc == [i \in 1 .. Len(p) - 3 |-> p[i + 1].data]
          IN  /\ p[Len(p) - 1] = [kind |-> "CRC1", crc |-> crc]
              /\ p[Len(p)] = [kind |-> "CRC2", crc |-> crc]
  ELSE Len(p) = 1 /\ p[1].kind = "PID" /\ p[1].pid \in {"ACK", "NAK", "STALL"}

Tick(line, op) == DeviceClock(line, op) /\ UNCHANGED scenario

Rest(op, rdy)  == Tick(Line(FALSE, FALSE, NoByte, FALSE, rdy), op)

(* No transaction, and none begins. *)
BusIdle(op, rdy) ==
  /\ hpc = "idle"
  /\ Rest(op, rdy)
  /\ hwait' = IF hwait > 0 THEN hwait - 1 ELSE 0
  /\ UNCHANGED <<hpc, hq, htr, hrx>>

(* A transaction begins; its first byte is sent in the next clock. *)
BusBegin(t, op, rdy) ==
  /\ hpc = "idle"
  /\ hwait = 0
  /\ Tick(Line(TRUE, FALSE, NoByte, FALSE, rdy), op)
  /\ htr' = t
  /\ hq' = TokenPacket(t)
  /\ hpc' = "token"
  /\ UNCHANGED <<hwait, hrx>>

(* One clock of a packet: a byte, or a pause of the PHY. *)
BusSend(op, rdy) ==
  /\ hpc \in {"token", "data", "ack"}
  /\ hq # << >> \/ hwait > 0
  /\ IF hwait = 0
       THEN /\ Tick(Line(TRUE, TRUE, Head(hq), FALSE, rdy), op)
            /\ hq' = Tail(hq)
            /\ hwait' \in Gaps
       ELSE /\ Tick(Line(TRUE, FALSE, NoByte, FALSE, rdy), op)
            /\ hwait' = hwait - 1
            /\ hq' = hq
  /\ UNCHANGED <<hpc, htr, hrx>>

(* The packet has ended: go on to the data packet or to the answer. *)
BusEnd(op, rdy) ==
  /\ hpc \in {"token", "data", "ack"}
  /\ hq = << >> /\ hwait = 0
  /\ Rest(op, rdy)
  /\ \/ /\ hpc = "token" /\ htr.pid \in {"OUT", "SETUP"}
        /\ hpc' = "dataGap" /\ hwait' = IPG
     \/ /\ \/ hpc = "token" /\ htr.pid \in {"IN", "PING"}
           \/ hpc = "token" /\ htr.pid \in {"OUT", "SETUP"} /\ "dataLost" \in now.faults
           \/ hpc = "data"
        /\ hpc' = "await" /\ hwait' = TIMEOUT
     \/ /\ hpc = "ack"
        /\ hpc' = "idle" /\ hwait' = IPG
  /\ UNCHANGED <<hq, htr, hrx>>

(* The gap before the host's next packet. *)
BusGap(op, rdy) ==
  /\ hpc \in {"dataGap", "ackGap"}
  /\ IF hwait > 0
       THEN /\ Rest(op, rdy)
            /\ hwait' = hwait - 1
            /\ UNCHANGED <<hpc, hq>>
       ELSE /\ Tick(Line(TRUE, FALSE, NoByte, FALSE, rdy), op)
            /\ hwait' = 0
            /\ \/ /\ hpc = "dataGap"
                  /\ hpc' = "data"
                  /\ \/ hq' = DataPacket(htr, TRUE)
                     \/ "dataBad" \in now.faults /\ hq' = DataPacket(htr, FALSE)
               \/ /\ hpc = "ackGap"
                  /\ hpc' = "ack"
                  /\ hq' = HandshakePacket
  /\ UNCHANGED <<htr, hrx>>

(* The host waits for the device, and takes what it sends. *)
BusAwait(op, rdy) ==
  /\ hpc = "await" /\ ~answered /\ ~timedOut
  /\ Rest(op, rdy)
  /\ hrx' = IF txvalid /\ rdy THEN Append(hrx, txdata) ELSE hrx
  /\ hwait' = IF txvalid THEN hwait ELSE hwait - 1
  /\ UNCHANGED <<hpc, hq, htr>>

(* The transaction is over ... *)
BusDone(op, rdy) ==
  /\ Rest(op, rdy)
  /\ hpc' = "idle" /\ hwait' = IPG /\ hrx' = << >>
  /\ UNCHANGED <<hq, htr>>

(* ... or an acknowledgement is still to be sent. *)
BusAcknowledge(op, rdy) ==
  /\ Rest(op, rdy)
  /\ hpc' = "ackGap" /\ hwait' = IPG /\ hrx' = << >>
  /\ UNCHANGED <<hq, htr>>

(* All that happens between the beginning of a transaction and its answer. *)
BusCarryOn(op, rdy) ==
  \/ BusIdle(op, rdy) \/ BusSend(op, rdy) \/ BusEnd(op, rdy)
  \/ BusGap(op, rdy) \/ BusAwait(op, rdy)

BusInit == /\ scenario \in DOMAIN Scenario
           /\ hpc = "idle" /\ hq = << >> /\ hwait = 0 /\ hrx = << >>
           /\ htr = Transaction("IN", 0, 0, "DATA0", << >>)

-----------------------------------------------------------------------------
(* Whatever the device sends is one whole packet: a packet id, and if that *)
(* is a data id, bytes and the CRC16 of exactly those bytes.               *)
SendsWholePackets == answered => WellFormed(hrx)

(* The device drives the bus only while a host waits for its answer.       *)
SpeaksWhenAsked == txvalid => hpc = "await" /\ htr.dev = current_addr_q
=============================================================================
