------------------------------ MODULE UsbHost ------------------------------
(***************************************************************************)
(* A host that makes control requests: the transaction it makes next, and  *)
(* what it makes of the answer.  How a transaction gets over the bus is    *)
(* said by the modules that extend this one.                               *)
(*                                                                         *)
(* The eight bytes of a SETUP packet are one byte that names the request;  *)
(* Request says what is in them, and what the host writes if it writes.    *)
(***************************************************************************)
EXTENDS UsbRequest

CONSTANT Request    \* a function from names to requests

ASSUME HostAssumption ==
  \A r \in DOMAIN Request :
    LET q == Request[r]
    IN  /\ {q.wValue, q.wLength} \subseteq Nat
        /\ IF dirIn(q) THEN q.data = << >> ELSE Len(q.data) = q.wLength

VARIABLES
  hreq,       \* the request
  hstage,     \* the stage of its transfer
  htog,       \* the data toggle
  haddr,      \* the address it knows the device by
  hdata       \* what it has read, or has still to write

host == <<hreq, hstage, htog, haddr, hdata>>

HostInit == /\ hreq \in DOMAIN Request
            /\ hstage = "failed" /\ htog = FALSE /\ haddr = 0 /\ hdata = << >>

asked      == Request[hreq]
reading    == dirIn(asked) /\ asked.wLength > 0
inTransfer == hstage \in {"setup", "data", "status"}
Chunk      == SubSeq(hdata, 1, MIN(MAXP, Len(hdata)))

(* The transaction that carries on with the transfer: its token, the id of *)
(* the data packet sent or expected, and the bytes sent.                   *)
StageTr ==
  LET Tr(pid, data1, data) ==
        [pid |-> pid, dev |-> haddr, ep |-> 0,
         datapid |-> IF data1 THEN "DATA1" ELSE "DATA0", data |-> data]
  IN  CASE hstage = "setup"               -> Tr("SETUP", FALSE, <<hreq>>)
        [] hstage = "data" /\ reading     -> Tr("IN", htog, << >>)
        [] hstage = "data" /\ ~reading    -> Tr("OUT", htog, Chunk)
        [] hstage = "status" /\ reading   -> Tr("OUT", TRUE, << >>)
        [] hstage = "status" /\ ~reading  -> Tr("IN", TRUE, << >>)

Asks(r) ==
  /\ ~inTransfer
  /\ hreq' = r /\ hdata' = Request[r].data /\ hstage' = "setup"
  /\ UNCHANGED <<htog, haddr>>

(* The device took the SETUP, or a packet of the data or status stage. *)
HearsAck ==
  /\ CASE hstage = "setup" ->
            /\ hstage' = IF asked.wLength = 0 THEN "status" ELSE "data"
            /\ htog' = TRUE
            /\ UNCHANGED hdata
       [] hstage = "data" ->
            /\ hdata' = SubSeq(hdata, Len(Chunk) + 1, Len(hdata))
            /\ htog' = ~htog
            /\ hstage' = IF hdata' = << >> THEN "status" ELSE "data"
       [] hstage = "status" -> hstage' = "done" /\ UNCHANGED <<htog, hdata>>
  /\ UNCHANGED <<hreq, haddr>>

(* The device sent a packet: it is new, or it is only acknowledged. *)
HearsData(datapid, bytes) ==
  /\ IF datapid # StageTr.datapid THEN UNCHANGED <<hstage, htog, haddr, hdata>>
     ELSE IF hstage = "data"
       THEN /\ hdata' = hdata \o bytes
            /\ htog' = ~htog
            /\ hstage' = IF Len(bytes) < MAXP \/ Len(hdata') >= asked.wLength
                         THEN "status" ELSE "data"
            /\ UNCHANGED haddr
       ELSE /\ hstage' = "done"
            /\ haddr' = IF Standard(asked, REQ_SET_ADDRESS) THEN addressOf(asked) ELSE haddr
            /\ UNCHANGED <<htog, hdata>>
  /\ UNCHANGED hreq

HearsStall == hstage' = "failed" /\ UNCHANGED <<hreq, htog, haddr, hdata>>

(* It has reset the bus, and the device with it. *)
Forgets == /\ hstage' = "failed" /\ haddr' = 0
           /\ UNCHANGED <<hreq, htog, hdata>>
=============================================================================
