----------------------------- MODULE UsbRequest -----------------------------
(***************************************************************************)
(* What the program makes of a SETUP packet: usb_process_request and what  *)
(* it calls (openusb_device.c), the class requests (openusb_cdc.c) and the *)
(* descriptors (openusb_desc_cdc.c), as functions of the request and of    *)
(* what the program remembers.  How they are carried out, step by step, is *)
(* in UsbFirmware.                                                         *)
(*                                                                         *)
(* A request is a record of the fields of the packet.  A byte of data is a *)
(* string; the descriptors are a constant, so that runs can have short     *)
(* ones: what matters is how their lengths compare with MAXP.              *)
(*                                                                         *)
(* The definitions called Bug_... are mistakes, each of the definition that*)
(* follows it: the properties must notice them (README).                   *)
(***************************************************************************)
EXTENDS Naturals, Sequences

CONSTANTS
  Descriptor,  \* the contents of the descriptors, by name
  MAXP,        \* EP0_MAX_PACKET_SIZE
  MAXDATA      \* MAX_CTRL_DATA_LENGTH

DescriptorName == {"device", "config", "lang", "man", "prod", "serial"}

ASSUME RequestAssumption == /\ MAXP \in Nat \ {0} /\ MAXDATA \in Nat
                            /\ DOMAIN Descriptor = DescriptorName

MIN(a, b) == IF a <= b THEN a ELSE b
LO_BYTE(w) == w % 256
HI_BYTE(w) == w \div 256

-----------------------------------------------------------------------------
(* openusb_defs.h and openusb_cdc.h *)
REQ_GET_STATUS        == 0
REQ_CLEAR_FEATURE     == 1
REQ_SET_FEATURE       == 3
REQ_SET_ADDRESS       == 5
REQ_GET_DESCRIPTOR    == 6
REQ_SET_DESCRIPTOR    == 7
REQ_GET_CONFIGURATION == 8
REQ_SET_CONFIGURATION == 9
REQ_GET_INTERFACE     == 10
REQ_SET_INTERFACE     == 11

CDC_SEND_ENCAPSULATED_COMMAND == 0
CDC_GET_ENCAPSULATED_RESPONSE == 1
CDC_SET_LINE_CODING           == 32
CDC_GET_LINE_CODING           == 33
CDC_SET_CONTROL_LINE_STATE    == 34
CDC_SEND_BREAK                == 35

DESC_DEVICE        == 1
DESC_CONFIGURATION == 2
DESC_STRING        == 3

FEATURE_ENDPOINT_STATE == 0
FEATURE_REMOTE_WAKEUP  == 1
FEATURE_TEST_MODE      == 2

(* bmRequestType: direction, type and recipient. *)
dirIn(q)     == q.bmRequestType >= 128
typeOf(q)    == CASE (q.bmRequestType \div 32) % 4 = 0 -> "standard"
                  [] (q.bmRequestType \div 32) % 4 = 1 -> "class"
                  [] (q.bmRequestType \div 32) % 4 = 2 -> "vendor"
                  [] OTHER                             -> "reserved"
recipient(q) == CASE q.bmRequestType % 32 = 0 -> "device"
                  [] q.bmRequestType % 32 = 1 -> "interface"
                  [] q.bmRequestType % 32 = 2 -> "endpoint"
                  [] OTHER                    -> "other"
endpointOf(q) == q.wIndex % 128       \* ENDPOINT_ADDR_MASK
addressOf(q)  == LO_BYTE(q.wValue) % 128

Standard(q, req) == typeOf(q) = "standard" /\ q.bRequest = req
Class(q, req)    == typeOf(q) = "class" /\ q.bRequest = req

-----------------------------------------------------------------------------
(* usb_get_descriptor: the descriptor that wValue names, or "none". *)
descriptorOf(q) ==
  LET string == <<"lang", "man", "prod", "serial">>
  IN  CASE HI_BYTE(q.wValue) = DESC_DEVICE        -> "device"
        [] HI_BYTE(q.wValue) = DESC_CONFIGURATION -> "config"
        [] HI_BYTE(q.wValue) = DESC_STRING /\ LO_BYTE(q.wValue) < 4
                                                  -> string[LO_BYTE(q.wValue) + 1]
        [] OTHER                                  -> "none"

(* set_feature and clear_feature know these. *)
deviceFeature(q)   == recipient(q) = "device" /\ q.wValue \in {FEATURE_REMOTE_WAKEUP, FEATURE_TEST_MODE}
endpointFeature(q) == recipient(q) = "endpoint" /\ q.wValue = FEATURE_ENDPOINT_STATE

(* A request is answered with data, or with the empty packet of a status   *)
(* stage, after the new address has been written if it sets one, or with a *)
(* stall, or not at all.                                                   *)
standardAnswer(q) ==
  CASE q.bRequest = REQ_GET_STATUS ->
         IF recipient(q) \in {"device", "interface", "endpoint"} THEN "send" ELSE "stall"
    [] q.bRequest \in {REQ_CLEAR_FEATURE, REQ_SET_FEATURE} ->
         IF deviceFeature(q) \/ endpointFeature(q) THEN "status" ELSE "stall"
    [] q.bRequest = REQ_SET_ADDRESS -> "address"
    [] q.bRequest = REQ_GET_DESCRIPTOR ->
         IF descriptorOf(q) # "none" THEN "send" ELSE "stall"
    [] q.bRequest = REQ_GET_CONFIGURATION -> "send"
    [] q.bRequest = REQ_SET_CONFIGURATION -> IF q.wValue \in {0, 1} THEN "status" ELSE "stall"
    [] q.bRequest = REQ_GET_INTERFACE -> "stall"
    [] q.bRequest = REQ_SET_INTERFACE ->
         IF q.wValue = 0 /\ q.wIndex = 0 THEN "status" ELSE "stall"
    [] q.bRequest = REQ_SET_DESCRIPTOR -> "none"
    [] OTHER -> "stall"

classAnswer(q) ==
  CASE q.bRequest \in {CDC_SEND_ENCAPSULATED_COMMAND, CDC_SET_LINE_CODING} -> "none"
    [] q.bRequest \in {CDC_SET_CONTROL_LINE_STATE, CDC_SEND_BREAK} -> "status"
    [] q.bRequest = CDC_GET_LINE_CODING -> "send"
    [] OTHER -> "stall"      \* with CDC_GET_ENCAPSULATED_RESPONSE

answerTo(q) == CASE typeOf(q) = "standard" -> standardAnswer(q)
                 [] typeOf(q) = "class"    -> classAnswer(q)
                 [] OTHER                  -> "stall"

-----------------------------------------------------------------------------
(* What the program remembers: _configured, _remote_wake_enabled, the      *)
(* endpoints of _endpoint_stalled, _line_coding.  `data' is data_buffer.   *)
newConfigured(q, configured) ==
  IF Standard(q, REQ_SET_CONFIGURATION) /\ q.wValue \in {0, 1} THEN q.wValue ELSE configured

Bug_WakeNotCleared(q, wake) ==
  wake \/ (Standard(q, REQ_SET_FEATURE) /\ recipient(q) = "device"
           /\ q.wValue = FEATURE_REMOTE_WAKEUP)

newRemoteWake(q, wake) ==
  IF recipient(q) = "device" /\ q.wValue = FEATURE_REMOTE_WAKEUP
    THEN \/ Standard(q, REQ_SET_FEATURE)
         \/ wake /\ ~Standard(q, REQ_CLEAR_FEATURE)
    ELSE wake

(* openusb_set_endpoint_stall or openusb_clear_endpoint_stall follows. *)
setsStall(q)   == Standard(q, REQ_SET_FEATURE) /\ endpointFeature(q)
clearsStall(q) == Standard(q, REQ_CLEAR_FEATURE) /\ endpointFeature(q)

newLineCoding(q, data, line) ==
  IF Class(q, CDC_SET_LINE_CODING) THEN SubSeq(data, 1, Len(line)) ELSE line

(* The data of an answer: at most what was asked for, but the line coding  *)
(* and the status whole.                                                   *)
bit(b) == IF b THEN 1 ELSE 0
byteOf(n) == <<"0", "1", "2", "3">>[n + 1]

usb_is_bus_powered == TRUE      \* bit 7 of CONF_ATTRIBUTES

reply(q, configured, wake, stalled, line) ==
  CASE Standard(q, REQ_GET_STATUS) /\ recipient(q) = "device" ->
         <<byteOf(bit(~usb_is_bus_powered) + 2 * bit(wake)), "0">>
    [] Standard(q, REQ_GET_STATUS) /\ recipient(q) = "interface" -> <<"0", "0">>
    [] Standard(q, REQ_GET_STATUS) /\ recipient(q) = "endpoint" ->
         <<byteOf(bit(endpointOf(q) \in stalled)), "0">>
    [] Standard(q, REQ_GET_DESCRIPTOR) ->
         LET desc == Descriptor[descriptorOf(q)]
         IN  SubSeq(desc, 1, MIN(Len(desc), q.wLength))
    [] Standard(q, REQ_GET_CONFIGURATION) -> <<byteOf(configured)>>
    [] Class(q, CDC_GET_LINE_CODING) -> line

(* usb_process_setup: a request without a data stage from the host is      *)
(* answered at once, others when their data has come if it can fit.        *)
answeredAtOnce(q) == dirIn(q) \/ q.wLength = 0
dataExpected(q)   == ~answeredAtOnce(q) /\ q.wLength <= MAXDATA
=============================================================================
