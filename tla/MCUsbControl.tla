------------------------------ MODULE MCUsbControl ------------------------------
EXTENDS UsbControl

Setup(type, req, value, index, length, data) ==
  [bmRequestType |-> type, bRequest |-> req, wValue |-> value, wIndex |-> index,
   wLength |-> length, data |-> data]
Get(type, req, value, index, length) == Setup(128 + type, req, value, index, length, << >>)
Set(type, req, value, index)         == Setup(type, req, value, index, 0, << >>)

(* The configuration descriptor is a packet and a part of one; it does not *)
(* fill its packets, and is shorter than what the host asks for.           *)
MCDescriptor == [device |-> <<"a", "b">>, config |-> <<"b", "a", "b">>,
                 lang |-> <<"a">>, man |-> <<"a">>, prod |-> <<"b">>, serial |-> <<"b">>]

One  == [conf1 |-> Set(0, REQ_SET_CONFIGURATION, 1, 0)]
Enumeration ==
  [config  |-> Get(0, REQ_GET_DESCRIPTOR, 512, 0, 4),
   getconf |-> Get(0, REQ_GET_CONFIGURATION, 0, 0, 1),
   conf1   |-> One.conf1,
   addr1   |-> Set(0, REQ_SET_ADDRESS, 1, 0),
   bad     |-> Set(0, REQ_GET_INTERFACE, 0, 0),
   toolong |-> Setup(33, CDC_SET_LINE_CODING, 0, 0, 3, <<"a", "b", "a">>)]
LineCoding ==
  [addr1   |-> Enumeration.addr1,
   line    |-> Setup(33, CDC_SET_LINE_CODING, 0, 0, 2, <<"a", "b">>),
   getline |-> Get(33, CDC_GET_LINE_CODING, 0, 0, 2)]

Calm  == [calm  |-> [faults |-> {}, ready |-> {TRUE}]]
Lossy == [lossy |-> [faults |-> {"dataLost"}, ready |-> {TRUE}]]

MCPayload == {"a", "b", "x", "0", "1", "2", "3"} \cup DOMAIN Request
MCLine0   == <<"x", "x">>
MCData0   == <<"x", "x">>
MCBuffer0 == <<"x">>
MCNoByte  == [pid |-> "none", dev |-> 0, ep_lo |-> 0, ep_hi |-> 0, data |-> "x", good |-> TRUE]
=============================================================================
