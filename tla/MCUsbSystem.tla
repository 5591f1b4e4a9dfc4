---------------------------- MODULE MCUsbSystem ----------------------------
EXTENDS UsbSystem, TLC

Setup(type, req, value, index, length, data) ==
  [bmRequestType |-> type, bRequest |-> req, wValue |-> value, wIndex |-> index,
   wLength |-> length, data |-> data]
Get(type, req, value, index, length) == Setup(128 + type, req, value, index, length, << >>)
Set(type, req, value, index)         == Setup(type, req, value, index, 0, << >>)

MCDescriptor == [device |-> <<"a", "b">>, config |-> <<"b", "a", "b", "a">>,
                 lang |-> <<"a">>, man |-> <<"a">>, prod |-> <<"b">>, serial |-> <<"b">>]

(* Eight equal bytes: most make a request that is stalled. *)
MCStale == "eights"
Eights  == [eights |-> Get(0, 128, 32896, 32896, 32896)]

Requests ==
  Eights @@
  [config   |-> Get(0, REQ_GET_DESCRIPTOR, 512, 0, 5),
   nostring |-> Get(0, REQ_GET_DESCRIPTOR, 772, 0, 4),
   addr1    |-> Set(0, REQ_SET_ADDRESS, 1, 0),
   conf1    |-> Set(0, REQ_SET_CONFIGURATION, 1, 0),
   conf0    |-> Set(0, REQ_SET_CONFIGURATION, 0, 0),
   getconf  |-> Get(0, REQ_GET_CONFIGURATION, 0, 0, 1),
   status   |-> Get(0, REQ_GET_STATUS, 0, 0, 2),
   epstatus |-> Get(2, REQ_GET_STATUS, 0, 1, 2),
   wake     |-> Set(0, REQ_SET_FEATURE, 1, 0),
   nowake   |-> Set(0, REQ_CLEAR_FEATURE, 1, 0),
   halt     |-> Set(2, REQ_SET_FEATURE, 0, 129),
   resume   |-> Set(2, REQ_CLEAR_FEATURE, 0, 1),
   setif    |-> Set(1, REQ_SET_INTERFACE, 0, 0),
   line     |-> Setup(33, CDC_SET_LINE_CODING, 0, 0, 4, <<"a", "b", "a", "b">>),
   getline  |-> Get(33, CDC_GET_LINE_CODING, 0, 0, 4)]

Pings == <<<<"a">>, <<"b", "a">>, <<"b">>>>
Does(requests, echo, resets, hasty, slow) ==
  [requests |-> requests, echo |-> echo, resets |-> resets, hasty |-> hasty, slow |-> slow]

Calm  == [device |-> Does({"config", "addr1", "conf1", "conf0", "getconf", "status", "wake",
                           "nowake", "nostring"}, << >>, 2, "never", FALSE),
          class  |-> Does({"config", "addr1", "epstatus", "halt", "resume", "setif", "line",
                           "getline"}, << >>, 2, "never", FALSE),
          echo   |-> Does({"config", "addr1", "conf1"}, Pings, 0, "never", FALSE),
          slow   |-> Does({"addr1"}, Pings, 0, "never", TRUE)]
Hasty == [echo  |-> Does({"addr1"}, Pings, 0, "always", FALSE)]
Reset == [reset |-> Does({"addr1"}, << >>, 1, "resets", FALSE)]

MCPayload == {"a", "b", "x", "0", "1", "2", "3"} \cup DOMAIN Requests
MCLine0   == <<"x", "x", "x", "x">>
MCData0   == <<"x", "x", "x", "x">>
MCBuffer0 == <<"x", "x">>
=============================================================================
