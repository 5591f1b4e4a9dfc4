------------------------------ MODULE MCUsbStream ------------------------------
EXTENDS UsbStream

CONSTANTS a, b, x      \* bytes of data; x is what is on idle lines

MCPayload == {a, b, x}
MCNoByte  == [pid |-> "none", dev |-> 0, ep_lo |-> 0, ep_hi |-> 0, data |-> x, good |-> TRUE]

WithEmpty == << <<a>>, <<b, a>>, << >> >>
Full      == << <<a>>, <<b, a>>, <<b>> >>

OtherEndpoint == {Transaction("IN", 0, 1 - SEP, "DATA0", << >>)}
OtherDevice == {Transaction("IN", 1, SEP, "DATA0", << >>),
                Transaction("OUT", 1, SEP, "DATA0", <<x>>)}

Quietly(dir, packets) ==
  [stream |-> dir, packets |-> packets, noise |-> {}, impatient |-> FALSE,
   faults |-> {}, ready |-> {TRUE}]

Streams ==
  [out   |-> [Quietly("OUT", WithEmpty) EXCEPT !.noise = OtherEndpoint \cup OtherDevice],
   lossy |-> [Quietly("OUT", Full) EXCEPT !.noise = OtherEndpoint,
                                          !.faults = {"ackLost", "dataLost"}],
   in    |-> [Quietly("IN", Full) EXCEPT !.noise = OtherEndpoint \cup OtherDevice,
                                         !.ready = BOOLEAN]]
Limits ==
  [long      |-> [Quietly("OUT", Full) EXCEPT !.noise = OtherEndpoint, !.faults = {"dataBad"}],
   impatient |-> [Quietly("IN", Full) EXCEPT !.impatient = TRUE, !.faults = {"inBad"}]]
Repeat  == [out |-> [Quietly("OUT", WithEmpty) EXCEPT !.faults = {"ackLost"}]]
Damaged == [out |-> [Quietly("OUT", WithEmpty) EXCEPT !.faults = {"dataBad"}]]
=============================================================================
