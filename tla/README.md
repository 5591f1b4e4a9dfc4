# Open USB 2.0 device controller: TLA+ models, checks and proofs

This directory is a verification development of the repository
Open-USB2.0-Device-Controller: a USB 2.0 device controller in Verilog
(`Hardware/`), a C library that drives it (`Software/openusb_lib/`), and a
CDC test program (`Software/cdc_test/main.c`).  The modules are translated from
the Verilog and the C code; `PROJECT.json` names the lines each definition
models.  Paths below are relative to `src/`.

## 1. The system

### 1.1 Components

| component | state | operations | what makes it correct |
|---|---|---|---|
| endpoint FIFO `usbf_fifo.v`, `usbf_mem.v` | `ram`, `rd_ptr`, `wr_ptr`, `count` | push, pop, flush, in one clock edge | it is a bounded queue |
| SIE receiver `usbf_sie_rx.v` | a delay line of four bytes, a state machine, the last token, handshake, data output | one byte of the PHY | tokens for this device and nothing else reach the core; a data packet is judged by its CRC16 |
| SIE transmitter `usbf_sie_tx.v` | state machine, CRC, request type | packet id, bytes, CRC16 | whole packets, no byte lost while the PHY waits |
| endpoint unit `usbf_sie_ep.v`, `usbf_epu.v` | per endpoint: `rx_ready`, `rx_len`, `rx_err`, `rx_setup`; `tx_active`, `tx_zlp`, `tx_len`, `tx_err` | take a byte, accept, start, give a byte, flush | the registers say what is in the FIFO; one packet at a time |
| protocol core `usbf_core.v` | protocol state, response, data toggles, device address, direction of the control transfer, reset counter | token, data, handshake, bus reset | every packet exactly once; the right handshake; one address at a time |
| register file `usbf_csr.v` | configuration, address, interrupt enables and latches | register writes and reads, events | no event is lost; a status is that of its endpoint |
| clock crossing `usbf_sync*.v` | toggles and shift registers | pulses, handshakes | every pulse crosses once |
| ULPI wrapper `usbf_ulpi_wrapper.v` | ULPI state machine, command registers | UTMI to ULPI and back | no byte lost when the direction turns |
| bus interface `usbf_biu.v` | AHB or ICB slave state | one access | it answers every access once |
| CRC16 `usbf_crc16.v` | none | a combinational step | it is the USB polynomial |
| endpoint functions `openusb_common.c` | `_endpoint_stalled`, callbacks | receive, transmit, stall, set address, service | no packet lost or repeated, no endless wait |
| control transfers `openusb_device.c`, `openusb_cdc.c`, `openusb_desc_cdc.c` | `_ctrl_xfer`, `_line_coding`, `_configured` | SETUP, OUT data, answers, status | a transfer that succeeds has done what was asked |
| test program `main.c` | flags and buffers of the echo | interrupt handler, main loop | every packet of endpoint 1 is echoed on endpoint 2 |

### 1.2 How they interact

The receiver and the transmitter stand between the PHY and the core; the core
asks the endpoint unit about the endpoint of the last token (is there room, is
there a packet, is this its last byte) and moves one byte per clock between the
SIE and a FIFO.  The processor works on the same registers and FIFOs from the
other side, through the register file: it polls or takes an interrupt, reads a
packet byte by byte, *accepts* it (which frees the buffer), or writes a packet
byte by byte and *starts* it.  Host, device and processor are three actors that
run at their own pace; all the hard behaviour is in how they overlap:

* the host repeats what was not acknowledged; the data toggle must tell a
  repetition from a new packet;
* a packet id is chosen, a byte is enabled, a latch is set one clock after the
  state they depend on, so that the state may have moved on;
* the firmware reads a status and acts on it later, while host and device go on;
* the firmware waits in loops inside its interrupt handler;
* other devices' packets pass by on the same bus and go through the receiver.

`PROJECT.json` lists these hazards with their lines.  The note of a hazard
says which part of it, or that all of it, the runs do not meet, and what keeps them from it.

## 2. The modules

```
UsbQueue <--implements-- UsbfFifo        (UsbfFifoProofs)
UsbSnapshot <--implements-- UsbfBusSync  (UsbfBusSyncProofs)

UsbfClocks  UsbfPulseSync  UsbfBusSync      the two clocks and what crosses them
        \________|______________/           (UsbfPulseSyncProofs, UsbfBusSyncProofs)
        UsbfEvents                          interrupts and status      (UsbfEventsProofs)
        UsbfCrossing                        accesses of the processor  (UsbfCrossingProofs)

UsbfSieRx UsbfSieTx UsbfCore UsbfEpu UsbfCsr
     \________\_______|_______/______/
          UsbDevice                         wiring, registers as the processor sees them
              |
            UsbBus                          one host on a bus with faults
           /      \
    UsbStream      UsbControl               streams; control transfers, clock by clock
UsbDelivery <-implements   |  \
                       UsbHost  UsbFirmware    requests of a host; the whole C program
                           |  /
    UsbTransactions -- UsbSystem            the same device, transaction by transaction
                           |                (UsbSystemProofs <- UsbTransferProofs <- UsbEchoProofs)
                       implements --> UsbFunction

UsbRegs (registers as C sees them), UsbRequest (requests and their answers): shared
MCUsbStream, MCUsbControl, MCUsbSystem: bounds for TLC
```

**Hardware modules** (`UsbfFifo`, `UsbfSieRx`, `UsbfSieTx`, `UsbfEpu`,
`UsbfCore`, `UsbfCsr`).  Each has the registers of its Verilog file as VARIABLES,
under their own names, and its input pins too.  `Clock` is one rising edge: one
conjunct per register or group of registers, each primed variable given by the
old values, exactly as non-blocking assignments are.  Output wires are
operators named after the Verilog wire (`rx_space_o`, `address_match_w`...).
`UsbDevice` puts the outputs of one in place of the pins of another, as
`usbf_device.v` does, and uses `UsbQueue` for the FIFOs.

A byte on the wire is a record: packet id, token address and endpoint (whose
number lies across two bytes, as on the wire), data, or CRC byte; which of these
it is depends on where the receiver is, as in the code.  The CRC16 is right or
wrong on reception, and on transmission the sequence of the bytes it covers, so
that a CRC over the wrong bytes is seen.  The content of a start of frame and
the ids DATA2 and MDATA, which the core treats as the receiver does DATA0 and
DATA1, are left out.

**Clock crossing.** `UsbfPulseSync` and `UsbfBusSync` are the two synchronisers;
a step is a rising edge of either clock or of both, and when both rise a
flip-flop that takes a changing bit of the other clock takes the old or the new
value (several bits that change at once: anything).  `UsbfEvents` sends an event
through the one and the status it announces through the other.  `UsbfCrossing`
is one access of the processor after the other: the AHB slave, the bits of the
control registers that are set for one clock, the data requests and their
answers, and TX_BUSY on its way back.  The device modules above have one clock;
what the crossing adds to them is delay, which the steps of the processor
already leave open, and the hazards that these two modules check.

**UsbBus** is the other end of the bus, clock by clock: token, data packet,
answer or timeout.  `Faults` says what it may do: lose or damage the host's data,
lose the device's handshake, damage the device's data, lose the host's
handshake.  **UsbTransactions** is the same device with a transaction as one
step, for the runs in which the program is the point: it keeps the registers of
core, endpoints and register file, and leaves out the bytes on the wire.

**UsbFirmware** is the whole C program, two threads of control with one action
per register access, since those are where hardware and program meet:

| code | actions |
|---|---|
| `main`, start-up | MainWrites, MainEnables |
| `process_reset` | MainReset, MainWrites |
| the loop with the echo | MainEcho, MainForgets |
| `openusb_tx_data(2, ...)` in it | MainCalls, MainPolls, MainGivesUp, MainTxByte, MainTxStart |
| `my_usb_intr` | FwInterrupt, FwClear, FwStat |
| its part for endpoint 1 | FwEp1Count, FwEp1Read, FwEp1Accept |
| `openusb_service` | FwIntsts, FwReset, FwService |
| `openusb_get_rx_data` | FwCount, FwRead |
| `usb_process_setup`, `usb_process_out`, the requests | FwSetup, FwOut |
| `openusb_control_endpoint_stall`, set and clear of a stall | FwStall, FwHalt |
| `openusb_set_address` | FwAddress |
| `openusb_control_endpoint_send_status` | FwStatus, FwStatusSpin |
| `usb_control_send` | FwMask, FwSendSpin, FwSendAck, FwSendAccept, FwUnmask |
| `openusb_tx_data` in it | FwSendPoll, FwSendGivesUp, FwSendWrite, FwSendStart |

The registers it reads are its parameters, so that `UsbControl` joins it to the
device clock by clock and `UsbSystem` transaction by transaction, both with the
host of `UsbHost`.  What the requests mean (`UsbRequest`) is translated from
`openusb_device.c` and `openusb_cdc.c`: decoding, the answer, what is changed,
whether it is stalled.

**Abstract specifications.** `UsbQueue`: a bounded queue with a flush.
`UsbDelivery`: each packet is taken once, and the sender goes on only after
that.  `UsbSnapshot`: values are handed over whole, in order.  `UsbFunction`: the
device is a function that requests read and write, each at one moment; of a
request that failed nobody knows whether it was carried out.

**Definitions called `Bug_...`** are not part of the model.  Each is the
definition after it with a plausible mistake (a dropped guard, a missing reset,
an off-by-one); putting it in the place of that definition makes one of the
properties fail, and `PROJECT.json` lists which.

## 3. What TLC checks

| run | what is in it | properties |
|---|---|---|
| `fifo_queue` | any push, pop, flush, but a flush alone | TypeOK, PointersAgree, IsAQueue |
| `stream_handshakes` | an OUT stream with an empty packet and traffic for other endpoints and devices; one with lost handshakes and lost data; an IN stream with a PHY that makes the device wait | SpeaksWhenAsked, SendsWholePackets, OutInOrder, InInOrder, ToggleTracksStream, DeliveredOnce, StreamProceeds |
| `stream_limits` | packets longer than the FIFO, damaged data; `openusb_tx_data` running out of retries at any moment, damaged IN data | TypeOK, CountIsContents, TogglesAgree |
| `control_patient` | requests of every shape, the program clock by clock, a host that waits for it | TypeOK, DoneMeansDone, TransfersEnd |
| `control_impatient` | a host that does not wait, on a bus that loses data; OUT data, SET_ADDRESS | FlagTellsSetup, DoneMeansDone, AddressAgreed |
| `system_calm` | the whole program from its start: enumeration, features, class requests, bus resets wherever the program waits, packets to be echoed | TypeOK, MemoryAgrees, AddressAgreed, Recovers, ReadsWhatCame, EchoFaithful, EchoIsUnderWay, ImplementsFunction, EchoComes |
| `events_cross` | events of one and three clocks, the status they announce, two clocks | OneChange, StatusIsThere, EventsCross, EventIsTold, ImplementsSnapshot |
| `crossing_slow` | accesses of the processor through AHB and the synchronisers | DataIsDone, ReadsHead, FreeIsFree, DoneInOrder, AccessEnds |
| `stream_rx_err`, `control_ready`, `control_spin`, `system_reset` | see section 4 | each finds one property violated |

What they show:

* **SpeaksWhenAsked**: the device drives the bus only while a host waits for an
  answer from this address, whatever passes by on the bus.
* **OutInOrder / InInOrder**: the processor reads, and the host receives, the
  packets of the stream in order, none lost, none twice, none mixed.
* **DeliveredOnce, ToggleTracksStream, TogglesAgree**: host and device toggles
  differ exactly while the device holds a packet whose acknowledgement the host
  has not heard, so the OUT direction implements `UsbDelivery`.
* **CountIsContents**: `RX_COUNT` is what can be read, or `RX_ERR` is set.
* **SendsWholePackets**: what the device sends is a packet id and, with data,
  the CRC of exactly the bytes sent, with the PHY pausing anywhere.
* **DoneMeansDone**: when the host has seen a transfer through and the program is
  back from its handler, the answer was the one asked for, or the address,
  configuration, stall or line coding is the one that was set.
* **FlagTellsSetup**: what the program takes for a SETUP is one, and what it takes
  for data is not.
* **AddressAgreed**: when the host may begin a transaction, it and the device mean
  the same address, although the write of the register, the status packet and
  the update are three moments, and although `USB_FUNC_ADDR` survives a reset.
* **ImplementsFunction**: what the host reads back is what it has written, across
  bus resets; the control transfers implement `UsbFunction`.  **MemoryAgrees**:
  back in its loop the program remembers nothing else.
* **Recovers**: a bus reset wherever the program waits costs the host at most one
  request.  **ReadsWhatCame**: what a reset has flushed is not read.
* **EchoFaithful, EchoIsUnderWay, EchoComes**: what endpoint 1 took comes back from
  endpoint 2, unchanged, and at no moment is it nowhere: it is in the endpoint,
  in the buffer of the program or in the other endpoint.
* **EventsCross, EventIsTold**: the register file is told of each event before the
  next one, and never of one that was not.  **OneChange, ImplementsSnapshot**: the
  status crosses whole and in order.  **StatusIsThere**: `LATE` clocks after the
  interrupt the handler finds its reason in the status.
* **DoneInOrder**: the endpoint is told each thing once and in order, and the
  length and the byte, which cross without a synchroniser (usbf_sync.v:218, 284),
  are those of the access when they are taken and do not change then.
  **DataIsDone, ReadsHead**: an access to the FIFO ends after it was done and gives
  the byte that was first.  **FreeIsFree**: what reads as not busy is not, and no
  start is on its way.
* **StreamProceeds, TransfersEnd, AccessEnds**: the actors never wait for each
  other for good.

### 3.1 The bounds, and why they are enough

* *Packets.* Stream and control runs: FIFOs of 4 bytes (1 in `stream_limits`),
  packets of 0 to 2 bytes (`EP0_MAX_PACKET_SIZE` and `MAX_CTRL_DATA_LENGTH` 2
  instead of 64), one or two endpoints, two device addresses.  System runs:
  endpoints 0 to 2, packets of at most 3, OUT data of at most 4, FIFOs of 4.
  There are one-byte, full and empty packets and answers of several packets; the
  code distinguishes "last byte" and "full packet", nothing else.  Sequence
  numbers run modulo three and the toggle has period two, so a lost or repeated
  packet changes the order that is seen.
* *Requests.* A SETUP is one byte that names a request; the records in `MCUsb...`
  give its fields.  `eights` is what the program decodes from an empty FIFO,
  whose output holds its last byte (`Stale`): eight equal bytes, which are stalled.
* *Resets and pings.* Two bus resets and three packets to be echoed: a reset, what
  it leaves behind, and a second one that meets that.  Otherwise hosts and
  programs run forever.
* *Gaps = {5}.* The delay line of the receiver is four clocks long and is flushed at
  the end of a packet.  At full speed a byte comes every 40 clocks of the 60 MHz PHY
  (README.md:17-18 gives full speed as what has been tried).
* *IPG = 8, TIMEOUT = 14.* Longer than the delay line plus the few clocks the core
  takes to answer, so a device that answers is heard.
* *LEN_W = 3, RESET_CNT_W = 3.* Enough for these packets; in the runs clock by clock
  nobody resets the bus, in `UsbSystem` a reset is one step.
* *HMAX, PMIN, PMAX.* How many edges of one clock there may be between two of the
  other: in `events_cross` hclk is anything between twice as fast and six times as
  slow as phy_clk, in `crossing_slow` between as fast and three times as slow.
* *GAP = 24, LATE = 12, IDLE = 10.*  How far apart events and accesses must be depends
  on the pace of the clocks; section 5 proves it for every pace.  Let `Round` be what
  three edges of phy_clk take in clocks of hclk: 3 if `PMIN > 0`, else `3 * (HMAX + 1)`.
  EventsCross needs `GAP > 3 * PMAX` (18 in the run), StatusIsThere `LATE >= Round + 3`
  (12), FreeIsFree `IDLE >= 2 * Round + 4` (10); TLC finds a counterexample one below each
  of them.  DoneInOrder is proved from `IDLE >= Round - 1`; TLC finds it true with one
  less and false with two less (with `HMAX = 1, PMIN = 0, PMAX = 3` a second write after 3
  clocks changes `tx_len` while the first start crosses).  A phy_clk that is always
  faster needs less: with `PMIN = 3, PMAX = 4` TLC finds 4 enough for LATE and 6 for IDLE.
  An interrupt handler saves more registers than LATE counts before it looks.
* *VIEW.* `crossing_slow` identifies states that differ only in the level from which
  a toggle starts: synchronisers and ring compare levels and never look at one.

### 3.2 Fairness

* `UsbStream`: `WF(Next)`, the PHY clock runs; `WF(CpuProceeds)`, the processor
  executes its program; `SF(HostReturns)`, a driver with a transfer pending returns
  to it between other traffic (that step is enabled only between transactions,
  hence strong).
* `UsbControl`: `WF(Next)`, `WF(Main)`, `WF(Handler)`, `SF(HostProceeds)`, likewise.
* `UsbSystem`: `WF(Main)` and `WF(Handler)`; `WF` of the host going on with a
  transaction or giving it up; `SF(HostPongs)`, it polls endpoint 2 again and again.
* `UsbfEvents`, `UsbfCrossing`: `WF(Next)`; with the bounds on the pace that means
  that both clocks run.

Nothing is assumed of the device: its clock is part of every step.  A deadlock is
looked for in every run and there is none.

### 3.3 What the runs take for granted

* The device is attached only after `openusb_init`; a host before it has given an
  address asks for descriptors and SET_ADDRESS.
* "Patient" and "calm" hosts act only when the program waits for them (`waiting`);
  in `system_calm` a reset comes only then, and is one event each time.
  `control_impatient` and the runs of section 4 have hosts that do not wait.
* A transaction of `UsbTransactions` is one step, and nothing is lost on that bus;
  losses are in the runs clock by clock.
* The master of the AHB keeps `hsel` while an access lasts (`enable_o = hsel_i`,
  usbf_biu.v:131) and leaves `IDLE` clocks between two.  A write that sets two bits at
  once (flush and start) is not among the accesses of `UsbfCrossing`.
* `usb_cdc_init` is never called, so the line coding starts as `Line0`.  The frame
  number, counters for debugging and variables nobody reads are left out.

## 4. Where the code and its documentation disagree

Four runs end in a counterexample, on purpose; each checks one sentence of the
repository.

* `stream_rx_err` (usbf_sie_ep.v:91).  `RX_ERR` is documented as "CRC mismatch or
  buffer overflow" (README.md:109).  It is never set for a CRC mismatch, which is
  known only after the clock in which the register looks, and the damaged packet is
  passed on as good.
* `control_ready` (main.c:73).  The handler clears the interrupts it read at its
  start; a packet that came in between lies in the buffer with no interrupt.
* `control_spin` (openusb_common.c:319).  `openusb_has_tx_space` returns its
  opposite, so `openusb_control_endpoint_send_status` waits until the packet it has
  just started *is* waiting, and forever if the host was quicker.
* `system_reset` (openusb_common.c:390).  A bus reset that finds a SETUP in endpoint
  0 flushes its bytes and leaves RX_READY, RX_COUNT and RX_SETUP; the program then
  decodes a request from an empty FIFO.  If that is a GET_STATUS, it waits for an
  acknowledgement in its handler, takes the host's next SETUP for it, and never
  accepts endpoint 0 again.

Other disagreements were found on the way.  Their properties are stated in the
modules; to see the counterexample change the named configuration.

| property | change | what the code does |
|---|---|---|
| `FlushInvalidates` | `SPECIFICATION Spec` in `UsbfFifo_queue.cfg` | a push or a pop in the clock of a flush overtakes it: `count` and the pointer it moves are not reset (usbf_fifo.v:69-98), against "Invalidate Tx buffer" (README.md:92, 100) |
| `OutInOrder` | `Scenario <- Repeat` in `UsbStream_handshakes.cfg` | an empty packet that is repeated, because its acknowledgement was lost, is acknowledged and delivered again, against "Ack transfer to resync": `rx_enable_q` is one clock late (usbf_core.v:638) |
| `OutInOrder` | scenario `lossy` with the noise of `OtherDevice` | after a lost data packet the core waits in RX_DATA and takes the next data packet on the bus, another device's (usbf_core.v:404) |
| `StsIsOwn` | `SEP = 1` in `UsbStream_handshakes.cfg` | the flags in `USB_EPi_STS` are those of endpoint 0 for every i (usbf_csr.v:649): vectors over all endpoints are assigned to one-bit fields |
| `InInOrder` | scenario `in` with `WithEmpty` | `openusb_tx_data` waits for room only inside its loop over the bytes, so an empty packet replaces the one before it (openusb_common.c:180) |
| `InInOrder` | scenario `in` with the fault `inBad` | the buffer of an IN packet is freed when its last byte is sent; a packet the host did not get cannot be sent again (usbf_sie_ep.v:128) |
| `StartTransmits` (PROPERTY) | in `UsbStream_limits.cfg` | after a timeout the flush bit is still set in the write that starts the packet, and the flush wins (openusb_common.c:189, 201; usbf_sie_ep.v:124) |
| `FlagTellsSetup` | `Scenario <- Calm`, `Request <- Enumeration` in `UsbControl_impatient.cfg` | a SETUP token marks the buffer of endpoint 0 as a SETUP even when it holds the data of a transfer that was stalled (usbf_core.v:654) |
| `StatusIsData1` | `Request <- LineCoding` in `UsbControl_patient.cfg` | after a data stage of one OUT packet the status packet is DATA0 if the program is ready before the first IN token (usbf_core.v:697, 710); a host takes it for a repetition.  The system runs use a line coding of two packets |
| `EchoIsUnderWay` | `Scenario <- Hasty` in `UsbSystem_reset.cfg` | `main` clears `ep1_rx_suc` and `ep1_rx_len` after the echo has been started, and with them what the handler has set for the next packet (main.c:138) |
| `EchoComes` | without `now.slow`, scenario `slow` | endpoint 2 is taken for busy because endpoint 0 is; after 1000 polls the packet is flushed by the write that starts it |
| `AddressAgreed` | `hasty = "resets"` with the request `line` | a status packet left over from before the reset restores the old address (openusb_common.c:371) |
| `Recovers` | SET_DESCRIPTOR among the requests | it is answered neither with a status nor with a stall (openusb_device.c:373) |
| `ImplementsFunction` | `Descriptor` of the configuration with 10 bytes, for a host that reads it and the device descriptor, and one reset | a reset comes while the second of four packets waits in endpoint 0; `openusb_tx_data` gives up, the next packet is flushed by the write that starts it, the host's next SETUP ends the wait for that one, and the third packet goes out as the answer to the new request (openusb_common.c:189, 201, openusb_device.c:81) |
| `FreeIsFree` | `IDLE = 9` in `UsbfCrossing_slow.cfg` | a start takes three edges of phy_clk to reach the endpoint, and TX_BUSY a round of the ring to come back (usbf_sync.v:222), against "Transmit busy (active)" (README.md:108): `openusb_tx_data`, called again soon, writes into a FIFO that is being sent |
| `EventsCross`, `EventIsTold` | `WIDTH = {2}` or `WIDTH = {8}` in `UsbfEvents_cross.cfg` | a level goes through a synchroniser for pulses, and an even number of clocks leaves no change: rx_ready of an empty packet is set for two clocks (usbf_core.v:795), the reset for as long as it lasts (789), against "USB Reset Detected" (README.md:56).  With hclk in step with every fourth clock of phy_clk such an event never arrives |

CLEAR_FEATURE(ENDPOINT_HALT) is answered with success, but no register ends a
stall of endpoints 1 to 3 (usbf_csr.v:372).  An interrupt of endpoint 1 may come
for a packet that the handler has already accepted (usbf_core.v:795); it reads a
length of zero then, which the echo ignores.

## 5. What is proved

TLAPS proves, for every value of the constants:

**UsbfFifoProofs**, for every `ADDR_W` with `DEPTH = 2^ADDR_W` and any set of bytes
(`FifoAssumption`): `FifoTypeOK`, `Spec => []TypeOK`, with a flush in any clock;
`FifoPointersAgree`, `CarefulSpec => []PointersAgree`; `FifoImplementsQueue`,
`CarefulSpec => Queue!Spec`, under the mapping `contents`, the `count` slots from
`rd_ptr` on.  `CarefulSpec` adds that no flush meets a push or a pop, which
`FlushInvalidates` shows to be necessary.  The invariant is `FifoInv`: the types,
`PointersAgree` (`wr_ptr` is `count` slots after `rd_ptr`) and `FlushAlone`.
Without `PointersAgree` a push would write into a slot that is not the one after
the last byte.  There is one case per combination of push, pop and flush; the
arithmetic of pointers modulo `DEPTH` is in lemmas of its own.

**UsbfBusSyncProofs**, for any set of values and any interleaving of the two
clocks, also when both rise at once and the destination samples a bus in the
moment it changes: `BusTypeOK`, `BusOneChange`, and `BusImplementsSnapshot`,
`BusSpec => ImplementsSnapshot`.  The invariant is `BusInv`, the types and
`OneChange`: around the ring of six flip-flops at most one neighbour differs.
It is what makes the refinement go through: the source may load only when nothing
is on its way and the destination reads only when a request is, so that never both
act (`OneEndActs`), and the bus does not change when it is read.  The lemma
`RingIsBits` turns the quantifier over the ring into its five cases.

The clock crossings need more than order: they are right because what crosses has
arrived before the next thing is sent, and that depends on the pace of two clocks.
**UsbfPulseSyncProofs** and the second part of **UsbfBusSyncProofs** hold the lemmas: what an edge does to
one synchroniser of pulses (`SrcMoves`, `DstMoves`, `BothMove`), and how many edges of
hclk the ring of `bus_sync` takes (`ToCome`), which every edge of hclk reduces and no
other increases (`RingHclk`, `RingPhy`, `RingBoth`).

**UsbfEventsProofs**, for every `HMAX`, `PMIN`, `PMAX`, every set of widths and of data.
`EventsOneChange` and `EventsImplementSnapshot` follow from `UsbfBusSyncProofs`, because
every step of `UsbfEvents` is one of `UsbfBusSync` (`EventsImplementBus`).
`EventsDoCross`, `Spec => EventsCross`, has two hypotheses: `SpacedOut`,
`GAP > 3 * PMAX`, and `OddWidths`, without which it is false (section 4): it says nothing of
rx_ready of an empty packet or of a reset that lasts an even number of clocks.
`EventsCross` is not inductive; `EventsInv` adds how long a flip-flop of the synchroniser
may still differ after the last change (`Ages`), and that the level changes to be made,
those under way and those told are together no more than the width (`Counted`).
`EventsStatusIsThere`, `Spec => []StatusIsThere`, assumes `SpacedOut` and `LATE >= Round + 3`.
Event and status cross side by side through different synchronisers; `StatusInv` weighs one
against the other: the edges since the event began (`Age`), and those its status
needs (`ToCome`), are together no more than `Bound`.

**UsbfCrossingProofs**, for any bytes and lengths: `CrossingDoneInOrder`,
`CrossingDataIsDone`, `CrossingReadsHead`, if `IDLE + 1 >= Round`.  `CrossingInv` says
which stage an access is in (`Stages`: at rest, asked, written, latched, strobing,
requested, answered, ending) and what goes with it: which one synchroniser is not quiet, where
the length or byte of the access is, whether it still is to be done.  A start, an
accept and a flush leave after their access has ended; the stage `Strobing` therefore
bounds the clocks they can still take by those the processor leaves the bus
alone.  There is one lemma per stage, for each of the edges.  `CrossingFreeIsFree` assumes
`IDLE >= 2 * Round + 4`: `FreeInv` holds the age of the last start and the way TX_BUSY
still has, together, under a bound, with the lemmas of `UsbfBusSyncProofs`.

The hypotheses about `GAP`, `LATE` and `IDLE` are about the pace of the program against the
clocks: the code does not enforce them, and the counterexamples below them are real.

The program and the device together, in `UsbSystem`, for any set of endpoints, any
requests and scenarios of a host, any payloads, and any `DEPTH`, `MAXP`, `MAXDATA`
and buffer lengths.  The assumptions on these constants say that they have their
types (`SystemAssumption`), that endpoint 2 exists if endpoint 1 does, that the wLength of
an OUT request is the length of its data (`HostAssumption`), that the addresses and
endpoints which requests name exist, and that a line coding fits `data_buffer`
(`ProgramAssumption`).  They hold
for the descriptors and buffers of the code, and TLC evaluates them in both system runs.

**UsbSystemProofs**: `SystemTypeOK`, `Spec => []TypeOK`, against every host, hasty
or patient.  Its substance are the limits: `data_idx` and the copy into `data_buffer`
stay within 64 bytes, the echo within `rx_packet_buf`, endpoint 0 is never started with
more than `MAXP`.  They follow from tests made some steps earlier, so the
invariant `SystemInv` says what holds at each place: while `setupRead` or
`outRead` copies, how much room is left; while a packet is sent, that it is part of the
answer to the request decoded (`HandlerOK`); in `openusb_tx_data`, that `mcnt` is below
`mlen` (`MainOK`); that a data packet is awaited only where the host has one to send
(`HostOK`).  There is one lemma per access, per step of the host and of the handler.

Its second part is `PatientReadsWhatCame`, `Spec => [](Patient => ReadsWhatCame)`, with two
hypotheses.  `MAXP <= DEPTH`: both are 64 in the code (EP0_MAX_PACKET_SIZE, and the FIFOs
of usbf_device.v).  `Patient`: the host takes a step, a reset of the bus included, only while
the program waits; without it the property is false (run `system_reset`, and section 4).
What is in `PatientInv`, and why:
  * `FlushOK`: where endpoint 0 is flushed, no packet is in it.  A patient host
    sends nothing between a reset and the end of `openusb_reset`.
  * `EnabledOK`, `StartOK`, `WritesOK`: the interrupts are enabled after start-up, outside
    `openusb_tx_data`, so that a patient host finds the program served what came before.
  * `ServedOK`: the handler accepts or reads endpoint 0 only when it was told of a packet, and
    clears no other's interrupt.
  * `PacketOK`: what USB_EP0_STS counts is in the FIFO; while it is read, what
    is left to read is.
  * `TokenOK`: from a token to its data packet the program goes on waiting, so what was found
    at the token (room, stall) still holds at the data.

**UsbTransferProofs** takes a control transfer from its first token to its last.  If
`MAXP <= DEPTH` and the scenario is `Informed`:
`TransferAddressAgreed`, `Spec => [](Informed => AddressAgreed)`;
`TransferMemoryAgrees`, `Spec => [](Informed => MemoryAgrees)`;
`TransferRecovers`, `Spec => [](Informed /\ NoOnePacket => Recovers)`; and the refinement
`TransfersImplementFunction`, `Spec /\ Informed => ImplementsFunction`.  The endpoint
may be used for anything else at the same time, and the bus may be reset in any place where the
program waits, any number of times.

`Informed` is `Patient`, and requests that are all `Known`.  Each part of `Known` keeps out a
request for which the code does otherwise:
  * what is read is answered in one or two packets, and the host sees where the
    answer ends: it is as long as wLength or its last packet is short (no empty packet follows,
    openusb_device.c:69).  Three packets would be too many after a reset (section 4);
    the longest descriptor of the code has 67 bytes and its packets 64;
  * the halt of endpoint 0 itself, and its status, are not asked for: the program marks
    endpoint 0 as stalled whenever it refuses a request;
  * a request without data is answered, with a status or a stall (SET_DESCRIPTOR is not, :373);
  * what is written fits two packets, or is longer than `data_buffer` and refused; a line coding
    has its seven bytes (openusb_cdc.c:17).
All scenarios of `system_calm` are `Informed`, and the run is where the invariant was tried first.
`NoOnePacket`: nothing is written in a single packet, whose status has the wrong toggle
(`StatusIsData1`, section 4); the host gives such a request up.  The other three theorems
hold with such requests: it has been carried out then, and the host counts with it.

The invariant is `TransferInv`.  `Place` says where host, endpoint 0 and program are
together, in one of nineteen places: `AtRest`; `SetupTaken`; for what is read `Masking`,
`Waiting` (for the host to fetch a packet, with the next in hand), `Filling`, `Sent`, `Thanking`,
`Thanked`; for what is written `Collecting` and `Taking`; `Stating` and `Stated`, `Refusing` and
`Refused`; `Lost`, when the program knows nothing of the transfer; and after a reset
`Upset`, `Swallowing`, `Resetting`, `Flushing`.  Each place gives the parts of the data
that are with the host, in the endpoint, and in the program (`Part`), the toggles, and what
the program remembers against what the host knows (`Knows`, `WillDo`, `Did`, `WillReset`).
No smaller invariant would do: a status packet that is fetched says something about the memory
of the program only if it belongs to this request, and that a packet belongs to this
request follows from where everything else is.  The places after a reset are the heart of it: the
program goes on sending an answer that nobody wants any more, and takes the next SETUP for its
acknowledgement (`Swallowing`); the request is lost, which is the one that `Recovers` allows
(`Owed`).  `AskedOK` ties the host's counts to its requests, `ResetOK` the flag of the reset
to where the program is, `StartPlace` is for the start-up and its writes.
There is one lemma per step of the handler (`Serves`, `Counts`, `Reads`, `Setups`, `Outs`, `SendStarts`...),
of main and of the host (`SetupTransfers`, `CollectingTransfers`, `StatedTransfers`, `ResetTransfers`...).

The refinement maps `HostAsks` to `Ask`, the step in which the host learns that a transfer is done to
`Succeed`, one that ends in a stall or is given up to `Fail`, `HostResets` to `ResetBus`; all others
stutter (`FunctionNext`).  What is read is the answer of *one* of the functions the
device may be (`ThankingAnswer`): the one the program remembers, which `Place` shows to be among them.

**UsbEchoProofs**: `PatientEchoFaithful`, `Spec => [](Patient /\ Fitting => EchoFaithful)`:
what comes back from endpoint 2 is what went to endpoint 1, packet by packet, none lost before
another, repeated or mixed.  The host waits for each echo before it sends the next packet
(`HostPings`).  `Fitting` are the limits under which the code promises it:
no reset of the bus (which flushes the packet), and packets no longer than the FIFO and
`rx_packet_buf` (64 bytes each, main.c:22; the endpoint descriptor says 64).  The
invariant `EchoInv` says that the toggles of both endpoints have counted the packets, of which at most
one is under way (`Parity`), and in which place that one is (`Somewhere`): received in
endpoint 1, being read, held in `rx_packet_buf`, being written to endpoint 2, or there; or
that nothing is under way (`Nowhere`), or endpoint 1 is stalled for ever (`Stalled`).  In
each place it says which flags and interrupts may be set, for what breaks the echo is
a flag that outlives its packet: `main` clears `ep1_rx_suc` after the packet has gone,
and endpoint 1 is announced twice (section 4).  The theorem says nothing of a packet that does not come
back: openusb_tx_data gives up after 1000 polls and its flush drops the packet (`Nowhere`).

`EchoStaysUnderWay`, `Spec => [](Informed /\ Fitting /\ Prompt => EchoIsUnderWay)`: such a
packet is not lost if the host is `Prompt` as well, which is what it takes: the host fetches the
status of a transfer before openusb_tx_data, called from the loop, gives up; and its packets are
not empty, for `main` does not send an empty one back (main.c:130) and the host would
wait for ever.  The invariant is `Flowing`, one disjunct per place as in `Somewhere`, which adds
what keeps main and the handler from each other's packet: main is `Busy` with one only while the
handler is done with endpoint 0 (`Aside`) and endpoint 1 has not been announced again.  The
step that decides is the host's.  While main polls a busy endpoint, that is endpoint 0
(usbf_csr.v:649), and by `TransferInv` the only packet that can wait there is the empty
one of a status (`FlowWaits`, `KeepsWaiting`), so the host fetches it and nothing else comes in
between.  The theorem rests on `UsbTransferProofs` for this reason: whether an echo is
lost is decided by the transfers of endpoint 0.

Only model-checked:
  * `UsbBus` (`SpeaksWhenAsked`, `SendsWholePackets`), `UsbStream` and `UsbControl`, which
    have the device clock by clock: their invariants
    would need the place of every byte between host, SIE and FIFO in each clock;
  * everything that needs fairness (`StreamProceeds`, `TransfersEnd`, `EchoComes`,
    `EventIsTold`, `AccessEnds`).  Liveness, `ENABLED` and induction over
    recursive definitions are out of the prover's reach.

## 6. What is not modelled, and why

* *ULPI wrapper* (`usbf_ulpi_wrapper.v`): the runs drive the UTMI signals directly.
* *ICB slave* of `usbf_biu.v`: not built; `UsbfCrossing` has the AHB slave.
* *CRC16*: a combinational function, abstracted on both sides.
* *High speed chirp* and the PHY controls other than the one that attaches.
* *Synchronisers of stall, chirp, address, frame number, line state*: instances of
  the same modules; not composed with the device.
* *A wLength smaller than the answer, or a descriptor that fills its packets*: the
  program has no such descriptor, and hosts ask for the length these answers have.
* `usbf_dffs.v`, define files and the chip top have no behaviour of their own; the
  two other FIFO variants of `usbf_fifo.v` are not built; `openusb_scaledown_enable`
  and `openusb_ulpi_reset` write registers of the SoC and are never called.

## 7. Plan

| step | modules | state |
|---|---|---|
| 1 | UsbQueue, UsbfFifo, UsbfFifoProofs | done |
| 2 | UsbfSieRx, UsbfSieTx, UsbfEpu, UsbfCore, UsbfCsr, UsbDevice | done |
| 3 | UsbBus, UsbStream, UsbDelivery | done |
| 4 | UsbRequest, UsbHost, UsbFirmware, UsbControl | done |
| 5 | UsbTransactions, UsbSystem, UsbFunction: echo, resets, every request | done |
| 6 | UsbfPulseSync, UsbfBusSync, UsbSnapshot, UsbfEvents, UsbfCrossing, UsbfBusSyncProofs | done |
| 7 | UsbfPulseSyncProofs, UsbfEventsProofs, UsbfCrossingProofs | done |
| 8 | UsbSystemProofs, UsbEchoProofs: types and limits, reads, echo | done |
| 9 | UsbTransferProofs: control transfers, and the refinement of UsbFunction | done |
| 10 | the ULPI wrapper with the turn of its direction | later |
