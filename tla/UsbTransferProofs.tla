------------------------- MODULE UsbTransferProofs -------------------------
(***************************************************************************)
(* Control transfers, from the first token to the last, with every bus     *)
(* reset that comes between: host, device and program go through them in   *)
(* step.                                                                   *)
(***************************************************************************)
EXTENDS UsbSystemProofs

-----------------------------------------------------------------------------
(* The requests a host may make. *)
AnswerLength(q) == Len(reply(q, 0, FALSE, {}, Line0))

(* What is read is answered in one or two packets, and the host sees where *)
(* the answer ends: it is as long as what it asked for, or its last packet *)
(* is short.                                                               *)
MayRead(q) ==
  /\ q.wLength > 0
  /\ answerTo(q) \in {"send", "stall"}
  /\ answerTo(q) = "send" =>
       /\ AnswerLength(q) \in 1 .. MIN(2 * MAXP, q.wLength)
       /\ AnswerLength(q) \in {MAXP, 2 * MAXP} => AnswerLength(q) = q.wLength
  /\ Standard(q, REQ_GET_STATUS) /\ recipient(q) = "endpoint" => endpointOf(q) # 0

MayCommand(q) ==
  /\ answerTo(q) \in {"address", "status", "stall"}
  /\ setsStall(q) => endpointOf(q) # 0

MayWrite(q) ==
  \/ q.wLength > MAXDATA
  \/ /\ answerTo(q) = "none" /\ q.wLength <= 2 * MAXP
     /\ Class(q, CDC_SET_LINE_CODING) => q.wLength = Len(Line0)

Known(q) ==
  /\ dirIn(q) => MayRead(q)
  /\ ~dirIn(q) /\ q.wLength = 0 => MayCommand(q)
  /\ ~dirIn(q) /\ q.wLength > 0 => MayWrite(q)
  /\ Standard(q, REQ_GET_DESCRIPTOR) => dirIn(q)
  /\ Standard(q, REQ_SET_ADDRESS) => ~dirIn(q) /\ q.wLength = 0

Informed == Patient /\ \A r \in now.requests : Known(Request[r])

(* After one packet of data the status has the wrong data toggle, and the  *)
(* host does not hear it.                                                  *)
OnePacket(q) == ~dirIn(q) /\ q.wLength \in 1 .. MAXP

NoOnePacket == \A r \in now.requests : ~OnePacket(Request[r])

-----------------------------------------------------------------------------
(* s is what comes in a after its first n elements, or the beginning of it. *)
Part(s, a, n) == /\ n + Len(s) <= Len(a)
                 /\ \A k \in 1 .. Len(s) : s[k] = a[n + k]

(* What the program remembers is what the host knows of the device; or it  *)
(* is, when the request has been carried out; or when the bus reset has    *)
(* been noticed.                                                           *)
Func(c, w, h, l) == [configured |-> c, wake |-> w, halted |-> h, line |-> l]
memory    == Func(configured, remote_wake_enabled, endpoint_stalled \ {0}, line_coding)
Knows     == memory \in hfuncs
Did       == memory \in Function!Effects(asked, hfuncs)
WillDo    == Function!Effect(asked, memory) \in Function!Effects(asked, hfuncs)
WillReset == Func(0, remote_wake_enabled, {}, line_coding) \in hfuncs

WakeDone  == remote_wake_enabled = newRemoteWake(asked, remote_wake_enabled)

(* Endpoint 0. *)
stall0  == ep_cfg_stall_ep_r[0]
bit0    == ep_data_bit_q[0]
Token0  == token.valid /\ token.ep = 0
RxEmpty == ~rx_ready_q[0] /\ rx_len_q[0] = 0 /\ rx_fifo[0] = << >>
TxEmpty == ~tx_active_q[0] /\ tx_fifo[0] = << >>

(* A SETUP is on its way into it, or not. *)
SetupToken ==
  Token0 => /\ token.room /\ token.open /\ rx_setup_q[0]
            /\ ~stall0 /\ ~bit0 /\ ~ep0_dir_in_q /\ ~ep0_dir_out_q

(* The handler is done with endpoint 0, and nothing more has come. *)
AsidePc == {"idle", "intsts", "ep1Count", "ep1Read", "clear", "stat"}
Aside   == fpc \in AsidePc /\ (fpc \in {"idle", "intsts"} => ~came)

HostQuiet == ~inTransfer \/ hstage = "setup"
(* The host waits for the device to send it something. *)
Awaits    == (hstage = "data" /\ reading) \/ (hstage = "status" /\ ~reading)

(* USB_FUNC_ADDR is what the host knows, or what it was before a reset. *)
AddrOld == func_addr_r = haddr \/ haddr = 0
AddrNew == func_addr_r = IF answerTo(asked) = "address" THEN addressOf(asked) ELSE haddr

(* A request may still fail because of a bus reset. *)
Owed == NoOnePacket => hfails < hresets

-----------------------------------------------------------------------------
(* The places where host, device and program can be. *)
AtRest ==
  /\ RxEmpty /\ TxEmpty /\ Knows /\ AddrOld
  /\ HostQuiet /\ SetupToken
  /\ Aside \/ fpc = "unmask"

(* The device knows nothing of the transfer. *)
Lost ==
  /\ RxEmpty /\ TxEmpty /\ AddrOld /\ ~Token0
  /\ Awaits /\ Aside
  /\ \/ Knows /\ Owed
     \/ Did /\ OnePacket(asked) /\ ~stall0

(* The SETUP is in the endpoint. *)
SetupTaken ==
  /\ TxEmpty /\ Knows /\ AddrOld /\ ~Token0
  /\ hstage = (IF asked.wLength = 0 THEN "status" ELSE "data") /\ htog /\ hdata = asked.data
  /\ rx_ready_q[0] /\ rx_setup_q[0] /\ ~stall0 /\ bit0 /\ ~ep0_dir_in_q /\ ~ep0_dir_out_q
  /\ \/ /\ fpc \in {"idle", "intsts", "service", "setupCount"}
        /\ fpc \in {"idle", "intsts"} => came
        /\ rx_fifo[0] = <<hreq>> /\ rx_len_q[0] = 1
     \/ /\ fpc = "setupRead" /\ fcnt = 1
        /\ \/ fbuf = << >> /\ rx_fifo[0] = <<hreq>>
           \/ fbuf = <<hreq>> /\ rx_fifo[0] = << >>

(* The program answers a request with data. *)
Replying ==
  /\ Knows /\ AddrOld /\ RxEmpty
  /\ request = hreq /\ reading /\ answerTo(asked) = "send" /\ ~data_expected
  /\ ~rx_setup_q[0] /\ ~stall0
  /\ Part(hdata, Program!answer, 0)

SendingData == /\ hstage = "data" /\ Len(hdata) \in {0, MAXP}
               /\ bit0 = htog /\ ~ep0_dir_out_q /\ ~Token0

Masking ==
  /\ fpc = "mask" /\ Replying /\ SendingData /\ TxEmpty /\ hdata = << >>

(* It waits for the host to fetch a packet, with the next one in hand. *)
Waiting ==
  /\ fpc = "sendPoll" /\ Replying /\ SendingData
  /\ tx_active_q[0] /\ tx_len_q[0] = MAXP /\ Len(tx_fifo[0]) = MAXP
  /\ Part(tx_fifo[0], Program!answer, Len(hdata))
  /\ fcnt = Len(hdata) + MAXP /\ fcnt < Len(Program!answer)
  /\ send = Program!chunk(fcnt) /\ Len(fbuf) = send /\ Part(fbuf, Program!answer, fcnt)
  /\ ~fflush

Filling ==
  /\ fpc \in {"sendPoll", "sendWrite", "sendStart"} /\ Replying /\ SendingData
  /\ ~tx_active_q[0] /\ ~fflush
  /\ fcnt = Len(hdata) /\ fcnt < Len(Program!answer) /\ send = Program!chunk(fcnt)
  /\ Len(tx_fifo[0]) + Len(fbuf) = send
  /\ Part(tx_fifo[0], Program!answer, fcnt)
  /\ Part(fbuf, Program!answer, fcnt + Len(tx_fifo[0]))
  /\ fpc = "sendStart" => fbuf = << >>

(* A packet is there to be fetched: the last one, in sendAck. *)
Sent ==
  /\ fpc \in {"sendSpin", "sendAck"} /\ Replying /\ SendingData
  /\ tx_active_q[0] /\ tx_len_q[0] = Len(tx_fifo[0]) /\ tx_len_q[0] \in 1 .. MAXP
  /\ Part(tx_fifo[0], Program!answer, Len(hdata))
  /\ fpc = "sendSpin" => /\ send = tx_len_q[0] /\ fcnt = Len(hdata) + send
                         /\ send < MAXP => fcnt = Len(Program!answer)
  /\ fpc = "sendAck"  => /\ Len(hdata) + tx_len_q[0] = Len(Program!answer)
                         /\ \/ tx_len_q[0] < MAXP
                            \/ Len(Program!answer) = asked.wLength

(* All of it is sent, and the host acknowledges it. *)
Thanking ==
  /\ fpc = "sendAck" /\ Replying /\ TxEmpty
  /\ hstage = "status" /\ Len(hdata) = Len(Program!answer)
  /\ ep0_dir_in_q
  /\ Token0 => token.room /\ token.open /\ ep0_dir_out_q

Thanked ==
  /\ fpc \in {"sendAck", "sendAccept"} /\ TxEmpty /\ Knows /\ AddrOld /\ ~Token0
  /\ hstage = "done" /\ ~rx_setup_q[0]
  /\ rx_ready_q[0] /\ rx_len_q[0] = 0 /\ rx_fifo[0] = << >>

(* The program collects the data of a request. *)
Collects ==
  /\ Knows /\ AddrOld /\ TxEmpty
  /\ request = hreq /\ ~dirIn(asked) /\ asked.wLength \in 1 .. MAXDATA
  /\ answerTo(asked) = "none" /\ data_expected
  /\ ~rx_setup_q[0] /\ ~stall0 /\ ~ep0_dir_in_q
  /\ data_idx \in {0, MAXP} /\ Part(SubSeq(data_buffer, 1, data_idx), asked.data, 0)

Collecting ==
  /\ Collects /\ RxEmpty /\ Aside
  /\ hstage = "data" /\ bit0 = htog /\ htog = (data_idx = 0)
  /\ Part(hdata, asked.data, data_idx)
  /\ data_idx + Len(hdata) = asked.wLength /\ hdata # << >>
  /\ Token0 => token.room /\ token.open

(* A packet of it is in the endpoint. *)
taken == MIN(MAXP, asked.wLength - data_idx)
Taking ==
  /\ Collects /\ rx_ready_q[0] /\ ~Token0
  /\ bit0 = htog /\ htog = (data_idx # 0)
  /\ hstage = IF hdata = << >> THEN "status" ELSE "data"
  /\ data_idx < asked.wLength
  /\ data_idx + taken + Len(hdata) = asked.wLength
  /\ Part(hdata, asked.data, data_idx + taken)
  /\ \/ /\ fpc \in {"idle", "intsts", "service", "outCount"}
        /\ fpc \in {"idle", "intsts"} => came
        /\ rx_len_q[0] = taken /\ Len(rx_fifo[0]) = taken
        /\ Part(rx_fifo[0], asked.data, data_idx)
     \/ /\ fpc = "outRead" /\ fcnt = taken /\ Len(fbuf) + Len(rx_fifo[0]) = taken
        /\ Part(fbuf, asked.data, data_idx)
        /\ Part(rx_fifo[0], asked.data, data_idx + Len(fbuf))

(* The program carries out a request that ends with an empty packet. *)
Stating ==
  /\ fpc \in {"address", "status", "statusSpin"} /\ RxEmpty /\ ~Token0
  /\ request = hreq /\ ~dirIn(asked) /\ hstage = "status"
  /\ ~rx_setup_q[0] /\ ~stall0 /\ ~ep0_dir_in_q /\ bit0 = ~OnePacket(asked)
  /\ IF fpc = "statusSpin" THEN tx_active_q[0] /\ tx_len_q[0] = 0 /\ tx_fifo[0] = << >>
                           ELSE TxEmpty
  /\ IF answerTo(asked) = "address" /\ fpc # "address" THEN AddrNew ELSE AddrOld
  /\ fpc = "address" => answerTo(asked) = "address"
  /\ IF data_expected
       THEN /\ answerTo(asked) = "none" /\ Knows
            /\ asked.wLength <= MAXDATA
            /\ Part(SubSeq(data_buffer, 1, asked.wLength), asked.data, 0)
       ELSE asked.wLength = 0 /\ answerTo(asked) \in {"address", "status"} /\ WillDo /\ WakeDone

(* The empty packet is there to be fetched. *)
Stated ==
  /\ RxEmpty /\ ~Token0 /\ hstage = "status" /\ ~dirIn(asked) /\ AddrNew
  /\ ~rx_setup_q[0] /\ ~stall0 /\ ~ep0_dir_in_q /\ bit0 = ~OnePacket(asked)
  /\ tx_active_q[0] /\ tx_len_q[0] = 0 /\ tx_fifo[0] = << >>
  /\ \/ fpc = "halt" /\ request = hreq /\ asked.wLength = 0 /\ WillDo /\ WakeDone
     \/ Aside /\ Did

(* The request is refused: what the host does next is stalled. *)
Refusing ==
  /\ RxEmpty /\ TxEmpty /\ Knows /\ AddrOld
  /\ hstage \in {"data", "status"} /\ ~(hstage = "status" /\ reading)
  /\ ~rx_setup_q[0] /\ ~data_expected
  /\ (fpc = "stall" /\ ~Token0) \/ (Aside /\ stall0)
  /\ Token0 => token.room /\ ~token.open

(* It was the data of a request, which raises an interrupt. *)
Refused ==
  /\ RxEmpty /\ TxEmpty /\ Knows /\ AddrOld /\ ~Token0
  /\ ~inTransfer /\ ~rx_setup_q[0] /\ ~data_expected /\ stall0
  /\ fpc \in {"idle", "intsts", "service", "stall"}
  /\ fpc \in {"idle", "intsts"} => came

(* The bus has been reset while the program sends, which it goes on to do. *)
Done == Len(Program!answer) = Program!req.wLength
Upset ==
  /\ RxEmpty /\ WillReset /\ Owed /\ haddr = 0
  /\ HostQuiet /\ SetupToken
  /\ \/ /\ fpc \in {"sendPoll", "sendWrite", "sendStart"} /\ ~inTransfer
        /\ fcnt + send = Len(Program!answer) /\ (send >= MAXP => Done)
        /\ tx_active_q[0] => ~fflush
     \/ fpc = "sendSpin" /\ (send >= MAXP => fcnt = Len(Program!answer) /\ Done)
     \/ fpc = "sendAck"

(* It takes a SETUP for the end of what it has sent. *)
Swallowing ==
  /\ WillReset /\ Owed /\ haddr = 0 /\ ~Token0 /\ Awaits /\ rx_ready_q[0]
  /\ \/ fpc = "sendSpin" /\ (send >= MAXP => fcnt = Len(Program!answer) /\ Done)
     \/ fpc \in {"sendAck", "sendAccept"}

(* The reset is next. *)
Resetting ==
  /\ WillReset /\ Owed /\ haddr = 0 /\ ~Token0 /\ (~inTransfer \/ Awaits)
  /\ ~rx_ready_q[0]
  /\ fpc = "unmask" \/ (Aside /\ fpc # "stat")
  /\ fpc # "intsts" => ~func_stat_rst

Has(writes, c) == \E k \in 1 .. Len(writes) : writes[k] = c
Flushing ==
  /\ fpc = "reset" /\ Knows /\ Owed /\ haddr = 0 /\ ~Token0 /\ (~inTransfer \/ Awaits)
  /\ ~rx_ready_q[0]
  /\ rx_fifo[0] = << >> \/ Has(fwrites, Program!RxFlush(0))
  /\ TxEmpty \/ Has(fwrites, Program!TxFlush(0))
  /\ intr_reset_r => Has(fwrites, Program!Stat(TRUE))

Normal == \/ AtRest \/ Lost \/ SetupTaken \/ Masking \/ Waiting \/ Filling \/ Sent
          \/ Thanking \/ Thanked \/ Collecting \/ Taking \/ Stating \/ Stated
          \/ Refusing \/ Refused
Place == \/ ~intr_reset_r /\ Normal
         \/ intr_reset_r /\ (Upset \/ Swallowing \/ Resetting)
         \/ Flushing

(* main flushes the endpoint only where nothing is in it; before it has    *)
(* attached the device there is no transfer.                               *)
StartPlace ==
  /\ mpc \in StartPc => \/ ~intr_reset_r /\ (AtRest \/ Lost)
                        \/ intr_reset_r /\ Resetting
                        \/ Flushing
  /\ mpc = "startUp" => ~inTransfer

ResetOK ==
  /\ fpc = "intsts" => (func_stat_rst <=> intr_reset_r)
  /\ fpc \in Ep0Pc => ~func_stat_rst
  /\ mpc \notin {"startUp", "enable"} => enable_rst_intr
  /\ mpc = "flush" /\ intr_reset_r => fpc \in {"intsts", "reset"} \/ (fpc = "idle" /\ irq)

AskedOK ==
  /\ inTransfer => hreq \in now.requests
  /\ hstage = "setup" => hdata = asked.data
  /\ inTransfer /\ haddr = 0 => \/ Standard(asked, REQ_GET_DESCRIPTOR)
                                \/ Standard(asked, REQ_SET_ADDRESS)
  /\ hresets \in Nat /\ hfails \in Nat /\ htog \in BOOLEAN
  /\ NoOnePacket => hfails <= hresets
  /\ ep0_dir_in_q \in BOOLEAN /\ ep0_dir_out_q \in BOOLEAN

TransferInv == AddressAgreed /\ ResetOK /\ AskedOK /\ Place /\ StartPlace

-----------------------------------------------------------------------------
(* Requests.  The program, the host and the function it promises read a    *)
(* request alike.                                                          *)
LEMMA ProgramReads ==
  \A q : /\ Program!dirIn(q) <=> dirIn(q)
         /\ Program!typeOf(q) = typeOf(q) /\ Program!recipient(q) = recipient(q)
         /\ Program!endpointOf(q) = endpointOf(q) /\ Program!addressOf(q) = addressOf(q)
         /\ \A r : /\ Program!Standard(q, r) <=> Standard(q, r)
                   /\ Program!Class(q, r) <=> Class(q, r)
         /\ Program!deviceFeature(q) <=> deviceFeature(q)
         /\ Program!endpointFeature(q) <=> endpointFeature(q)
         /\ Program!answeredAtOnce(q) <=> answeredAtOnce(q)
         /\ Program!dataExpected(q) <=> dataExpected(q)
<1> USE DEF Program!dirIn, dirIn, Program!endpointOf, endpointOf
<1> SUFFICES ASSUME NEW q
             PROVE  /\ Program!dirIn(q) <=> dirIn(q)
                    /\ Program!typeOf(q) = typeOf(q) /\ Program!recipient(q) = recipient(q)
                    /\ Program!endpointOf(q) = endpointOf(q) /\ Program!addressOf(q) = addressOf(q)
                    /\ \A r : /\ Program!Standard(q, r) <=> Standard(q, r)
                              /\ Program!Class(q, r) <=> Class(q, r)
                    /\ Program!deviceFeature(q) <=> deviceFeature(q)
                    /\ Program!endpointFeature(q) <=> endpointFeature(q)
                    /\ Program!answeredAtOnce(q) <=> answeredAtOnce(q)
                    /\ Program!dataExpected(q) <=> dataExpected(q)
  OBVIOUS
<1>1. Program!typeOf(q) = typeOf(q)
  BY DEF Program!typeOf, typeOf
<1>2. Program!recipient(q) = recipient(q)
  BY DEF Program!recipient, recipient
<1>3. Program!addressOf(q) = addressOf(q)
  BY DEF Program!addressOf, addressOf, Program!LO_BYTE, LO_BYTE
<1>4. \A r : /\ Program!Standard(q, r) <=> Standard(q, r)
             /\ Program!Class(q, r) <=> Class(q, r)
  BY <1>1 DEF Program!Standard, Standard, Program!Class, Class
<1>5. /\ Program!deviceFeature(q) <=> deviceFeature(q)
      /\ Program!endpointFeature(q) <=> endpointFeature(q)
  BY <1>2 DEF Program!deviceFeature, deviceFeature, Program!endpointFeature, endpointFeature,
         Program!FEATURE_REMOTE_WAKEUP, FEATURE_REMOTE_WAKEUP, Program!FEATURE_TEST_MODE,
         FEATURE_TEST_MODE, Program!FEATURE_ENDPOINT_STATE, FEATURE_ENDPOINT_STATE
<1>6. /\ Program!answeredAtOnce(q) <=> answeredAtOnce(q)
      /\ Program!dataExpected(q) <=> dataExpected(q)
  BY DEF Program!answeredAtOnce, answeredAtOnce, Program!dataExpected, dataExpected
<1> QED  BY <1>1, <1>2, <1>3, <1>4, <1>5, <1>6

(* They agree which requests are answered, and how. *)
LEMMA ProgramAnswers ==
  \A q : /\ Program!answerTo(q) = answerTo(q)
         /\ Program!setsStall(q) <=> setsStall(q)
         /\ Program!clearsStall(q) <=> clearsStall(q)
<1> SUFFICES ASSUME NEW q
             PROVE  /\ Program!answerTo(q) = answerTo(q)
                    /\ Program!setsStall(q) <=> setsStall(q)
                    /\ Program!clearsStall(q) <=> clearsStall(q)
  OBVIOUS
<1>0. /\ Program!typeOf(q) = typeOf(q) /\ Program!recipient(q) = recipient(q)
      /\ Program!deviceFeature(q) <=> deviceFeature(q)
      /\ Program!endpointFeature(q) <=> endpointFeature(q)
      /\ \A r : Program!Standard(q, r) <=> Standard(q, r)
  BY ProgramReads
<1>1. Program!descriptorOf(q) = descriptorOf(q)
  BY DEF Program!descriptorOf, descriptorOf, Program!HI_BYTE, HI_BYTE, Program!LO_BYTE, LO_BYTE,
         Program!DESC_DEVICE, DESC_DEVICE, Program!DESC_CONFIGURATION, DESC_CONFIGURATION,
         Program!DESC_STRING, DESC_STRING
<1>2. Program!standardAnswer(q) = standardAnswer(q)
  BY <1>0, <1>1 DEF Program!standardAnswer, standardAnswer,
         Program!REQ_GET_STATUS, REQ_GET_STATUS, Program!REQ_CLEAR_FEATURE, REQ_CLEAR_FEATURE,
         Program!REQ_SET_FEATURE, REQ_SET_FEATURE, Program!REQ_SET_ADDRESS, REQ_SET_ADDRESS,
         Program!REQ_GET_DESCRIPTOR, REQ_GET_DESCRIPTOR,
         Program!REQ_SET_DESCRIPTOR, REQ_SET_DESCRIPTOR,
         Program!REQ_GET_CONFIGURATION, REQ_GET_CONFIGURATION,
         Program!REQ_SET_CONFIGURATION, REQ_SET_CONFIGURATION,
         Program!REQ_GET_INTERFACE, REQ_GET_INTERFACE,
         Program!REQ_SET_INTERFACE, REQ_SET_INTERFACE
<1>3. Program!classAnswer(q) = classAnswer(q)
  BY DEF Program!classAnswer, classAnswer,
         Program!CDC_SEND_ENCAPSULATED_COMMAND, CDC_SEND_ENCAPSULATED_COMMAND,
         Program!CDC_SET_LINE_CODING, CDC_SET_LINE_CODING,
         Program!CDC_GET_LINE_CODING, CDC_GET_LINE_CODING,
         Program!CDC_SET_CONTROL_LINE_STATE, CDC_SET_CONTROL_LINE_STATE,
         Program!CDC_SEND_BREAK, CDC_SEND_BREAK
<1>4. Program!answerTo(q) = answerTo(q)
  BY <1>0, <1>2, <1>3 DEF Program!answerTo, answerTo
<1>5. /\ Program!setsStall(q) <=> setsStall(q)
      /\ Program!clearsStall(q) <=> clearsStall(q)
  BY <1>0 DEF Program!setsStall, setsStall, Program!clearsStall, clearsStall,
         Program!REQ_SET_FEATURE, REQ_SET_FEATURE, Program!REQ_CLEAR_FEATURE, REQ_CLEAR_FEATURE
<1> QED  BY <1>4, <1>5

(* They agree what a request changes. *)
LEMMA ProgramUpdates ==
  \A q : /\ \A c : Program!newConfigured(q, c) = newConfigured(q, c)
         /\ \A w : Program!newRemoteWake(q, w) <=> newRemoteWake(q, w)
         /\ \A d, l : Program!newLineCoding(q, d, l) = newLineCoding(q, d, l)
<1> SUFFICES ASSUME NEW q
             PROVE  /\ \A c : Program!newConfigured(q, c) = newConfigured(q, c)
                    /\ \A w : Program!newRemoteWake(q, w) <=> newRemoteWake(q, w)
                    /\ \A d, l : Program!newLineCoding(q, d, l) = newLineCoding(q, d, l)
  OBVIOUS
<1>0. /\ Program!recipient(q) = recipient(q)
      /\ \A r : Program!Standard(q, r) <=> Standard(q, r)
      /\ \A r : Program!Class(q, r) <=> Class(q, r)
  BY ProgramReads
<1>1. \A c : Program!newConfigured(q, c) = newConfigured(q, c)
  BY <1>0 DEF Program!newConfigured, newConfigured, Program!REQ_SET_CONFIGURATION,
              REQ_SET_CONFIGURATION
<1>2. \A w : Program!newRemoteWake(q, w) <=> newRemoteWake(q, w)
  BY <1>0 DEF Program!newRemoteWake, newRemoteWake, Program!FEATURE_REMOTE_WAKEUP,
         FEATURE_REMOTE_WAKEUP, Program!REQ_SET_FEATURE, REQ_SET_FEATURE,
         Program!REQ_CLEAR_FEATURE, REQ_CLEAR_FEATURE
<1>3. \A d, l : Program!newLineCoding(q, d, l) = newLineCoding(q, d, l)
  BY <1>0 DEF Program!newLineCoding, newLineCoding, Program!CDC_SET_LINE_CODING,
              CDC_SET_LINE_CODING
<1> QED  BY <1>1, <1>2, <1>3

-----------------------------------------------------------------------------
newHalted(q, h) == IF setsStall(q) THEN h \cup {endpointOf(q)}
                   ELSE IF clearsStall(q) THEN h \ {endpointOf(q)} ELSE h
newLine(q, l)   == IF Class(q, CDC_SET_LINE_CODING) THEN q.data ELSE l

(* UsbFunction reads a request as UsbRequest does here. *)
LEMMA FunctionReads ==
  \A q : /\ \A r : /\ Function!Standard(q, r) <=> Standard(q, r)
                   /\ Function!Class(q, r) <=> Class(q, r)
         /\ Function!deviceFeature(q) <=> deviceFeature(q)
         /\ Function!setsStall(q) <=> setsStall(q)
         /\ Function!clearsStall(q) <=> clearsStall(q)
         /\ Function!endpointOf(q) = endpointOf(q)
         /\ Function!dirIn(q) <=> dirIn(q)
         /\ Function!recipient(q) = recipient(q)
<1> SUFFICES ASSUME NEW q
             PROVE  /\ \A r : /\ Function!Standard(q, r) <=> Standard(q, r)
                              /\ Function!Class(q, r) <=> Class(q, r)
                    /\ Function!deviceFeature(q) <=> deviceFeature(q)
                    /\ Function!setsStall(q) <=> setsStall(q)
                    /\ Function!clearsStall(q) <=> clearsStall(q)
                    /\ Function!endpointOf(q) = endpointOf(q)
                    /\ Function!dirIn(q) <=> dirIn(q)
                    /\ Function!recipient(q) = recipient(q)
  OBVIOUS
<1>1. Function!typeOf(q) = typeOf(q)
  BY DEF Function!typeOf, typeOf
<1>2. Function!recipient(q) = recipient(q)
  BY DEF Function!recipient, recipient
<1>3. \A r : /\ Function!Standard(q, r) <=> Standard(q, r)
             /\ Function!Class(q, r) <=> Class(q, r)
  BY <1>1 DEF Function!Standard, Standard, Function!Class, Class
<1>4. /\ Function!deviceFeature(q) <=> deviceFeature(q)
      /\ Function!endpointFeature(q) <=> endpointFeature(q)
  BY <1>2 DEF Function!deviceFeature, deviceFeature, Function!endpointFeature, endpointFeature,
         Function!FEATURE_REMOTE_WAKEUP, FEATURE_REMOTE_WAKEUP, Function!FEATURE_TEST_MODE,
         FEATURE_TEST_MODE, Function!FEATURE_ENDPOINT_STATE, FEATURE_ENDPOINT_STATE
<1>5. /\ Function!setsStall(q) <=> setsStall(q)
      /\ Function!clearsStall(q) <=> clearsStall(q)
  BY <1>3, <1>4 DEF Function!setsStall, setsStall, Function!clearsStall, clearsStall,
         Function!REQ_SET_FEATURE, REQ_SET_FEATURE, Function!REQ_CLEAR_FEATURE, REQ_CLEAR_FEATURE
<1>6. Function!endpointOf(q) = endpointOf(q) /\ (Function!dirIn(q) <=> dirIn(q))
  BY DEF Function!endpointOf, endpointOf, Function!dirIn, dirIn
<1> QED  BY <1>2, <1>3, <1>4, <1>5, <1>6

(* A record of the four things that requests change, with one of them      *)
(* changed.                                                                *)
LEMMA FuncUpdates ==
  \A c, w, h, l, v : /\ [Func(c, w, h, l) EXCEPT !.configured = v] = Func(v, w, h, l)
                     /\ [Func(c, w, h, l) EXCEPT !.wake = v] = Func(c, v, h, l)
                     /\ [Func(c, w, h, l) EXCEPT !.halted = v] = Func(c, w, v, l)
                     /\ [Func(c, w, h, l) EXCEPT !.line = v] = Func(c, w, h, v)
<1>1. \A c, w, h, l, v : [Func(c, w, h, l) EXCEPT !.configured = v] = Func(v, w, h, l)
  BY Z3 DEF Func
<1>2. \A c, w, h, l, v : [Func(c, w, h, l) EXCEPT !.wake = v] = Func(c, v, h, l)
  BY Z3 DEF Func
<1>3. \A c, w, h, l, v : [Func(c, w, h, l) EXCEPT !.halted = v] = Func(c, w, v, l)
  BY Z3 DEF Func
<1>4. \A c, w, h, l, v : [Func(c, w, h, l) EXCEPT !.line = v] = Func(c, w, h, v)
  BY Z3 DEF Func
<1> QED  BY <1>1, <1>2, <1>3, <1>4

(* Which kinds of request exclude each other. *)
LEMMA Exclusive ==
  \A q : /\ \A r, s : Standard(q, r) => ~Class(q, s)
         /\ \A r, s : Standard(q, r) /\ Standard(q, s) => r = s
         /\ setsStall(q) => Standard(q, REQ_SET_FEATURE) /\ recipient(q) = "endpoint"
         /\ clearsStall(q) => Standard(q, REQ_CLEAR_FEATURE) /\ recipient(q) = "endpoint"
BY DEF Standard, Class, setsStall, clearsStall, endpointFeature

(* What a request does, part by part. *)
LEMMA EffectIs ==
  \A q, c, h, l : \A w \in BOOLEAN :
    Function!Effect(q, Func(c, w, h, l)) =
      Func(newConfigured(q, c), newRemoteWake(q, w), newHalted(q, h), newLine(q, l))
<1> SUFFICES ASSUME NEW q, NEW c, NEW h, NEW l, NEW w \in BOOLEAN
             PROVE  Function!Effect(q, Func(c, w, h, l)) =
                      Func(newConfigured(q, c), newRemoteWake(q, w), newHalted(q, h), newLine(q, l))
  OBVIOUS
<1> DEFINE f == Func(c, w, h, l)
           conf  == Standard(q, REQ_SET_CONFIGURATION) /\ q.wValue \in {0, 1}
           on    == Standard(q, REQ_SET_FEATURE) /\ recipient(q) = "device" /\ q.wValue = 1
           off   == Standard(q, REQ_CLEAR_FEATURE) /\ recipient(q) = "device" /\ q.wValue = 1
           ling  == Class(q, CDC_SET_LINE_CODING)
<1>1. Function!Effect(q, f) =
        CASE conf           -> [f EXCEPT !.configured = q.wValue]
          [] on             -> [f EXCEPT !.wake = TRUE]
          [] off            -> [f EXCEPT !.wake = FALSE]
          [] setsStall(q)   -> [f EXCEPT !.halted = @ \cup {endpointOf(q)}]
          [] clearsStall(q) -> [f EXCEPT !.halted = @ \ {endpointOf(q)}]
          [] ling           -> [f EXCEPT !.line = q.data]
          [] OTHER          -> f
  <2>1. Function!deviceFeature(q) /\ q.wValue = 1 <=> recipient(q) = "device" /\ q.wValue = 1
    BY FunctionReads DEF deviceFeature, FEATURE_REMOTE_WAKEUP
  <2> HIDE DEF f
  <2> QED  BY <2>1, FunctionReads
      DEF Function!Effect, Function!REQ_SET_CONFIGURATION, REQ_SET_CONFIGURATION,
          Function!REQ_SET_FEATURE, REQ_SET_FEATURE, Function!REQ_CLEAR_FEATURE, REQ_CLEAR_FEATURE,
          Function!FEATURE_REMOTE_WAKEUP, Function!CDC_SET_LINE_CODING, CDC_SET_LINE_CODING
<1>2. newConfigured(q, c) = IF conf THEN q.wValue ELSE c
  BY DEF newConfigured
<1>3. newRemoteWake(q, w) = IF on THEN TRUE ELSE IF off THEN FALSE ELSE w
  BY Exclusive DEF newRemoteWake, FEATURE_REMOTE_WAKEUP, REQ_SET_FEATURE, REQ_CLEAR_FEATURE
<1>4. /\ conf => ~on /\ ~off /\ ~setsStall(q) /\ ~clearsStall(q) /\ ~ling
      /\ on => ~off /\ ~setsStall(q) /\ ~clearsStall(q) /\ ~ling
      /\ off => ~setsStall(q) /\ ~clearsStall(q) /\ ~ling
      /\ setsStall(q) => ~clearsStall(q) /\ ~ling
      /\ clearsStall(q) => ~ling
  BY Exclusive DEF REQ_SET_CONFIGURATION, REQ_SET_FEATURE, REQ_CLEAR_FEATURE
<1>5. /\ \A v : [f EXCEPT !.configured = v] = Func(v, w, h, l)
      /\ [f EXCEPT !.wake = TRUE] = Func(c, TRUE, h, l)
      /\ [f EXCEPT !.wake = FALSE] = Func(c, FALSE, h, l)
      /\ \A v : [f EXCEPT !.halted = v] = Func(c, w, v, l)
      /\ \A v : [f EXCEPT !.line = v] = Func(c, w, h, v)
  <2>1. \A v : [f EXCEPT !.configured = v] = Func(v, w, h, l)
    BY FuncUpdates
  <2>2. \A v : [f EXCEPT !.halted = v] = Func(c, w, v, l)
    BY FuncUpdates
  <2>3. \A v : [f EXCEPT !.line = v] = Func(c, w, h, v)
    BY FuncUpdates
  <2>4. /\ [f EXCEPT !.wake = TRUE] = Func(c, TRUE, h, l)
        /\ [f EXCEPT !.wake = FALSE] = Func(c, FALSE, h, l)
    <3> DEFINE P(v) == [f EXCEPT !.wake = v] = Func(c, v, h, l)
    <3>1. \A v : P(v)
      BY FuncUpdates
    <3> HIDE DEF P
    <3>2. P(TRUE) /\ P(FALSE)
      BY <3>1, Zenon
    <3> QED  BY <3>2 DEF P
  <2> HIDE DEF f
  <2> QED  BY <2>1, <2>2, <2>3, <2>4
<1>6. f.halted = h
  BY DEF Func
<1> HIDE DEF f, conf, on, off, ling
<1>14. newHalted(q, h) = (IF setsStall(q) THEN h \cup {endpointOf(q)}
                          ELSE IF clearsStall(q) THEN h \ {endpointOf(q)} ELSE h)
  BY DEF newHalted
<1>15. newLine(q, l) = (IF ling THEN q.data ELSE l)
  BY DEF newLine, ling
<1> DEFINE goal == Function!Effect(q, f) = Func(newConfigured(q, c), newRemoteWake(q, w),
                                                newHalted(q, h), newLine(q, l))
<1> SUFFICES goal
  BY DEF f
<1>7. CASE conf
  <2>1. Function!Effect(q, f) = Func(q.wValue, w, h, l)
    BY <1>1, <1>4, <1>5, <1>7
  <2> QED  BY <1>2, <1>3, <1>4, <1>7, <1>14, <1>15, <2>1
<1>8. CASE on
  <2>1. Function!Effect(q, f) = Func(c, TRUE, h, l)
    BY <1>1, <1>4, <1>5, <1>8
  <2> QED  BY <1>2, <1>3, <1>4, <1>8, <1>14, <1>15, <2>1
<1>9. CASE off
  <2>1. Function!Effect(q, f) = Func(c, FALSE, h, l)
    BY <1>1, <1>4, <1>5, <1>9
  <2> QED  BY <1>2, <1>3, <1>4, <1>9, <1>14, <1>15, <2>1
<1>10. CASE setsStall(q)
  <2>1. Function!Effect(q, f) = Func(c, w, h \cup {endpointOf(q)}, l)
    BY <1>1, <1>4, <1>5, <1>6, <1>10
  <2> QED  BY <1>2, <1>3, <1>4, <1>10, <1>14, <1>15, <2>1
<1>11. CASE clearsStall(q)
  <2>1. Function!Effect(q, f) = Func(c, w, h \ {endpointOf(q)}, l)
    BY <1>1, <1>4, <1>5, <1>6, <1>11
  <2> QED  BY <1>2, <1>3, <1>4, <1>11, <1>14, <1>15, <2>1
<1>12. CASE ling
  <2>1. Function!Effect(q, f) = Func(c, w, h, q.data)
    BY <1>1, <1>4, <1>5, <1>12
  <2> QED  BY <1>2, <1>3, <1>4, <1>12, <1>14, <1>15, <2>1
<1>13. CASE ~conf /\ ~on /\ ~off /\ ~setsStall(q) /\ ~clearsStall(q) /\ ~ling
  <2>1. Function!Effect(q, f) = Func(c, w, h, l)
    BY <1>1, <1>13 DEF f
  <2> QED  BY <1>2, <1>3, <1>13, <1>14, <1>15, <2>1
<1> QED  BY <1>7, <1>8, <1>9, <1>10, <1>11, <1>12, <1>13

(* A request that reads, or that is refused, does nothing; one that writes *)
(* nothing but the line coding.                                            *)
LEMMA Changes ==
  \A q : /\ answerTo(q) \in {"send", "stall", "none"} =>
              /\ \A c : newConfigured(q, c) = c
              /\ \A w \in BOOLEAN : newRemoteWake(q, w) = w
              /\ \A h : newHalted(q, h) = h
              /\ ~setsStall(q) /\ ~clearsStall(q)
         /\ answerTo(q) # "none" => ~Class(q, CDC_SET_LINE_CODING)
         /\ answerTo(q) = "address" <=> Standard(q, REQ_SET_ADDRESS)
         /\ Standard(q, REQ_GET_DESCRIPTOR) => answerTo(q) \in {"send", "stall"}
<1> SUFFICES ASSUME NEW q
             PROVE  /\ answerTo(q) \in {"send", "stall", "none"} =>
                         /\ \A c : newConfigured(q, c) = c
                         /\ \A w \in BOOLEAN : newRemoteWake(q, w) = w
                         /\ \A h : newHalted(q, h) = h
                         /\ ~setsStall(q) /\ ~clearsStall(q)
                    /\ answerTo(q) # "none" => ~Class(q, CDC_SET_LINE_CODING)
                    /\ answerTo(q) = "address" <=> Standard(q, REQ_SET_ADDRESS)
                    /\ Standard(q, REQ_GET_DESCRIPTOR) => answerTo(q) \in {"send", "stall"}
  OBVIOUS
<1> USE DEF REQ_GET_STATUS, REQ_CLEAR_FEATURE, REQ_SET_FEATURE, REQ_SET_ADDRESS,
            REQ_GET_DESCRIPTOR, REQ_SET_DESCRIPTOR, REQ_GET_CONFIGURATION, REQ_SET_CONFIGURATION,
            REQ_GET_INTERFACE, REQ_SET_INTERFACE
<1>1. CASE typeOf(q) = "standard"
  <2>1. answerTo(q) = standardAnswer(q) /\ \A r : ~Class(q, r)
    BY <1>1 DEF answerTo, Class
  <2>2. \A r : Standard(q, r) <=> q.bRequest = r
    BY <1>1 DEF Standard
  <2>3. ASSUME answerTo(q) \in {"send", "stall", "none"}
        PROVE  ~(q.bRequest = 9 /\ q.wValue \in {0, 1})
               /\ (q.bRequest \in {1, 3} => ~deviceFeature(q) /\ ~endpointFeature(q))
    BY <2>1, <2>3 DEF standardAnswer
  <2>4. ASSUME answerTo(q) \in {"send", "stall", "none"}
        PROVE  /\ \A c : newConfigured(q, c) = c
               /\ ~setsStall(q) /\ ~clearsStall(q)
    BY <2>2, <2>3, <2>4 DEF newConfigured, setsStall, clearsStall
  <2>5. ASSUME answerTo(q) \in {"send", "stall", "none"}, NEW w \in BOOLEAN
        PROVE  newRemoteWake(q, w) = w
    BY <2>2, <2>3, <2>5 DEF newRemoteWake, deviceFeature, FEATURE_REMOTE_WAKEUP
  <2>6. answerTo(q) = "address" <=> q.bRequest = 5
    BY <2>1 DEF standardAnswer
  <2>7. q.bRequest = 6 => answerTo(q) \in {"send", "stall"}
    BY <2>1 DEF standardAnswer
  <2> QED  BY <2>1, <2>2, <2>4, <2>5, <2>6, <2>7 DEF newHalted
<1>2. CASE typeOf(q) # "standard"
  <2>1. \A r : ~Standard(q, r)
    BY <1>2 DEF Standard
  <2>2. /\ \A c : newConfigured(q, c) = c
        /\ ~setsStall(q) /\ ~clearsStall(q)
    BY <2>1 DEF newConfigured, setsStall, clearsStall
  <2>3. ASSUME NEW w \in BOOLEAN PROVE newRemoteWake(q, w) = w
    BY <2>1 DEF newRemoteWake
  <2>4. answerTo(q) # "address"
    BY <1>2 DEF answerTo, classAnswer
  <2>5. Class(q, CDC_SET_LINE_CODING) => answerTo(q) = "none"
    BY <1>2 DEF answerTo, classAnswer, Class, CDC_SET_LINE_CODING,
         CDC_SEND_ENCAPSULATED_COMMAND, CDC_SET_CONTROL_LINE_STATE, CDC_SEND_BREAK,
         CDC_GET_LINE_CODING
  <2> QED  BY <2>1, <2>2, <2>3, <2>4, <2>5 DEF newHalted
<1> QED  BY <1>1, <1>2

-----------------------------------------------------------------------------
(* Parts of what is sent. *)
LEMMA PartType ==
  \A a, s \in Seq(Payload), n \in Nat :
    /\ Len(a) \in Nat /\ Len(s) \in Nat
    /\ Part(s, a, n) => n + Len(s) <= Len(a)
<1>1. \A s \in Seq(Payload) : Len(s) \in Nat
  BY LenProperties
<1> QED  BY <1>1 DEF Part

(* Nothing is a part of anything. *)
LEMMA PartEmpty ==
  \A a \in Seq(Payload), n \in Nat : n <= Len(a) => Part(<< >>, a, n)
<1> SUFFICES ASSUME NEW a \in Seq(Payload), NEW n \in Nat, n <= Len(a) PROVE Part(<< >>, a, n)
  OBVIOUS
<1>1. Len(<< >>) = 0 /\ Len(a) \in Nat
  BY LenProperties, EmptyType
<1> QED  BY <1>1 DEF Part

(* A part with the next element is a part. *)
LEMMA PartAppend ==
  \A a, s \in Seq(Payload), n \in Nat, v \in Payload :
    Part(s, a, n) /\ n + Len(s) < Len(a) /\ v = a[n + Len(s) + 1] => Part(Append(s, v), a, n)
<1> SUFFICES ASSUME NEW a \in Seq(Payload), NEW s \in Seq(Payload), NEW n \in Nat,
                    NEW v \in Payload, Part(s, a, n), n + Len(s) < Len(a), v = a[n + Len(s) + 1]
             PROVE  Part(Append(s, v), a, n)
  OBVIOUS
<1>1. Len(a) \in Nat /\ Len(s) \in Nat /\ Len(Append(s, v)) = Len(s) + 1
  BY LenProperties, AppendType
<1>2. \A k \in 1 .. Len(s) : Append(s, v)[k] = s[k]
  BY AppendProperties
<1>3. Append(s, v)[Len(s) + 1] = v
  BY AppendProperties
<1>4. \A k \in 1 .. Len(s) + 1 : Append(s, v)[k] = a[n + k]
  <2> SUFFICES ASSUME NEW k \in 1 .. Len(s) + 1 PROVE Append(s, v)[k] = a[n + k]
    OBVIOUS
  <2>1. CASE k = Len(s) + 1
    <3>1. n + Len(s) + 1 = n + k
      BY <1>1, <2>1
    <3> QED  BY <1>3, <2>1, <3>1
  <2>2. CASE k # Len(s) + 1
    <3>1. k \in 1 .. Len(s)
      BY <1>1, <2>2
    <3> QED  BY <1>2, <3>1 DEF Part
  <2> QED  BY <2>1, <2>2
<1>5. n + (Len(s) + 1) <= Len(a)
  BY <1>1
<1> QED  BY <1>1, <1>4, <1>5 DEF Part

(* A part without its first element is a part. *)
LEMMA PartTail ==
  \A a, s \in Seq(Payload), n \in Nat :
    Part(s, a, n) /\ s # << >> =>
      Head(s) = a[n + 1] /\ Part(Tail(s), a, n + 1) /\ n < Len(a)
<1> SUFFICES ASSUME NEW a \in Seq(Payload), NEW s \in Seq(Payload), NEW n \in Nat,
                    Part(s, a, n), s # << >>
             PROVE  Head(s) = a[n + 1] /\ Part(Tail(s), a, n + 1) /\ n < Len(a)
  OBVIOUS
<1>1. /\ Len(a) \in Nat /\ Len(s) \in Nat /\ Len(s) > 0 /\ Len(Tail(s)) = Len(s) - 1
      /\ Head(s) = s[1]
  BY LenProperties, TailType, TailAt
<1>2. \A k \in 1 .. Len(s) - 1 : Tail(s)[k] = s[k + 1]
  BY HeadTailProperties
<1>3. Head(s) = a[n + 1]
  BY <1>1 DEF Part
<1>4. \A k \in 1 .. Len(s) - 1 : Tail(s)[k] = a[(n + 1) + k]
  <2> SUFFICES ASSUME NEW k \in 1 .. Len(s) - 1 PROVE Tail(s)[k] = a[(n + 1) + k]
    OBVIOUS
  <2>1. k + 1 \in 1 .. Len(s) /\ n + (k + 1) = (n + 1) + k
    BY <1>1
  <2> QED  BY <1>2, <2>1 DEF Part
<1>5. (n + 1) + (Len(s) - 1) <= Len(a) /\ n < Len(a)
  BY <1>1 DEF Part
<1> QED  BY <1>1, <1>3, <1>4, <1>5 DEF Part

(* Two parts that follow each other are one. *)
LEMMA PartConcat ==
  \A a, s, t \in Seq(Payload), n \in Nat :
    Part(s, a, n) /\ Part(t, a, n + Len(s)) => Part(s \o t, a, n)
<1> SUFFICES ASSUME NEW a \in Seq(Payload), NEW s \in Seq(Payload), NEW t \in Seq(Payload),
                    NEW n \in Nat, Part(s, a, n), Part(t, a, n + Len(s))
             PROVE  Part(s \o t, a, n)
  OBVIOUS
<1>1. /\ Len(a) \in Nat /\ Len(s) \in Nat /\ Len(t) \in Nat
      /\ Len(s \o t) = Len(s) + Len(t)
  BY LenProperties, ConcatType
<1>2. \A k \in 1 .. Len(s) + Len(t) : (s \o t)[k] = IF k <= Len(s) THEN s[k] ELSE t[k - Len(s)]
  BY ConcatProperties
<1>3. \A k \in 1 .. Len(s) + Len(t) : (s \o t)[k] = a[n + k]
  <2> SUFFICES ASSUME NEW k \in 1 .. Len(s) + Len(t) PROVE (s \o t)[k] = a[n + k]
    OBVIOUS
  <2>1. CASE k <= Len(s)
    <3>1. k \in 1 .. Len(s)
      BY <1>1, <2>1
    <3> QED  BY <1>2, <2>1, <3>1 DEF Part
  <2>2. CASE ~(k <= Len(s))
    <3>1. k - Len(s) \in 1 .. Len(t) /\ (n + Len(s)) + (k - Len(s)) = n + k
      BY <1>1, <2>2
    <3> QED  BY <1>2, <2>2, <3>1 DEF Part
  <2> QED  BY <2>1, <2>2
<1>4. n + (Len(s) + Len(t)) <= Len(a)
  BY <1>1 DEF Part
<1> QED  BY <1>1, <1>3, <1>4 DEF Part

(* What is between two places is a part. *)
LEMMA PartSub ==
  \A a \in Seq(Payload), n, m \in Nat :
    n + m <= Len(a) => /\ SubSeq(a, n + 1, n + m) \in Seq(Payload)
                       /\ Len(SubSeq(a, n + 1, n + m)) = m
                       /\ Part(SubSeq(a, n + 1, n + m), a, n)
<1> SUFFICES ASSUME NEW a \in Seq(Payload), NEW n \in Nat, NEW m \in Nat, n + m <= Len(a)
             PROVE  /\ SubSeq(a, n + 1, n + m) \in Seq(Payload)
                    /\ Len(SubSeq(a, n + 1, n + m)) = m
                    /\ Part(SubSeq(a, n + 1, n + m), a, n)
  OBVIOUS
<1>0. Len(a) \in Nat
  BY LenProperties
<1>1. CASE m = 0
  <2>1. SubSeq(a, n + 1, n + m) = << >>
    BY <1>0, <1>1, SubSeqProperties
  <2>2. << >> \in Seq(Payload) /\ Len(<< >>) = m /\ n <= Len(a)
    BY <1>0, <1>1, EmptyType
  <2>3. Part(<< >>, a, n)
    BY <2>2, PartEmpty
  <2> DEFINE t == SubSeq(a, n + 1, n + m)
  <2> HIDE DEF t
  <2>4. t = << >>
    BY <2>1 DEF t
  <2>5. t \in Seq(Payload) /\ Len(t) = m /\ Part(t, a, n)
    BY <2>2, <2>3, <2>4
  <2> QED  BY <2>5 DEF t
<1>2. CASE m # 0
  <2>1. n + 1 \in 1 .. Len(a) /\ n + m \in 1 .. Len(a) /\ n + 1 <= n + m
    BY <1>0, <1>2
  <2>2. /\ SubSeq(a, n + 1, n + m) \in Seq(Payload)
        /\ Len(SubSeq(a, n + 1, n + m)) = IF n + 1 <= n + m THEN (n + m) - (n + 1) + 1 ELSE 0
    BY <1>0, <2>1, SubSeqType
  <2>3. (n + m) - (n + 1) + 1 = m
    BY <1>0
  <2>4. Len(SubSeq(a, n + 1, n + m)) = m
    BY <2>1, <2>2, <2>3
  <2>5. \A k \in 1 .. m : SubSeq(a, n + 1, n + m)[k] = a[(n + 1) + k - 1]
    BY <1>0, <2>1, <2>4, SubSeqProperties
  <2>6. \A k \in 1 .. m : SubSeq(a, n + 1, n + m)[k] = a[n + k]
    <3>1. \A k \in 1 .. m : (n + 1) + k - 1 = n + k
      BY <1>0
    <3> QED  BY <2>5, <3>1
  <2> DEFINE t == SubSeq(a, n + 1, n + m)
  <2> HIDE DEF t
  <2>7. Len(t) = m /\ \A k \in 1 .. m : t[k] = a[n + k]
    BY <2>4, <2>6 DEF t
  <2>8. Part(t, a, n)
    BY <2>7 DEF Part
  <2> QED  BY <2>2, <2>4, <2>8 DEF t
<1> QED  BY <1>1, <1>2

(* A part of a part. *)
LEMMA PartPart ==
  \A a, s, t \in Seq(Payload), n, m \in Nat :
    Part(s, a, n) /\ Part(t, s, m) => Part(t, a, n + m)
<1> SUFFICES ASSUME NEW a \in Seq(Payload), NEW s \in Seq(Payload), NEW t \in Seq(Payload),
                    NEW n \in Nat, NEW m \in Nat, Part(s, a, n), Part(t, s, m)
             PROVE  Part(t, a, n + m)
  OBVIOUS
<1>1. /\ Len(a) \in Nat /\ Len(s) \in Nat /\ Len(t) \in Nat
  BY LenProperties
<1>2. (n + m) + Len(t) <= Len(a)
  BY <1>1 DEF Part
<1>3. \A k \in 1 .. Len(t) : t[k] = a[(n + m) + k]
  <2> SUFFICES ASSUME NEW k \in 1 .. Len(t) PROVE t[k] = a[(n + m) + k]
    OBVIOUS
  <2>1. m + k \in 1 .. Len(s) /\ n + (m + k) = (n + m) + k
    BY <1>1 DEF Part
  <2> QED  BY <2>1 DEF Part
<1> QED  BY <1>2, <1>3 DEF Part

(* A part as long as the whole is the whole. *)
LEMMA PartWhole ==
  \A a, s, t \in Seq(Payload), n \in Nat :
    Part(s, a, n) /\ Part(t, a, n) /\ Len(s) = Len(t) => s = t
<1> SUFFICES ASSUME NEW a \in Seq(Payload), NEW s \in Seq(Payload), NEW t \in Seq(Payload),
                    NEW n \in Nat, Part(s, a, n), Part(t, a, n), Len(s) = Len(t)
             PROVE  s = t
  OBVIOUS
<1>1. \A k \in 1 .. Len(s) : s[k] = t[k]
  BY DEF Part
<1> QED  BY <1>1, SeqEqual

(* A sequence is a part of itself. *)
LEMMA PartSelf == \A a \in Seq(Payload) : Part(a, a, 0)
<1> SUFFICES ASSUME NEW a \in Seq(Payload) PROVE Part(a, a, 0)
  OBVIOUS
<1>1. Len(a) \in Nat /\ \A k \in Nat : 0 + k = k
  BY LenProperties
<1> QED  BY <1>1 DEF Part

-----------------------------------------------------------------------------
(* What the host knows and what the program remembers. *)
LEMMA Again ==
  \A q : /\ \A c : newConfigured(q, newConfigured(q, c)) = newConfigured(q, c)
         /\ \A w \in BOOLEAN : newRemoteWake(q, newRemoteWake(q, w)) = newRemoteWake(q, w)
         /\ setsStall(q) \/ clearsStall(q) => \A c : newConfigured(q, c) = c
         /\ ~setsStall(q) /\ ~clearsStall(q) => \A h : newHalted(q, h) = h
         /\ answerTo(q) # "none" =>
              \A d, l : newLine(q, l) = l /\ newLineCoding(q, d, l) = l
<1> SUFFICES ASSUME NEW q
             PROVE  /\ \A c : newConfigured(q, newConfigured(q, c)) = newConfigured(q, c)
                    /\ \A w \in BOOLEAN : newRemoteWake(q, newRemoteWake(q, w)) = newRemoteWake(q, w)
                    /\ setsStall(q) \/ clearsStall(q) => \A c : newConfigured(q, c) = c
                    /\ ~setsStall(q) /\ ~clearsStall(q) => \A h : newHalted(q, h) = h
                    /\ answerTo(q) # "none" =>
                         \A d, l : newLine(q, l) = l /\ newLineCoding(q, d, l) = l
  OBVIOUS
<1>1. \A c : newConfigured(q, newConfigured(q, c)) = newConfigured(q, c)
  BY DEF newConfigured
<1>2. \A w \in BOOLEAN : newRemoteWake(q, newRemoteWake(q, w)) = newRemoteWake(q, w)
  BY DEF newRemoteWake
<1>3. setsStall(q) \/ clearsStall(q) => \A c : newConfigured(q, c) = c
  BY Exclusive DEF newConfigured, REQ_SET_CONFIGURATION, REQ_SET_FEATURE, REQ_CLEAR_FEATURE
<1>4. ~setsStall(q) /\ ~clearsStall(q) => \A h : newHalted(q, h) = h
  BY DEF newHalted
<1>5. answerTo(q) # "none" => \A d, l : newLine(q, l) = l /\ newLineCoding(q, d, l) = l
  BY Changes DEF newLine, newLineCoding
<1> QED  BY <1>1, <1>2, <1>3, <1>4, <1>5

(* remote_wake_enabled is TRUE or FALSE, before a request and after it ... *)
LEMMA WakeType == \A q : \A w \in BOOLEAN : newRemoteWake(q, w) \in BOOLEAN
BY DEF newRemoteWake

(* ... and the same for the host and the program. *)
LEMMA ProgramWake == \A q : \A w \in BOOLEAN : Program!newRemoteWake(q, w) = newRemoteWake(q, w)
<1> SUFFICES ASSUME NEW q, NEW w \in BOOLEAN PROVE Program!newRemoteWake(q, w) = newRemoteWake(q, w)
  OBVIOUS
<1>1. Program!newRemoteWake(q, w) \in BOOLEAN /\ newRemoteWake(q, w) \in BOOLEAN
  BY WakeType DEF Program!newRemoteWake
<1>2. Program!newRemoteWake(q, w) <=> newRemoteWake(q, w)
  BY ProgramUpdates
<1>3. \A x, y \in BOOLEAN : (x <=> y) => x = y
  OBVIOUS
<1> QED  BY <1>1, <1>2, <1>3

(* A request is carried out, for one of the functions the device may be. *)
LEMMA InEffects == \A q, f, fs : f \in fs => Function!Effect(q, f) \in Function!Effects(q, fs)
BY DEF Function!Effects

(* What a request makes of what the program remembers, part by part. *)
LEMMA MemoryEffect ==
  ASSUME StaticOK, NEW q
  PROVE  Function!Effect(q, memory) =
           Func(newConfigured(q, configured), newRemoteWake(q, remote_wake_enabled),
                newHalted(q, endpoint_stalled \ {0}), newLine(q, line_coding))
BY EffectIs DEF memory, StaticOK

(* If the host knows the program before the request, it will know it after *)
(* it.                                                                     *)
LEMMA KnowsWill == ASSUME Knows PROVE WillDo
BY InEffects DEF Knows, WillDo

(* A request that only reads, or that is refused. *)
LEMMA EffectNone ==
  ASSUME StaticOK, NEW q, answerTo(q) \in {"send", "stall"}
  PROVE  Function!Effect(q, memory) = memory
<1>1. /\ newConfigured(q, configured) = configured
      /\ newRemoteWake(q, remote_wake_enabled) = remote_wake_enabled
      /\ newHalted(q, endpoint_stalled \ {0}) = endpoint_stalled \ {0}
  BY Changes DEF StaticOK
<1>2. newLine(q, line_coding) = line_coding
  BY Again
<1> QED  BY <1>1, <1>2, MemoryEffect DEF memory

(* A reset of the bus, as the host counts it and as the program notices it.*)
LEMMA ResetOf ==
  \A c, w, h, l : \A fs : Func(c, w, h, l) \in fs => Func(0, w, {}, l) \in Function!Reset(fs)
<1> SUFFICES ASSUME NEW c, NEW w, NEW h, NEW l, NEW fs, Func(c, w, h, l) \in fs
             PROVE  Func(0, w, {}, l) \in Function!Reset(fs)
  OBVIOUS
<1>1. [Func(c, w, h, l) EXCEPT !.configured = 0, !.halted = {}] = Func(0, w, {}, l)
  <2> DEFINE f == Func(c, w, h, l)
             g == [f EXCEPT !.configured = 0, !.halted = {}]
             k == Func(0, w, {}, l)
             F == {"configured", "wake", "halted", "line"}
  <2>1. g = [i \in DOMAIN f |-> g[i]]
    BY Zenon
  <2>2. g.configured = 0 /\ g.wake = w /\ g.halted = {} /\ g.line = l
    BY Zenon DEF Func
  <2>3. k.configured = 0 /\ k.wake = w /\ k.halted = {} /\ k.line = l
    BY Zenon DEF Func
  <2>4. DOMAIN f = F /\ k = [i \in F |-> k[i]]
    BY SMT DEF Func
  <2> HIDE DEF f, g, k
  <2>5. g = k
    BY <2>1, <2>2, <2>3, <2>4, Zenon
  <2> QED  BY <2>5 DEF f, g, k
<1> QED  BY <1>1 DEF Function!Reset

(* After it the program remembers what the host expects. *)
LEMMA ResetForgets ==
  ASSUME StaticOK, UNCHANGED Program!staticVars,
         hfuncs' = Function!Reset(hfuncs \cup
                     IF inTransfer THEN Function!Effects(asked, hfuncs) ELSE {}),
         Knows \/ (Did /\ inTransfer) \/ WillReset
  PROVE  WillReset'
<1> DEFINE fs == hfuncs \cup IF inTransfer THEN Function!Effects(asked, hfuncs) ELSE {}
<1>1. memory \in fs \/ WillReset
  BY DEF Knows, Did
<1>2. UNCHANGED <<configured, remote_wake_enabled, endpoint_stalled, line_coding>>
  BY DEF Program!staticVars
<1>3. hfuncs' = Function!Reset(fs)
  OBVIOUS
<1>4. \E c, h : Func(c, remote_wake_enabled, h, line_coding) \in fs
  BY <1>1 DEF memory, WillReset
<1> HIDE DEF fs
<1>5. Func(0, remote_wake_enabled, {}, line_coding) \in Function!Reset(fs)
  BY <1>4, ResetOf
<1> QED  BY <1>2, <1>3, <1>5 DEF WillReset

(* Two steps that leave the request and what is known of it alone. *)
LEMMA HostKeeps ==
  ASSUME UNCHANGED <<host, hfuncs, hresets, hfails, scenario>>
  PROVE  /\ asked' = asked /\ reading' = reading /\ inTransfer' = inTransfer
         /\ HostQuiet' = HostQuiet /\ Awaits' = Awaits /\ Owed' = Owed /\ NoOnePacket' = NoOnePacket
         /\ UNCHANGED <<hreq, hstage, htog, haddr, hdata, hfuncs, hresets, hfails, scenario>>
         /\ now' = now
BY DEF host, asked, reading, inTransfer, HostQuiet, Awaits, Owed, NoOnePacket, now

(* A step that leaves what the program remembers alone. *)
LEMMA MemoryKeeps ==
  ASSUME UNCHANGED <<host, hfuncs>>, UNCHANGED Program!staticVars
  PROVE  /\ Knows' = Knows /\ Did' = Did /\ WillDo' = WillDo /\ WillReset' = WillReset
         /\ WakeDone' = WakeDone /\ memory' = memory
<1>1. asked' = asked /\ hfuncs' = hfuncs
  BY DEF host, asked
<1>2. UNCHANGED <<configured, remote_wake_enabled, endpoint_stalled, line_coding>>
  BY DEF Program!staticVars
<1>3. memory' = memory
  BY <1>2 DEF memory
<1> QED  BY <1>1, <1>2, <1>3 DEF Knows, Did, WillDo, WillReset, WakeDone

-----------------------------------------------------------------------------
(* What the program makes of a request. *)
LEMMA ProcessKnows ==
  ASSUME StaticOK, Knows, UNCHANGED <<host, hfuncs, configured, endpoint_stalled>>,
         Program!Process(asked)
  PROVE  /\ answerTo(asked) \in {"address", "status"} => WillDo' /\ WakeDone'
         /\ answerTo(asked) \in {"send", "stall"} => Knows'
<1>1. asked' = asked /\ hfuncs' = hfuncs /\ configured' = configured
      /\ endpoint_stalled' = endpoint_stalled
  BY DEF host, asked
<1>2. /\ remote_wake_enabled' = newRemoteWake(asked, remote_wake_enabled)
      /\ line_coding' = newLineCoding(asked, data_buffer, line_coding)
  <2>1. /\ remote_wake_enabled' = Program!newRemoteWake(asked, remote_wake_enabled)
        /\ line_coding' = Program!newLineCoding(asked, data_buffer, line_coding)
    BY DEF Program!Process
  <2>2. Program!newLineCoding(asked, data_buffer, line_coding)
          = newLineCoding(asked, data_buffer, line_coding)
    BY ProgramUpdates
  <2>3. Program!newRemoteWake(asked, remote_wake_enabled) = newRemoteWake(asked, remote_wake_enabled)
    BY ProgramWake DEF StaticOK
  <2> QED  BY <2>1, <2>2, <2>3
<1>3. ASSUME answerTo(asked) # "none"
      PROVE  memory' = Func(configured, newRemoteWake(asked, remote_wake_enabled),
                            endpoint_stalled \ {0}, line_coding)
  <2>1. line_coding' = line_coding
    BY <1>2, <1>3, Again
  <2> QED  BY <1>1, <1>2, <2>1 DEF memory
<1>4. ASSUME answerTo(asked) \in {"address", "status"} PROVE WillDo' /\ WakeDone'
  <2> DEFINE w == newRemoteWake(asked, remote_wake_enabled)
  <2>1. w \in BOOLEAN /\ newRemoteWake(asked, w) = w
    BY Again, WakeType DEF StaticOK
  <2>2. Function!Effect(asked, memory') =
          Func(newConfigured(asked, configured), newRemoteWake(asked, w),
               newHalted(asked, endpoint_stalled \ {0}), newLine(asked, line_coding))
    <3> HIDE DEF w
    <3> QED  BY <1>3, <1>4, <2>1, EffectIs DEF w
  <2>3. Function!Effect(asked, memory') = Function!Effect(asked, memory)
    BY <2>1, <2>2, MemoryEffect
  <2>4. WillDo'
    BY <1>1, <2>3, KnowsWill DEF WillDo
  <2>5. WakeDone'
    BY <1>1, <1>2, <2>1 DEF WakeDone
  <2> QED  BY <2>4, <2>5
<1>5. ASSUME answerTo(asked) \in {"send", "stall"} PROVE Knows'
  <2>1. newRemoteWake(asked, remote_wake_enabled) = remote_wake_enabled
    BY <1>5, Changes DEF StaticOK
  <2>2. memory' = memory
    BY <1>3, <1>5, <2>1 DEF memory
  <2> QED  BY <1>1, <2>2 DEF Knows
<1> QED  BY <1>4, <1>5

-----------------------------------------------------------------------------
(* The status stage of a request without data. *)
LEMMA StatusKnows ==
  ASSUME StaticOK, WillDo, WakeDone, answerTo(asked) # "none",
         UNCHANGED <<host, hfuncs, remote_wake_enabled, endpoint_stalled, line_coding>>,
         configured' = Program!newConfigured(asked, configured)
  PROVE  /\ WillDo' /\ WakeDone'
         /\ ~setsStall(asked) /\ ~clearsStall(asked) => Did'
<1>1. asked' = asked /\ hfuncs' = hfuncs
  BY DEF host, asked
<1> DEFINE c == newConfigured(asked, configured)
           h == endpoint_stalled \ {0}
<1>2. configured' = c
  BY ProgramUpdates
<1>3. remote_wake_enabled' = remote_wake_enabled
      /\ newRemoteWake(asked, remote_wake_enabled) = remote_wake_enabled
  BY DEF WakeDone
<1>4. memory' = Func(c, remote_wake_enabled, h, line_coding)
  BY <1>2 DEF memory
<1>5. Function!Effect(asked, memory) = Func(c, remote_wake_enabled, newHalted(asked, h), line_coding)
  BY <1>3, Again, MemoryEffect
<1>6. Function!Effect(asked, memory') =
        Func(newConfigured(asked, c), newRemoteWake(asked, remote_wake_enabled),
             newHalted(asked, h), newLine(asked, line_coding))
  <2> HIDE DEF c, h
  <2> QED  BY <1>4, EffectIs DEF StaticOK
<1>7. newConfigured(asked, c) = c /\ newLine(asked, line_coding) = line_coding
  BY Again
<1> HIDE DEF c, h
<1>8. Function!Effect(asked, memory') = Function!Effect(asked, memory)
  BY <1>3, <1>5, <1>6, <1>7
<1>9. WillDo'
  BY <1>1, <1>8 DEF WillDo
<1>10. WakeDone'
  BY <1>1, <1>3 DEF WakeDone
<1>11. ASSUME ~setsStall(asked), ~clearsStall(asked) PROVE Did'
  <2>1. memory' = Function!Effect(asked, memory)
    BY <1>4, <1>5, <1>11, Again
  <2> QED  BY <1>1, <2>1 DEF Did, WillDo
<1> QED  BY <1>9, <1>10, <1>11

(* ... and when it halts an endpoint, or ends its halt. *)
LEMMA HaltKnows ==
  ASSUME StaticOK, WillDo, WakeDone, answerTo(asked) # "none",
         setsStall(asked) \/ clearsStall(asked), setsStall(asked) => endpointOf(asked) # 0,
         UNCHANGED <<host, hfuncs, configured, remote_wake_enabled, line_coding>>,
         endpoint_stalled' = IF setsStall(asked) THEN endpoint_stalled \cup {endpointOf(asked)}
                             ELSE endpoint_stalled \ {endpointOf(asked)}
  PROVE  Did'
<1>1. asked' = asked /\ hfuncs' = hfuncs
  BY DEF host, asked
<1>2. endpoint_stalled' \ {0} = newHalted(asked, endpoint_stalled \ {0})
  <2>1. CASE setsStall(asked)
    BY <2>1 DEF newHalted
  <2>2. CASE ~setsStall(asked)
    BY <2>2 DEF newHalted
  <2> QED  BY <2>1, <2>2
<1>3. memory' = Func(configured, remote_wake_enabled, newHalted(asked, endpoint_stalled \ {0}), line_coding)
  BY <1>2 DEF memory
<1>4. Function!Effect(asked, memory) =
        Func(configured, remote_wake_enabled, newHalted(asked, endpoint_stalled \ {0}), line_coding)
  <2>1. newRemoteWake(asked, remote_wake_enabled) = remote_wake_enabled
    BY DEF WakeDone
  <2>2. newConfigured(asked, configured) = configured /\ newLine(asked, line_coding) = line_coding
    BY Again
  <2> QED  BY <2>1, <2>2, MemoryEffect
<1> QED  BY <1>1, <1>3, <1>4 DEF Did, WillDo

(* The status stage of a request whose data has come. *)
LEMMA DataKnows ==
  ASSUME StaticOK, Knows, answerTo(asked) = "none",
         UNCHANGED <<host, hfuncs, configured, endpoint_stalled>>, Program!Process(asked),
         Class(asked, CDC_SET_LINE_CODING) => asked.data = SubSeq(data_buffer, 1, Len(line_coding))
  PROVE  Did'
<1>1. asked' = asked /\ hfuncs' = hfuncs /\ configured' = configured
      /\ endpoint_stalled' = endpoint_stalled
  BY DEF host, asked
<1>2. remote_wake_enabled' = remote_wake_enabled
  <2>1. remote_wake_enabled' = newRemoteWake(asked, remote_wake_enabled)
    BY ProgramWake DEF Program!Process, StaticOK
  <2> QED  BY <2>1, Changes DEF StaticOK
<1>3. line_coding' = newLine(asked, line_coding)
  <2>1. line_coding' = newLineCoding(asked, data_buffer, line_coding)
    BY ProgramUpdates DEF Program!Process
  <2> QED  BY <2>1 DEF newLine, newLineCoding
<1>4. memory' = Func(configured, remote_wake_enabled, endpoint_stalled \ {0}, newLine(asked, line_coding))
  BY <1>1, <1>2, <1>3 DEF memory
<1>5. Function!Effect(asked, memory) =
        Func(configured, remote_wake_enabled, endpoint_stalled \ {0}, newLine(asked, line_coding))
  <2>1. /\ newConfigured(asked, configured) = configured
        /\ newRemoteWake(asked, remote_wake_enabled) = remote_wake_enabled
        /\ newHalted(asked, endpoint_stalled \ {0}) = endpoint_stalled \ {0}
    BY Changes DEF StaticOK
  <2> QED  BY <2>1, MemoryEffect
<1> QED  BY <1>1, <1>4, <1>5, InEffects DEF Did, Knows

(* A stall of endpoint 0, and a bus reset. *)
LEMMA StallKnows ==
  ASSUME UNCHANGED <<host, hfuncs, configured, remote_wake_enabled, line_coding>>, Knows,
         endpoint_stalled' = endpoint_stalled \cup {0}
  PROVE  Knows'
<1>1. endpoint_stalled' \ {0} = endpoint_stalled \ {0}
  OBVIOUS
<1> QED  BY <1>1 DEF Knows, memory

(* openusb_reset: the program forgets what a bus reset takes from it. *)
LEMMA ResetKnows ==
  ASSUME UNCHANGED <<host, hfuncs, remote_wake_enabled, line_coding>>, WillReset,
         configured' = 0, endpoint_stalled' = {}
  PROVE  Knows'
<1>1. endpoint_stalled' \ {0} = {}
  OBVIOUS
<1> QED  BY <1>1 DEF Knows, WillReset, memory

(* What the host learns. *)
LEMMA DoneKnows ==
  ASSUME StaticOK, UNCHANGED Program!staticVars, hfuncs' = Function!Effects(asked, hfuncs),
         Did \/ (Knows /\ answerTo(asked) \in {"send", "stall"})
  PROVE  Knows'
<1>1. memory' = memory
  BY DEF memory, Program!staticVars
<1>2. CASE Did
  BY <1>1, <1>2 DEF Did, Knows
<1>3. CASE Knows /\ answerTo(asked) \in {"send", "stall"}
  <2>1. Function!Effect(asked, memory) \in Function!Effects(asked, hfuncs)
    BY <1>3, InEffects DEF Knows
  <2> QED  BY <1>1, <1>3, <2>1, EffectNone DEF Knows
<1> QED  BY <1>2, <1>3

-----------------------------------------------------------------------------
(* What an access does to endpoint 0. *)
RxSame == /\ rx_ready_q'[0] = rx_ready_q[0] /\ rx_len_q'[0] = rx_len_q[0]
          /\ rx_setup_q'[0] = rx_setup_q[0] /\ rx_fifo'[0] = rx_fifo[0]
TxSame == /\ tx_active_q'[0] = tx_active_q[0] /\ tx_len_q'[0] = tx_len_q[0]
          /\ tx_fifo'[0] = tx_fifo[0]

(* One bit of a register for every endpoint. *)
LEMMA PutBool == \A f, i, v : f \in [EP -> BOOLEAN] /\ i \in EP /\ v \in BOOLEAN => (Put(f, i, v)[i] <=> v)
BY DEF Put

(* An access of the processor: the receiving side of endpoint 0. *)
LEMMA AccessRx0 ==
  ASSUME DeviceOK, NEW c, CpuRx(c)
  PROVE  /\ c.op \notin {"accept", "read", "rx_flush"} \/ c.ep # 0 => RxSame
         /\ c.op = "accept" /\ c.ep = 0 =>
              ~rx_ready_q'[0] /\ rx_len_q'[0] = 0 /\ ~rx_setup_q'[0] /\ rx_fifo'[0] = rx_fifo[0]
         /\ c.op \in {"read", "rx_flush"} =>
              /\ rx_ready_q'[0] = rx_ready_q[0] /\ rx_len_q'[0] = rx_len_q[0]
              /\ rx_setup_q'[0] = rx_setup_q[0]
         /\ c.op = "read" /\ c.ep = 0 =>
              rx_fifo'[0] = IF rx_fifo[0] # << >> THEN Tail(rx_fifo[0]) ELSE rx_fifo[0]
         /\ c.op = "rx_flush" /\ c.ep = 0 => rx_fifo'[0] = << >>
<1> USE DeviceTypes, TransactionsAssumption
<1>1. CASE c.op = "accept"
  <2>1. /\ rx_ready_q' = Put(rx_ready_q, c.ep, FALSE)
        /\ rx_len_q' = Put(rx_len_q, c.ep, 0)
        /\ rx_setup_q' = Put(rx_setup_q, c.ep, FALSE)
        /\ UNCHANGED rx_fifo
    BY <1>1 DEF CpuRx, Accepted
  <2>2. c.ep # 0 => RxSame
    BY <2>1 DEF RxSame, Put
  <2>3. ASSUME c.ep = 0 PROVE ~rx_ready_q'[0] /\ rx_len_q'[0] = 0 /\ ~rx_setup_q'[0]
    <3>1. rx_len_q'[0] = 0
      BY <2>1, <2>3 DEF Put
    <3>2. ~rx_ready_q'[0] /\ ~rx_setup_q'[0]
      BY <2>1, <2>3, PutBool, Zenon
    <3> QED  BY <3>1, <3>2
  <2> QED  BY <1>1, <2>1, <2>2, <2>3
<1>2. CASE c.op = "read"
  <2>1. CASE rx_fifo[c.ep] # << >>
    BY <1>2, <2>1 DEF CpuRx, Put, RxSame
  <2>2. CASE rx_fifo[c.ep] = << >>
    BY <1>2, <2>2 DEF CpuRx, rxVars, RxSame
  <2> QED  BY <2>1, <2>2
<1>3. CASE c.op = "rx_flush"
  BY <1>3 DEF CpuRx, Put, RxSame
<1>4. CASE c.op \notin {"accept", "read", "rx_flush"}
  BY <1>4 DEF CpuRx, rxVars, RxSame
<1> QED  BY <1>1, <1>2, <1>3, <1>4

(* ... the sending side, *)
LEMMA AccessTx0 ==
  ASSUME DeviceOK, NEW c, CpuTx(c)
  PROVE  /\ c.op \notin {"tx_flush", "flush_start", "start", "write"} \/ c.ep # 0 => TxSame
         /\ c.op \in {"tx_flush", "flush_start"} /\ c.ep = 0 =>
              ~tx_active_q'[0] /\ tx_len_q'[0] = 0 /\ tx_fifo'[0] = << >>
         /\ c.op = "start" /\ c.ep = 0 =>
              tx_active_q'[0] /\ tx_len_q'[0] = c.arg /\ tx_fifo'[0] = tx_fifo[0]
         /\ c.op = "write" /\ c.ep = 0 =>
              /\ tx_active_q'[0] = tx_active_q[0] /\ tx_len_q'[0] = tx_len_q[0]
              /\ Len(tx_fifo[0]) < DEPTH => tx_fifo'[0] = Append(tx_fifo[0], c.arg)
<1> USE DeviceTypes, TransactionsAssumption
<1>1. CASE c.op \in {"tx_flush", "flush_start"}
  <2>1. /\ tx_active_q' = Put(tx_active_q, c.ep, FALSE)
        /\ tx_len_q' = Put(tx_len_q, c.ep, 0)
        /\ tx_fifo' = Put(tx_fifo, c.ep, << >>)
    BY <1>1 DEF CpuTx
  <2>2. c.ep # 0 => TxSame
    BY <2>1 DEF TxSame, Put
  <2>3. c.ep = 0 => tx_len_q'[0] = 0 /\ tx_fifo'[0] = << >>
    BY <2>1 DEF Put
  <2>4. c.ep = 0 => ~tx_active_q'[0]
    BY <2>1, PutBool, Zenon
  <2> QED  BY <1>1, <2>2, <2>3, <2>4
<1>2. CASE c.op = "start"
  <2>1. /\ tx_active_q' = Put(tx_active_q, c.ep, TRUE)
        /\ tx_len_q' = Put(tx_len_q, c.ep, c.arg)
        /\ UNCHANGED tx_fifo
    BY <1>2 DEF CpuTx
  <2>2. c.ep # 0 => TxSame
    BY <2>1 DEF TxSame, Put
  <2>3. c.ep = 0 => tx_len_q'[0] = c.arg /\ tx_fifo'[0] = tx_fifo[0]
    BY <2>1 DEF Put
  <2>4. c.ep = 0 => tx_active_q'[0]
    BY <2>1, PutBool, Zenon
  <2> QED  BY <1>2, <2>2, <2>3, <2>4
<1>3. CASE c.op = "write"
  <2>1. CASE Len(tx_fifo[c.ep]) < DEPTH
    BY <1>3, <2>1 DEF CpuTx, Put, TxSame
  <2>2. CASE ~(Len(tx_fifo[c.ep]) < DEPTH)
    BY <1>3, <2>2 DEF CpuTx, txVars, TxSame
  <2> QED  BY <2>1, <2>2
<1>4. CASE c.op \notin {"tx_flush", "flush_start", "start", "write"}
  BY <1>4 DEF CpuTx, txVars, TxSame
<1> QED  BY <1>1, <1>2, <1>3, <1>4

(* ... its stall and the address of the device, *)
LEMMA AccessCfg0 ==
  ASSUME DeviceOK, NEW c, CpuCfg(c)
  PROVE  /\ c.op # "cfg" \/ c.ep # 0 => stall0' = stall0
         /\ c.op = "cfg" /\ c.ep = 0 /\ c.arg.stall_ep \in BOOLEAN =>
              /\ ~c.arg.stall_ep /\ ~stall0 => ~stall0'
              /\ c.arg.stall_ep /\ ~rx_setup_q[0] => stall0'
         /\ c.op # "addr" => func_addr_r' = func_addr_r
         /\ c.op = "addr" => func_addr_r' = c.arg
<1> USE DeviceTypes, TransactionsAssumption DEF stall0
<1>1. CASE c.op = "cfg"
  <2>0. ep_cfg_stall_ep_r' = Put(ep_cfg_stall_ep_r, c.ep,
              (ep_cfg_stall_ep_r[c.ep] \/ c.arg.stall_ep) /\ ~rx_setup_q[c.ep])
        /\ func_addr_r' = func_addr_r
    BY <1>1 DEF CpuCfg
  <2>1. CASE c.ep # 0
    BY <1>1, <2>0, <2>1 DEF Put
  <2>2. CASE c.ep = 0
    <3>1. ASSUME c.arg.stall_ep \in BOOLEAN
          PROVE  stall0' <=> (stall0 \/ c.arg.stall_ep) /\ ~rx_setup_q[0]
      <4>1. ((ep_cfg_stall_ep_r[0] \/ c.arg.stall_ep) /\ ~rx_setup_q[0]) \in BOOLEAN
        OBVIOUS
      <4> QED  BY <2>0, <2>2, <4>1, PutBool, Zenon
    <3> QED  BY <1>1, <2>0, <2>2, <3>1
  <2> QED  BY <2>1, <2>2
<1>2. CASE c.op = "ctrl"
  BY <1>2 DEF CpuCfg
<1>3. CASE c.op = "addr"
  BY <1>3 DEF CpuCfg
<1>4. CASE c.op \notin {"cfg", "ctrl", "addr"}
  BY <1>4 DEF CpuCfg, cfgVars
<1> QED  BY <1>1, <1>2, <1>3, <1>4

(* ... and its interrupts. *)
LEMMA AccessIntr0 ==
  ASSUME DeviceOK, NEW c, CpuIntr(c), c.op = "stat" => c.rst
  PROVE  /\ c.op # "stat" => intr_reset_r' = intr_reset_r
         /\ c.op = "stat" => ~intr_reset_r'
         /\ c.op # "intsts" => intr_ep_rx_ready_r'[0] = intr_ep_rx_ready_r[0]
         /\ intr_ep_rx_ready_r'[0] => intr_ep_rx_ready_r[0]
<1> USE DeviceTypes, TransactionsAssumption
<1>1. CASE c.op = "intsts"
  BY <1>1 DEF CpuIntr
<1>2. CASE c.op = "stat"
  BY <1>2 DEF CpuIntr
<1>3. CASE c.op \notin {"intsts", "stat"}
  BY <1>3 DEF CpuIntr, intrVars
<1> QED  BY <1>1, <1>2, <1>3

-----------------------------------------------------------------------------
(* What the accesses of my_usb_intr do to endpoint 0. *)
CfgSame  == stall0' = stall0 /\ func_addr_r' = func_addr_r
IntrSame == intr_reset_r' = intr_reset_r /\ came' = came
CoreSame == UNCHANGED <<token, current_addr_q, ep0_dir_in_q, ep0_dir_out_q, ep_data_bit_q>>

QuietPc == {"idle", "intsts", "service", "ep1Count", "ep1Read", "setupCount", "outCount",
            "statusSpin", "sendSpin", "sendAck"}

(* The handler, where it does not write, or only clears interrupts. *)
LEMMA HandlerQuiet ==
  ASSUME SystemInv, PatientInv, Cpu(Program!handlerOp)
  PROVE  /\ CoreSame
         /\ fpc \in QuietPc => RxSame /\ TxSame /\ CfgSame /\ IntrSame
         /\ fpc = "clear" => /\ RxSame /\ TxSame /\ CfgSame /\ intr_reset_r' = intr_reset_r
                             /\ came' => came
                             /\ served => ~came'
         /\ fpc = "stat" => RxSame /\ TxSame /\ CfgSame /\ ~intr_reset_r' /\ came' = came
<1> DEFINE c == Program!handlerOp
<1>1. DeviceOK /\ XferOK /\ HandlerOK /\ CpuRx(c) /\ CpuTx(c) /\ CpuCfg(c) /\ CpuIntr(c) /\ UNCHANGED coreVars
  BY DEF SystemInv, ProgramOK, Cpu
<1>2. CoreSame
  BY <1>1 DEF CoreSame, coreVars
<1>3. /\ c.op \notin {"accept", "read", "rx_flush"} \/ c.ep # 0 => RxSame
      /\ c.op \notin {"tx_flush", "flush_start", "start", "write"} \/ c.ep # 0 => TxSame
      /\ c.op \notin {"cfg", "addr"} => CfgSame
  BY <1>1, AccessRx0, AccessTx0, AccessCfg0 DEF CfgSame
<1>4. /\ (c.op = "stat" => c.rst) /\ c.op \notin {"stat", "intsts"} => IntrSame
      /\ (c.op = "stat" => c.rst) /\ c.op # "stat" => intr_reset_r' = intr_reset_r
      /\ c.op = "stat" /\ c.rst => ~intr_reset_r' /\ came' = came
  BY <1>1, AccessIntr0 DEF IntrSame, came
<1> USE DEF Program!Intsts, Program!Stat, Program!Read, Program!Accept, Program!NoOp
<1>5. fpc \in QuietPc =>
        c.op \in {"none", "read", "accept"} /\ (c.ep = 0 => c.op = "none")
  <2>1. fpc \in QuietPc => c \in {Program!Read(1), Program!Accept(1), Program!NoOp}
    BY <1>1, HandlerOps DEF QuietPc
  <2> HIDE DEF c
  <2> QED  BY <2>1
<1>6. fpc = "clear" => c.op = "intsts"
  BY <1>1, HandlerOps
<1>7. fpc = "stat" => c.op = "stat" /\ c.rst
  BY <1>1, HandlerOps
<1>8. /\ came' => came
      /\ fpc = "clear" /\ served => ~came'
  BY HandlerAccess DEF came
<1> HIDE DEF c
<1> QED  BY <1>2, <1>3, <1>4, <1>5, <1>6, <1>7, <1>8

(* Where it reads or accepts endpoint 0. *)
LEMMA HandlerReads ==
  ASSUME SystemInv, PatientInv, Cpu(Program!handlerOp), fpc \in ReadPc \cup {"sendAccept"}
  PROVE  /\ TxSame /\ CfgSame /\ IntrSame
         /\ fpc \in ReadPc /\ Len(fbuf) < fcnt =>
              /\ rx_ready_q'[0] = rx_ready_q[0] /\ rx_len_q'[0] = rx_len_q[0]
              /\ rx_setup_q'[0] = rx_setup_q[0]
              /\ rx_fifo'[0] = IF rx_fifo[0] # << >> THEN Tail(rx_fifo[0]) ELSE rx_fifo[0]
         /\ fpc = "sendAccept" \/ Len(fbuf) = fcnt =>
              ~rx_ready_q'[0] /\ rx_len_q'[0] = 0 /\ ~rx_setup_q'[0] /\ rx_fifo'[0] = rx_fifo[0]
<1> DEFINE c == Program!handlerOp
<1>1. DeviceOK /\ XferOK /\ HandlerOK /\ CpuRx(c) /\ CpuTx(c) /\ CpuCfg(c) /\ CpuIntr(c)
  BY DEF SystemInv, ProgramOK, Cpu
<1>2. c \in {Program!Read(0), Program!Accept(0), Program!NoOp}
  BY <1>1, HandlerOps DEF ReadPc
<1>3. /\ fpc \in ReadPc /\ Len(fbuf) < fcnt => c = Program!Read(0)
      /\ fpc \in ReadPc /\ Len(fbuf) = fcnt => c = Program!Accept(0)
      /\ fpc = "sendAccept" => c = Program!Accept(0)
  <2>1. ASSUME Len(fbuf) = fcnt PROVE ~(Len(fbuf) < fcnt)
    BY <1>1, <2>1 DEF XferOK
  <2> QED  BY <1>1, <2>1, HandlerOps
<1> USE DEF Program!Read, Program!Accept, Program!NoOp
<1> HIDE DEF c
<1>4. TxSame /\ CfgSame
  BY <1>1, <1>2, AccessTx0, AccessCfg0 DEF CfgSame
<1>5. IntrSame
  BY <1>1, <1>2, AccessIntr0 DEF IntrSame, came
<1>6. ASSUME fpc \in ReadPc, Len(fbuf) < fcnt
      PROVE  /\ rx_ready_q'[0] = rx_ready_q[0] /\ rx_len_q'[0] = rx_len_q[0]
             /\ rx_setup_q'[0] = rx_setup_q[0]
             /\ rx_fifo'[0] = IF rx_fifo[0] # << >> THEN Tail(rx_fifo[0]) ELSE rx_fifo[0]
  BY <1>1, <1>3, <1>6, AccessRx0
<1>7. ASSUME fpc = "sendAccept" \/ Len(fbuf) = fcnt
      PROVE  ~rx_ready_q'[0] /\ rx_len_q'[0] = 0 /\ ~rx_setup_q'[0] /\ rx_fifo'[0] = rx_fifo[0]
  BY <1>1, <1>3, <1>7, AccessRx0
<1> QED  BY <1>4, <1>5, <1>6, <1>7

(* Requests without data, and the answers. *)
LEMMA HandlerSends ==
  ASSUME SystemInv, PatientInv, Cpu(Program!handlerOp),
         fpc \in {"address", "status", "sendPoll", "sendWrite", "sendStart"}
  PROVE  /\ RxSame /\ IntrSame /\ stall0' = stall0
         /\ fpc # "address" => func_addr_r' = func_addr_r
         /\ fpc = "address" => TxSame /\ func_addr_r' = Program!addressOf(Program!req)
         /\ fpc = "status" => tx_active_q'[0] /\ tx_len_q'[0] = 0 /\ tx_fifo'[0] = tx_fifo[0]
         /\ fpc = "sendPoll" => IF tx_active_q[0] THEN ~tx_active_q'[0] /\ tx_len_q'[0] = 0
                                                       /\ tx_fifo'[0] = << >>
                                                  ELSE TxSame
         /\ fpc = "sendWrite" =>
              /\ tx_active_q'[0] = tx_active_q[0] /\ tx_len_q'[0] = tx_len_q[0]
              /\ Len(tx_fifo[0]) < DEPTH => tx_fifo'[0] = Append(tx_fifo[0], Head(fbuf))
         /\ fpc = "sendStart" =>
              IF fflush THEN ~tx_active_q'[0] /\ tx_len_q'[0] = 0 /\ tx_fifo'[0] = << >>
                        ELSE tx_active_q'[0] /\ tx_len_q'[0] = send /\ tx_fifo'[0] = tx_fifo[0]
<1> DEFINE c == Program!handlerOp
<1>1. DeviceOK /\ XferOK /\ HandlerOK /\ CpuRx(c) /\ CpuTx(c) /\ CpuCfg(c) /\ CpuIntr(c)
  BY DEF SystemInv, ProgramOK, Cpu
<1>2. /\ fpc = "address" => c = Program!SetAddr(Program!addressOf(Program!req))
      /\ fpc = "status" => c = Program!Start(0, 0)
      /\ fpc = "sendWrite" => c = Program!Write(0, Head(fbuf))
      /\ fpc = "sendStart" => c = IF fflush THEN Program!FlushStart(0, send) ELSE Program!Start(0, send)
  BY <1>1, HandlerOps
<1>3. fpc = "sendPoll" => c = IF tx_active_q[0] THEN Program!TxFlush(0) ELSE Program!NoOp
  BY TransactionsAssumption DEF Program!handlerOp, Program!reading, Sts
<1> USE DEF Program!SetAddr, Program!Start, Program!Write, Program!FlushStart, Program!TxFlush, Program!NoOp
<1> HIDE DEF c
<1>4. /\ c.op \in {"addr", "start", "write", "flush_start", "tx_flush", "none"}
      /\ c.op = "addr" <=> fpc = "address"
      /\ fpc = "address" => c.arg = Program!addressOf(Program!req)
  BY <1>2, <1>3
<1>5. /\ RxSame /\ IntrSame /\ stall0' = stall0
      /\ fpc # "address" => func_addr_r' = func_addr_r
      /\ fpc = "address" => TxSame /\ func_addr_r' = Program!addressOf(Program!req)
  <2>1. RxSame
    BY <1>1, <1>4, AccessRx0
  <2>2. IntrSame
    BY <1>1, <1>4, AccessIntr0 DEF IntrSame, came
  <2>3. stall0' = stall0
    BY <1>1, <1>4, AccessCfg0
  <2>4. /\ fpc # "address" => func_addr_r' = func_addr_r
        /\ fpc = "address" => func_addr_r' = Program!addressOf(Program!req)
    BY <1>1, <1>4, AccessCfg0
  <2>5. fpc = "address" => TxSame
    BY <1>1, <1>4, AccessTx0
  <2> QED  BY <2>1, <2>2, <2>3, <2>4, <2>5
<1>6. fpc = "status" => tx_active_q'[0] /\ tx_len_q'[0] = 0 /\ tx_fifo'[0] = tx_fifo[0]
  BY <1>1, <1>2, AccessTx0
<1>7. fpc = "sendPoll" => IF tx_active_q[0] THEN ~tx_active_q'[0] /\ tx_len_q'[0] = 0
                                                      /\ tx_fifo'[0] = << >>
                                            ELSE TxSame
  BY <1>1, <1>3, AccessTx0
<1>8. fpc = "sendWrite" =>
        /\ tx_active_q'[0] = tx_active_q[0] /\ tx_len_q'[0] = tx_len_q[0]
        /\ Len(tx_fifo[0]) < DEPTH => tx_fifo'[0] = Append(tx_fifo[0], Head(fbuf))
  BY <1>1, <1>2, AccessTx0
<1>9. fpc = "sendStart" =>
        IF fflush THEN ~tx_active_q'[0] /\ tx_len_q'[0] = 0 /\ tx_fifo'[0] = << >>
                  ELSE tx_active_q'[0] /\ tx_len_q'[0] = send /\ tx_fifo'[0] = tx_fifo[0]
  <2>1. CASE fflush
    BY <1>1, <1>2, <2>1, AccessTx0
  <2>2. CASE ~fflush
    BY <1>1, <1>2, <2>2, AccessTx0
  <2> QED  BY <2>1, <2>2
<1> QED  BY <1>5, <1>6, <1>7, <1>8, <1>9

(* The configuration of an endpoint. *)
LEMMA HandlerConfigures ==
  ASSUME SystemInv, PatientInv, Cpu(Program!handlerOp), fpc \in {"halt", "stall", "mask", "unmask"}
  PROVE  /\ RxSame /\ TxSame /\ IntrSame /\ func_addr_r' = func_addr_r
         /\ fpc \in {"mask", "unmask"} /\ ~stall0 => ~stall0'
         /\ fpc = "stall" /\ ~rx_setup_q[0] => stall0'
         /\ fpc = "halt" /\ ~stall0 /\ (Program!setsStall(Program!req) => Program!endpointOf(Program!req) # 0)
              => ~stall0'
<1> DEFINE c == Program!handlerOp
<1>1. DeviceOK /\ XferOK /\ HandlerOK /\ CpuRx(c) /\ CpuTx(c) /\ CpuCfg(c) /\ CpuIntr(c)
  BY DEF SystemInv, ProgramOK, Cpu
<1>2. PICK i, d :
        /\ c = Program!Cfg(i, d)
        /\ i = 0 => d.stall_ep \in BOOLEAN
        /\ fpc \in {"mask", "unmask"} => i = 0 /\ ~d.stall_ep
        /\ fpc = "stall" => i = 0 /\ d.stall_ep
        /\ fpc = "halt" => /\ i = Program!endpointOf(Program!req)
                           /\ i = 0 => (d.stall_ep <=> Program!setsStall(Program!req))
  <2>1. CASE fpc \in {"mask", "unmask"}
    <3>1. PICK v \in BOOLEAN : c = Program!Cfg(0, [EpCfg(0) EXCEPT !.int_rx = v])
      BY <1>1, <2>1, HandlerOps
    <3> DEFINE d == [EpCfg(0) EXCEPT !.int_rx = v]
    <3>2. ~d.stall_ep /\ d.stall_ep \in BOOLEAN
      BY DEF EpCfg
    <3>3. c = Program!Cfg(0, d)
      BY <3>1
    <3> HIDE DEF d, c
    <3>4. fpc # "stall" /\ fpc # "halt"
      BY <2>1
    <3> QED  BY <3>2, <3>3, <3>4
  <2>2. ASSUME NEW i, NEW on \in BOOLEAN, c = Program!stalling(i, on)
        PROVE  \E d : c = Program!Cfg(i, d) /\ (i = 0 => (d.stall_ep <=> on) /\ d.stall_ep \in BOOLEAN)
    <3>1. c = Program!Cfg(i, [([j \in EP |-> EpCfg(j)])[i] EXCEPT !.stall_ep = on])
      BY <2>2 DEF Program!stalling
    <3>2. [([j \in EP |-> EpCfg(j)])[0] EXCEPT !.stall_ep = on].stall_ep = on
      BY TransactionsAssumption DEF EpCfg
    <3> QED  BY <3>1, <3>2
  <2>3. CASE fpc = "stall"
    <3>1. c = Program!stalling(0, TRUE)
      BY <1>1, <2>3, HandlerOps
    <3>2. PICK d : c = Program!Cfg(0, d) /\ (d.stall_ep <=> TRUE) /\ d.stall_ep \in BOOLEAN
      BY <2>2, <3>1
    <3> QED  BY <2>3, <3>2
  <2>4. CASE fpc = "halt"
    <3>1. c = Program!stalling(Program!endpointOf(Program!req), Program!setsStall(Program!req))
      BY <1>1, <2>4, HandlerOps
    <3>2. Program!setsStall(Program!req) \in BOOLEAN
      BY DEF Program!setsStall, Program!Standard, Program!endpointFeature
    <3>3. PICK d : /\ c = Program!Cfg(Program!endpointOf(Program!req), d)
                   /\ Program!endpointOf(Program!req) = 0 =>
                        (d.stall_ep <=> Program!setsStall(Program!req)) /\ d.stall_ep \in BOOLEAN
      BY <2>2, <3>1, <3>2
    <3> QED  BY <2>4, <3>3
  <2> QED  BY <2>1, <2>3, <2>4
<1> HIDE DEF c
<1>3. c.op = "cfg" /\ c.ep = i /\ c.arg = d
  BY <1>2 DEF Program!Cfg
<1>4. RxSame /\ TxSame
  BY <1>1, <1>3, AccessRx0, AccessTx0
<1>5. IntrSame
  BY <1>1, <1>3, AccessIntr0 DEF IntrSame, came
<1>6. func_addr_r' = func_addr_r
  BY <1>1, <1>3, AccessCfg0
<1>7. /\ i # 0 => stall0' = stall0
      /\ i = 0 /\ ~d.stall_ep /\ ~stall0 => ~stall0'
      /\ i = 0 /\ d.stall_ep /\ ~rx_setup_q[0] => stall0'
  BY <1>1, <1>2, <1>3, AccessCfg0
<1> QED  BY <1>2, <1>4, <1>5, <1>6, <1>7

(* ... and after a bus reset. *)
LEMMA FlushAccess ==
  ASSUME SystemInv, NEW c \in Flushes, Cpu(c)
  PROVE  /\ CoreSame /\ CfgSame /\ came' = came
         /\ rx_ready_q'[0] = rx_ready_q[0] /\ rx_len_q'[0] = rx_len_q[0]
         /\ rx_setup_q'[0] = rx_setup_q[0]
         /\ rx_fifo'[0] = IF c = Program!RxFlush(0) THEN << >> ELSE rx_fifo[0]
         /\ IF c = Program!TxFlush(0) THEN ~tx_active_q'[0] /\ tx_fifo'[0] = << >> ELSE TxSame
         /\ IF c = Program!Stat(TRUE) THEN ~intr_reset_r' ELSE intr_reset_r' = intr_reset_r
<1>1. DeviceOK /\ CpuRx(c) /\ CpuTx(c) /\ CpuCfg(c) /\ CpuIntr(c) /\ UNCHANGED coreVars
  BY DEF SystemInv, Cpu
<1>2. CoreSame
  BY <1>1 DEF CoreSame, coreVars
<1>3. /\ c.op \in {"tx_flush", "rx_flush", "stat"} /\ (c.op = "stat" => c.rst)
      /\ c = Program!RxFlush(0) <=> c.op = "rx_flush" /\ c.ep = 0
      /\ c = Program!TxFlush(0) <=> c.op = "tx_flush" /\ c.ep = 0
      /\ c = Program!Stat(TRUE) <=> c.op = "stat"
  <2> USE DEF Program!RxFlush, Program!TxFlush, Program!Stat
  <2>1. CASE c \in [op : {"tx_flush", "rx_flush"}, ep : 0 .. 2]
    <3>1. PICK o \in {"tx_flush", "rx_flush"}, i \in 0 .. 2 : c = [op |-> o, ep |-> i]
      BY <2>1
    <3> HIDE <2>1
    <3> QED  BY <3>1
  <2>2. CASE c \in [op : {"stat"}, ep : {0}, rst : {TRUE}]
    <3>1. c = [op |-> "stat", ep |-> 0, rst |-> TRUE]
      BY <2>2
    <3> QED  BY <3>1
  <2> QED  BY <2>1, <2>2 DEF Flushes
<1>4. CfgSame
  BY <1>1, <1>3, AccessCfg0 DEF CfgSame
<1>5. /\ came' = came
      /\ IF c = Program!Stat(TRUE) THEN ~intr_reset_r' ELSE intr_reset_r' = intr_reset_r
  BY <1>1, <1>3, AccessIntr0 DEF came
<1>6. IF c = Program!TxFlush(0) THEN ~tx_active_q'[0] /\ tx_fifo'[0] = << >> ELSE TxSame
  BY <1>1, <1>3, AccessTx0
<1>7. CASE c.op = "rx_flush" /\ c.ep = 0
  BY <1>1, <1>2, <1>3, <1>4, <1>5, <1>6, <1>7, AccessRx0
<1>8. CASE ~(c.op = "rx_flush" /\ c.ep = 0)
  <2>1. RxSame
    BY <1>1, <1>3, <1>8, AccessRx0
  <2> QED  BY <1>2, <1>3, <1>4, <1>5, <1>6, <1>8, <2>1 DEF RxSame
<1> QED  BY <1>7, <1>8

-----------------------------------------------------------------------------
(* A step that is nothing to endpoint 0. *)
CoreStill == /\ UNCHANGED <<current_addr_q, ep0_dir_in_q, ep0_dir_out_q>> /\ bit0' = bit0
             /\ Token0' => Token0 /\ token' = token
HostStill == UNCHANGED <<host, hfuncs, hresets, hfails, scenario>> /\ UNCHANGED Program!staticVars
Still     == /\ RxSame /\ TxSame /\ CfgSame /\ CoreStill /\ HostStill
             /\ UNCHANGED Program!xferVars

StartAt == \/ ~intr_reset_r /\ (AtRest \/ Lost)
           \/ intr_reset_r /\ Resetting
           \/ Flushing

(* A step that leaves endpoint 0, the transfer and what is known of both   *)
(* alone.                                                                  *)
LEMMA StillFacts ==
  ASSUME Still
  PROVE  /\ UNCHANGED <<hreq, hstage, htog, haddr, hdata, hfuncs, hresets, hfails, scenario>>
         /\ asked' = asked /\ (reading' <=> reading) /\ (inTransfer' <=> inTransfer)
         /\ (HostQuiet' <=> HostQuiet) /\ (Awaits' <=> Awaits) /\ (Owed' <=> Owed)
         /\ (Knows' <=> Knows) /\ (Did' <=> Did) /\ (WillDo' <=> WillDo) /\ (WillReset' <=> WillReset)
         /\ (WakeDone' <=> WakeDone)
         /\ (AddrOld' <=> AddrOld) /\ (AddrNew' <=> AddrNew)
         /\ (RxEmpty' <=> RxEmpty) /\ (TxEmpty' <=> TxEmpty) /\ (SetupToken => SetupToken')
         /\ (stall0' <=> stall0) /\ ep_data_bit_q'[0] = ep_data_bit_q[0]
         /\ Token0' => Token0 /\ token' = token
         /\ UNCHANGED <<ep0_dir_in_q, ep0_dir_out_q, request, data_expected, data_buffer, data_idx>>
         /\ Program!answer' = Program!answer /\ Program!req' = Program!req
<1>1. /\ UNCHANGED <<host, hfuncs, hresets, hfails, scenario>> /\ UNCHANGED Program!staticVars
      /\ UNCHANGED Program!xferVars
  BY DEF Still, HostStill
<1>2. /\ asked' = asked /\ (reading' <=> reading) /\ (inTransfer' <=> inTransfer)
      /\ (HostQuiet' <=> HostQuiet) /\ (Awaits' <=> Awaits) /\ (Owed' <=> Owed)
      /\ UNCHANGED <<hreq, hstage, htog, haddr, hdata, hfuncs, hresets, hfails, scenario>>
  BY <1>1, HostKeeps
<1>3. /\ (Knows' <=> Knows) /\ (Did' <=> Did) /\ (WillDo' <=> WillDo) /\ (WillReset' <=> WillReset)
      /\ (WakeDone' <=> WakeDone)
  BY <1>1, MemoryKeeps
<1>4. Program!answer' = Program!answer
  BY <1>1, SameAnswer
<1>5. UNCHANGED <<request, data_expected, data_buffer, data_idx>> /\ Program!req' = Program!req
  BY <1>1 DEF Program!xferVars, Program!req
<1>6. /\ (stall0' <=> stall0) /\ ep_data_bit_q'[0] = ep_data_bit_q[0] /\ (Token0' => Token0 /\ token' = token)
      /\ UNCHANGED <<ep0_dir_in_q, ep0_dir_out_q, func_addr_r>>
  BY DEF Still, CfgSame, CoreStill, bit0
<1>7. (AddrOld' <=> AddrOld) /\ (AddrNew' <=> AddrNew)
  BY <1>2, <1>6 DEF AddrOld, AddrNew
<1>8. (RxEmpty' <=> RxEmpty) /\ (TxEmpty' <=> TxEmpty) /\ rx_setup_q'[0] = rx_setup_q[0]
  BY DEF Still, RxSame, TxSame, RxEmpty, TxEmpty
<1>9. (SetupToken => SetupToken')
  BY <1>6, <1>8 DEF SetupToken, bit0
<1> QED  BY <1>2, <1>3, <1>4, <1>5, <1>6, <1>7, <1>8, <1>9

(* The handler is done with the endpoint before and after it. *)
LEMMA AsideStays ==
  ASSUME Still, Aside'
  PROVE  /\ AtRest => AtRest'
         /\ Lost => Lost'
         /\ Collecting => Collecting'
         /\ Stated /\ fpc # "halt" => Stated'
         /\ Refusing /\ fpc # "stall" => Refusing'
         /\ Resetting /\ fpc' # "stat" /\ (fpc' # "intsts" => ~func_stat_rst') => Resetting'
<1> USE StillFacts
<1>0. RxSame /\ TxSame
  BY DEF Still
<1>1. AtRest => AtRest'
  <2>1. SetupToken => SetupToken'
    BY DEF SetupToken, bit0
  <2> QED  BY <2>1 DEF AtRest
<1>2. Lost => Lost'
  BY DEF Lost
<1>3. Collecting => Collecting'
  <2>1. Collects => Collects'
    BY <1>0 DEF Collects, RxSame
  <2> QED  BY <2>1 DEF Collecting, bit0
<1>4. Stated /\ fpc # "halt" => Stated'
  BY <1>0 DEF Stated, bit0, RxSame, TxSame
<1>5. Refusing /\ fpc # "stall" => Refusing'
  BY <1>0 DEF Refusing, RxSame, TxSame
<1>6. Resetting /\ fpc' # "stat" /\ (fpc' # "intsts" => ~func_stat_rst') => Resetting'
  BY <1>0 DEF Resetting, RxSame
<1> QED  BY <1>1, <1>2, <1>3, <1>4, <1>5, <1>6

(* The handler does nothing. *)
LEMMA PlaceStays ==
  ASSUME Still, UNCHANGED <<Program!handlerVars, Program!copyVars>>, IntrSame
  PROVE  /\ Place => Place'
         /\ StartAt => StartAt'
<1> USE StillFacts
<1>0. /\ RxSame /\ TxSame /\ (came' <=> came) /\ (intr_reset_r' <=> intr_reset_r)
      /\ UNCHANGED <<fpc, fwrites, func_stat_rst, fbuf, fcnt, send, fflush>>
  BY DEF Still, IntrSame, Program!handlerVars, Program!copyVars
<1>1. (Aside' <=> Aside)
  BY <1>0 DEF Aside
<1>2. SetupToken => SetupToken'
  BY <1>0 DEF SetupToken, bit0
<1>3. Replying => Replying'
  BY <1>0 DEF Replying, RxSame
<1>4. SendingData => SendingData'
  BY DEF SendingData, bit0
<1>5. Collects => Collects'
  BY <1>0 DEF Collects, RxSame
<1>6. AtRest => AtRest'
  BY <1>0, <1>1, <1>2 DEF AtRest
<1>7. Lost => Lost'
  BY <1>1 DEF Lost
<1>8. SetupTaken => SetupTaken'
  BY <1>0 DEF SetupTaken, bit0, RxSame
<1>9. Masking => Masking'
  BY <1>0, <1>3, <1>4 DEF Masking
<1>10. Waiting => Waiting'
  BY <1>0, <1>3, <1>4 DEF Waiting, TxSame, Program!chunk
<1>11. Filling => Filling'
  BY <1>0, <1>3, <1>4 DEF Filling, TxSame, Program!chunk
<1>12. Sent => Sent'
  BY <1>0, <1>3, <1>4 DEF Sent, TxSame
<1>13. Thanking => Thanking'
  BY <1>0, <1>3 DEF Thanking
<1>14. Thanked => Thanked'
  BY <1>0 DEF Thanked, RxSame
<1>15. Collecting => Collecting'
  BY <1>1, <1>5 DEF Collecting, bit0
<1>16. Taking => Taking'
  BY <1>0, <1>5 DEF Taking, bit0, RxSame, taken
<1>17. Stating => Stating'
  BY <1>0 DEF Stating, bit0, RxSame, TxSame
<1>18. Stated => Stated'
  BY <1>0, <1>1 DEF Stated, bit0, RxSame, TxSame
<1>19. Refusing => Refusing'
  BY <1>0, <1>1 DEF Refusing, RxSame
<1>20. Refused => Refused'
  BY <1>0 DEF Refused, RxSame
<1>21. Upset => Upset'
  BY <1>0, <1>2 DEF Upset, RxSame, TxSame, Done
<1>22. Swallowing => Swallowing'
  BY <1>0 DEF Swallowing, RxSame, Done
<1>23. Resetting => Resetting'
  BY <1>0, <1>1 DEF Resetting, RxSame
<1>24. Flushing => Flushing'
  BY <1>0 DEF Flushing, RxSame
<1> QED  BY <1>0, <1>6, <1>7, <1>8, <1>9, <1>10, <1>11, <1>12, <1>13, <1>14, <1>15, <1>16,
            <1>17, <1>18, <1>19, <1>20, <1>21, <1>22, <1>23, <1>24 DEF Place, Normal, StartAt

-----------------------------------------------------------------------------
(* Where the handler is in each place. *)
LEMMA PlacePc ==
  /\ AtRest => fpc \in AsidePc \cup {"unmask"}
  /\ Lost => fpc \in AsidePc
  /\ SetupTaken => fpc \in {"idle", "intsts", "service", "setupCount", "setupRead"}
  /\ Masking => fpc = "mask"
  /\ Waiting => fpc = "sendPoll"
  /\ Filling => fpc \in {"sendPoll", "sendWrite", "sendStart"}
  /\ Sent => fpc \in {"sendSpin", "sendAck"}
  /\ Thanking => fpc = "sendAck"
  /\ Thanked => fpc \in {"sendAck", "sendAccept"}
  /\ Collecting => fpc \in AsidePc
  /\ Taking => fpc \in {"idle", "intsts", "service", "outCount", "outRead"}
  /\ Stating => fpc \in {"address", "status", "statusSpin"}
  /\ Stated => fpc \in AsidePc \cup {"halt"}
  /\ Refusing => fpc \in AsidePc \cup {"stall"}
  /\ Refused => fpc \in {"idle", "intsts", "service", "stall"}
  /\ Upset => fpc \in {"sendPoll", "sendWrite", "sendStart", "sendSpin", "sendAck"}
  /\ Swallowing => fpc \in {"sendSpin", "sendAck", "sendAccept"}
  /\ Resetting => fpc \in (AsidePc \ {"stat"}) \cup {"unmask"}
  /\ Flushing => fpc = "reset"
<1>1. /\ AtRest => fpc \in AsidePc \cup {"unmask"}
      /\ Lost => fpc \in AsidePc
      /\ SetupTaken => fpc \in {"idle", "intsts", "service", "setupCount", "setupRead"}
      /\ Masking => fpc = "mask"
      /\ Waiting => fpc = "sendPoll"
  BY DEF AtRest, Lost, SetupTaken, Masking, Waiting, Aside
<1>2. /\ Filling => fpc \in {"sendPoll", "sendWrite", "sendStart"}
      /\ Sent => fpc \in {"sendSpin", "sendAck"}
      /\ Thanking => fpc = "sendAck"
      /\ Thanked => fpc \in {"sendAck", "sendAccept"}
      /\ Collecting => fpc \in AsidePc
  BY DEF Filling, Sent, Thanking, Thanked, Collecting, Aside
<1>3. /\ Taking => fpc \in {"idle", "intsts", "service", "outCount", "outRead"}
      /\ Stating => fpc \in {"address", "status", "statusSpin"}
      /\ Stated => fpc \in AsidePc \cup {"halt"}
      /\ Refusing => fpc \in AsidePc \cup {"stall"}
      /\ Refused => fpc \in {"idle", "intsts", "service", "stall"}
  BY DEF Taking, Stating, Stated, Refusing, Refused, Aside
<1>4. /\ Upset => fpc \in {"sendPoll", "sendWrite", "sendStart", "sendSpin", "sendAck"}
      /\ Swallowing => fpc \in {"sendSpin", "sendAck", "sendAccept"}
      /\ Resetting => fpc \in (AsidePc \ {"stat"}) \cup {"unmask"}
      /\ Flushing => fpc = "reset"
  BY DEF Upset, Swallowing, Resetting, Flushing, Aside
<1> QED  BY <1>1, <1>2, <1>3, <1>4

(* Which places the handler can be in where it is. *)
LEMMA PlacesAt ==
  ASSUME Place
  PROVE
  /\ fpc \in {"idle", "intsts"} =>
       \/ /\ ~intr_reset_r
          /\ AtRest \/ Lost \/ Collecting \/ Stated \/ Refusing \/ SetupTaken \/ Taking \/ Refused
       \/ intr_reset_r /\ Resetting
  /\ fpc \in {"clear", "ep1Count", "ep1Read"} =>
       \/ ~intr_reset_r /\ (AtRest \/ Lost \/ Collecting \/ Stated \/ Refusing)
       \/ intr_reset_r /\ Resetting
  /\ fpc = "stat" => ~intr_reset_r /\ (AtRest \/ Lost \/ Collecting \/ Stated \/ Refusing)
  /\ fpc = "reset" => Flushing
  /\ fpc = "service" => ~intr_reset_r /\ (SetupTaken \/ Taking \/ Refused)
  /\ fpc \in {"setupCount", "setupRead"} => ~intr_reset_r /\ SetupTaken
  /\ fpc \in {"outCount", "outRead"} => ~intr_reset_r /\ Taking
  /\ fpc \in {"address", "status", "statusSpin"} => ~intr_reset_r /\ Stating
  /\ fpc = "halt" => ~intr_reset_r /\ Stated
  /\ fpc = "stall" => ~intr_reset_r /\ (Refusing \/ Refused)
  /\ fpc = "mask" => ~intr_reset_r /\ Masking
  /\ fpc = "sendPoll" => (~intr_reset_r /\ (Waiting \/ Filling)) \/ (intr_reset_r /\ Upset)
  /\ fpc \in {"sendWrite", "sendStart"} => (~intr_reset_r /\ Filling) \/ (intr_reset_r /\ Upset)
  /\ fpc = "sendSpin" => (~intr_reset_r /\ Sent) \/ (intr_reset_r /\ (Upset \/ Swallowing))
  /\ fpc = "sendAck" => \/ ~intr_reset_r /\ (Sent \/ Thanking \/ Thanked)
                        \/ intr_reset_r /\ (Upset \/ Swallowing)
  /\ fpc = "sendAccept" => (~intr_reset_r /\ Thanked) \/ (intr_reset_r /\ Swallowing)
  /\ fpc = "unmask" => (~intr_reset_r /\ AtRest) \/ (intr_reset_r /\ Resetting)
<1>1. \/ ~intr_reset_r /\ Normal
      \/ intr_reset_r /\ (Upset \/ Swallowing \/ Resetting)
      \/ Flushing
  BY DEF Place
<1>2. CASE ~intr_reset_r /\ Normal
  BY <1>2, PlacePc DEF Normal, AsidePc
<1>3. CASE intr_reset_r /\ (Upset \/ Swallowing \/ Resetting)
  BY <1>3, PlacePc DEF AsidePc
<1>4. CASE Flushing
  BY <1>4, PlacePc
<1> QED  BY <1>1, <1>2, <1>3, <1>4

(* A step of the handler is nothing to the host, and comes when no data    *)
(* packet is on its way.                                                   *)
Handling == SystemInv /\ PatientInv /\ Informed /\ TransferInv /\ Handler

(* What all steps of the handler have in common. *)
LEMMA HandlerFacts ==
  ASSUME Handling
  PROVE  /\ Cpu(Program!handlerOp) /\ Program!Handler
         /\ UNCHANGED <<host, hfuncs, hresets, hfails, scenario>> /\ UNCHANGED Program!mainVars
         /\ asked' = asked /\ (reading' <=> reading) /\ (inTransfer' <=> inTransfer)
         /\ (HostQuiet' <=> HostQuiet) /\ (Awaits' <=> Awaits) /\ (Owed' <=> Owed)
         /\ (NoOnePacket' <=> NoOnePacket)
         /\ UNCHANGED <<hreq, hstage, htog, haddr, hdata, hfuncs, hresets, hfails, scenario>>
         /\ CoreSame /\ CoreStill /\ ~Token0 /\ ~Token0'
         /\ UNCHANGED <<current_addr_q, ep0_dir_in_q, ep0_dir_out_q, token>>
         /\ ep_data_bit_q'[0] = ep_data_bit_q[0]
         /\ DeviceOK /\ HostOK /\ MainOK /\ StaticOK /\ XferOK /\ HandlerOK
         /\ Place /\ ResetOK /\ AskedOK
<1>1. /\ Cpu(Program!handlerOp) /\ Program!Handler
      /\ UNCHANGED <<host, hfuncs, hresets, hfails, scenario>> /\ UNCHANGED Program!mainVars
  BY DEF Handling, Handler, Program!Handler, counts
<1>2. /\ asked' = asked /\ (reading' <=> reading) /\ (inTransfer' <=> inTransfer)
      /\ (HostQuiet' <=> HostQuiet) /\ (Awaits' <=> Awaits) /\ (Owed' <=> Owed)
      /\ (NoOnePacket' <=> NoOnePacket)
      /\ UNCHANGED <<hreq, hstage, htog, haddr, hdata, hfuncs, hresets, hfails, scenario>>
  BY <1>1, HostKeeps
<1>3. CoreSame
  BY <1>1, HandlerQuiet DEF Handling
<1>4. ~token.valid
  BY <1>1, WaitsOn DEF Handling, PatientInv, TokenOK
<1>5. /\ CoreStill /\ ~Token0 /\ ~Token0' /\ ep_data_bit_q'[0] = ep_data_bit_q[0]
      /\ UNCHANGED <<current_addr_q, ep0_dir_in_q, ep0_dir_out_q, token>>
  BY <1>3, <1>4 DEF CoreSame, CoreStill, Token0, bit0
<1>6. DeviceOK /\ HostOK /\ MainOK /\ StaticOK /\ XferOK /\ HandlerOK
  BY DEF Handling, SystemInv, ProgramOK
<1>7. Place /\ ResetOK /\ AskedOK
  BY DEF Handling, TransferInv
<1> QED  BY <1>1, <1>2, <1>3, <1>5, <1>6, <1>7

(* A step of it that is no access to the device. *)
LEMMA HandlerStill ==
  ASSUME Handling, RxSame, TxSame, CfgSame, UNCHANGED <<Program!staticVars, Program!xferVars>>
  PROVE  Still
BY HandlerFacts DEF Still, HostStill

(* What the host may have asked. *)
LEMMA AskedIs ==
  ASSUME Informed, AskedOK, HostOK
  PROVE  /\ inTransfer => Known(asked)
         /\ asked.wLength \in Nat /\ asked.wValue \in Nat
         /\ asked.data \in Seq(Payload)
         /\ dirIn(asked) => asked.data = << >>
         /\ ~dirIn(asked) => Len(asked.data) = asked.wLength
         /\ hreq \in DOMAIN Request /\ hreq \in Payload /\ hdata \in Seq(Payload)
         /\ hstage \in Stage
<1>1. hreq \in DOMAIN Request /\ hdata \in Seq(Payload) /\ hstage \in Stage
  BY DEF HostOK
<1>2. inTransfer => Known(asked)
  BY DEF AskedOK, Informed, asked
<1> QED  BY <1>1, <1>2, HostAssumption, SystemAssumption DEF asked

-----------------------------------------------------------------------------
(* my_usb_intr at its start and at its end. *)
LEMMA HasMore ==
  \A c : \A s, t \in Seq(Flushes) : Has(s, c) \/ Has(t, c) => Has(s \o t, c)
<1> SUFFICES ASSUME NEW s \in Seq(Flushes), NEW t \in Seq(Flushes), NEW c, Has(s, c) \/ Has(t, c)
             PROVE  Has(s \o t, c)
  OBVIOUS
<1>1. Len(s) \in Nat /\ Len(t) \in Nat /\ Len(s \o t) = Len(s) + Len(t)
      /\ \A k \in 1 .. Len(s) + Len(t) :
           (s \o t)[k] = IF k <= Len(s) THEN s[k] ELSE t[k - Len(s)]
  BY ConcatProperties, LenProperties
<1>2. CASE Has(s, c)
  <2>1. PICK k \in 1 .. Len(s) : s[k] = c
    BY <1>2 DEF Has
  <2>2. k \in 1 .. Len(s \o t) /\ (s \o t)[k] = c
    BY <1>1, <2>1
  <2> QED  BY <2>2 DEF Has
<1>3. CASE Has(t, c)
  <2>1. PICK k \in 1 .. Len(t) : t[k] = c
    BY <1>3 DEF Has
  <2>2. Len(s) + k \in 1 .. Len(s \o t) /\ (s \o t)[Len(s) + k] = c
    BY <1>1, <2>1
  <2> QED  BY <2>2 DEF Has
<1> QED  BY <1>2, <1>3

(* The writes of openusb_reset flush both sides of endpoint 0. *)
LEMMA ResetHas ==
  /\ Has(Program!ResetWrites, Program!RxFlush(0)) /\ Has(Program!ResetWrites, Program!TxFlush(0))
  /\ Has(Program!ResetWrites, Program!Stat(TRUE))
<1> DEFINE ops(i) == Program!FlushBoth(i)
           each   == Program!Each(Program!FlushBoth)
<1>1. \A i \in 0 .. 2 : ops(i) \in Seq(Flushes)
  <2>1. \A i \in 0 .. 2 : Program!TxFlush(i) \in Flushes /\ Program!RxFlush(i) \in Flushes
    BY DEF Flushes, Program!TxFlush, Program!RxFlush
  <2> QED  BY <2>1 DEF Program!FlushBoth
<1>2. Has(ops(0), Program!RxFlush(0)) /\ Has(ops(0), Program!TxFlush(0))
  BY DEF Program!FlushBoth, Has
<1>3. Has(<<Program!Stat(TRUE)>>, Program!Stat(TRUE)) /\ <<Program!Stat(TRUE)>> \in Seq(Flushes)
  <2>1. Program!Stat(TRUE) \in Flushes
    BY DEF Flushes, Program!Stat
  <2>2. \A c \in Flushes : Has(<<c>>, c) /\ <<c>> \in Seq(Flushes)
    BY DEF Has
  <2> QED  BY <2>1, <2>2
<1>4. each = IF EP = {0} THEN ops(0)
             ELSE IF EP = {0, 1} THEN ops(0) \o ops(1) ELSE ops(0) \o ops(1) \o ops(2)
  BY DEF Program!Each
<1>5. 0 \in 0 .. 2 /\ 1 \in 0 .. 2 /\ 2 \in 0 .. 2
  OBVIOUS
<1> HIDE DEF ops
<1>6. ops(0) \o ops(1) \in Seq(Flushes) /\ ops(0) \o ops(1) \o ops(2) \in Seq(Flushes)
  BY <1>1, <1>5, ConcatType
<1>7. each \in Seq(Flushes)
      /\ \A c : Has(ops(0), c) => Has(each, c)
  <2>1. \A c : Has(ops(0), c) => Has(ops(0) \o ops(1), c)
    BY <1>1, <1>5, HasMore
  <2>2. \A c : Has(ops(0), c) => Has(ops(0) \o ops(1) \o ops(2), c)
    BY <1>1, <1>5, <1>6, <2>1, HasMore
  <2> QED  BY <1>1, <1>4, <1>5, <1>6, <2>1, <2>2
<1> HIDE DEF each
<1> QED  BY <1>2, <1>3, <1>7, HasMore DEF Program!ResetWrites, each

(* A write that is still to be done is the next, or comes after it. *)
LEMMA HasTail ==
  \A c : \A s \in Seq(Flushes) : s # << >> /\ Has(s, c) =>
    c = Head(s) \/ (Tail(s) # << >> /\ Has(Tail(s), c))
<1> SUFFICES ASSUME NEW s \in Seq(Flushes), NEW c, s # << >>, Has(s, c)
             PROVE  c = Head(s) \/ (Tail(s) # << >> /\ Has(Tail(s), c))
  OBVIOUS
<1>1. PICK k \in 1 .. Len(s) : s[k] = c
  BY DEF Has
<1>2. CASE k = 1
  BY <1>1, <1>2, TailAt
<1>3. CASE k # 1
  <2>1. k - 1 \in 1 .. Len(Tail(s)) /\ Tail(s)[k - 1] = c
    BY <1>1, <1>3, TailAt
  <2>2. Tail(s) # << >>
    BY <2>1, EmptyType
  <2> QED  BY <2>1, <2>2 DEF Has
<1> QED  BY <1>2, <1>3

(* The interrupt is taken. *)
LEMMA TakesInterrupt ==
  ASSUME Handling, Program!FwInterrupt PROVE Place' /\ (StartAt => StartAt')
<1> USE HandlerFacts
<1>1. /\ fpc = "idle" /\ fpc' = "intsts" /\ func_stat_rst' = intr_reset_r
      /\ UNCHANGED <<Program!xferVars, Program!staticVars, Program!copyVars>>
  BY DEF Program!FwInterrupt
<1>2. RxSame /\ TxSame /\ CfgSame /\ IntrSame
  BY <1>1, HandlerQuiet DEF Handling, QuietPc
<1>3. Still
  BY <1>1, <1>2, HandlerStill
<1>4. (came' <=> came) /\ (intr_reset_r' <=> intr_reset_r)
  BY <1>2 DEF IntrSame
<1>5. ~came => Aside'
  BY <1>1, <1>4 DEF Aside, AsidePc
<1>6. \/ /\ ~intr_reset_r
         /\ AtRest \/ Lost \/ Collecting \/ Stated \/ Refusing \/ SetupTaken \/ Taking \/ Refused
      \/ intr_reset_r /\ Resetting
  BY <1>1, PlacesAt
<1>7. AtRest \/ Lost \/ Collecting \/ Stated \/ Refusing \/ Resetting => ~came
  BY <1>1 DEF AtRest, Lost, Collecting, Stated, Refusing, Resetting, Aside
<1>8. SetupTaken => SetupTaken'
  BY <1>1, <1>2, <1>3, <1>4, StillFacts DEF SetupTaken, RxSame, bit0
<1>9. Taking => Taking'
  <2>1. Collects => Collects'
    BY <1>2, <1>3, StillFacts DEF Collects, RxSame
  <2> QED  BY <1>1, <1>2, <1>3, <1>4, <2>1, StillFacts DEF Taking, RxSame, taken, bit0
<1>10. Refused => Refused'
  BY <1>1, <1>2, <1>3, <1>4, StillFacts DEF Refused, RxSame
<1>11. ~Flushing
  BY <1>1 DEF Flushing
<1> QED  BY <1>1, <1>3, <1>4, <1>5, <1>6, <1>7, <1>8, <1>9, <1>10, <1>11, AsideStays
         DEF Place, Normal, StartAt

(* After openusb_service endpoint 1 is served, or the interrupts are       *)
(* cleared.                                                                *)
LEMMA AfterEp0 ==
  \A ints : Program!afterEp0(ints) \in {"clear", "ep1Count"}
            /\ (0 \in ints.rx => Program!service(ints) = "service")
            /\ (0 \notin ints.rx => Program!service(ints) \in {"clear", "ep1Count"})
BY DEF Program!afterEp0, Program!service

(* It reads what has happened. *)
LEMMA ReadsIntsts ==
  ASSUME Handling, Program!FwIntsts
  PROVE  /\ Place' /\ (StartAt => StartAt')
         /\ fpc' = IF intr_reset_r THEN "reset" ELSE Program!service(EpIntsts)
<1> USE HandlerFacts
<1>0. fpc = "intsts" /\ enable_rst_intr /\ (func_stat_rst <=> intr_reset_r) /\ ep_intsts' = EpIntsts
  <2>1. fpc = "intsts" /\ ep_intsts' = EpIntsts
    BY DEF Program!FwIntsts
  <2>2. mpc \notin {"startUp", "enable"}
    BY <2>1 DEF Handling, PatientInv, StartOK
  <2>3. fpc = "intsts" => (func_stat_rst <=> intr_reset_r)
    BY DEF ResetOK
  <2> QED  BY <2>1, <2>2, <2>3 DEF ResetOK
<1>1. RxSame /\ TxSame /\ CfgSame /\ IntrSame /\ UNCHANGED Program!xferVars
  BY <1>0, HandlerQuiet DEF Handling, QuietPc, Program!FwIntsts
<1>2. (came' <=> came) /\ (intr_reset_r' <=> intr_reset_r)
  BY <1>1 DEF IntrSame
<1>3. \/ /\ ~intr_reset_r
         /\ AtRest \/ Lost \/ Collecting \/ Stated \/ Refusing \/ SetupTaken \/ Taking \/ Refused
      \/ intr_reset_r /\ Resetting
  BY <1>0, PlacesAt
<1>4. CASE intr_reset_r /\ Resetting
  <2>1. /\ fpc' = "reset" /\ fwrites' = Program!ResetWrites
        /\ configured' = 0 /\ endpoint_stalled' = {}
        /\ UNCHANGED <<remote_wake_enabled, line_coding>>
    BY <1>0, <1>4 DEF Program!FwIntsts, Program!BusResetEvent
  <2>2. Knows'
    BY <1>4, <2>1, ResetKnows DEF Resetting
  <2>3. /\ Has(fwrites', Program!RxFlush(0)) /\ Has(fwrites', Program!TxFlush(0))
        /\ Has(fwrites', Program!Stat(TRUE))
    BY <2>1, ResetHas
  <2>4. Flushing'
    BY <1>1, <1>4, <2>1, <2>2, <2>3 DEF Resetting, Flushing, RxSame
  <2> QED  BY <1>4, <2>1, <2>4 DEF Place, StartAt
<1>5. CASE ~intr_reset_r
  <2>1. /\ fpc' = Program!service(EpIntsts) /\ UNCHANGED <<fwrites, func_stat_rst>>
        /\ UNCHANGED Program!staticVars
    BY <1>0, <1>5 DEF Program!FwIntsts, Program!staticVars
  <2>2. Still
    BY <1>1, <2>1, HandlerStill
  <2>3. came <=> 0 \in EpIntsts.rx
    BY TransactionsAssumption DEF EpIntsts, came
  <2>4. CASE ~came
    <3>1. fpc' \in {"clear", "ep1Count"}
      BY <2>1, <2>3, <2>4, AfterEp0
    <3>2. Aside'
      BY <3>1 DEF Aside, AsidePc
    <3>3. ~SetupTaken /\ ~Taking /\ ~Refused
      BY <1>0, <2>4 DEF SetupTaken, Taking, Refused
    <3>4. ~Flushing
      BY <1>0 DEF Flushing
    <3> QED  BY <1>0, <1>2, <1>3, <1>5, <2>1, <2>2, <3>2, <3>3, <3>4, AsideStays
             DEF Place, Normal, StartAt
  <2>5. CASE came
    <3>1. fpc' = "service"
      BY <2>1, <2>3, <2>5, AfterEp0
    <3>2. ~AtRest /\ ~Lost /\ ~Collecting /\ ~Stated /\ ~Refusing
      BY <1>0, <2>5 DEF AtRest, Lost, Collecting, Stated, Refusing, Aside
    <3>3. SetupTaken => SetupTaken'
      BY <1>0, <1>1, <2>2, <3>1, StillFacts DEF SetupTaken, RxSame, bit0
    <3>4. Taking => Taking'
      <4>1. Collects => Collects'
        BY <1>1, <2>2, StillFacts DEF Collects, RxSame
      <4> QED  BY <1>0, <1>1, <2>2, <3>1, <4>1, StillFacts DEF Taking, RxSame, taken, bit0
    <3>5. Refused => Refused'
      BY <1>1, <2>2, <3>1, StillFacts DEF Refused, RxSame
    <3>6. ~StartAt
      BY <1>0, <1>5, <3>2 DEF StartAt, Flushing
    <3> QED  BY <1>2, <1>3, <1>5, <2>1, <3>2, <3>3, <3>4, <3>5, <3>6 DEF Place, Normal
  <2> QED  BY <1>5, <2>1, <2>4, <2>5
<1> QED  BY <1>3, <1>4, <1>5

(* The writes after a bus reset. *)
LEMMA Resets ==
  ASSUME Handling, Program!FwReset
  PROVE  /\ Place' /\ (StartAt => StartAt')
         /\ fpc' # "reset" => ~intr_reset_r' /\ fpc' \in {"clear", "ep1Count"}
<1> USE HandlerFacts
<1> DEFINE c == Program!handlerOp
<1>1. /\ fpc = "reset" /\ fwrites' = Tail(fwrites)
      /\ fpc' = IF fwrites' = << >> THEN Program!service(ep_intsts) ELSE "reset"
      /\ UNCHANGED <<func_stat_rst, ep_intsts>>
      /\ UNCHANGED <<Program!xferVars, Program!staticVars>>
  BY DEF Program!FwReset
<1>2. /\ fwrites \in Seq(Flushes) /\ fwrites # << >> /\ ~came /\ ~served
      /\ rx_len_q[0] > 0 => rx_ready_q[0]
  BY <1>1 DEF Handling, PatientInv, WritesOK, FlushOK, PacketOK, HandlerOK
<1>3. c = Head(fwrites) /\ c \in Flushes
  BY <1>1, <1>2, HandlerOps, TailType
<1>4. /\ CoreSame /\ CfgSame /\ came' = came
      /\ rx_ready_q'[0] = rx_ready_q[0] /\ rx_len_q'[0] = rx_len_q[0]
      /\ rx_setup_q'[0] = rx_setup_q[0]
      /\ rx_fifo'[0] = IF c = Program!RxFlush(0) THEN << >> ELSE rx_fifo[0]
      /\ IF c = Program!TxFlush(0) THEN ~tx_active_q'[0] /\ tx_fifo'[0] = << >> ELSE TxSame
      /\ IF c = Program!Stat(TRUE) THEN ~intr_reset_r' ELSE intr_reset_r' = intr_reset_r
  BY <1>3, FlushAccess DEF Handling
<1> HIDE DEF c
<1>5. Flushing
  BY <1>1, PlacesAt
<1>6. /\ rx_fifo'[0] = << >> \/ (fwrites' # << >> /\ Has(fwrites', Program!RxFlush(0)))
      /\ TxEmpty' \/ (fwrites' # << >> /\ Has(fwrites', Program!TxFlush(0)))
      /\ intr_reset_r' => (fwrites' # << >> /\ Has(fwrites', Program!Stat(TRUE)))
  <2>1. \A d : Has(fwrites, d) => d = c \/ (fwrites' # << >> /\ Has(fwrites', d))
    BY <1>1, <1>2, <1>3, HasTail
  <2>2. rx_fifo'[0] = << >> \/ (fwrites' # << >> /\ Has(fwrites', Program!RxFlush(0)))
    BY <1>4, <1>5, <2>1 DEF Flushing
  <2>3. TxEmpty' \/ (fwrites' # << >> /\ Has(fwrites', Program!TxFlush(0)))
    BY <1>4, <1>5, <2>1 DEF Flushing, TxEmpty, TxSame
  <2>4. intr_reset_r' => (fwrites' # << >> /\ Has(fwrites', Program!Stat(TRUE)))
    BY <1>4, <1>5, <2>1 DEF Flushing
  <2> QED  BY <2>2, <2>3, <2>4
<1>7. Knows'
  BY <1>1, <1>5, MemoryKeeps DEF Flushing
<1>8. CASE fwrites' # << >>
  <2>1. Flushing'
    BY <1>1, <1>4, <1>5, <1>6, <1>7, <1>8 DEF Flushing
  <2> QED  BY <1>1, <1>8, <2>1 DEF Place, StartAt
<1>9. CASE fwrites' = << >>
  <2>1. fpc' \in {"clear", "ep1Count"}
    BY <1>1, <1>2, <1>9, AfterEp0 DEF served
  <2>2. Aside'
    BY <2>1 DEF Aside, AsidePc
  <2>0. rx_len_q[0] = 0
    <3>1. rx_len_q[0] \in Nat /\ ~rx_ready_q[0]
      BY <1>5, DeviceTypes, TransactionsAssumption DEF Flushing
    <3> QED  BY <1>2, <3>1
  <2>3. RxEmpty' /\ TxEmpty' /\ ~intr_reset_r'
    BY <1>4, <1>5, <1>6, <1>9, <2>0 DEF Flushing, RxEmpty
  <2>4. AddrOld' /\ Owed'
    BY <1>5 DEF Flushing, AddrOld
  <2>5. SetupToken'
    BY DEF SetupToken
  <2>6. CASE ~inTransfer
    <3>1. AtRest'
      BY <1>7, <2>2, <2>3, <2>4, <2>5, <2>6 DEF AtRest, HostQuiet
    <3> QED  BY <2>1, <2>3, <3>1 DEF Place, Normal, StartAt
  <2>7. CASE Awaits
    <3>1. Lost'
      BY <1>7, <2>2, <2>3, <2>4, <2>7 DEF Lost
    <3> QED  BY <2>1, <2>3, <3>1 DEF Place, Normal, StartAt
  <2> QED  BY <1>5, <2>6, <2>7 DEF Flushing
<1> QED  BY <1>8, <1>9

-----------------------------------------------------------------------------
(* openusb_service looks at what has come. *)
LEMMA Serves ==
  ASSUME Handling, Program!FwService PROVE Place' /\ (StartAt => StartAt')
<1> USE HandlerFacts
<1>1. /\ fpc = "service"
      /\ fpc' = CASE rx_setup_q[0]                     -> "setupCount"
                  [] ~rx_setup_q[0] /\ data_expected   -> "outCount"
                  [] ~rx_setup_q[0] /\ ~data_expected  -> "stall"
      /\ UNCHANGED <<Program!xferVars, Program!staticVars, Program!copyVars>>
  BY TransactionsAssumption DEF Program!FwService, Program!Goto, Sts
<1>2. RxSame /\ TxSame /\ CfgSame /\ IntrSame
  BY <1>1, HandlerQuiet DEF Handling, QuietPc
<1>3. Still
  BY <1>1, <1>2, HandlerStill
<1>4. ~intr_reset_r /\ ~intr_reset_r' /\ (SetupTaken \/ Taking \/ Refused)
  BY <1>1, <1>2, PlacesAt DEF IntrSame
<1>5. SetupTaken => SetupTaken'
  <2>1. SetupTaken => fpc' = "setupCount"
    BY <1>1 DEF SetupTaken
  <2> QED  BY <1>1, <1>2, <1>3, <2>1, StillFacts DEF SetupTaken, RxSame, bit0
<1>6. Taking => Taking'
  <2>1. Taking => fpc' = "outCount"
    BY <1>1 DEF Taking, Collects
  <2>2. Collects => Collects'
    BY <1>2, <1>3, StillFacts DEF Collects, RxSame
  <2> QED  BY <1>1, <1>2, <1>3, <2>1, <2>2, StillFacts DEF Taking, RxSame, taken, bit0
<1>7. Refused => Refused'
  <2>1. Refused => fpc' = "stall"
    BY <1>1 DEF Refused
  <2> QED  BY <1>2, <1>3, <2>1, StillFacts DEF Refused, RxSame
<1>8. ~StartAt
  BY <1>1, <1>4, PlacePc DEF StartAt, AsidePc
<1> QED  BY <1>4, <1>5, <1>6, <1>7, <1>8 DEF Place, Normal

(* It is done with endpoint 0. *)
LEMMA GoesAside ==
  ASSUME Handling, Still, fpc \in AsidePc, fpc' \in AsidePc \ {"intsts"},
         fpc' = "idle" => ~came', intr_reset_r' <=> intr_reset_r,
         \/ ~intr_reset_r /\ (AtRest \/ Lost \/ Collecting \/ Stated \/ Refusing)
         \/ intr_reset_r /\ Resetting /\ fpc' # "stat" /\ ~func_stat_rst'
  PROVE  Place' /\ (StartAt => StartAt')
<1>1. Aside'
  BY DEF Aside
<1>2. fpc # "halt" /\ fpc # "stall" /\ fpc # "reset"
  BY DEF AsidePc
<1>3. ~Flushing
  BY <1>2, PlacePc
<1> QED  BY <1>1, <1>2, <1>3, AsideStays DEF Place, Normal, StartAt

(* What the handler does after endpoint 0: endpoint 1, and its end. *)
LEMMA Endings ==
  ASSUME Handling,
         \/ Program!FwClear \/ Program!FwStat
         \/ Program!FwEp1Count \/ Program!FwEp1Read \/ Program!FwEp1Accept
  PROVE  Place' /\ (StartAt => StartAt')
<1> USE HandlerFacts
<1>1. CASE Program!FwClear
  <2>1. /\ fpc = "clear" /\ fpc' = IF func_stat_rst THEN "stat" ELSE "idle"
        /\ func_stat_rst' = func_stat_rst
        /\ UNCHANGED <<Program!xferVars, Program!staticVars>>
    BY <1>1 DEF Program!FwClear
  <2>2. /\ RxSame /\ TxSame /\ CfgSame /\ intr_reset_r' = intr_reset_r
        /\ came' => came
        /\ served => ~came'
    BY <2>1, HandlerQuiet DEF Handling
  <2>3. came => served
    BY <2>1 DEF Handling, PatientInv, ServedOK, inside
  <2>4. Still
    BY <2>1, <2>2, HandlerStill
  <2>5. Resetting => ~func_stat_rst
    BY <2>1 DEF Resetting
  <2> QED  BY <2>1, <2>2, <2>3, <2>4, <2>5, PlacesAt, GoesAside DEF AsidePc
<1>2. CASE Program!FwStat
  <2>1. /\ fpc = "stat" /\ fpc' = "idle"
        /\ UNCHANGED <<Program!xferVars, Program!staticVars>>
    BY <1>2 DEF Program!FwStat
  <2>2. RxSame /\ TxSame /\ CfgSame /\ ~intr_reset_r' /\ came' = came
    BY <2>1, HandlerQuiet DEF Handling
  <2>3. ~came'
    BY <2>1, <2>2 DEF Handling, PatientInv, FlushOK
  <2>4. Still
    BY <2>1, <2>2, HandlerStill
  <2>5. ~intr_reset_r /\ (AtRest \/ Lost \/ Collecting \/ Stated \/ Refusing)
    BY <2>1, PlacesAt
  <2> QED  BY <2>1, <2>2, <2>3, <2>4, <2>5, GoesAside DEF AsidePc
<1>3. CASE Program!FwEp1Count \/ Program!FwEp1Read \/ Program!FwEp1Accept
  <2>1. /\ fpc \in {"ep1Count", "ep1Read"} /\ fpc' \in {"ep1Read", "clear"}
        /\ func_stat_rst' = func_stat_rst
        /\ UNCHANGED <<Program!xferVars, Program!staticVars>>
    BY <1>3 DEF Program!FwEp1Count, Program!FwEp1Read, Program!FwEp1Accept, Program!Goto,
           Program!handlerVars
  <2>2. RxSame /\ TxSame /\ CfgSame /\ IntrSame
    BY <2>1, HandlerQuiet DEF Handling, QuietPc
  <2>3. Still
    BY <2>1, <2>2, HandlerStill
  <2>4. Resetting => ~func_stat_rst
    BY <2>1 DEF Resetting
  <2>5. intr_reset_r' <=> intr_reset_r
    BY <2>2 DEF IntrSame
  <2> QED  BY <2>1, <2>3, <2>4, <2>5, PlacesAt, GoesAside DEF AsidePc
<1> QED  BY <1>1, <1>2, <1>3

-----------------------------------------------------------------------------
(* A SETUP in the endpoint, whatever the program has of it. *)
SetupIs ==
  /\ TxEmpty /\ Knows /\ AddrOld /\ ~Token0
  /\ hstage = (IF asked.wLength = 0 THEN "status" ELSE "data") /\ htog /\ hdata = asked.data
  /\ rx_ready_q[0] /\ rx_setup_q[0] /\ ~stall0 /\ bit0 /\ ~ep0_dir_in_q /\ ~ep0_dir_out_q

(* A SETUP that has been taken stays there while the handler comes to it. *)
LEMMA SetupStays ==
  ASSUME Still, RxSame, SetupTaken PROVE SetupIs'
<1> USE StillFacts
<1>1. TxEmpty' /\ Knows' /\ AddrOld' /\ ~Token0'
  BY DEF SetupTaken
<1>2. hstage' = (IF asked'.wLength = 0 THEN "status" ELSE "data") /\ htog' /\ hdata' = asked'.data
  BY DEF SetupTaken
<1>3. rx_ready_q'[0] /\ rx_setup_q'[0] /\ ~stall0' /\ bit0' /\ ~ep0_dir_in_q' /\ ~ep0_dir_out_q'
  <2>1. rx_ready_q'[0] /\ rx_setup_q'[0]
    BY DEF SetupTaken, RxSame
  <2>2. ~stall0' /\ ~ep0_dir_in_q' /\ ~ep0_dir_out_q'
    BY DEF SetupTaken
  <2>3. bit0'
    BY DEF SetupTaken, bit0
  <2> QED  BY <2>1, <2>2, <2>3
<1> QED  BY <1>1, <1>2, <1>3 DEF SetupIs

(* While it is read, it is in the endpoint or in the handler. *)
LEMMA SetupWhere ==
  ASSUME SetupIs', fpc' = "setupRead" /\ fcnt' = 1,
         \/ fbuf' = << >> /\ rx_fifo'[0] = <<hreq'>>
         \/ fbuf' = <<hreq'>> /\ rx_fifo'[0] = << >>
  PROVE  SetupTaken'
BY DEF SetupIs, SetupTaken

(* What is in the endpoint is read. *)
LEMMA Counts ==
  ASSUME Handling, Program!FwCount PROVE Place' /\ (StartAt => StartAt')
<1> USE HandlerFacts
<1>1. /\ fpc \in {"setupCount", "outCount"} /\ fbuf' = << >>
      /\ fcnt' = IF fpc = "setupCount" THEN Program!MIN(rx_len_q[0], MAXP) ELSE rx_len_q[0]
      /\ UNCHANGED <<Program!xferVars, Program!staticVars>>
  BY TransactionsAssumption DEF Program!FwCount, Sts
<1>2. RxSame /\ TxSame /\ CfgSame /\ IntrSame
  BY <1>1, HandlerQuiet DEF Handling, QuietPc
<1>3. Still
  BY <1>1, <1>2, HandlerStill
<1>4. ~intr_reset_r' /\ ~StartAt
  BY <1>1, <1>2, PlacesAt, PlacePc DEF StartAt, AsidePc, IntrSame
<1>5. CASE fpc = "setupCount"
  <2>1. SetupTaken
    BY <1>5, PlacesAt
  <2>2. fpc' = "setupRead" /\ fcnt' = 1
    <3>1. Program!MIN(1, MAXP) = 1
      BY RequestAssumption DEF Program!MIN
    <3> QED  BY <1>1, <1>5, <2>1, <3>1 DEF Program!FwCount, Program!Goto, SetupTaken
  <2>4. fbuf' = << >> /\ rx_fifo'[0] = <<hreq'>>
    <3>1. rx_fifo[0] = <<hreq>>
      BY <1>5, <2>1 DEF SetupTaken
    <3> QED  BY <1>1, <1>2, <3>1 DEF RxSame
  <2>3. SetupTaken'
    <3>1. SetupIs'
      BY <1>2, <1>3, <2>1, SetupStays
    <3>2. rx_len_q'[0] = rx_len_q[0]
      BY <1>2 DEF RxSame
    <3> QED  BY <2>2, <2>4, <3>1, SetupWhere
  <2> QED  BY <1>4, <2>3 DEF Place, Normal
<1>6. CASE fpc = "outCount"
  <2>1. Taking
    BY <1>6, PlacesAt
  <2>2. fcnt' = taken
    BY <1>1, <1>6, <2>1 DEF Taking
  <2>3. taken \in Nat /\ data_idx + taken <= MAXDATA
    <3>1. /\ data_idx + taken + Len(hdata) = asked.wLength /\ asked.wLength <= MAXDATA
          /\ data_idx < asked.wLength /\ asked.wLength \in Nat
      BY <2>1 DEF Taking, Collects
    <3>2. Len(hdata) \in Nat /\ data_idx \in Nat
      BY DEF HostOK, XferOK
    <3>3. taken \in Nat
      BY <3>1, <3>2, RequestAssumption DEF taken, MIN
    <3> QED  BY <3>1, <3>2, <3>3, RequestAssumption
  <2>4. fpc' = "outRead"
    <3>1. data_idx + fcnt' <= MAXDATA /\ ~(data_idx + fcnt' > MAXDATA)
      BY <2>2, <2>3, RequestAssumption DEF XferOK
    <3> QED  BY <1>6, <3>1 DEF Program!FwCount, Program!Goto
  <2>5. Collects'
    BY <1>2, <1>3, <2>1, StillFacts DEF Taking, Collects, RxSame
  <2>6. Part(<< >>, asked.data, data_idx) /\ data_idx + 0 = data_idx /\ 0 + taken = taken
    <3>1. asked.data \in Seq(Payload) /\ Len(asked.data) = asked.wLength
      BY <2>1, AskedIs DEF Handling, Taking, Collects
    <3>2. data_idx <= Len(asked.data) /\ data_idx \in Nat
      BY <2>1, <3>1 DEF Taking, XferOK, Collects
    <3> QED  BY <2>3, <3>1, <3>2, PartEmpty
  <2> DEFINE s == rx_fifo[0]
  <2>7. Taking'
    <3>1. taken' = taken
      BY <1>3, StillFacts DEF taken
    <3>2. Len(fbuf') = 0
      BY <1>1, EmptyType
    <3> QED  BY <1>1, <1>2, <1>3, <1>6, <2>1, <2>2, <2>4, <2>5, <2>6, <3>1, <3>2, StillFacts
             DEF Taking, RxSame, bit0
  <2> QED  BY <1>4, <2>7 DEF Place, Normal
<1> QED  BY <1>1, <1>5, <1>6

-----------------------------------------------------------------------------
(* What a step of the handler leaves alone. *)
LEMMA HandlerKeeps ==
  ASSUME Handling
  PROVE  /\ UNCHANGED Program!staticVars =>
              /\ (Knows' <=> Knows) /\ (Did' <=> Did) /\ (WillDo' <=> WillDo)
              /\ (WillReset' <=> WillReset) /\ (WakeDone' <=> WakeDone)
         /\ UNCHANGED <<Program!staticVars, Program!xferVars>> =>
              /\ Program!answer' = Program!answer /\ Program!req' = Program!req
              /\ UNCHANGED <<request, data_expected, data_buffer, data_idx>>
         /\ func_addr_r' = func_addr_r => (AddrOld' <=> AddrOld) /\ (AddrNew' <=> AddrNew)
         /\ TxSame => (TxEmpty' <=> TxEmpty)
         /\ RxSame => (RxEmpty' <=> RxEmpty)
         /\ SetupToken'
<1> USE HandlerFacts
<1>1. UNCHANGED Program!staticVars =>
        /\ (Knows' <=> Knows) /\ (Did' <=> Did) /\ (WillDo' <=> WillDo)
        /\ (WillReset' <=> WillReset) /\ (WakeDone' <=> WakeDone)
  BY MemoryKeeps
<1>2. UNCHANGED <<Program!staticVars, Program!xferVars>> =>
        /\ Program!answer' = Program!answer /\ Program!req' = Program!req
        /\ UNCHANGED <<request, data_expected, data_buffer, data_idx>>
  BY SameAnswer DEF Program!xferVars, Program!req
<1>3. func_addr_r' = func_addr_r => (AddrOld' <=> AddrOld) /\ (AddrNew' <=> AddrNew)
  BY DEF AddrOld, AddrNew
<1>4. /\ TxSame => (TxEmpty' <=> TxEmpty)
      /\ RxSame => (RxEmpty' <=> RxEmpty)
  BY DEF TxSame, RxSame, TxEmpty, RxEmpty
<1>5. SetupToken'
  BY DEF SetupToken
<1> QED  BY <1>1, <1>2, <1>3, <1>4, <1>5

(* The endpoint is read, byte by byte. *)
LEMMA Reads ==
  ASSUME Handling, Program!FwRead PROVE Place' /\ (StartAt => StartAt')
<1> USE HandlerFacts
<1>1. /\ fpc \in ReadPc /\ fpc' = fpc /\ Len(fbuf) < fcnt /\ fcnt' = fcnt
      /\ fbuf' = Append(fbuf, RxByte(0))
      /\ UNCHANGED <<Program!xferVars, Program!staticVars>>
  BY TransactionsAssumption DEF Program!FwRead, ReadPc, Program!handlerVars
<1>2. /\ TxSame /\ CfgSame /\ IntrSame
      /\ rx_ready_q'[0] = rx_ready_q[0] /\ rx_len_q'[0] = rx_len_q[0]
      /\ rx_setup_q'[0] = rx_setup_q[0]
      /\ rx_fifo'[0] = IF rx_fifo[0] # << >> THEN Tail(rx_fifo[0]) ELSE rx_fifo[0]
  BY <1>1, HandlerReads DEF Handling
<1>3. /\ (Knows' <=> Knows) /\ (AddrOld' <=> AddrOld) /\ (TxEmpty' <=> TxEmpty)
      /\ UNCHANGED <<request, data_expected, data_buffer, data_idx>> /\ (stall0' <=> stall0)
  BY <1>1, <1>2, HandlerKeeps DEF CfgSame
<1>4. ~intr_reset_r' /\ ~StartAt
  BY <1>1, <1>2, PlacesAt, PlacePc DEF StartAt, AsidePc, IntrSame, ReadPc
<1>5. CASE fpc = "setupRead"
  <2>1. SetupTaken
    BY <1>5, PlacesAt
  <2>2. fbuf = << >> /\ rx_fifo[0] = <<hreq>> /\ fcnt = 1
    <3>1. Len(<<hreq>>) = 1
      OBVIOUS
    <3> QED  BY <1>1, <1>5, <2>1, <3>1 DEF SetupTaken
  <2>3. fbuf' = <<hreq'>> /\ rx_fifo'[0] = << >>
    <3>1. <<hreq>> # << >> /\ Head(<<hreq>>) = hreq /\ Tail(<<hreq>>) = << >>
          /\ Append(<< >>, hreq) = <<hreq>>
      OBVIOUS
    <3> QED  BY <1>1, <1>2, <2>2, <3>1 DEF RxByte
  <2>4. SetupIs'
    <3>1. TxEmpty' /\ Knows' /\ AddrOld' /\ ~Token0'
      BY <1>3, <2>1 DEF SetupTaken
    <3>2. hstage' = (IF asked'.wLength = 0 THEN "status" ELSE "data") /\ htog' /\ hdata' = asked'.data
      BY <2>1 DEF SetupTaken
    <3>3. rx_ready_q'[0] /\ rx_setup_q'[0]
      BY <1>2, <2>1 DEF SetupTaken
    <3>4. ~stall0' /\ ~ep0_dir_in_q' /\ ~ep0_dir_out_q'
      BY <1>3, <2>1 DEF SetupTaken
    <3>5. bit0'
      BY <2>1 DEF SetupTaken, bit0
    <3> QED  BY <3>1, <3>2, <3>3, <3>4, <3>5 DEF SetupIs
  <2>5. SetupTaken'
    BY <1>1, <1>5, <2>2, <2>3, <2>4, SetupWhere
  <2> QED  BY <1>4, <2>5 DEF Place, Normal
<1>6. CASE fpc = "outRead"
  <2>1. Taking
    BY <1>6, PlacesAt
  <2> DEFINE a == asked.data
             s == rx_fifo[0]
             n == data_idx + Len(fbuf)
  <2>2. a \in Seq(Payload) /\ s \in Seq(Payload) /\ fbuf \in Seq(Payload)
        /\ data_idx \in Nat /\ Len(fbuf) \in Nat /\ n \in Nat /\ Len(s) \in Nat
    BY AskedIs, LenProperties, TransactionsAssumption DEF Handling, XferOK, DeviceOK
  <2>3. Part(fbuf, a, data_idx) /\ Part(s, a, n) /\ fcnt = taken /\ Len(fbuf) + Len(s) = taken
    BY <1>6, <2>1 DEF Taking
  <2> HIDE DEF a, s
  <2>4. s # << >>
    BY <1>1, <2>2, <2>3, EmptyType
  <2>5. Head(s) = a[n + 1] /\ Part(Tail(s), a, n + 1) /\ n < Len(a)
    BY <2>2, <2>3, <2>4, PartTail
  <2>6. fbuf' = Append(fbuf, Head(s)) /\ rx_fifo'[0] = Tail(s)
    BY <1>1, <1>2, <2>4 DEF RxByte, s
  <2>7. Head(s) \in Payload /\ Len(Tail(s)) = Len(s) - 1 /\ Len(fbuf') = Len(fbuf) + 1
    BY <2>2, <2>4, <2>6, TailType, AppendType
  <2>8. Part(fbuf', a, data_idx)
    <3> HIDE DEF n
    <3>1. data_idx + Len(fbuf) < Len(a) /\ Head(s) = a[data_idx + Len(fbuf) + 1]
      BY <2>5 DEF n
    <3> QED  BY <2>2, <2>3, <2>6, <2>7, <3>1, PartAppend
  <2>9. Part(rx_fifo'[0], a, data_idx + Len(fbuf')) /\ Len(fbuf') + Len(rx_fifo'[0]) = taken
    <3>1. data_idx + Len(fbuf') = n + 1 /\ Len(fbuf') + Len(Tail(s)) = taken
      <4>1. \A d, f, r, t \in Nat : d + (f + 1) = d + f + 1
                                 /\ (f + r = t => (f + 1) + (r - 1) = t)
        OBVIOUS
      <4>2. taken \in Nat
        BY <2>3 DEF XferOK
      <4> DEFINE f == Len(fbuf)
                 r == Len(s)
      <4>3. f \in Nat /\ r \in Nat /\ f + r = taken /\ n = data_idx + f /\ data_idx \in Nat
        BY <2>2, <2>3
      <4>4. Len(fbuf') = f + 1 /\ Len(Tail(s)) = r - 1
        BY <2>7
      <4> HIDE DEF f, r, n
      <4>5. data_idx + (f + 1) = n + 1 /\ (f + 1) + (r - 1) = taken
        BY <4>1, <4>2, <4>3
      <4> QED  BY <4>4, <4>5
    <3> QED  BY <2>5, <2>6, <3>1
  <2>10. a = asked'.data /\ taken' = taken
    BY <1>3 DEF a, taken
  <2>11. Collects'
    BY <1>2, <1>3, <2>1 DEF Taking, Collects
  <2>12. Taking'
    BY <1>1, <1>2, <1>3, <1>6, <2>1, <2>3, <2>8, <2>9, <2>10, <2>11 DEF Taking, bit0
  <2> QED  BY <1>4, <2>12 DEF Place, Normal
<1> QED  BY <1>1, <1>5, <1>6 DEF ReadPc

-----------------------------------------------------------------------------
(* The registers and buffers of endpoint 0 have their types. *)
LEMMA HandlerTypes ==
  ASSUME Handling PROVE StaticOK' /\ XferOK' /\ HandlerOK' /\ DeviceOK' /\ HostOK'
<1>1. SystemInv'
  BY HandlerType DEF Handling, SystemInv
<1> QED  BY <1>1 DEF SystemInv, ProgramOK

(* The data toggles: booleans. *)
LEMMA HandlerBits ==
  ASSUME Handling
  PROVE  /\ bit0 \in BOOLEAN /\ htog \in BOOLEAN /\ bit0' = bit0 /\ htog' = htog
         /\ bit0 /\ htog => bit0' = htog'
<1>1. bit0 \in BOOLEAN /\ htog \in BOOLEAN
  BY HandlerFacts, DeviceTypes, TransactionsAssumption DEF AskedOK, bit0
<1>2. bit0' = bit0 /\ htog' = htog
  BY HandlerFacts DEF bit0
<1>3. \A x, y \in BOOLEAN : x /\ y => x = y
  OBVIOUS
<1> QED  BY <1>1, <1>2, <1>3

(* The answer to a request that is answered with data has a length. *)
LEMMA HandlerAnswers ==
  ASSUME Handling, answerTo(Program!req') = "send"
  PROVE  Program!answer' \in Seq(Payload) /\ Len(Program!answer') \in Nat
<1>1. /\ configured' \in {0, 1} /\ remote_wake_enabled' \in BOOLEAN /\ line_coding' \in Seq(Payload)
      /\ request' \in DOMAIN Request
  BY HandlerTypes DEF StaticOK, XferOK
<1>2. Request[request'].wValue \in Nat /\ Request[request'].wLength \in Nat
  BY <1>1, HostAssumption
<1>3. Program!answerTo(Request[request']) = "send"
  BY ProgramAnswers DEF Program!req
<1>4. Program!reply(Request[request'], configured', remote_wake_enabled', endpoint_stalled', line_coding')
        \in Seq(Payload)
  BY <1>1, <1>2, <1>3, ReplyType
<1>5. Program!answer' \in Seq(Payload)
  BY <1>4 DEF Program!answer, Program!req
<1> QED  BY <1>5, LenProperties

(* From endpoint 0 the handler goes to endpoint 1 or to its end. *)
LEMMA LeavesAside ==
  /\ Program!doneEp0 \in {"clear", "ep1Count"}
  /\ (fpc' = Program!doneEp0 => Aside' /\ fpc' \in {"clear", "ep1Count"})
BY DEF Program!doneEp0, Program!afterEp0, Aside, AsidePc

(* usb_process_setup *)
LEMMA Setups ==
  ASSUME Handling, Program!FwSetup PROVE Place' /\ (StartAt => StartAt')
<1> USE HandlerFacts
<1>1. fpc = "setupRead" /\ fpc \in ReadPc /\ Len(fbuf) = fcnt
  BY DEF Program!FwSetup, ReadPc
<1>2. /\ TxSame /\ CfgSame /\ IntrSame
      /\ ~rx_ready_q'[0] /\ rx_len_q'[0] = 0 /\ ~rx_setup_q'[0] /\ rx_fifo'[0] = rx_fifo[0]
  BY <1>1, HandlerReads DEF Handling
<1>3. SetupTaken /\ ~intr_reset_r' /\ ~StartAt
  BY <1>1, <1>2, PlacesAt, PlacePc DEF StartAt, AsidePc, IntrSame
<1>4. fbuf = <<hreq>> /\ rx_fifo[0] = << >>
  <2>1. Len(<< >>) = 0
    OBVIOUS
  <2> QED  BY <1>1, <1>3, <2>1 DEF SetupTaken
<1>5. /\ inTransfer /\ Known(asked) /\ asked.data \in Seq(Payload) /\ hreq \in DOMAIN Request
      /\ asked.wLength \in Nat
      /\ dirIn(asked) => asked.data = << >>
      /\ ~dirIn(asked) => Len(asked.data) = asked.wLength
  <2>1. inTransfer
    BY <1>3 DEF SetupTaken, inTransfer
  <2> QED  BY <2>1, AskedIs DEF Handling
<1>6. /\ request' = hreq /\ data_expected' = dataExpected(asked) /\ data_idx' = 0
      /\ UNCHANGED <<data_buffer, configured, endpoint_stalled>>
      /\ IF answeredAtOnce(asked) THEN Program!Process(asked)
         ELSE /\ fpc' = IF data_expected' THEN Program!doneEp0 ELSE "stall"
              /\ UNCHANGED <<remote_wake_enabled, line_coding>>
  <2>1. PICK r \in DOMAIN Request :
          /\ fbuf # << >> /\ Head(fbuf) \in DOMAIN Request => Head(fbuf) = r
          /\ request' = r
          /\ data_expected' = Program!dataExpected(Request[r]) /\ data_idx' = 0
          /\ IF Program!answeredAtOnce(Request[r]) THEN Program!Process(Request[r])
             ELSE /\ Program!Goto(IF data_expected' THEN Program!doneEp0 ELSE "stall")
                  /\ UNCHANGED <<remote_wake_enabled, line_coding>>
    BY DEF Program!FwSetup
  <2>2. r = hreq
    <3>1. <<hreq>> # << >> /\ Head(<<hreq>>) = hreq
      OBVIOUS
    <3> QED  BY <1>4, <1>5, <2>1, <3>1
  <2>3. UNCHANGED <<data_buffer, configured, endpoint_stalled>>
    BY DEF Program!FwSetup
  <2>4. (Program!answeredAtOnce(asked) <=> answeredAtOnce(asked))
        /\ (Program!dataExpected(asked) <=> dataExpected(asked))
    BY ProgramReads
  <2>5. data_expected' = dataExpected(asked)
    <3>1. data_expected' = Program!dataExpected(asked)
      BY <2>1, <2>2 DEF asked
    <3>2. Program!dataExpected(asked) \in BOOLEAN /\ dataExpected(asked) \in BOOLEAN
      BY DEF Program!dataExpected, dataExpected
    <3> QED  BY <2>4, <3>1, <3>2
  <2> QED  BY <2>1, <2>2, <2>3, <2>4, <2>5 DEF asked, Program!Goto
<1>7. /\ RxEmpty' /\ TxEmpty' /\ AddrOld' /\ ~Token0'
      /\ hstage' = (IF asked.wLength = 0 THEN "status" ELSE "data") /\ htog' /\ hdata' = asked.data
      /\ ~rx_setup_q'[0] /\ ~stall0' /\ bit0' /\ ~ep0_dir_in_q' /\ ~ep0_dir_out_q'
  <2>1. RxEmpty' /\ TxEmpty' /\ AddrOld' /\ ~Token0'
    BY <1>2, <1>3, <1>4 DEF SetupTaken, RxEmpty, TxEmpty, TxSame, AddrOld, CfgSame
  <2>2. hstage' = (IF asked.wLength = 0 THEN "status" ELSE "data") /\ htog' /\ hdata' = asked.data
    BY <1>3 DEF SetupTaken
  <2>3. ~stall0' /\ ~ep0_dir_in_q' /\ ~ep0_dir_out_q'
    BY <1>2, <1>3 DEF SetupTaken, CfgSame
  <2>4. bit0'
    BY <1>3 DEF SetupTaken, bit0
  <2> QED  BY <1>2, <2>1, <2>2, <2>3, <2>4
<1>8. Knows
  BY <1>3 DEF SetupTaken
<1>9. ASSUME answeredAtOnce(asked)
      PROVE  Normal'
  <2>1. ~data_expected' /\ Program!Process(asked)
    BY <1>6, <1>9 DEF dataExpected
  <2>2. /\ answerTo(asked) \in {"address", "status"} => WillDo' /\ WakeDone'
        /\ answerTo(asked) \in {"send", "stall"} => Knows'
    BY <1>6, <1>8, <2>1, ProcessKnows DEF host
  <2>3. fpc' = CASE answerTo(asked) = "send" -> "mask"
                 [] answerTo(asked) = "none" -> Program!doneEp0
                 [] OTHER                    -> answerTo(asked)
    BY <2>1, ProgramAnswers DEF Program!Process, Program!Goto
  <2>4. \/ dirIn(asked) /\ reading /\ MayRead(asked)
        \/ ~dirIn(asked) /\ asked.wLength = 0 /\ MayCommand(asked)
    BY <1>5, <1>9 DEF Known, MayRead, answeredAtOnce, reading
  <2>5. CASE answerTo(asked) = "send"
    <3>1. dirIn(asked) /\ reading /\ asked.wLength > 0 /\ hdata' = << >> /\ fpc' = "mask"
      BY <1>5, <1>7, <2>3, <2>4, <2>5 DEF MayCommand, MayRead
    <3>2. Part(hdata', Program!answer', 0)
      <4>1. Program!req' = asked
        BY <1>6 DEF Program!req, asked
      <4>2. Len(Program!answer') \in Nat
        BY <2>5, <4>1, HandlerAnswers
      <4> QED  BY <3>1, <4>2, EmptyType DEF Part
    <3>3. Replying'
      BY <1>2, <1>6, <1>7, <2>1, <2>2, <2>5, <3>1, <3>2 DEF Replying
    <3>4. SendingData'
      <4>1. hstage' = "data" /\ Len(hdata') = 0
        BY <1>5, <1>7, <3>1, EmptyType
      <4>2. bit0' = htog'
        BY <1>3, HandlerBits DEF SetupTaken
      <4> QED  BY <1>7, <4>1, <4>2 DEF SendingData
    <3> QED  BY <1>7, <3>1, <3>3, <3>4 DEF Masking, Normal
  <2>6. CASE answerTo(asked) = "stall"
    <3>1. fpc' = "stall"
      BY <2>3, <2>6
    <3>2. ~(hstage' = "status" /\ reading')
      BY <1>7, <1>5 DEF reading
    <3>3. Refusing'
      BY <1>7, <2>1, <2>2, <2>6, <3>1, <3>2 DEF Refusing
    <3> QED  BY <3>3 DEF Normal
  <2>7. CASE answerTo(asked) \in {"address", "status"}
    <3>1. ~dirIn(asked) /\ asked.wLength = 0 /\ ~OnePacket(asked)
      BY <2>4, <2>7 DEF MayRead, OnePacket
    <3>2. fpc' = answerTo(asked)
      BY <2>3, <2>7
    <3>3. hstage' = "status"
      BY <1>7, <3>1
    <3>4. ~(answerTo(asked) = "address" /\ fpc' # "address")
      BY <3>2
    <3>5. bit0' = ~OnePacket(asked)'
      BY <1>7, <3>1 DEF bit0
    <3>6. Stating'
      BY <1>2, <1>6, <1>7, <2>1, <2>2, <2>7, <3>1, <3>2, <3>3, <3>4, <3>5 DEF Stating
    <3> QED  BY <3>6 DEF Normal
  <2> QED  BY <2>4, <2>5, <2>6, <2>7 DEF MayRead, MayCommand
<1>10. ASSUME ~answeredAtOnce(asked)
       PROVE  Normal'
  <2>1. ~dirIn(asked) /\ asked.wLength > 0 /\ MayWrite(asked) /\ hstage' = "data"
    BY <1>5, <1>7, <1>10 DEF answeredAtOnce, Known
  <2>2. Knows'
    BY <1>6, <1>8, <1>10, HandlerKeeps DEF Program!staticVars
  <2>3. CASE ~data_expected'
    <3>1. fpc' = "stall"
      BY <1>6, <1>10, <2>3
    <3>2. Refusing'
      BY <1>7, <2>1, <2>2, <2>3, <3>1 DEF Refusing
    <3> QED  BY <3>2 DEF Normal
  <2>4. CASE data_expected'
    <3>1. Aside' /\ asked.wLength <= MAXDATA
      BY <1>6, <1>10, <2>4, LeavesAside DEF dataExpected
    <3>2. answerTo(asked) = "none"
      BY <2>1, <3>1, <1>5, RequestAssumption DEF MayWrite
    <3>3. Part(SubSeq(data_buffer', 1, data_idx'), asked.data, 0)
      <4>1. SubSeq(data_buffer, 1, 0) = << >>
        BY SubSeqProperties DEF XferOK
      <4>2. Len(asked.data) \in Nat /\ 0 <= Len(asked.data)
        BY <1>5, LenProperties
      <4> QED  BY <1>5, <1>6, <4>1, <4>2, PartEmpty
    <3>4. Collects'
      <4>1. asked'.wLength \in 1 .. MAXDATA
        BY <1>5, <2>1, <3>1, RequestAssumption
      <4> QED  BY <1>2, <1>6, <1>7, <2>1, <2>2, <2>4, <3>2, <3>3, <4>1 DEF Collects
    <3>5. Part(hdata', asked'.data, data_idx') /\ data_idx' + Len(hdata') = asked'.wLength
          /\ hdata' # << >>
      <4>1. Len(asked.data) = asked.wLength /\ 0 + asked.wLength = asked.wLength /\ Len(<< >>) = 0
        BY <1>5, <2>1
      <4> QED  BY <1>5, <1>6, <1>7, <2>1, <4>1, PartSelf
    <3>6. Collecting'
      <4>1. (bit0' = htog') /\ (htog' = (data_idx' = 0))
        <5>1. htog' = TRUE /\ bit0' = htog'
          BY <1>3, HandlerBits DEF SetupTaken
        <5> QED  BY <1>6, <5>1
      <4> QED  BY <1>7, <2>1, <3>1, <3>4, <3>5, <4>1 DEF Collecting
    <3> QED  BY <3>6 DEF Normal
  <2> QED  BY <2>3, <2>4
<1> QED  BY <1>3, <1>9, <1>10 DEF Place

-----------------------------------------------------------------------------
(* The first elements of a sequence are a part of it. *)
LEMMA PartFirst ==
  \A a \in Seq(Payload), m \in Nat :
    m <= Len(a) => /\ SubSeq(a, 1, m) \in Seq(Payload) /\ Len(SubSeq(a, 1, m)) = m
                   /\ Part(SubSeq(a, 1, m), a, 0)
<1> SUFFICES ASSUME NEW a \in Seq(Payload), NEW m \in Nat, m <= Len(a)
             PROVE  /\ SubSeq(a, 1, m) \in Seq(Payload) /\ Len(SubSeq(a, 1, m)) = m
                    /\ Part(SubSeq(a, 1, m), a, 0)
  OBVIOUS
<1> DEFINE z == 0
<1>1. z \in Nat /\ z + m <= Len(a) /\ z + 1 = 1 /\ z + m = m /\ z = 0
  BY LenProperties
<1> HIDE DEF z
<1>2. /\ SubSeq(a, z + 1, z + m) \in Seq(Payload) /\ Len(SubSeq(a, z + 1, z + m)) = m
      /\ Part(SubSeq(a, z + 1, z + m), a, z)
  BY <1>1, PartSub
<1> QED  BY <1>1, <1>2

(* What is collected: the data of the request from its beginning. *)
LEMMA BufferGrows ==
  \A a, b, c, s \in Seq(Payload), n \in Nat :
    /\ n + Len(s) <= Len(b) /\ Len(c) = Len(b)
    /\ \A i \in 1 .. Len(b) : c[i] = IF i \in n + 1 .. n + Len(s) THEN s[i - n] ELSE b[i]
    /\ Part(SubSeq(b, 1, n), a, 0) /\ Part(s, a, n)
    => Part(SubSeq(c, 1, n + Len(s)), a, 0)
<1> SUFFICES ASSUME NEW a \in Seq(Payload), NEW b \in Seq(Payload), NEW c \in Seq(Payload),
                    NEW s \in Seq(Payload), NEW n \in Nat,
                    n + Len(s) <= Len(b), Len(c) = Len(b),
                    \A i \in 1 .. Len(b) :
                      c[i] = IF i \in n + 1 .. n + Len(s) THEN s[i - n] ELSE b[i],
                    Part(SubSeq(b, 1, n), a, 0), Part(s, a, n)
             PROVE  Part(SubSeq(c, 1, n + Len(s)), a, 0)
  OBVIOUS
<1> DEFINE m == n + Len(s)
           p == SubSeq(b, 1, n)
           q == SubSeq(c, 1, m)
<1>1. Len(a) \in Nat /\ Len(b) \in Nat /\ Len(s) \in Nat /\ m \in Nat /\ m <= Len(b)
  BY LenProperties
<1>2. n + Len(s) <= Len(a) /\ \A k \in 1 .. Len(s) : s[k] = a[n + k]
  BY DEF Part
<1>3. n <= Len(b) /\ m <= Len(c)
  BY <1>1
<1>4. Len(p) = n /\ Part(p, b, 0)
  BY <1>3, PartFirst
<1>5. Len(q) = m /\ Part(q, c, 0)
  BY <1>1, <1>3, PartFirst
<1> HIDE DEF p, q
<1>6. Part(p, a, 0)
  BY DEF p
<1>7. \A k \in 1 .. n : b[k] = a[k]
  BY <1>4, <1>6 DEF Part
<1>8. ASSUME NEW k \in 1 .. m PROVE q[k] = a[k]
  <2>1. q[k] = c[k]
    BY <1>1, <1>5 DEF Part
  <2>2. CASE k <= n
    <3>1. k \in 1 .. n /\ k \in 1 .. Len(b) /\ k \notin n + 1 .. n + Len(s)
      BY <1>1, <2>2
    <3> QED  BY <1>7, <2>1, <3>1
  <2>3. CASE ~(k <= n)
    <3>1. k - n \in 1 .. Len(s) /\ k \in 1 .. Len(b) /\ k \in n + 1 .. n + Len(s) /\ n + (k - n) = k
      BY <1>1, <2>3
    <3> QED  BY <1>2, <2>1, <3>1
  <2> QED  BY <2>2, <2>3
<1>9. 0 + Len(q) <= Len(a) /\ \A k \in 1 .. Len(q) : q[k] = a[0 + k]
  BY <1>1, <1>2, <1>5, <1>8
<1>10. Part(q, a, 0)
  BY <1>9 DEF Part
<1> QED  BY <1>10 DEF q

(* usb_process_out *)
LEMMA Outs ==
  ASSUME Handling, Program!FwOut PROVE Place' /\ (StartAt => StartAt')
<1> USE HandlerFacts
<1>1. /\ fpc = "outRead" /\ fpc \in ReadPc /\ Len(fbuf) = fcnt
      /\ UNCHANGED <<request, data_expected>> /\ UNCHANGED Program!staticVars
      /\ data_idx' = data_idx + fcnt
      /\ data_buffer' = [i \in DOMAIN data_buffer |->
           IF i \in data_idx + 1 .. data_idx' THEN fbuf[i - data_idx] ELSE data_buffer[i]]
      /\ fpc' = IF fcnt < MAXP \/ data_idx' >= Program!req.wLength THEN "status"
                ELSE Program!doneEp0
  BY DEF Program!FwOut, ReadPc, Program!Goto
<1>2. /\ TxSame /\ CfgSame /\ IntrSame
      /\ ~rx_ready_q'[0] /\ rx_len_q'[0] = 0 /\ ~rx_setup_q'[0] /\ rx_fifo'[0] = rx_fifo[0]
  BY <1>1, HandlerReads DEF Handling
<1>3. Taking /\ ~intr_reset_r' /\ ~StartAt
  BY <1>1, <1>2, PlacesAt, PlacePc DEF StartAt, AsidePc, IntrSame
<1> DEFINE a == asked.data
           w == asked.wLength
<1>4. /\ Collects /\ fcnt = taken /\ Len(fbuf) + Len(rx_fifo[0]) = taken
      /\ Part(fbuf, a, data_idx)
      /\ bit0 = htog /\ htog = (data_idx # 0)
      /\ hstage = IF hdata = << >> THEN "status" ELSE "data"
      /\ data_idx < w /\ data_idx + taken + Len(hdata) = w
      /\ Part(hdata, a, data_idx + taken)
  BY <1>1, <1>3 DEF Taking
<1>5. /\ request = hreq /\ ~dirIn(asked) /\ w \in 1 .. MAXDATA
      /\ answerTo(asked) = "none" /\ data_expected /\ ~stall0 /\ ~ep0_dir_in_q
      /\ data_idx \in {0, MAXP} /\ Part(SubSeq(data_buffer, 1, data_idx), a, 0)
      /\ Knows /\ AddrOld /\ TxEmpty
  BY <1>4 DEF Collects
<1>6. /\ inTransfer /\ Known(asked) /\ a \in Seq(Payload) /\ Len(a) = w /\ hdata \in Seq(Payload)
  <2>1. inTransfer
    BY <1>4 DEF inTransfer
  <2> QED  BY <1>5, <2>1, AskedIs DEF Handling
<1>7. /\ w <= 2 * MAXP /\ MAXP \in Nat \ {0} /\ w \in Nat /\ Len(hdata) \in Nat
      /\ taken \in Nat /\ (hdata = << >> <=> data_idx + taken = w)
      /\ data_idx + taken <= w
      /\ taken = MAXP \/ data_idx + taken = w
      /\ data_idx \in Nat
  <2>1. w <= 2 * MAXP /\ MAXP \in Nat \ {0} /\ w \in Nat /\ MAXDATA \in Nat
    BY <1>5, <1>6, RequestAssumption DEF Known, MayWrite
  <2>2. Len(hdata) \in Nat /\ (hdata = << >> <=> Len(hdata) = 0)
    BY <1>6, EmptyType, LenProperties
  <2>3. data_idx \in Nat
    BY <1>5, <2>1
  <2> DEFINE h == Len(hdata)
  <2>4. h \in Nat /\ data_idx + taken + h = w /\ data_idx < w
    BY <1>4, <2>2
  <2>5. taken = MIN(MAXP, w - data_idx)
    BY DEF taken
  <2> HIDE DEF h, w
  <2>6. taken \in Nat /\ (taken = MAXP \/ taken = w - data_idx)
    BY <2>1, <2>3, <2>4, <2>5 DEF MIN
  <2>7. (h = 0 <=> data_idx + taken = w) /\ data_idx + taken <= w
        /\ (taken = MAXP \/ data_idx + taken = w)
    BY <2>1, <2>3, <2>4, <2>6
  <2> QED  BY <2>1, <2>2, <2>3, <2>6, <2>7 DEF h
<1>8. /\ RxEmpty' /\ TxEmpty' /\ AddrOld' /\ ~Token0' /\ Knows' /\ ~rx_setup_q'[0] /\ ~stall0'
      /\ ~ep0_dir_in_q' /\ bit0' = htog'
  <2>1. rx_fifo[0] = << >>
    <3>1. rx_fifo[0] \in Seq(Payload) /\ Len(rx_fifo[0]) \in Nat /\ Len(fbuf) \in Nat
      BY LenProperties, TransactionsAssumption DEF DeviceOK, XferOK
    <3>2. Len(rx_fifo[0]) = 0
      BY <1>1, <1>4, <3>1
    <3> QED  BY <3>1, <3>2, EmptyType
  <2>2. RxEmpty'
    BY <1>2, <2>1 DEF RxEmpty
  <2>3. TxEmpty' /\ AddrOld' /\ Knows'
    BY <1>1, <1>2, <1>5, HandlerKeeps DEF CfgSame
  <2>4. ~stall0'
    BY <1>2, <1>5 DEF CfgSame
  <2>5. bit0' = htog'
    BY <1>4, HandlerBits
  <2> QED  BY <1>2, <1>5, <2>2, <2>3, <2>4, <2>5
<1>9. /\ data_idx' = data_idx + taken
      /\ Part(SubSeq(data_buffer', 1, data_idx'), a, 0)
  <2>1. /\ data_buffer \in Seq(Payload) /\ data_buffer' \in Seq(Payload) /\ fbuf \in Seq(Payload)
        /\ Len(data_buffer') = Len(data_buffer) /\ Len(data_buffer) = MAXDATA
        /\ DOMAIN data_buffer = 1 .. Len(data_buffer)
    BY HandlerTypes, LenProperties DEF XferOK
  <2>2. data_idx' = data_idx + taken /\ data_idx + Len(fbuf) = data_idx'
        /\ data_idx + Len(fbuf) <= Len(data_buffer)
    BY <1>1, <1>4, <1>5, <1>7, <2>1, RequestAssumption
  <2>3. \A i \in 1 .. Len(data_buffer) :
          data_buffer'[i] = IF i \in data_idx + 1 .. data_idx + Len(fbuf) THEN fbuf[i - data_idx]
                            ELSE data_buffer[i]
    BY <1>1, <2>1, <2>2
  <2>4. Part(SubSeq(data_buffer', 1, data_idx + Len(fbuf)), a, 0)
    <3> HIDE DEF a
    <3> QED  BY <1>4, <1>5, <1>6, <1>7, <2>1, <2>2, <2>3, BufferGrows
  <2> QED  BY <2>2, <2>4
<1>10. Program!req.wLength = w /\ (fpc' = IF hdata = << >> THEN "status" ELSE Program!doneEp0)
  <2>1. Program!req.wLength = w
    BY <1>5 DEF Program!req, asked
  <2>2. hdata = << >> <=> (fcnt < MAXP \/ data_idx' >= w)
    <3> HIDE DEF w
    <3> QED  BY <1>4, <1>7, <1>9
  <2> QED  BY <1>1, <2>1, <2>2
<1>11. CASE hdata = << >>
  <2>1. fpc' = "status" /\ hstage' = "status" /\ data_idx' = w
    BY <1>4, <1>7, <1>9, <1>10, <1>11
  <2>2. bit0' = ~OnePacket(asked)'
    <3>1. OnePacket(asked)' = (w \in 1 .. MAXP)
      BY <1>5 DEF OnePacket
    <3>2. data_idx # 0 <=> ~(w \in 1 .. MAXP)
      <4> HIDE DEF w
      <4>1. data_idx = 0 => w <= MAXP
        BY <1>7, <1>9, <1>11 DEF taken, MIN
      <4>2. w \in 1 .. MAXDATA
        BY <1>5
      <4>3. data_idx < w
        BY <1>4
      <4> QED  BY <1>5, <1>7, <4>1, <4>2, <4>3, RequestAssumption
    <3>3. bit0' = (data_idx # 0)
      BY <1>4, <1>8
    <3> QED  BY <3>1, <3>2, <3>3
  <2>3. w <= MAXDATA /\ Part(SubSeq(data_buffer', 1, w), a, 0)
    BY <1>5, <1>9, <2>1, RequestAssumption
  <2>4. Stating'
    BY <1>1, <1>5, <1>8, <2>1, <2>2, <2>3 DEF Stating
  <2> QED  BY <1>3, <2>4 DEF Place, Normal
<1>12. CASE hdata # << >>
  <2>1. fpc' = Program!doneEp0 /\ hstage' = "data" /\ data_idx' < w
    BY <1>4, <1>7, <1>9, <1>10, <1>12
  <2>2. data_idx = 0 /\ data_idx' = MAXP
    <3> HIDE DEF w
    <3> QED  BY <1>5, <1>7, <1>9, <2>1
  <2>3. Aside'
    BY <2>1, LeavesAside
  <2>4. Collects'
    BY <1>1, <1>5, <1>8, <1>9, <2>2 DEF Collects
  <2>5. htog' = (data_idx' = 0)
    BY <1>4, <1>7, <2>2
  <2>6. Part(hdata', a, data_idx') /\ data_idx' + Len(hdata') = w /\ hdata' # << >>
    BY <1>4, <1>9, <1>12
  <2>7. Collecting'
    BY <1>8, <2>1, <2>3, <2>4, <2>5, <2>6 DEF Collecting
  <2> QED  BY <1>3, <2>7 DEF Place, Normal
<1> QED  BY <1>11, <1>12

-----------------------------------------------------------------------------
(* The status stage of a request that does not read. *)
LEMMA AddressKnown ==
  ASSUME Informed, AskedOK, HostOK, inTransfer, AddrOld, answerTo(asked) \in {"status", "none"}
  PROVE  AddrNew
<1>1. haddr = 0 => Standard(asked, REQ_GET_DESCRIPTOR) \/ Standard(asked, REQ_SET_ADDRESS)
  BY DEF AskedOK
<1>2. haddr # 0
  BY <1>1, Changes
<1> QED  BY <1>2 DEF AddrOld, AddrNew

(* openusb_set_address, openusb_control_endpoint_send_status: its empty    *)
(* packet is started.                                                      *)
LEMMA SendsStatus ==
  ASSUME Handling, Program!FwAddress \/ Program!FwStatus PROVE Place' /\ (StartAt => StartAt')
<1> USE HandlerFacts
<1>1. /\ fpc \in {"address", "status"} /\ fpc' = IF fpc = "address" THEN "status" ELSE "statusSpin"
      /\ UNCHANGED <<Program!xferVars, Program!staticVars>>
  BY DEF Program!FwAddress, Program!FwStatus, Program!Goto
<1>2. /\ RxSame /\ IntrSame /\ stall0' = stall0
      /\ fpc # "address" => func_addr_r' = func_addr_r
      /\ fpc = "address" => TxSame /\ func_addr_r' = addressOf(Program!req)
      /\ fpc = "status" => tx_active_q'[0] /\ tx_len_q'[0] = 0 /\ tx_fifo'[0] = tx_fifo[0]
  BY <1>1, HandlerSends, ProgramReads DEF Handling
<1>3. Stating /\ ~intr_reset_r' /\ ~StartAt
  BY <1>1, <1>2, PlacesAt, PlacePc DEF StartAt, AsidePc, IntrSame
<1>4. /\ RxEmpty /\ ~Token0' /\ request = hreq /\ ~dirIn(asked) /\ hstage = "status"
      /\ ~rx_setup_q[0] /\ ~stall0 /\ ~ep0_dir_in_q /\ bit0 = ~OnePacket(asked) /\ TxEmpty
      /\ IF answerTo(asked) = "address" /\ fpc # "address" THEN AddrNew ELSE AddrOld
      /\ fpc = "address" => answerTo(asked) = "address"
      /\ IF data_expected
           THEN /\ answerTo(asked) = "none" /\ Knows
                /\ asked.wLength <= MAXDATA
                /\ Part(SubSeq(data_buffer, 1, asked.wLength), asked.data, 0)
           ELSE asked.wLength = 0 /\ answerTo(asked) \in {"address", "status"} /\ WillDo /\ WakeDone
  BY <1>1, <1>3 DEF Stating
<1>5. /\ (Knows' <=> Knows) /\ (WillDo' <=> WillDo) /\ (WakeDone' <=> WakeDone)
      /\ UNCHANGED <<request, data_expected, data_buffer>>
      /\ (func_addr_r' = func_addr_r => (AddrOld' <=> AddrOld) /\ (AddrNew' <=> AddrNew))
      /\ (RxEmpty' <=> RxEmpty)
  BY <1>1, <1>2, HandlerKeeps
<1>6. IF answerTo(asked) = "address" THEN AddrNew' ELSE AddrOld'
  <2>1. CASE fpc = "address"
    <3>1. Program!req = asked
      BY <1>4 DEF Program!req, asked
    <3> QED  BY <1>2, <1>4, <2>1, <3>1 DEF AddrNew
  <2>2. CASE fpc = "status"
    BY <1>2, <1>4, <1>5, <2>2
  <2> QED  BY <1>1, <2>1, <2>2
<1>7. ~rx_setup_q'[0] /\ ~stall0' /\ ~ep0_dir_in_q'
  BY <1>2, <1>4 DEF RxSame
<1>8. bit0' = ~OnePacket(asked)'
  BY <1>4, HandlerBits DEF OnePacket
<1>9. IF fpc' = "statusSpin" THEN tx_active_q'[0] /\ tx_len_q'[0] = 0 /\ tx_fifo'[0] = << >>
                             ELSE TxEmpty'
  <2>1. CASE fpc = "address"
    BY <1>1, <1>2, <1>4, <2>1, HandlerKeeps
  <2>2. CASE fpc = "status"
    BY <1>1, <1>2, <1>4, <2>2 DEF TxEmpty
  <2> QED  BY <1>1, <2>1, <2>2
<1>10. Stating'
  BY <1>1, <1>4, <1>5, <1>6, <1>7, <1>8, <1>9 DEF Stating
<1> QED  BY <1>3, <1>10 DEF Place, Normal

(* It spins until it has seen that packet in the endpoint. *)
LEMMA StatusSpins ==
  ASSUME Handling, Program!FwStatusSpin PROVE Place' /\ (StartAt => StartAt')
<1> USE HandlerFacts
<1>1. /\ fpc = "statusSpin" /\ UNCHANGED <<request, endpoint_stalled>>
      /\ IF data_expected
           THEN Program!Process(Program!req) /\ UNCHANGED configured
           ELSE /\ fpc' = IF Program!setsStall(Program!req) \/ Program!clearsStall(Program!req)
                          THEN "halt" ELSE Program!doneEp0
                /\ configured' = Program!newConfigured(Program!req, configured)
                /\ UNCHANGED <<remote_wake_enabled, line_coding>>
  BY DEF Program!FwStatusSpin, Program!Goto
<1>2. RxSame /\ TxSame /\ CfgSame /\ IntrSame
  BY <1>1, HandlerQuiet DEF Handling, QuietPc
<1>3. Stating /\ ~intr_reset_r' /\ ~StartAt
  BY <1>1, <1>2, PlacesAt, PlacePc DEF StartAt, AsidePc, IntrSame
<1>4. /\ RxEmpty /\ ~Token0' /\ request = hreq /\ ~dirIn(asked) /\ hstage = "status"
      /\ ~rx_setup_q[0] /\ ~stall0 /\ ~ep0_dir_in_q /\ bit0 = ~OnePacket(asked)
      /\ tx_active_q[0] /\ tx_len_q[0] = 0 /\ tx_fifo[0] = << >>
      /\ IF answerTo(asked) = "address" THEN AddrNew ELSE AddrOld
      /\ IF data_expected
           THEN /\ answerTo(asked) = "none" /\ Knows
                /\ asked.wLength <= MAXDATA
                /\ Part(SubSeq(data_buffer, 1, asked.wLength), asked.data, 0)
           ELSE asked.wLength = 0 /\ answerTo(asked) \in {"address", "status"} /\ WillDo /\ WakeDone
  BY <1>1, <1>3 DEF Stating
<1>5. Program!req = asked
  BY <1>4 DEF Program!req, asked
<1>6. /\ inTransfer /\ Known(asked) /\ asked.data \in Seq(Payload) /\ asked.wLength \in Nat
      /\ Len(asked.data) = asked.wLength
  <2>1. inTransfer
    BY <1>4 DEF inTransfer
  <2> QED  BY <1>4, <2>1, AskedIs DEF Handling
<1>7. AddrNew'
  <2>1. answerTo(asked) = "address" \/ answerTo(asked) \in {"status", "none"}
    BY <1>4
  <2>2. AddrNew
    BY <1>4, <1>6, <2>1, AddressKnown DEF Handling
  <2> QED  BY <1>2, <2>2, HandlerKeeps DEF CfgSame
<1>8. /\ RxEmpty' /\ ~rx_setup_q'[0] /\ ~stall0' /\ ~ep0_dir_in_q'
      /\ tx_active_q'[0] /\ tx_len_q'[0] = 0 /\ tx_fifo'[0] = << >>
  BY <1>2, <1>4 DEF RxSame, TxSame, CfgSame, RxEmpty
<1>9. bit0' = ~OnePacket(asked)'
  BY <1>4, HandlerBits DEF OnePacket
<1>10. \/ fpc' = "halt" /\ request' = hreq' /\ asked'.wLength = 0 /\ WillDo' /\ WakeDone'
       \/ Aside' /\ Did'
  <2>1. CASE data_expected
    <3>1. Program!Process(asked) /\ answerTo(asked) = "none" /\ Knows /\ UNCHANGED configured
      BY <1>1, <1>4, <1>5, <2>1
    <3>2. fpc' = Program!doneEp0
      BY <3>1, ProgramAnswers DEF Program!Process, Program!Goto
    <3>3. Aside'
      BY <3>2, LeavesAside
    <3>4. Class(asked, CDC_SET_LINE_CODING) => asked.data = SubSeq(data_buffer, 1, Len(line_coding))
      <4> SUFFICES ASSUME Class(asked, CDC_SET_LINE_CODING)
                   PROVE  asked.data = SubSeq(data_buffer, 1, Len(line_coding))
        OBVIOUS
      <4>1. asked.wLength > 0
        BY <1>4, <1>6, <3>1 DEF Known, MayCommand
      <4>2. asked.wLength = Len(line_coding) /\ asked.wLength <= MAXDATA
        <5>1. asked.wLength <= MAXDATA /\ ~(asked.wLength > MAXDATA)
          BY <1>4, <1>6, <2>1, RequestAssumption
        <5>2. asked.wLength = Len(Line0)
          BY <1>4, <1>6, <4>1, <5>1 DEF Known, MayWrite
        <5> QED  BY <5>1, <5>2 DEF StaticOK
      <4> DEFINE t == SubSeq(data_buffer, 1, asked.wLength)
      <4>3. t \in Seq(Payload) /\ Len(t) = asked.wLength
        BY <1>6, <4>2, PartFirst DEF XferOK
      <4>4. Part(t, asked.data, 0) /\ Part(asked.data, asked.data, 0)
        BY <1>4, <1>6, <2>1, PartSelf
      <4> HIDE DEF t
      <4>5. t = asked.data
        BY <1>6, <4>3, <4>4, PartWhole
      <4> QED  BY <4>2, <4>5 DEF t
    <3>5. Did'
      BY <1>1, <3>1, <3>4, DataKnows DEF host
    <3> QED  BY <3>3, <3>5
  <2>2. CASE ~data_expected
    <3>1. /\ asked.wLength = 0 /\ answerTo(asked) # "none" /\ WillDo /\ WakeDone
          /\ configured' = Program!newConfigured(asked, configured)
          /\ UNCHANGED <<remote_wake_enabled, line_coding>>
      BY <1>1, <1>4, <1>5, <2>2
    <3>2. /\ WillDo' /\ WakeDone'
          /\ ~setsStall(asked) /\ ~clearsStall(asked) => Did'
      BY <1>1, <3>1, StatusKnows DEF host
    <3>3. fpc' = IF setsStall(asked) \/ clearsStall(asked) THEN "halt" ELSE Program!doneEp0
      BY <1>1, <1>5, <2>2, ProgramAnswers
    <3> QED  BY <1>1, <1>4, <3>1, <3>2, <3>3, LeavesAside
  <2> QED  BY <2>1, <2>2
<1>11. Stated'
  BY <1>4, <1>7, <1>8, <1>9, <1>10 DEF Stated
<1> QED  BY <1>3, <1>11 DEF Place, Normal

(* openusb_set_endpoint_stall, openusb_clear_endpoint_stall *)
LEMMA Halts ==
  ASSUME Handling, Program!FwHalt PROVE Place' /\ (StartAt => StartAt')
<1> USE HandlerFacts
<1>1. /\ fpc = "halt" /\ fpc' = Program!doneEp0 /\ UNCHANGED Program!xferVars
      /\ UNCHANGED <<configured, remote_wake_enabled, line_coding>>
      /\ endpoint_stalled' = IF Program!setsStall(Program!req)
                             THEN endpoint_stalled \cup {Program!endpointOf(Program!req)}
                             ELSE endpoint_stalled \ {Program!endpointOf(Program!req)}
  BY DEF Program!FwHalt, Program!Goto
<1>2. /\ RxSame /\ TxSame /\ IntrSame /\ func_addr_r' = func_addr_r
      /\ ~stall0 /\ (Program!setsStall(Program!req) => Program!endpointOf(Program!req) # 0)
              => ~stall0'
  BY <1>1, HandlerConfigures DEF Handling
<1>3. Stated /\ ~intr_reset_r' /\ ~StartAt
  BY <1>1, <1>2, PlacesAt, PlacePc DEF StartAt, AsidePc, IntrSame
<1>4. /\ RxEmpty /\ ~Token0' /\ hstage = "status" /\ ~dirIn(asked) /\ AddrNew
      /\ ~rx_setup_q[0] /\ ~stall0 /\ ~ep0_dir_in_q /\ bit0 = ~OnePacket(asked)
      /\ tx_active_q[0] /\ tx_len_q[0] = 0 /\ tx_fifo[0] = << >>
      /\ request = hreq /\ asked.wLength = 0 /\ WillDo /\ WakeDone
  BY <1>1, <1>3 DEF Stated, Aside, AsidePc
<1>5. Program!req = asked
  BY <1>4 DEF Program!req, asked
<1>6. /\ setsStall(asked) \/ clearsStall(asked)
      /\ setsStall(asked) => endpointOf(asked) # 0
      /\ answerTo(asked) # "none"
  <2>1. setsStall(asked) \/ clearsStall(asked)
    BY <1>1, <1>5, ProgramAnswers DEF HandlerOK
  <2>2. Known(asked)
    BY <1>4, AskedIs DEF Handling, inTransfer
  <2>3. MayCommand(asked)
    BY <1>4, <2>2 DEF Known
  <2> QED  BY <2>1, <2>3 DEF MayCommand
<1>7. endpoint_stalled' = IF setsStall(asked) THEN endpoint_stalled \cup {endpointOf(asked)}
                          ELSE endpoint_stalled \ {endpointOf(asked)}
  BY <1>1, <1>5, ProgramAnswers, ProgramReads
<1>8. Did'
  BY <1>1, <1>4, <1>6, <1>7, HaltKnows DEF host
<1>9. ~stall0'
  BY <1>2, <1>4, <1>5, <1>6, ProgramAnswers, ProgramReads
<1>10. /\ RxEmpty' /\ ~rx_setup_q'[0] /\ AddrNew' /\ ~ep0_dir_in_q'
       /\ tx_active_q'[0] /\ tx_len_q'[0] = 0 /\ tx_fifo'[0] = << >>
  BY <1>2, <1>4, HandlerKeeps DEF RxSame, TxSame
<1>11. bit0' = ~OnePacket(asked)'
  BY <1>4, HandlerBits DEF OnePacket
<1>12. Stated'
  BY <1>1, <1>4, <1>8, <1>9, <1>10, <1>11, LeavesAside DEF Stated
<1> QED  BY <1>3, <1>12 DEF Place, Normal

(* openusb_control_endpoint_stall *)
LEMMA Stalls ==
  ASSUME Handling, Program!FwStall PROVE Place' /\ (StartAt => StartAt')
<1> USE HandlerFacts
<1>1. /\ fpc = "stall" /\ fpc' = Program!doneEp0 /\ UNCHANGED Program!xferVars
      /\ UNCHANGED <<configured, remote_wake_enabled, line_coding>>
      /\ endpoint_stalled' = endpoint_stalled \cup {0}
  BY DEF Program!FwStall, Program!Goto
<1>2. /\ RxSame /\ TxSame /\ IntrSame /\ func_addr_r' = func_addr_r
      /\ ~rx_setup_q[0] => stall0'
  BY <1>1, HandlerConfigures DEF Handling
<1>3. (Refusing \/ Refused) /\ ~intr_reset_r' /\ ~StartAt
  BY <1>1, <1>2, PlacesAt, PlacePc DEF StartAt, AsidePc, IntrSame
<1>4. RxEmpty /\ TxEmpty /\ Knows /\ AddrOld /\ ~rx_setup_q[0] /\ ~data_expected
  BY <1>3 DEF Refusing, Refused
<1>5. /\ RxEmpty' /\ TxEmpty' /\ AddrOld' /\ ~rx_setup_q'[0] /\ ~data_expected' /\ stall0'
      /\ SetupToken'
  BY <1>1, <1>2, <1>4, HandlerKeeps DEF RxSame, Program!xferVars
<1>6. Knows'
  BY <1>1, <1>4, StallKnows DEF host
<1>7. Aside'
  BY <1>1, LeavesAside
<1>8. Refusing => Refusing'
  BY <1>5, <1>6, <1>7 DEF Refusing
<1>9. Refused => AtRest'
  BY <1>5, <1>6, <1>7 DEF Refused, AtRest, HostQuiet
<1> QED  BY <1>3, <1>8, <1>9 DEF Place, Normal

-----------------------------------------------------------------------------
(* The answers, and how long they are. *)
LEMMA DescriptorIs == \A q : Program!descriptorOf(q) = descriptorOf(q)
BY DEF Program!descriptorOf, descriptorOf, Program!HI_BYTE, HI_BYTE, Program!LO_BYTE, LO_BYTE,
       Program!DESC_DEVICE, DESC_DEVICE, Program!DESC_CONFIGURATION, DESC_CONFIGURATION,
       Program!DESC_STRING, DESC_STRING

(* How long they are does not depend on what the program remembers. *)
LEMMA ReplyLength ==
  ASSUME NEW q, answerTo(q) = "send", NEW c, NEW w, NEW st, NEW line, Len(line) = Len(Line0)
  PROVE  Len(Program!reply(q, c, w, st, line)) = AnswerLength(q)
<1> DEFINE P == Program!reply(q, c, w, st, line)
           R == reply(q, 0, FALSE, {}, Line0)
<1>0. /\ Program!recipient(q) = recipient(q)
      /\ \A r : /\ Program!Standard(q, r) <=> Standard(q, r)
                /\ Program!Class(q, r) <=> Class(q, r)
      /\ Program!answerTo(q) = answerTo(q)
  BY ProgramReads, ProgramAnswers
<1>1. \/ /\ Standard(q, REQ_GET_STATUS)
         /\ recipient(q) \in {"device", "interface", "endpoint"}
      \/ Standard(q, REQ_GET_DESCRIPTOR)
      \/ Standard(q, REQ_GET_CONFIGURATION)
      \/ Class(q, CDC_GET_LINE_CODING)
  BY <1>0, SendKinds DEF Program!REQ_GET_STATUS, REQ_GET_STATUS,
     Program!REQ_GET_DESCRIPTOR, REQ_GET_DESCRIPTOR,
     Program!REQ_GET_CONFIGURATION, REQ_GET_CONFIGURATION,
     Program!CDC_GET_LINE_CODING, CDC_GET_LINE_CODING
<1>2. /\ Standard(q, REQ_GET_STATUS) => ~Standard(q, REQ_GET_DESCRIPTOR)
                /\ ~Standard(q, REQ_GET_CONFIGURATION) /\ ~Class(q, CDC_GET_LINE_CODING)
      /\ Standard(q, REQ_GET_DESCRIPTOR) => /\ ~Standard(q, REQ_GET_CONFIGURATION)
                                            /\ ~Class(q, CDC_GET_LINE_CODING)
      /\ Standard(q, REQ_GET_CONFIGURATION) => ~Class(q, CDC_GET_LINE_CODING)
  BY Exclusive DEF REQ_GET_STATUS, REQ_GET_DESCRIPTOR, REQ_GET_CONFIGURATION
<1> USE DEF Program!REQ_GET_STATUS, REQ_GET_STATUS, Program!REQ_GET_DESCRIPTOR, REQ_GET_DESCRIPTOR,
     Program!REQ_GET_CONFIGURATION, REQ_GET_CONFIGURATION,
     Program!CDC_GET_LINE_CODING, CDC_GET_LINE_CODING
<1>3. \A x, y : Len(<<x, y>>) = 2 /\ Len(<<x>>) = 1
  OBVIOUS
<1>4. CASE Standard(q, REQ_GET_STATUS) /\ recipient(q) = "device"
  <2>1. \E x : P = <<x, "0">>
    BY <1>0, <1>2, <1>4 DEF Program!reply
  <2>2. \E x : R = <<x, "0">>
    BY <1>2, <1>4 DEF reply
  <2> QED  BY <1>3, <2>1, <2>2 DEF AnswerLength
<1>5. CASE Standard(q, REQ_GET_STATUS) /\ recipient(q) = "interface"
  <2>1. \E x : P = <<x, "0">>
    BY <1>0, <1>2, <1>5 DEF Program!reply
  <2>2. \E x : R = <<x, "0">>
    BY <1>2, <1>5 DEF reply
  <2> QED  BY <1>3, <2>1, <2>2 DEF AnswerLength
<1>6. CASE Standard(q, REQ_GET_STATUS) /\ recipient(q) = "endpoint"
  <2>1. \E x : P = <<x, "0">>
    BY <1>0, <1>2, <1>6 DEF Program!reply
  <2>2. \E x : R = <<x, "0">>
    BY <1>2, <1>6 DEF reply
  <2> QED  BY <1>3, <2>1, <2>2 DEF AnswerLength
<1>7. CASE Standard(q, REQ_GET_DESCRIPTOR)
  <2> DEFINE d == Descriptor[descriptorOf(q)]
  <2>1. P = SubSeq(d, 1, MIN(Len(d), q.wLength))
    BY <1>0, <1>2, <1>7, DescriptorIs DEF Program!reply, Program!MIN, MIN
  <2>2. R = SubSeq(d, 1, MIN(Len(d), q.wLength))
    BY <1>2, <1>7 DEF reply
  <2> QED  BY <2>1, <2>2 DEF AnswerLength
<1>8. CASE Standard(q, REQ_GET_CONFIGURATION)
  <2>1. \E x : P = <<x>>
    BY <1>0, <1>2, <1>8 DEF Program!reply
  <2>2. \E x : R = <<x>>
    BY <1>2, <1>8 DEF reply
  <2> QED  BY <1>3, <2>1, <2>2 DEF AnswerLength
<1>9. CASE Class(q, CDC_GET_LINE_CODING)
  <2>1. P = line
    BY <1>0, <1>2, <1>9 DEF Program!reply
  <2>2. R = Line0
    BY <1>2, <1>9 DEF reply
  <2> QED  BY <2>1, <2>2 DEF AnswerLength
<1> QED  BY <1>1, <1>4, <1>5, <1>6, <1>7, <1>8, <1>9

(* Of a request that the host knows to be answered, while it reads. *)
LEMMA Answers ==
  ASSUME SystemInv, Informed, AskedOK, inTransfer, request = hreq, reading,
         answerTo(asked) = "send"
  PROVE  /\ Program!answer \in Seq(Payload) /\ Len(Program!answer) \in Nat
         /\ Len(Program!answer) > 0 /\ Len(Program!answer) <= asked.wLength
         /\ Len(Program!answer) <= 2 * MAXP
         /\ Len(Program!answer) \in {MAXP, 2 * MAXP} => Len(Program!answer) = asked.wLength
         /\ Program!req = asked /\ asked.wLength \in Nat
         /\ inTransfer => Known(asked) /\ MayRead(asked)
<1>1. StaticOK /\ XferOK /\ HostOK /\ Program!req = asked
  BY DEF SystemInv, ProgramOK, Program!req, asked
<1>2. Program!answerTo(Program!req) = "send"
  BY <1>1, ProgramAnswers
<1>3. Program!answer \in Seq(Payload) /\ Len(Program!answer) \in Nat
  BY <1>1, <1>2, AnswerType DEF XferOK
<1>4. Len(Program!answer) = AnswerLength(asked)
  BY <1>1, ReplyLength DEF Program!answer, StaticOK
<1>5. Known(asked) /\ MayRead(asked) /\ asked.wLength \in Nat
  BY <1>1, AskedIs DEF Known, reading
<1>6. /\ AnswerLength(asked) \in 1 .. MIN(2 * MAXP, asked.wLength)
      /\ AnswerLength(asked) \in {MAXP, 2 * MAXP} => AnswerLength(asked) = asked.wLength
  BY <1>5 DEF MayRead
<1> DEFINE n == AnswerLength(asked)
           w == asked.wLength
<1>7. n \in 1 .. MIN(2 * MAXP, w) /\ w \in Nat /\ MAXP \in Nat
  BY <1>5, <1>6, RequestAssumption
<1> HIDE DEF n, w
<1>8. n > 0 /\ n <= w /\ n <= 2 * MAXP
  BY <1>7 DEF MIN
<1> QED  BY <1>1, <1>3, <1>4, <1>5, <1>6, <1>8 DEF n, w

(* The next packet is the next part of the answer. *)
LEMMA NextPacketIs ==
  ASSUME NEW n \in Nat, Program!answer \in Seq(Payload), n < Len(Program!answer),
         Program!NextPacket(n)
  PROVE  /\ fcnt' = n /\ ~fflush' /\ send' = Program!chunk(n) /\ fpc' = "sendPoll"
         /\ send' \in 1 .. MAXP /\ Len(fbuf') = send' /\ Part(fbuf', Program!answer, n)
         /\ n + send' <= Len(Program!answer)
         /\ send' < MAXP => n + send' = Len(Program!answer)
         /\ fbuf' \in Seq(Payload)
<1> DEFINE A == Program!answer
<1>1. /\ fcnt' = n /\ ~fflush' /\ send' = Program!chunk(n) /\ fpc' = "sendPoll"
      /\ fbuf' = SubSeq(A, n + 1, n + send')
  BY LenProperties DEF Program!NextPacket, Program!Goto
<1>2. Program!chunk(n) = IF Len(A) - n <= MAXP THEN Len(A) - n ELSE MAXP
  BY DEF Program!chunk, Program!MIN
<1>3. Len(A) \in Nat /\ MAXP \in Nat \ {0}
  BY LenProperties, RequestAssumption
<1> HIDE DEF A
<1>4. send' \in 1 .. MAXP /\ n + send' <= Len(A) /\ (send' < MAXP => n + send' = Len(A))
  BY <1>1, <1>2, <1>3 DEF A
<1>5. /\ SubSeq(A, n + 1, n + send') \in Seq(Payload)
      /\ Len(SubSeq(A, n + 1, n + send')) = send' /\ Part(SubSeq(A, n + 1, n + send'), A, n)
  <2>1. send' \in Nat /\ A \in Seq(Payload)
    BY <1>3, <1>4 DEF A
  <2> QED  BY <1>4, <2>1, PartSub
<1> QED  BY <1>1, <1>4, <1>5 DEF A

(* ... of at most MAXP bytes, and not empty while there are more. *)
LEMMA ChunkIs ==
  ASSUME Program!answer' = Program!answer, NEW n, fcnt' = n
  PROVE  (Program!chunk(fcnt))' = Program!chunk(n)
BY DEF Program!chunk

-----------------------------------------------------------------------------
(* usb_control_send *)
LEMMA ReplyStays ==
  ASSUME Handling, RxSame, CfgSame, UNCHANGED <<Program!staticVars, Program!xferVars>>
  PROVE  /\ Replying => Replying'
         /\ SendingData => SendingData'
<1> USE HandlerFacts, HandlerKeeps
<1>1. Replying => Replying'
  BY DEF Replying, RxSame, CfgSame
<1>2. SendingData => SendingData'
  <2>1. SendingData => bit0' = htog'
    BY HandlerBits DEF SendingData
  <2> QED  BY <2>1 DEF SendingData
<1> QED  BY <1>1, <1>2

(* Where the program answers, what it sends is what the host reads. *)
LEMMA ReplyFacts ==
  ASSUME Handling, Replying, hstage \in {"data", "status"}
  PROVE  /\ Program!answer \in Seq(Payload) /\ Len(Program!answer) \in Nat
         /\ Len(Program!answer) > 0 /\ Len(Program!answer) <= asked.wLength
         /\ Len(Program!answer) <= 2 * MAXP
         /\ Len(Program!answer) \in {MAXP, 2 * MAXP} => Len(Program!answer) = asked.wLength
         /\ Program!req = asked /\ asked.wLength \in Nat
<1>1. SystemInv /\ Informed /\ AskedOK /\ inTransfer
  BY DEF Handling, TransferInv, inTransfer
<1> QED  BY <1>1, Answers DEF Replying

(* usb_control_send masks the interrupt of endpoint 0 and prepares the     *)
(* first packet.                                                           *)
LEMMA Masks ==
  ASSUME Handling, Program!FwMask PROVE Place' /\ (StartAt => StartAt')
<1> USE HandlerFacts
<1>1. /\ fpc = "mask" /\ Program!NextPacket(0)
      /\ UNCHANGED <<Program!xferVars, Program!staticVars>>
  BY DEF Program!FwMask
<1>2. /\ RxSame /\ TxSame /\ IntrSame /\ func_addr_r' = func_addr_r
      /\ ~stall0 => ~stall0'
  BY <1>1, HandlerConfigures DEF Handling
<1>3. Masking /\ ~intr_reset_r' /\ ~StartAt
  BY <1>1, <1>2, PlacesAt, PlacePc DEF StartAt, AsidePc, IntrSame
<1>4. Replying /\ SendingData /\ TxEmpty /\ hdata = << >> /\ ~stall0
  BY <1>3 DEF Masking, Replying
<1>5. /\ Program!answer \in Seq(Payload) /\ 0 < Len(Program!answer)
  BY <1>4, ReplyFacts DEF SendingData
<1>6. /\ fcnt' = 0 /\ ~fflush' /\ send' = Program!chunk(0) /\ fpc' = "sendPoll"
      /\ send' \in 1 .. MAXP /\ Len(fbuf') = send' /\ Part(fbuf', Program!answer, 0)
  BY <1>1, <1>5, NextPacketIs
<1>7. /\ Program!answer' = Program!answer /\ (RxEmpty' <=> RxEmpty) /\ (TxEmpty' <=> TxEmpty)
      /\ (Knows' <=> Knows) /\ (AddrOld' <=> AddrOld) /\ UNCHANGED <<request, data_expected>>
  BY <1>1, <1>2, HandlerKeeps
<1>8. Replying'
  BY <1>2, <1>4, <1>7 DEF Replying, RxSame
<1>9. SendingData'
  <2>1. bit0' = htog'
    BY <1>4, HandlerBits DEF SendingData
  <2> QED  BY <1>4, <2>1 DEF SendingData
<1>10. /\ ~tx_active_q'[0] /\ tx_fifo'[0] = << >>
  BY <1>4, <1>7 DEF TxEmpty
<1>11. send' = (Program!chunk(fcnt))'
  BY <1>6, <1>7, ChunkIs
<1>12. /\ Len(tx_fifo'[0]) + Len(fbuf') = send'
       /\ Part(tx_fifo'[0], Program!answer, fcnt')
       /\ Part(fbuf', Program!answer, fcnt' + Len(tx_fifo'[0]))
       /\ fcnt' = Len(hdata')
  <2>1. Len(<< >>) = 0 /\ 0 + send' = send' /\ 0 + 0 = 0
    BY <1>6
  <2>2. Part(<< >>, Program!answer, 0)
    BY <1>5, PartEmpty, LenProperties
  <2> QED  BY <1>4, <1>6, <1>10, <2>1, <2>2
<1>13. fcnt' < Len(Program!answer')
  BY <1>5, <1>6, <1>7
<1>14. Filling'
  BY <1>6, <1>7, <1>8, <1>9, <1>10, <1>11, <1>12, <1>13 DEF Filling
<1> QED  BY <1>3, <1>14 DEF Place, Normal

(* openusb_tx_data *)
LEMMA SendPolls ==
  ASSUME Handling, Program!FwSendPoll PROVE Place' /\ (StartAt => StartAt')
<1> USE HandlerFacts
<1>1. /\ fpc = "sendPoll" /\ fpc' = "sendWrite" /\ ~tx_active_q[0]
      /\ UNCHANGED <<Program!xferVars, Program!staticVars, Program!copyVars>>
  BY TransactionsAssumption DEF Program!FwSendPoll, Program!Goto, Sts
<1>2. /\ RxSame /\ IntrSame /\ TxSame /\ CfgSame
  BY <1>1, HandlerSends DEF Handling, CfgSame
<1>3. /\ ~StartAt /\ (intr_reset_r' <=> intr_reset_r)
      /\ (~intr_reset_r /\ (Waiting \/ Filling)) \/ (intr_reset_r /\ Upset)
  BY <1>1, <1>2, PlacesAt, PlacePc DEF StartAt, AsidePc, IntrSame
<1>4. Still
  BY <1>1, <1>2, HandlerStill
<1>5. ~Waiting
  BY <1>1 DEF Waiting
<1>6. Filling => Filling'
  BY <1>1, <1>2, <1>4, ReplyStays, StillFacts DEF Filling, TxSame, Program!chunk, Program!copyVars
<1>7. Upset => Upset'
  <2>1. Done' <=> Done
    BY <1>4, StillFacts DEF Done
  <2> QED  BY <1>1, <1>2, <1>4, <2>1, StillFacts, HandlerKeeps DEF Upset, TxSame, Program!copyVars
<1> QED  BY <1>3, <1>5, <1>6, <1>7 DEF Place, Normal

(* After 1000 polls it goes on as if the packet had been fetched. *)
LEMMA SendGivesUp ==
  ASSUME Handling, Program!FwSendGivesUp PROVE Place' /\ (StartAt => StartAt')
<1> USE HandlerFacts
<1>1. /\ fpc = "sendPoll" /\ fpc' = "sendWrite" /\ tx_active_q[0]
      /\ ~inTransfer \/ hstage = "status"
      /\ fcnt' = fcnt /\ send' = send
      /\ UNCHANGED <<Program!xferVars, Program!staticVars>>
  BY TransactionsAssumption DEF Program!FwSendGivesUp, Program!Goto, Sts
<1>2. /\ RxSame /\ IntrSame /\ ~tx_active_q'[0] /\ CfgSame
  BY <1>1, HandlerSends DEF Handling, CfgSame
<1>3. /\ ~StartAt /\ (intr_reset_r' <=> intr_reset_r)
      /\ (~intr_reset_r /\ (Waiting \/ Filling)) \/ (intr_reset_r /\ Upset)
  BY <1>1, <1>2, PlacesAt, PlacePc DEF StartAt, AsidePc, IntrSame
<1>4. ~Waiting /\ ~Filling
  BY <1>1 DEF Waiting, Filling, SendingData, inTransfer
<1>5. Program!answer' = Program!answer /\ Program!req' = Program!req
      /\ (WillReset' <=> WillReset) /\ (RxEmpty' <=> RxEmpty) /\ SetupToken'
  BY <1>1, <1>2, HandlerKeeps
<1>6. Upset => Upset'
  <2>1. Done' <=> Done
    BY <1>5 DEF Done
  <2> QED  BY <1>1, <1>2, <1>5, <2>1 DEF Upset
<1> QED  BY <1>3, <1>4, <1>6 DEF Place

(* It writes the next byte. *)
LEMMA SendWrites ==
  ASSUME Handling, MAXP <= DEPTH, Program!FwSendWrite PROVE Place' /\ (StartAt => StartAt')
<1> USE HandlerFacts
<1>1. /\ fpc = "sendWrite" /\ fbuf' = Tail(fbuf)
      /\ fpc' = IF fbuf' = << >> THEN "sendStart" ELSE "sendPoll"
      /\ fcnt' = fcnt /\ send' = send /\ fflush' = fflush
      /\ UNCHANGED <<Program!xferVars, Program!staticVars>>
  BY DEF Program!FwSendWrite, Program!Goto
<1>2. /\ RxSame /\ IntrSame /\ CfgSame
      /\ tx_active_q'[0] = tx_active_q[0] /\ tx_len_q'[0] = tx_len_q[0]
      /\ Len(tx_fifo[0]) < DEPTH => tx_fifo'[0] = Append(tx_fifo[0], Head(fbuf))
  BY <1>1, HandlerSends DEF Handling, CfgSame
<1>3. /\ ~StartAt /\ (intr_reset_r' <=> intr_reset_r)
      /\ (~intr_reset_r /\ Filling) \/ (intr_reset_r /\ Upset)
  BY <1>1, <1>2, PlacesAt, PlacePc DEF StartAt, AsidePc, IntrSame
<1>5. Program!answer' = Program!answer /\ Program!req' = Program!req
      /\ (WillReset' <=> WillReset) /\ (RxEmpty' <=> RxEmpty) /\ SetupToken'
  BY <1>1, <1>2, HandlerKeeps
<1>6. Upset => Upset'
  <2>1. Done' <=> Done
    BY <1>5 DEF Done
  <2> QED  BY <1>1, <1>2, <1>5, <2>1 DEF Upset
<1>7. ASSUME Filling PROVE Filling'
  <2> DEFINE A == Program!answer
             t == tx_fifo[0]
  <2>1. /\ Replying /\ SendingData /\ ~tx_active_q[0] /\ ~fflush
        /\ fcnt = Len(hdata) /\ fcnt < Len(A) /\ send = Program!chunk(fcnt)
        /\ Len(t) + Len(fbuf) = send /\ Part(t, A, fcnt) /\ Part(fbuf, A, fcnt + Len(t))
    BY <1>7 DEF Filling
  <2>2. A \in Seq(Payload)
    BY <2>1, ReplyFacts DEF SendingData
  <2>3. /\ t \in Seq(Payload) /\ fbuf \in Seq(Payload) /\ fbuf # << >>
        /\ Len(t) \in Nat /\ Len(fbuf) \in Nat /\ send \in 0 .. MAXP /\ fcnt \in Nat
    BY <1>1, LenProperties, TransactionsAssumption DEF DeviceOK, XferOK, HandlerOK, PacketPc
  <2> HIDE DEF A, t
  <2> DEFINE n == fcnt + Len(t)
  <2>4. Head(fbuf) = A[n + 1] /\ Part(Tail(fbuf), A, n + 1) /\ n < Len(A) /\ n \in Nat
    <3>1. n \in Nat
      BY <2>3
    <3> QED  BY <2>1, <2>2, <2>3, <3>1, PartTail
  <2>5. Head(fbuf) \in Payload /\ Len(Tail(fbuf)) = Len(fbuf) - 1 /\ Len(fbuf) > 0
    BY <2>3, TailType
  <2>6. Len(t) < DEPTH
    <3>1. \A x, y, s, m, d \in Nat : x + y = s /\ s <= m /\ y > 0 /\ m <= d => x < d
      OBVIOUS
    <3>2. send \in Nat /\ send <= MAXP /\ MAXP \in Nat /\ DEPTH \in Nat
      BY <2>3, TransactionsAssumption, RequestAssumption
    <3> QED  BY <2>1, <2>3, <2>5, <3>1, <3>2
  <2>7. tx_fifo'[0] = Append(t, Head(fbuf)) /\ Len(Append(t, Head(fbuf))) = Len(t) + 1
    BY <1>2, <2>3, <2>5, <2>6, AppendType DEF t
  <2>8. Part(Append(t, Head(fbuf)), A, fcnt)
    <3>1. fcnt + Len(t) < Len(A) /\ Head(fbuf) = A[fcnt + Len(t) + 1]
      BY <2>4
    <3> QED  BY <2>1, <2>2, <2>3, <2>5, <3>1, PartAppend
  <2>9. /\ Len(tx_fifo'[0]) + Len(fbuf') = send /\ fcnt + Len(tx_fifo'[0]) = n + 1
    <3>1. \A f, x, y, s \in Nat : (x + y = s => (x + 1) + (y - 1) = s) /\ f + (x + 1) = (f + x) + 1
      OBVIOUS
    <3>2. send \in Nat
      BY <2>3
    <3> QED  BY <1>1, <2>1, <2>3, <2>5, <2>7, <3>1, <3>2
  <2>10. /\ Part(tx_fifo'[0], A, fcnt) /\ Part(fbuf', A, fcnt + Len(tx_fifo'[0]))
    BY <1>1, <2>4, <2>7, <2>8, <2>9
  <2>11. A = Program!answer' /\ send' = (Program!chunk(fcnt))'
    BY <1>1, <1>5, <2>1, ChunkIs DEF A
  <2>12. Replying' /\ SendingData'
    BY <1>1, <1>2, <2>1, ReplyStays
  <2> QED  BY <1>1, <1>2, <2>1, <2>9, <2>10, <2>11, <2>12 DEF Filling
<1> QED  BY <1>3, <1>6, <1>7 DEF Place, Normal

(* It starts the packet. *)
LEMMA SendStarts ==
  ASSUME Handling, Program!FwSendStart PROVE Place' /\ (StartAt => StartAt')
<1> USE HandlerFacts
<1>1. /\ fpc = "sendStart" /\ fpc' = "sendSpin" /\ fcnt' = fcnt + send
      /\ send' = send /\ fflush' = fflush
      /\ UNCHANGED <<Program!xferVars, Program!staticVars>>
  BY DEF Program!FwSendStart, Program!Goto
<1>2. /\ RxSame /\ IntrSame /\ CfgSame
      /\ IF fflush THEN ~tx_active_q'[0] /\ tx_len_q'[0] = 0 /\ tx_fifo'[0] = << >>
                   ELSE tx_active_q'[0] /\ tx_len_q'[0] = send /\ tx_fifo'[0] = tx_fifo[0]
  BY <1>1, HandlerSends DEF Handling, CfgSame
<1>3. /\ ~StartAt /\ (intr_reset_r' <=> intr_reset_r)
      /\ (~intr_reset_r /\ Filling) \/ (intr_reset_r /\ Upset)
  BY <1>1, <1>2, PlacesAt, PlacePc DEF StartAt, AsidePc, IntrSame
<1>5. Program!answer' = Program!answer /\ Program!req' = Program!req
      /\ (WillReset' <=> WillReset) /\ (RxEmpty' <=> RxEmpty) /\ SetupToken'
  BY <1>1, <1>2, HandlerKeeps
<1>6. Upset => Upset'
  <2>1. Done' <=> Done
    BY <1>5 DEF Done
  <2> QED  BY <1>1, <1>2, <1>5, <2>1 DEF Upset
<1>7. ASSUME Filling PROVE Sent'
  <2> DEFINE A == Program!answer
  <2>1. /\ Replying /\ SendingData /\ ~fflush /\ fbuf = << >>
        /\ fcnt = Len(hdata) /\ fcnt < Len(A) /\ send = Program!chunk(fcnt)
        /\ Len(tx_fifo[0]) + Len(fbuf) = send /\ Part(tx_fifo[0], A, fcnt)
    BY <1>1, <1>7 DEF Filling
  <2>2. Len(A) \in Nat /\ fcnt \in Nat /\ MAXP \in Nat \ {0} /\ Len(tx_fifo[0]) \in Nat
    BY <2>1, ReplyFacts, RequestAssumption, LenProperties, TransactionsAssumption
       DEF SendingData, XferOK, DeviceOK
  <2>3. send = IF Len(A) - fcnt <= MAXP THEN Len(A) - fcnt ELSE MAXP
    BY <2>1 DEF Program!chunk, Program!MIN
  <2> HIDE DEF A
  <2>4. send \in 1 .. MAXP /\ (send < MAXP => fcnt + send = Len(A))
    BY <2>1, <2>2, <2>3
  <2>5. Len(tx_fifo[0]) = send
    BY <2>1, <2>2, <2>4, EmptyType
  <2>6. /\ tx_active_q'[0] /\ tx_len_q'[0] = send /\ tx_fifo'[0] = tx_fifo[0]
    BY <1>2, <2>1
  <2>7. A = Program!answer'
    BY <1>5 DEF A
  <2>8. Replying' /\ SendingData'
    BY <1>1, <1>2, <2>1, ReplyStays
  <2> QED  BY <1>1, <2>1, <2>4, <2>5, <2>6, <2>7, <2>8 DEF Sent
<1> QED  BY <1>3, <1>6, <1>7 DEF Place, Normal

-----------------------------------------------------------------------------
(* The last of what is read, and its acknowledgement. *)
LEMMA SendSpins ==
  ASSUME Handling, Program!FwSendSpin PROVE Place' /\ (StartAt => StartAt')
<1> USE HandlerFacts
<1> DEFINE A == Program!answer
<1>1. /\ fpc = "sendSpin"
      /\ IF send >= MAXP THEN Program!NextPacket(fcnt) ELSE fpc' = "sendAck"
      /\ UNCHANGED <<Program!xferVars, Program!staticVars>>
  BY DEF Program!FwSendSpin, Program!Goto
<1>2. RxSame /\ TxSame /\ CfgSame /\ IntrSame
  BY <1>1, HandlerQuiet DEF Handling, QuietPc
<1>3. /\ ~StartAt /\ (intr_reset_r' <=> intr_reset_r)
      /\ (~intr_reset_r /\ Sent) \/ (intr_reset_r /\ (Upset \/ Swallowing))
  BY <1>1, <1>2, PlacesAt, PlacePc DEF StartAt, AsidePc, IntrSame
<1>4. Still
  BY <1>1, <1>2, HandlerStill
<1>5. send \in Nat /\ send <= MAXP /\ MAXP \in Nat \ {0} /\ fcnt \in Nat
  BY RequestAssumption DEF XferOK
<1>6. fcnt = Len(A) /\ Len(A) = Program!req.wLength /\ Program!NextPacket(fcnt) => fpc' = "sendAck"
  <2>1. fcnt = Len(A) => ~(fcnt < Len(A))
    BY <1>5
  <2> QED  BY <2>1 DEF Program!NextPacket, Program!Goto
<1>7. Upset \/ Swallowing => fpc' = "sendAck"
  <2>1. Upset \/ Swallowing => (send >= MAXP => fcnt = Len(A) /\ Len(A) = Program!req.wLength)
    BY <1>1 DEF Upset, Swallowing, Done
  <2> QED  BY <1>1, <1>6, <2>1
<1>8. Upset => Upset'
  BY <1>4, <1>7, StillFacts DEF Upset
<1>9. Swallowing => Swallowing'
  <2>1. rx_ready_q'[0] = rx_ready_q[0]
    BY <1>2 DEF RxSame
  <2> QED  BY <1>4, <1>7, <2>1, StillFacts DEF Swallowing
<1>10. ASSUME Sent PROVE Waiting' \/ Sent'
  <2>1. /\ Replying /\ SendingData /\ tx_active_q[0] /\ tx_len_q[0] = Len(tx_fifo[0])
        /\ tx_len_q[0] \in 1 .. MAXP /\ Part(tx_fifo[0], A, Len(hdata))
        /\ send = tx_len_q[0] /\ fcnt = Len(hdata) + send /\ (send < MAXP => fcnt = Len(A))
        /\ Len(hdata) \in {0, MAXP}
    BY <1>1, <1>10 DEF Sent, SendingData
  <2>2. /\ A \in Seq(Payload) /\ Len(A) \in Nat
        /\ Len(A) \in {MAXP, 2 * MAXP} => Len(A) = asked.wLength
        /\ Program!req = asked
    BY <2>1, ReplyFacts DEF SendingData
  <2>3. A' = A
    BY <1>4, StillFacts
  <2>4. Replying' /\ SendingData'
    BY <1>1, <1>2, <2>1, ReplyStays
  <2>5. /\ tx_active_q'[0] /\ tx_len_q'[0] = tx_len_q[0] /\ tx_fifo'[0] = tx_fifo[0]
        /\ hdata' = hdata /\ asked' = asked
    BY <1>2, <2>1 DEF TxSame
  <2>6. fcnt <= Len(A)
    BY <1>1 DEF HandlerOK
  <2> HIDE DEF A
  <2>7. CASE send >= MAXP /\ fcnt < Len(A)
    <3>1. send = MAXP /\ fcnt = Len(hdata) + MAXP
      BY <1>5, <2>1, <2>7
    <3>2. Program!NextPacket(fcnt)
      BY <1>1, <2>7
    <3>3. /\ fcnt' = fcnt /\ ~fflush' /\ send' = Program!chunk(fcnt) /\ fpc' = "sendPoll"
          /\ Len(fbuf') = send' /\ Part(fbuf', A, fcnt)
      BY <1>5, <2>2, <2>7, <3>2, NextPacketIs DEF A
    <3>4. send' = (Program!chunk(fcnt))'
      BY <2>3, <3>3, ChunkIs DEF A
    <3>5. Waiting'
      BY <2>1, <2>3, <2>4, <2>5, <2>7, <3>1, <3>3, <3>4 DEF Waiting, A
    <3> QED  BY <3>5
  <2>8. CASE ~(send >= MAXP /\ fcnt < Len(A))
    <3>1. fcnt = Len(A) /\ Len(hdata) + tx_len_q[0] = Len(A)
      BY <1>5, <2>1, <2>2, <2>6, <2>8
    <3>2. tx_len_q[0] < MAXP \/ Len(A) = asked.wLength
      <4>1. CASE send < MAXP
        BY <2>1, <4>1
      <4>2. CASE send >= MAXP
        <5>1. send = MAXP
          BY <1>5, <4>2
        <5>2. Len(A) \in {MAXP, 2 * MAXP}
          BY <1>5, <2>1, <3>1, <5>1
        <5> QED  BY <2>2, <5>2
      <4> QED  BY <1>5, <4>1, <4>2
    <3>3. fpc' = "sendAck"
      <4>1. CASE send < MAXP
        BY <1>1, <1>5, <4>1
      <4>2. CASE send >= MAXP
        <5>1. Len(A) = Program!req.wLength
          <6>1. send = MAXP
            BY <1>5, <4>2
          <6>2. Len(A) \in {MAXP, 2 * MAXP}
            BY <1>5, <2>1, <3>1, <6>1
          <6> QED  BY <2>2, <6>2
        <5> QED  BY <1>1, <1>6, <3>1, <4>2, <5>1 DEF A
      <4> QED  BY <1>5, <4>1, <4>2
    <3>4. Sent'
      BY <2>1, <2>3, <2>4, <2>5, <3>1, <3>2, <3>3 DEF Sent, A
    <3> QED  BY <3>4
  <2> QED  BY <2>7, <2>8
<1> QED  BY <1>3, <1>8, <1>9, <1>10 DEF Place, Normal

(* It waits for the packet that ends the transfer. *)
LEMMA SendAcks ==
  ASSUME Handling, Program!FwSendAck PROVE Place' /\ (StartAt => StartAt')
<1> USE HandlerFacts
<1>1. /\ fpc = "sendAck" /\ fpc' = "sendAccept" /\ rx_ready_q[0]
      /\ UNCHANGED <<Program!xferVars, Program!staticVars, Program!copyVars>>
  BY TransactionsAssumption DEF Program!FwSendAck, Program!Goto, Sts
<1>2. RxSame /\ TxSame /\ CfgSame /\ IntrSame
  BY <1>1, HandlerQuiet DEF Handling, QuietPc
<1>3. /\ ~StartAt /\ (intr_reset_r' <=> intr_reset_r)
      /\ (~intr_reset_r /\ (Sent \/ Thanking \/ Thanked)) \/ (intr_reset_r /\ (Upset \/ Swallowing))
  BY <1>1, <1>2, PlacesAt, PlacePc DEF StartAt, AsidePc, IntrSame
<1>4. ~Sent /\ ~Thanking /\ ~Upset
  BY <1>1 DEF Sent, Thanking, Upset, Replying, RxEmpty
<1>5. Still
  BY <1>1, <1>2, HandlerStill
<1>6. Thanked => Thanked'
  BY <1>1, <1>2, <1>5, StillFacts DEF Thanked, RxSame
<1>7. Swallowing => Swallowing'
  BY <1>1, <1>2, <1>5, StillFacts DEF Swallowing, RxSame
<1> QED  BY <1>3, <1>4, <1>6, <1>7 DEF Place, Normal

(* It accepts that packet. *)
LEMMA SendAccepts ==
  ASSUME Handling, Program!FwSendAccept PROVE Place' /\ (StartAt => StartAt')
<1> USE HandlerFacts
<1>1. /\ fpc = "sendAccept" /\ fpc' = "unmask" /\ func_stat_rst' = func_stat_rst
      /\ UNCHANGED <<Program!xferVars, Program!staticVars>>
  BY DEF Program!FwSendAccept, Program!Goto
<1>2. /\ TxSame /\ CfgSame /\ IntrSame
      /\ ~rx_ready_q'[0] /\ rx_len_q'[0] = 0 /\ ~rx_setup_q'[0] /\ rx_fifo'[0] = rx_fifo[0]
  BY <1>1, HandlerReads DEF Handling
<1>3. /\ ~StartAt /\ (intr_reset_r' <=> intr_reset_r) /\ ~func_stat_rst
      /\ (~intr_reset_r /\ Thanked) \/ (intr_reset_r /\ Swallowing)
  BY <1>1, <1>2, PlacesAt, PlacePc DEF StartAt, AsidePc, IntrSame, ResetOK, Ep0Pc, Masked
<1>4. /\ (Knows' <=> Knows) /\ (WillReset' <=> WillReset) /\ (AddrOld' <=> AddrOld)
      /\ (TxEmpty' <=> TxEmpty) /\ SetupToken'
  BY <1>1, <1>2, HandlerKeeps DEF CfgSame
<1>5. Thanked => AtRest'
  BY <1>1, <1>2, <1>4 DEF Thanked, AtRest, RxEmpty, HostQuiet, inTransfer
<1>6. Swallowing => Resetting'
  BY <1>1, <1>2, <1>3, <1>4 DEF Swallowing, Resetting
<1> QED  BY <1>3, <1>5, <1>6 DEF Place, Normal

(* It lets the interrupt of endpoint 0 through again. *)
LEMMA Unmasks ==
  ASSUME Handling, Program!FwUnmask PROVE Place' /\ (StartAt => StartAt')
<1> USE HandlerFacts
<1>1. /\ fpc = "unmask" /\ fpc' = Program!doneEp0 /\ func_stat_rst' = func_stat_rst
      /\ UNCHANGED <<Program!xferVars, Program!staticVars>>
  BY DEF Program!FwUnmask, Program!Goto
<1>2. RxSame /\ TxSame /\ IntrSame /\ func_addr_r' = func_addr_r
  BY <1>1, HandlerConfigures DEF Handling
<1>3. /\ (intr_reset_r' <=> intr_reset_r) /\ ~func_stat_rst
      /\ (~intr_reset_r /\ AtRest) \/ (intr_reset_r /\ Resetting)
  BY <1>1, <1>2, PlacesAt DEF IntrSame, ResetOK, Ep0Pc, Masked
<1>4. Aside' /\ fpc' \in {"clear", "ep1Count"}
  BY <1>1, LeavesAside
<1>5. /\ (Knows' <=> Knows) /\ (WillReset' <=> WillReset) /\ (AddrOld' <=> AddrOld)
      /\ (TxEmpty' <=> TxEmpty) /\ (RxEmpty' <=> RxEmpty) /\ SetupToken'
  BY <1>1, <1>2, HandlerKeeps
<1>6. AtRest => AtRest'
  BY <1>4, <1>5 DEF AtRest
<1>7. Resetting => Resetting'
  BY <1>1, <1>2, <1>3, <1>4, <1>5 DEF Resetting, RxSame
<1> QED  BY <1>3, <1>6, <1>7 DEF Place, Normal, StartAt

-----------------------------------------------------------------------------
(* Every step of the handler. *)
LEMMA HandlerPlaces ==
  ASSUME Handling, MAXP <= DEPTH PROVE Place' /\ (StartAt => StartAt')
<1>1. Program!Handler
  BY HandlerFacts
<1>2. CASE Program!FwInterrupt \/ Program!FwIntsts \/ Program!FwReset \/ Program!FwService
  BY <1>2, TakesInterrupt, ReadsIntsts, Resets, Serves
<1>3. CASE \/ Program!FwClear \/ Program!FwStat
           \/ Program!FwEp1Count \/ Program!FwEp1Read \/ Program!FwEp1Accept
  BY <1>3, Endings
<1>4. CASE Program!FwCount \/ Program!FwRead \/ Program!FwSetup \/ Program!FwOut
  BY <1>4, Counts, Reads, Setups, Outs
<1>5. CASE \/ Program!FwAddress \/ Program!FwStatus \/ Program!FwStatusSpin
           \/ Program!FwHalt \/ Program!FwStall
  BY <1>5, SendsStatus, StatusSpins, Halts, Stalls
<1>6. CASE \/ Program!FwMask \/ Program!FwSendPoll \/ Program!FwSendGivesUp
           \/ Program!FwSendWrite \/ Program!FwSendStart
  BY <1>6, Masks, SendPolls, SendGivesUp, SendWrites, SendStarts
<1>7. CASE \/ Program!FwSendSpin \/ Program!FwSendAck \/ Program!FwSendAccept \/ Program!FwUnmask
  BY <1>7, SendSpins, SendAcks, SendAccepts, Unmasks
<1> QED  BY <1>1, <1>2, <1>3, <1>4, <1>5, <1>6, <1>7 DEF Program!Handler

(* A reset of the bus that the program has not seen stays, or is cleared. *)
LEMMA CpuReset == \A c : Cpu(c) => (intr_reset_r' => intr_reset_r)
BY DEF Cpu, CpuIntr, intrVars

(* What the handler knows of a reset of the bus. *)
LEMMA HandlerReset ==
  ASSUME Handling PROVE ResetOK'
<1> USE HandlerFacts
<1>1. /\ fpc' = "intsts" => (func_stat_rst' <=> intr_reset_r')
      /\ fpc' \in Ep0Pc => ~func_stat_rst'
      /\ intr_reset_r' =>
           \/ fpc' \in {"intsts", "reset"}
           \/ intr_reset_r /\ fpc \notin {"idle", "intsts", "reset"}
  <2>0. intr_reset_r' => intr_reset_r
    BY CpuReset
  <2> USE DEF Ep0Pc, Masked
  <2>1. CASE Program!FwInterrupt
    <3>1. fpc = "idle" /\ fpc' = "intsts" /\ func_stat_rst' = intr_reset_r
      BY <2>1 DEF Program!FwInterrupt
    <3>2. IntrSame
      BY <3>1, HandlerQuiet DEF Handling, QuietPc
    <3> QED  BY <3>1, <3>2 DEF IntrSame
  <2>2. CASE Program!FwIntsts
    <3>1. fpc = "intsts" /\ (intr_reset_r' => intr_reset_r)
          /\ fpc' = (IF intr_reset_r THEN "reset" ELSE Program!service(EpIntsts))
          /\ func_stat_rst' = func_stat_rst
      BY <2>0, <2>2, ReadsIntsts DEF Program!FwIntsts
    <3>2. func_stat_rst <=> intr_reset_r
      BY <3>1 DEF ResetOK
    <3>3. Program!service(EpIntsts) \in {"service", "clear", "ep1Count"}
      BY AfterEp0
    <3> QED  BY <3>1, <3>2, <3>3
  <2>3. CASE Program!FwReset
    <3>1. fpc = "reset" /\ (fpc' # "reset" => ~intr_reset_r' /\ fpc' \in {"clear", "ep1Count"})
      BY <2>3, Resets DEF Program!FwReset
    <3> QED  BY <3>1
  <2>4. CASE \/ Program!FwClear \/ Program!FwStat
             \/ Program!FwEp1Count \/ Program!FwEp1Read \/ Program!FwEp1Accept
    <3>1. /\ fpc \in {"clear", "stat", "ep1Count", "ep1Read"}
          /\ fpc' \in {"stat", "idle", "ep1Read", "clear"}
      BY <2>4 DEF Program!FwClear, Program!FwStat, Program!FwEp1Count, Program!FwEp1Read,
         Program!FwEp1Accept, Program!Goto, Program!handlerVars
    <3> QED  BY <2>0, <3>1
  <2>5. CASE fpc \in Ep0Pc
    <3>1. func_stat_rst' = func_stat_rst /\ fpc' \in Ep0Pc \cup Leaves /\ ~func_stat_rst
      BY <2>5, Ep0Goes DEF Handling, ResetOK
    <3> QED  BY <2>0, <2>5, <3>1 DEF Leaves
  <2>6. \/ Program!FwInterrupt \/ Program!FwIntsts \/ Program!FwReset
        \/ Program!FwClear \/ Program!FwStat
        \/ Program!FwEp1Count \/ Program!FwEp1Read \/ Program!FwEp1Accept
        \/ fpc \in Ep0Pc
    BY DEF Program!Handler, Program!FwService, Program!FwCount, Program!FwRead, Program!FwSetup,
       Program!FwOut, Program!FwAddress, Program!FwStatus, Program!FwStatusSpin, Program!FwHalt,
       Program!FwStall, Program!FwMask, Program!FwSendPoll, Program!FwSendGivesUp,
       Program!FwSendWrite, Program!FwSendStart, Program!FwSendSpin, Program!FwSendAck,
       Program!FwSendAccept, Program!FwUnmask
  <2> QED  BY <2>1, <2>2, <2>3, <2>4, <2>5, <2>6
<1>2. UNCHANGED <<mpc, enable_rst_intr>>
  BY DEF Program!mainVars
<1>3. mpc = "flush" /\ intr_reset_r => fpc \in {"intsts", "reset", "idle"}
  BY DEF ResetOK
<1> QED  BY <1>1, <1>2, <1>3 DEF ResetOK

(* Every step of my_usb_intr keeps the invariant. *)
LEMMA HandlerTransfers ==
  ASSUME Handling, MAXP <= DEPTH PROVE TransferInv'
<1> USE HandlerFacts
<1>1. AddressAgreed'
  BY DEF Handling, TransferInv, AddressAgreed
<1>2. AskedOK'
  BY DEF AskedOK, now, inTransfer
<1>3. StartPlace'
  <2>1. UNCHANGED mpc
    BY DEF Program!mainVars
  <2>2. mpc \in StartPc => StartAt
    BY DEF Handling, TransferInv, StartPlace, StartAt
  <2>3. StartAt => StartAt'
    BY HandlerPlaces
  <2>4. mpc = "startUp" => ~inTransfer
    BY DEF Handling, TransferInv, StartPlace
  <2>5. inTransfer' <=> inTransfer
    BY DEF inTransfer
  <2> QED  BY <2>1, <2>2, <2>3, <2>4, <2>5 DEF StartPlace, StartAt
<1> QED  BY <1>1, <1>2, <1>3, HandlerPlaces, HandlerReset DEF TransferInv

-----------------------------------------------------------------------------
(* main *)
Maining == SystemInv /\ PatientInv /\ Informed /\ TransferInv /\ Main

(* What all steps of main have in common. *)
LEMMA MainFacts ==
  ASSUME Maining
  PROVE  /\ Cpu(Program!mainOp) /\ Program!Main /\ fpc = "idle" /\ ~irq /\ irq' = intr_o
         /\ UNCHANGED <<host, hfuncs, hresets, hfails, scenario>>
         /\ UNCHANGED <<Program!handlerVars, Program!xferVars, Program!copyVars, Program!staticVars>>
         /\ UNCHANGED <<fpc, func_stat_rst, fwrites>>
         /\ CoreStill /\ HostStill /\ ~token.valid /\ ~Token0'
         /\ DeviceOK /\ HostOK /\ MainOK
         /\ Place /\ ResetOK /\ AskedOK /\ StartPlace
         /\ CpuRx(Program!mainOp) /\ CpuTx(Program!mainOp) /\ CpuCfg(Program!mainOp)
         /\ CpuIntr(Program!mainOp)
<1>1. /\ Cpu(Program!mainOp) /\ Program!Main /\ fpc = "idle" /\ ~irq /\ irq' = intr_o
      /\ UNCHANGED <<host, hfuncs, hresets, hfails, scenario>>
      /\ UNCHANGED <<Program!handlerVars, Program!xferVars, Program!copyVars, Program!staticVars>>
  BY DEF Maining, Main, Program!Main, counts
<1>2. UNCHANGED <<fpc, func_stat_rst, fwrites>>
  BY <1>1 DEF Program!handlerVars
<1>3. ~token.valid
  BY <1>1, WaitsOn DEF Maining, PatientInv, TokenOK
<1>4. CoreStill /\ ~Token0'
  BY <1>1, <1>3 DEF CoreStill, Cpu, coreVars, Token0, bit0
<1>5. HostStill
  BY <1>1 DEF HostStill
<1>6. /\ CpuRx(Program!mainOp) /\ CpuTx(Program!mainOp) /\ CpuCfg(Program!mainOp)
      /\ CpuIntr(Program!mainOp)
  BY <1>1 DEF Cpu
<1> QED  BY <1>1, <1>2, <1>3, <1>4, <1>5, <1>6 DEF Maining, SystemInv, ProgramOK, TransferInv

(* It does nothing to endpoint 0. *)
LEMMA MainStays ==
  ASSUME Maining, mpc \notin StartPc
  PROVE  /\ intr_reset_r' = intr_reset_r /\ came' = came
         /\ Place' /\ (StartAt => StartAt')
<1> USE MainFacts
<1> DEFINE c == Program!mainOp
<1>1. /\ c.op \in {"tx_flush", "write", "flush_start", "start", "none"}
      /\ c.op # "none" => c.ep = 2
  <2>1. c \in {Program!TxFlush(2), Program!Write(2, rx_packet_buf[mcnt + 1]),
               Program!FlushStart(2, mlen), Program!Start(2, mlen), Program!NoOp}
    BY DEF Program!mainOp, StartPc
  <2> QED  BY <2>1 DEF Program!TxFlush, Program!Write, Program!FlushStart, Program!Start, Program!NoOp
<1> HIDE DEF c
<1>2. RxSame /\ TxSame /\ CfgSame
  BY <1>1, AccessRx0, AccessTx0, AccessCfg0 DEF c, CfgSame
<1>3. IntrSame
  BY <1>1, AccessIntr0 DEF c, IntrSame, came
<1>4. Still
  BY <1>2 DEF Still
<1> QED  BY <1>3, <1>4, PlaceStays DEF IntrSame

(* It writes the registers: when it starts, and after a reset of the bus.  *)
LEMMA MainFlushes ==
  ASSUME Maining, mpc \in StartPc
  PROVE  ~intr_reset_r' /\ Place' /\ StartAt'
<1> USE MainFacts
<1> DEFINE c == Program!mainOp
<1>1. c = Head(mwrites) /\ c \in Writes /\ (mpc = "flush" => c \in Flushes)
  <2>1. mwrites \in Seq(Writes) /\ mwrites # << >> /\ (mpc = "flush" => mwrites \in Seq(Flushes))
    BY DEF MainOK, Maining, PatientInv, WritesOK
  <2> QED  BY <2>1, MainOps, TailType
<1> HIDE DEF c
<1>2. c.op \in {"tx_flush", "rx_flush", "stat", "cfg", "ctrl"} /\ (mpc = "flush" => c.op \notin {"cfg", "ctrl"})
  <2>1. \A d \in [op : {"tx_flush", "rx_flush"}, ep : 0 .. 2] : d.op \in {"tx_flush", "rx_flush"}
    OBVIOUS
  <2>2. \A d \in [op : {"stat"}, ep : {0}, rst : {TRUE}] : d.op = "stat"
    OBVIOUS
  <2>3. \A d \in [op : {"cfg"}, ep : 0 .. 2, arg : {d \in EPx_CFG : d.int_rx}] : d.op = "cfg"
    OBVIOUS
  <2>4. \A d \in [op : {"ctrl"}, ep : {0}, arg : FUNC_CTRL] : d.op = "ctrl"
    OBVIOUS
  <2> QED  BY <1>1, <2>1, <2>2, <2>3, <2>4 DEF Writes, Flushes
<1>3. ~intr_reset_r /\ (AtRest \/ Lost) /\ (mpc = "startUp" => AtRest)
  <2>1. ~intr_reset_r
    BY DEF Maining, PatientInv, StartOK, ResetOK, StartPc
  <2>2. ~Flushing
    BY PlacePc
  <2>3. mpc = "startUp" => ~Lost
    BY DEF StartPlace, Lost, Awaits, inTransfer
  <2> QED  BY <2>1, <2>2, <2>3 DEF StartPlace
<1>4. ~intr_reset_r'
  BY <1>3, CpuReset
<1>5. RxEmpty /\ TxEmpty
  BY <1>3 DEF AtRest, Lost
<1>6. RxEmpty'
  <2>1. CASE c.op = "rx_flush" /\ c.ep = 0
    BY <1>5, <2>1, AccessRx0 DEF RxEmpty, c
  <2>2. CASE ~(c.op = "rx_flush" /\ c.ep = 0)
    <3>1. RxSame
      BY <1>2, <2>2, AccessRx0 DEF c
    <3> QED  BY <1>5, <3>1 DEF RxEmpty, RxSame
  <2> QED  BY <2>1, <2>2
<1>7. TxEmpty'
  <2>1. CASE c.op = "tx_flush" /\ c.ep = 0
    BY <1>5, <2>1, AccessTx0 DEF TxEmpty, c
  <2>2. CASE ~(c.op = "tx_flush" /\ c.ep = 0)
    <3>1. TxSame
      BY <1>2, <2>2, AccessTx0 DEF c
    <3> QED  BY <1>5, <3>1 DEF TxEmpty, TxSame
  <2> QED  BY <2>1, <2>2
<1>8. /\ UNCHANGED <<hreq, hstage, haddr>> /\ asked' = asked
      /\ (HostQuiet' <=> HostQuiet) /\ (Awaits' <=> Awaits) /\ (Owed' <=> Owed)
      /\ (Knows' <=> Knows) /\ (Did' <=> Did)
  BY HostKeeps, MemoryKeeps
<1>9. func_addr_r' = func_addr_r /\ (mpc = "flush" => stall0' = stall0)
  BY <1>2, AccessCfg0 DEF c
<1>10. Aside'
  <2>1. ~came'
    <3>1. ~came
      BY DEF Maining, PatientInv, FlushOK, inside
    <3>2. intr_ep_rx_ready_r'[0] = intr_ep_rx_ready_r[0]
      <4>1. c.op # "stat" \/ c.op # "intsts"
        BY <1>2
      <4>2. CASE c.op = "stat"
        BY <4>2 DEF CpuIntr, c
      <4>3. CASE c.op # "stat"
        BY <1>2, <4>3, AccessIntr0 DEF c
      <4> QED  BY <4>2, <4>3
    <3> QED  BY <3>1, <3>2 DEF came
  <2> QED  BY <2>1 DEF Aside, AsidePc
<1>11. AddrOld' <=> AddrOld
  BY <1>8, <1>9 DEF AddrOld
<1>12. AtRest => AtRest'
  <2>1. SetupToken'
    BY DEF SetupToken
  <2> QED  BY <1>6, <1>7, <1>8, <1>10, <1>11, <2>1 DEF AtRest
<1>13. Lost /\ mpc = "flush" => Lost'
  <2>1. Lost => /\ AddrOld /\ Awaits
                /\ (Knows /\ Owed) \/ (Did /\ OnePacket(asked) /\ ~stall0)
    BY DEF Lost
  <2>2. OnePacket(asked)' <=> OnePacket(asked)
    BY <1>8 DEF OnePacket
  <2> QED  BY <1>6, <1>7, <1>8, <1>9, <1>10, <1>11, <2>1, <2>2 DEF Lost
<1>14. AtRest' \/ Lost'
  BY <1>3, <1>12, <1>13 DEF StartPc
<1> QED  BY <1>4, <1>14 DEF Place, Normal, StartAt

(* Every step of main keeps the invariant. *)
LEMMA MainTransfers ==
  ASSUME Maining PROVE TransferInv'
<1> USE MainFacts
<1>1. AddressAgreed'
  BY DEF Maining, TransferInv, AddressAgreed, CoreStill, host
<1>2. AskedOK'
  <2>1. UNCHANGED <<hreq, hstage, htog, haddr, hdata, hfuncs, hresets, hfails, scenario>>
        /\ asked' = asked /\ (NoOnePacket' <=> NoOnePacket) /\ now' = now
        /\ (inTransfer' <=> inTransfer)
    BY HostKeeps
  <2>2. UNCHANGED <<ep0_dir_in_q, ep0_dir_out_q>>
    BY DEF CoreStill
  <2> QED  BY <2>1, <2>2 DEF AskedOK
<1>3. Place'
  BY MainStays, MainFlushes
<1>4. /\ mpc' \in StartPc => StartAt'
      /\ mpc' = "startUp" => mpc = "startUp"
      /\ mpc' \notin {"startUp", "enable"} => enable_rst_intr'
      /\ mpc' = "flush" /\ intr_reset_r' => irq'
  <2>1. CASE Program!MainWrites
    <3>1. /\ mpc \in StartPc /\ mpc' \in {mpc, IF mpc = "startUp" THEN "enable" ELSE "loop"}
          /\ enable_rst_intr' = enable_rst_intr
      BY <2>1 DEF Program!MainWrites, StartPc
    <3> QED  BY <3>1, MainFlushes DEF StartPc, ResetOK
  <2>2. CASE Program!MainEnables
    BY <2>2 DEF Program!MainEnables, StartPc
  <2>3. CASE Program!MainReset
    <3>1. mpc = "loop" /\ mpc' = "flush" /\ intr_reset_r /\ enable_rst_intr' = enable_rst_intr
      BY <2>3 DEF Program!MainReset
    <3>2. StartAt
      BY <3>1, PlacesAt DEF StartAt
    <3>3. StartAt' /\ enable_rst_intr'
      BY <3>1, <3>2, MainStays DEF StartPc, ResetOK
    <3>4. irq'
      BY <3>1 DEF intr_o, Maining, PatientInv, EnabledOK
    <3> QED  BY <3>1, <3>3, <3>4
  <2>4. CASE \/ Program!MainEcho \/ Program!MainCalls \/ Program!MainPolls \/ Program!MainGivesUp
             \/ Program!MainTxByte \/ Program!MainTxStart \/ Program!MainForgets
    <3>1. /\ mpc \in MainPc \ {"startUp", "flush", "enable"}
          /\ mpc' \in MainPc \ {"startUp", "flush", "enable"}
          /\ enable_rst_intr' = enable_rst_intr
      BY <2>4 DEF Program!MainEcho, Program!MainCalls, Program!MainPolls, Program!MainGivesUp,
         Program!MainTxByte, Program!MainTxStart, Program!MainForgets, MainPc, StartPc, TxPc
    <3> QED  BY <3>1 DEF ResetOK, StartPc
  <2> QED  BY <2>1, <2>2, <2>3, <2>4 DEF Program!Main
<1>5. ResetOK'
  BY <1>4 DEF ResetOK, Ep0Pc, Masked
<1>6. StartPlace'
  <2>1. mpc' = "startUp" => ~inTransfer'
    BY <1>4, HostKeeps DEF StartPlace
  <2> QED  BY <1>4, <2>1 DEF StartPlace, StartAt
<1> QED  BY <1>1, <1>2, <1>3, <1>5, <1>6 DEF TransferInv

-----------------------------------------------------------------------------
(* Where they are when it is the host's turn. *)
Hosting == SystemInv /\ PatientInv /\ Informed /\ TransferInv /\ Host

(* A patient host acts where the program waits for it. *)
LEMMA HostWaits == ASSUME Hosting PROVE Program!waiting /\ (HostAsks \/ HostToken \/ HostIn \/ HostAbandons
                                                             \/ HostPings \/ HostPongs => ~token.valid)
<1>1. Patient /\ TokenOK
  BY DEF Hosting, Informed, PatientInv
<1>2. mayAct => Program!waiting /\ ~token.valid
  BY <1>1 DEF mayAct, Patient
<1>3. token.valid => Program!waiting
  BY <1>1 DEF TokenOK
<1>4. HostData \/ HostPingData => token.valid
  BY DEF HostData, HostPingData, Data
<1>5. HostResets => Program!waiting
  BY <1>1 DEF HostResets, Patient
<1>6. HostAsks \/ HostToken \/ HostIn \/ HostAbandons \/ HostPings \/ HostPongs => mayAct
  BY DEF HostAsks, HostToken, HostIn, HostAbandons, HostPings, HostPongs
<1> QED  BY <1>2, <1>3, <1>4, <1>5, <1>6 DEF Hosting, Host

(* Where that is. *)
LEMMA WaitsAt ==
  Program!waiting =>
    \/ fpc = "idle"
    \/ fpc = "statusSpin" /\ ~tx_active_q[0]
    \/ fpc = "sendPoll" /\ tx_active_q[0] /\ (inTransfer \/ fflush)
    \/ fpc = "sendSpin" /\ ~tx_active_q[0] /\ ~rx_ready_q[0]
    \/ fpc = "sendAck" /\ ~rx_ready_q[0]
BY TransactionsAssumption DEF Program!waiting, Program!resting, Sts

HostPlace ==
  \/ /\ ~intr_reset_r /\ fpc = "idle" /\ ~came /\ ~func_stat_rst
     /\ AtRest \/ Lost \/ Collecting \/ Stated \/ Refusing
  \/ ~intr_reset_r /\ Waiting
  \/ ~intr_reset_r /\ fpc = "sendAck" /\ (Sent \/ Thanking)
  \/ intr_reset_r /\ fpc \in {"sendSpin", "sendAck"} /\ Upset

(* The places in which a patient host finds endpoint 0. *)
LEMMA HostPlaces == ASSUME Hosting PROVE HostPlace /\ mpc \notin StartPc
<1>1. Place /\ StartPlace /\ Program!waiting
  BY HostWaits DEF Hosting, TransferInv
<1>2. CASE fpc = "idle"
  <2>1. ~intr_reset_r /\ ~func_stat_rst /\ ~came /\ mpc \notin StartPc
    BY <1>1, <1>2, WaitingAt DEF Hosting
  <2>2. ~SetupTaken /\ ~Taking /\ ~Refused
    BY <1>2, <2>1 DEF SetupTaken, Taking, Refused
  <2> QED  BY <1>1, <1>2, <2>1, <2>2, PlacesAt DEF HostPlace
<1>3. CASE fpc # "idle"
  <2>1. \/ fpc = "statusSpin" /\ ~tx_active_q[0]
        \/ fpc = "sendPoll" /\ tx_active_q[0] /\ (inTransfer \/ fflush)
        \/ fpc = "sendSpin" /\ ~tx_active_q[0] /\ ~rx_ready_q[0]
        \/ fpc = "sendAck" /\ ~rx_ready_q[0]
    BY <1>1, <1>3, WaitsAt
  <2>2. ~StartAt
    BY <2>1, PlacePc DEF StartAt, AsidePc
  <2>3. mpc \notin StartPc
    BY <1>1, <2>2 DEF StartPlace, StartAt
  <2>4. CASE fpc = "statusSpin" /\ ~tx_active_q[0]
    <3>1. ~Stating
      BY <2>4 DEF Stating
    <3> QED  BY <1>1, <2>4, <3>1, PlacesAt
  <2>5. CASE fpc = "sendPoll" /\ tx_active_q[0] /\ (inTransfer \/ fflush)
    <3>1. ~Filling /\ ~Upset
      BY <2>5 DEF Filling, Upset
    <3> QED  BY <1>1, <2>3, <2>5, <3>1, PlacesAt DEF HostPlace
  <2>6. CASE fpc = "sendSpin" /\ ~tx_active_q[0] /\ ~rx_ready_q[0]
    <3>1. ~Sent /\ ~Swallowing
      BY <2>6 DEF Sent, Swallowing
    <3> QED  BY <1>1, <2>3, <2>6, <3>1, PlacesAt DEF HostPlace
  <2>7. CASE fpc = "sendAck" /\ ~rx_ready_q[0]
    <3>1. ~Thanked /\ ~Swallowing
      BY <2>7 DEF Thanked, Swallowing
    <3> QED  BY <1>1, <2>3, <2>7, <3>1, PlacesAt DEF HostPlace
  <2> QED  BY <2>1, <2>4, <2>5, <2>6, <2>7
<1> QED  BY <1>2, <1>3

(* What all steps of the host have in common. *)
LEMMA HostFacts ==
  ASSUME Hosting
  PROVE  /\ UNCHANGED <<program, scenario>>
         /\ UNCHANGED <<Program!handlerVars, Program!xferVars, Program!copyVars, Program!staticVars>>
         /\ UNCHANGED <<fpc, func_stat_rst, fwrites, fbuf, fcnt, send, fflush,
                        request, data_expected, data_buffer, data_idx>>
         /\ memory' = memory /\ now' = now /\ (NoOnePacket' <=> NoOnePacket)
         /\ Program!answer' = Program!answer /\ Program!req' = Program!req /\ (Done' <=> Done)
         /\ ResetOK' /\ StartPlace'
         /\ DeviceOK /\ HostOK /\ StaticOK /\ XferOK
         /\ AskedOK /\ current_addr_q = haddr /\ HostPlace /\ Informed
<1>1. UNCHANGED <<program, scenario>>
  BY DEF Hosting, Host
<1>2. /\ UNCHANGED <<Program!handlerVars, Program!xferVars, Program!copyVars, Program!staticVars>>
      /\ UNCHANGED <<fpc, func_stat_rst, fwrites, fbuf, fcnt, send, fflush,
                     request, data_expected, data_buffer, data_idx, mpc, enable_rst_intr>>
  BY <1>1 DEF program, Program!handlerVars, Program!xferVars, Program!copyVars, Program!staticVars
<1>3. now' = now /\ (NoOnePacket' <=> NoOnePacket)
  BY <1>1 DEF now, NoOnePacket
<1>4. Program!answer' = Program!answer /\ Program!req' = Program!req
  BY <1>2, SameAnswer DEF Program!req
<1>5. Done' <=> Done
  BY <1>4 DEF Done
<1>6. memory' = memory
  BY <1>1 DEF program, memory
<1>7. HostPlace /\ mpc \notin StartPc
  BY HostPlaces
<1>8. fpc \notin {"intsts"} /\ (mpc = "startUp" => FALSE) /\ (mpc = "flush" => FALSE)
  BY <1>7 DEF HostPlace, StartPc, Waiting
<1>12. mpc' = mpc /\ mpc' \notin StartPc /\ mpc' # "startUp"
  BY <1>2, <1>7, <1>8
<1>13. StartPlace'
  BY <1>12 DEF StartPlace
<1>14. ResetOK'
  BY <1>2, <1>7, <1>8, <1>12 DEF Hosting, TransferInv, ResetOK, StartPc
<1>9. ResetOK' /\ StartPlace'
  BY <1>13, <1>14
<1>10. DeviceOK /\ HostOK /\ StaticOK /\ XferOK
  BY DEF Hosting, SystemInv, ProgramOK
<1>11. AskedOK /\ current_addr_q = haddr /\ Informed
  BY DEF Hosting, TransferInv, AddressAgreed
<1> QED  BY <1>1, <1>2, <1>3, <1>4, <1>5, <1>6, <1>7, <1>9, <1>10, <1>11

-----------------------------------------------------------------------------
(* The other endpoints. *)
LEMMA PingsStay ==
  ASSUME Hosting, HostPings \/ HostPingData \/ HostPongs
  PROVE  TransferInv'
<1> USE HostFacts, HostWaits, TransactionsAssumption
<1>1. UNCHANGED <<host, hfuncs, hresets, hfails>>
  BY DEF HostPings, HostPingData, HostPongs, counts
<1>2. HostStill
  BY <1>1 DEF HostStill
<1>3. ep0_dir_in_q \in BOOLEAN /\ ep0_dir_out_q \in BOOLEAN
  BY DEF AskedOK
<1>4. /\ RxSame /\ TxSame /\ CfgSame /\ IntrSame /\ CoreStill
  <2>1. CASE HostPings
    <3>1. TokenOut(outTr) /\ outTr.pid = "OUT" /\ outTr.ep = 1
      BY <2>1 DEF HostPings, outTr, EchoTr
    <3>2. /\ UNCHANGED <<current_addr_q, rx_ready_q, rx_len_q, rx_fifo, txVars, cfgVars, intrVars,
                         rx_setup_q, ep_cfg_stall_ep_r, ep_data_bit_q, ep0_dir_in_q>>
          /\ ep0_dir_out_q' = (ep0_dir_out_q \/ outTr.ep = 0)
          /\ token'.ep = 1
      BY <3>1 DEF TokenOut
    <3>3. ep0_dir_out_q' = ep0_dir_out_q
      BY <1>3, <3>1, <3>2
    <3>4. RxSame /\ TxSame /\ CfgSame /\ IntrSame
      BY <3>2 DEF RxSame, TxSame, CfgSame, IntrSame, txVars, cfgVars, intrVars, came, stall0
    <3>5. CoreStill
      BY <3>2, <3>3 DEF CoreStill, Token0, bit0
    <3> QED  BY <3>4, <3>5
  <2>2. CASE HostPingData
    <3>1. Data(outTr) /\ outTr.ep = 1
      BY <2>2 DEF HostPingData, outTr, EchoTr
    <3>2. /\ UNCHANGED <<current_addr_q, ep0_dir_in_q, ep0_dir_out_q, rx_setup_q, txVars, cfgVars,
                 ep_cfg_stall_ep_r, intr_ep_tx_complete_r, intr_reset_r>>
          /\ token' = NoToken
          /\ rx_fifo'[0] = rx_fifo[0] /\ rx_len_q'[0] = rx_len_q[0]
          /\ rx_ready_q'[0] = rx_ready_q[0] /\ intr_ep_rx_ready_r'[0] = intr_ep_rx_ready_r[0]
          /\ ep_data_bit_q'[0] = ep_data_bit_q[0]
      BY <3>1, DeviceTypes DEF Data
    <3>3. RxSame /\ TxSame /\ CfgSame /\ IntrSame
      BY <3>2 DEF RxSame, TxSame, CfgSame, IntrSame, txVars, cfgVars, came, stall0
    <3>4. CoreStill
      BY <3>2 DEF CoreStill, Token0, bit0, NoToken
    <3> QED  BY <3>3, <3>4
  <2>3. CASE HostPongs
    <3>1. In(inTr, TRUE) /\ inTr.ep = 2
      BY <2>3 DEF HostPongs, inTr, EchoTr
    <3>2. /\ UNCHANGED <<token, ep0_dir_out_q, rxVars, cfgVars, ep_cfg_stall_ep_r,
                 intr_ep_rx_ready_r, intr_reset_r>>
          /\ ep0_dir_in_q' = (ep0_dir_in_q \/ inTr.ep = 0)
      BY <3>1 DEF In
    <3>3. ep0_dir_in_q' = ep0_dir_in_q
      BY <1>3, <3>1, <3>2
    <3>4. TxSame /\ ep_data_bit_q'[0] = ep_data_bit_q[0] /\ current_addr_q' = current_addr_q
      <4>1. CASE inAnswer(inTr) \in {"DATA0", "DATA1"}
        BY <3>1, <4>1, DeviceTypes DEF In, TxSame
      <4>2. CASE inAnswer(inTr) \notin {"DATA0", "DATA1"}
        BY <3>1, <4>2 DEF In, TxSame, txVars
      <4> QED  BY <4>1, <4>2
    <3>5. RxSame /\ CfgSame /\ IntrSame
      BY <3>2 DEF RxSame, CfgSame, IntrSame, rxVars, cfgVars, came, stall0
    <3>6. CoreStill
      BY <3>2, <3>3, <3>4 DEF CoreStill, Token0, bit0
    <3> QED  BY <3>4, <3>5, <3>6
  <2> QED  BY <2>1, <2>2, <2>3
<1>5. Still
  BY <1>2, <1>4 DEF Still
<1>6. Place'
  BY <1>4, <1>5, PlaceStays DEF Hosting, TransferInv
<1>7. UNCHANGED <<hreq, hstage, htog, haddr, hdata, hfuncs, hresets, hfails, scenario>>
      /\ asked' = asked /\ (inTransfer' <=> inTransfer)
  BY <1>1, HostKeeps
<1>8. UNCHANGED <<current_addr_q, ep0_dir_in_q, ep0_dir_out_q>>
  BY <1>4 DEF CoreStill
<1>9. AskedOK' /\ AddressAgreed'
  BY <1>7, <1>8 DEF AskedOK, AddressAgreed
<1> QED  BY <1>6, <1>9 DEF TransferInv

-----------------------------------------------------------------------------
(* The host asks, or gives up: the device does not notice. *)
LEMMA DeviceKeeps ==
  ASSUME Hosting, UNCHANGED deviceVars
  PROVE  /\ RxSame /\ TxSame
         /\ (RxEmpty' <=> RxEmpty) /\ (TxEmpty' <=> TxEmpty) /\ (SetupToken' <=> SetupToken)
         /\ stall0' = stall0 /\ bit0' = bit0 /\ (Token0' <=> Token0) /\ came' = came
         /\ (Aside' <=> Aside)
         /\ UNCHANGED <<intr_reset_r, current_addr_q, func_addr_r, ep0_dir_in_q, ep0_dir_out_q,
                        token, rx_ready_q, rx_len_q, rx_setup_q>>
<1>1. UNCHANGED <<token, current_addr_q, ep0_dir_in_q, ep0_dir_out_q, ep_data_bit_q,
                  rx_ready_q, rx_len_q, rx_setup_q, rx_fifo, tx_active_q, tx_len_q, tx_fifo,
                  func_addr_r, ep_cfg_stall_ep_r,
                  intr_ep_rx_ready_r, intr_reset_r>>
  BY DEF deviceVars, coreVars, rxVars, txVars, cfgVars, intrVars
<1>2. stall0' = stall0 /\ bit0' = bit0 /\ (Token0' <=> Token0) /\ came' = came
  BY <1>1 DEF stall0, bit0, Token0, came
<1>3. (RxEmpty' <=> RxEmpty) /\ (TxEmpty' <=> TxEmpty) /\ RxSame /\ TxSame
  BY <1>1 DEF RxEmpty, TxEmpty, RxSame, TxSame
<1>4. SetupToken' <=> SetupToken
  BY <1>1, <1>2 DEF SetupToken
<1>5. Aside' <=> Aside
  BY <1>2, HostFacts DEF Aside
<1> QED  BY <1>1, <1>2, <1>3, <1>4, <1>5

(* A request begins ... *)
LEMMA AsksTransfers == ASSUME Hosting, HostAsks PROVE TransferInv'
<1> USE HostFacts
<1>1. PICK r \in askable : Asks(r)
  BY DEF HostAsks
<1>2. /\ ~inTransfer /\ hreq' = r /\ hdata' = Request[r].data /\ hstage' = "setup"
      /\ UNCHANGED <<htog, haddr, hresets, hfails, hfuncs>> /\ UNCHANGED deviceVars
  BY <1>1 DEF Asks, HostAsks, counts
<1>3. asked' = Request[r] /\ r \in now'.requests
  BY <1>1, <1>2 DEF asked, askable
<1>4. haddr' # 0 \/ Standard(asked', REQ_GET_DESCRIPTOR) \/ Standard(asked', REQ_SET_ADDRESS)
  BY <1>1, <1>2, <1>3 DEF askable
<1>5. /\ (RxEmpty' <=> RxEmpty) /\ (TxEmpty' <=> TxEmpty) /\ (SetupToken' <=> SetupToken)
      /\ (Aside' <=> Aside)
      /\ UNCHANGED <<intr_reset_r, current_addr_q, func_addr_r, ep0_dir_in_q, ep0_dir_out_q>>
  BY <1>2, DeviceKeeps
<1>6. AskedOK'
  <2>1. (hstage = "setup")' => hdata' = asked'.data
    BY <1>2, <1>3
  <2>2. (inTransfer /\ haddr = 0)' => Standard(asked', REQ_GET_DESCRIPTOR)
                                      \/ Standard(asked', REQ_SET_ADDRESS)
    BY <1>4
  <2> QED  BY <1>2, <1>3, <1>5, <2>1, <2>2 DEF AskedOK
<1>7. AddressAgreed'
  BY <1>2, <1>5 DEF AddressAgreed
<1>8. /\ HostQuiet' /\ (Knows' <=> Knows) /\ (WillReset' <=> WillReset) /\ (AddrOld' <=> AddrOld)
      /\ (Owed' <=> Owed)
  <2>1. HostQuiet'
    BY <1>2 DEF HostQuiet
  <2>2. (Knows' <=> Knows)
    BY <1>2 DEF Knows
  <2>3. WillReset' <=> WillReset
    BY <1>2 DEF WillReset, Program!staticVars
  <2>4. AddrOld' <=> AddrOld
    BY <1>2, <1>5 DEF AddrOld
  <2>5. Owed' <=> Owed
    BY <1>2 DEF Owed
  <2> QED  BY <2>1, <2>2, <2>3, <2>4, <2>5
<1>9. \/ ~intr_reset_r /\ AtRest
      \/ intr_reset_r /\ fpc \in {"sendSpin", "sendAck"} /\ Upset
  BY <1>2 DEF HostPlace, Lost, Awaits, Collecting, Stated, Refusing, Waiting, SendingData,
              Sent, Thanking, inTransfer
<1>10. Place'
  <2>1. AtRest => AtRest'
    BY <1>5, <1>8 DEF AtRest
  <2>2. fpc \in {"sendSpin", "sendAck"} /\ Upset => Upset'
    BY <1>2, <1>5, <1>8 DEF Upset
  <2> QED  BY <1>5, <1>9, <2>1, <2>2 DEF Place, Normal
<1> QED  BY <1>6, <1>7, <1>10 DEF TransferInv

(* ... or is given up. *)
LEMMA AbandonsTransfers == ASSUME Hosting, HostAbandons PROVE TransferInv'
<1> USE HostFacts
<1>1. /\ inTransfer /\ noAnswer /\ hstage' = "failed"
      /\ UNCHANGED <<hreq, htog, haddr, hdata, hresets>> /\ hfails' = hfails + 1
      /\ hfuncs' = hfuncs \cup Function!Effects(asked, hfuncs)
      /\ UNCHANGED deviceVars /\ ~token.valid
  BY HostWaits DEF HostAbandons, HearsStall, KeepsScore
<1>2. /\ (RxEmpty' <=> RxEmpty) /\ (TxEmpty' <=> TxEmpty) /\ (SetupToken' <=> SetupToken)
      /\ (Aside' <=> Aside)
      /\ UNCHANGED <<intr_reset_r, current_addr_q, func_addr_r, ep0_dir_in_q, ep0_dir_out_q>>
  BY <1>1, DeviceKeeps
<1>3. mine(StageTr)
  BY <1>1 DEF mine, StageTr, inTransfer
<1>4. \/ StageTr.pid = "IN" /\ inAnswer(StageTr) = "NAK"
      \/ StageTr.pid = "OUT" /\ rx_ready_q[0] /\ ~stall0
      \/ StageTr.pid = "SETUP" /\ rx_ready_q[0]
  BY <1>1, <1>3 DEF noAnswer, stall0
<1>5. Lost /\ ~intr_reset_r /\ fpc = "idle" /\ ~came
  <2>1. inAnswer(StageTr) = "NAK" => ~tx_active_q[0] /\ ~stall0
    <3>1. StageTr.ep = 0
      BY <1>1, StageTrType
    <3> QED  BY <3>1 DEF inAnswer, stall0
  <2>2. RxEmpty \/ ~rx_ready_q[0]
    BY DEF HostPlace, AtRest, Lost, Collecting, Stated, Refusing, Waiting, Sent, Thanking,
           Replying, Upset
  <2>3. StageTr.pid = "IN" /\ ~tx_active_q[0] /\ ~stall0
    BY <1>4, <2>1, <2>2 DEF RxEmpty
  <2>4. hstage # "setup" /\ (hstage = "data" <=> reading) /\ (hstage = "status" <=> ~reading)
    BY <1>1, <2>3 DEF StageTr, inTransfer
  <2>5. ~AtRest /\ ~Upset
    BY <1>1, <2>4 DEF AtRest, Upset, HostQuiet
  <2>6. ~Waiting /\ ~Sent /\ ~Stated
    BY <2>3 DEF Waiting, Sent, Stated
  <2>7. ~Thanking
    BY <2>4 DEF Thanking, Replying
  <2>8. ~Collecting
    <3>1. Collecting => hstage = "data" /\ ~reading
      BY DEF Collecting, Collects, reading
    <3> QED  BY <2>4, <3>1
  <2>9. ~Refusing \/ fpc # "idle"
    BY <2>3 DEF Refusing
  <2> QED  BY <2>5, <2>6, <2>7, <2>8, <2>9 DEF HostPlace
<1>6. Knows'
  <2>1. memory' \in hfuncs \cup Function!Effects(asked, hfuncs)
    BY <1>5 DEF Lost, Knows, Did
  <2> QED  BY <1>1, <2>1 DEF Knows
<1>7. ~inTransfer'
  BY <1>1 DEF inTransfer
<1>8. AskedOK'
  <2>1. NoOnePacket => hfails < hresets
    <3>1. OnePacket(asked) => ~NoOnePacket
      BY <1>1 DEF AskedOK, NoOnePacket, asked
    <3> QED  BY <1>5, <3>1 DEF Lost, Owed
  <2>2. NoOnePacket' => hfails' <= hresets'
    BY <1>1, <2>1 DEF AskedOK
  <2>3. hresets' \in Nat /\ hfails' \in Nat /\ htog' \in BOOLEAN
    BY <1>1 DEF AskedOK
  <2>4. ep0_dir_in_q' \in BOOLEAN /\ ep0_dir_out_q' \in BOOLEAN
    BY <1>2 DEF AskedOK
  <2> QED  BY <1>1, <1>7, <2>2, <2>3, <2>4 DEF AskedOK
<1>9. AddressAgreed'
  BY <1>1, <1>2 DEF AddressAgreed
<1>10. AtRest'
  <2>1. AddrOld' /\ HostQuiet'
    BY <1>1, <1>2, <1>5, <1>7 DEF Lost, AddrOld, HostQuiet
  <2>2. ~Token0'
    BY <1>1, <1>5, DeviceKeeps DEF Lost
  <2>3. SetupToken'
    BY <2>2 DEF SetupToken
  <2> QED  BY <1>2, <1>5, <1>6, <2>1, <2>3 DEF AtRest, Lost
<1>11. Place'
  BY <1>2, <1>5, <1>10 DEF Place, Normal
<1> QED  BY <1>8, <1>9, <1>11 DEF TransferInv

-----------------------------------------------------------------------------
(* A token of the transfer. *)
LEMMA TokenTransfers == ASSUME Hosting, HostToken PROVE TransferInv'
<1> USE HostFacts
<1>1. /\ inTransfer /\ StageTr.pid \in {"SETUP", "OUT"} /\ TokenOut(StageTr) /\ ~token.valid
      /\ UNCHANGED <<host, hresets, hfails, hfuncs>>
  BY HostWaits DEF HostToken, counts
<1>2. StageTr.ep = 0
  BY <1>1, StageTrType
<1>3. /\ UNCHANGED <<hreq, hstage, htog, haddr, hdata, hfuncs, hresets, hfails>>
      /\ asked' = asked /\ (reading' <=> reading) /\ (inTransfer' <=> inTransfer)
      /\ (HostQuiet' <=> HostQuiet) /\ (Awaits' <=> Awaits) /\ (Owed' <=> Owed)
      /\ (Knows' <=> Knows) /\ (WillReset' <=> WillReset)
  <2>1. UNCHANGED <<host, hfuncs, hresets, hfails, scenario>> /\ UNCHANGED Program!staticVars
    BY <1>1
  <2>2. (Knows' <=> Knows) /\ (WillReset' <=> WillReset)
    BY <2>1, MemoryKeeps
  <2> QED  BY <2>1, <2>2, HostKeeps
<1>4. /\ UNCHANGED <<current_addr_q, rx_ready_q, rx_len_q, rx_fifo, txVars, cfgVars, intrVars>>
      /\ token' = [ep |-> 0, room |-> ~rx_ready_q[0], valid |-> TRUE,
                   open |-> ~rx_ready_q[0] /\ (StageTr.pid = "OUT" => ~stall0)]
  BY <1>1, <1>2 DEF TokenOut, stall0
<1>5. /\ (RxEmpty' <=> RxEmpty) /\ (TxEmpty' <=> TxEmpty) /\ came' = came
      /\ UNCHANGED <<intr_reset_r, current_addr_q, func_addr_r, rx_ready_q, rx_len_q, rx_fifo>>
  BY <1>4 DEF RxEmpty, TxEmpty, txVars, cfgVars, intrVars, came
<1>6. AddressAgreed'
  BY <1>3, <1>5 DEF AddressAgreed
<1>7. (Aside' <=> Aside) /\ (AddrOld' <=> AddrOld)
  BY <1>3, <1>5 DEF Aside, AddrOld
<1>8. CASE hstage = "setup"
  <2>1. /\ rx_setup_q'[0] /\ ~stall0' /\ ~bit0' /\ ~ep0_dir_in_q' /\ ~ep0_dir_out_q'
        /\ ep0_dir_in_q' \in BOOLEAN /\ ep0_dir_out_q' \in BOOLEAN
    <3>1. StageTr.pid = "SETUP"
      BY <1>8 DEF StageTr
    <3>2. /\ rx_setup_q' = [rx_setup_q EXCEPT ![0] = TRUE]
          /\ ep_cfg_stall_ep_r' = [ep_cfg_stall_ep_r EXCEPT ![0] = FALSE]
          /\ ep_data_bit_q' = [ep_data_bit_q EXCEPT ![0] = FALSE]
          /\ ep0_dir_in_q' = FALSE /\ ep0_dir_out_q' = FALSE
      BY <1>1, <3>1 DEF TokenOut
    <3> QED  BY <3>2, DeviceTypes, TransactionsAssumption DEF stall0, bit0
  <2>2. StageTr.pid = "SETUP"
    BY <1>8 DEF StageTr
  <2>3. \/ ~intr_reset_r /\ AtRest
        \/ intr_reset_r /\ fpc \in {"sendSpin", "sendAck"} /\ Upset
    BY <1>8 DEF HostPlace, Lost, Awaits, Collecting, Stated, Refusing, Waiting, SendingData,
                Sent, Thanking
  <2>4. ~rx_ready_q[0]
    BY <2>3 DEF AtRest, Upset, RxEmpty
  <2>5. SetupToken'
    <3>1. token'.room /\ token'.open
      BY <1>4, <2>2, <2>4
    <3> QED  BY <2>1, <3>1 DEF SetupToken
  <2>6. AtRest => AtRest'
    BY <1>3, <1>5, <1>7, <2>5 DEF AtRest
  <2>7. fpc \in {"sendSpin", "sendAck"} /\ Upset => Upset'
    BY <1>3, <1>5, <2>5 DEF Upset
  <2>8. Place'
    BY <1>5, <2>3, <2>6, <2>7 DEF Place, Normal
  <2>9. AskedOK'
    BY <1>3, <2>1 DEF AskedOK
  <2> QED  BY <1>6, <2>8, <2>9 DEF TransferInv
<1>9. CASE hstage # "setup"
  <2>1. StageTr.pid = "OUT" /\ ((hstage = "data" /\ ~reading) \/ (hstage = "status" /\ reading))
    BY <1>1, <1>9 DEF StageTr, inTransfer
  <2>2. /\ ep0_dir_out_q' = TRUE
        /\ UNCHANGED <<rx_setup_q, ep_cfg_stall_ep_r, ep_data_bit_q, ep0_dir_in_q>>
    <3>1. /\ ep0_dir_out_q' = (ep0_dir_out_q \/ StageTr.ep = 0)
          /\ UNCHANGED <<rx_setup_q, ep_cfg_stall_ep_r, ep_data_bit_q, ep0_dir_in_q>>
      BY <1>1, <2>1 DEF TokenOut
    <3> QED  BY <1>2, <3>1
  <2>3. stall0' = stall0 /\ bit0' = bit0
    BY <2>2 DEF stall0, bit0
  <2>4. /\ token'.room <=> ~rx_ready_q[0]
        /\ token'.open <=> ~rx_ready_q[0] /\ ~stall0
    BY <1>4, <2>1
  <2>5. \/ ~intr_reset_r /\ fpc = "idle" /\ ~came /\ (Collecting \/ Refusing)
        \/ ~intr_reset_r /\ fpc = "sendAck" /\ Thanking
    <3>1. ~AtRest /\ ~Upset
      BY <1>1, <1>9 DEF AtRest, Upset, HostQuiet
    <3>2. ~Lost /\ ~Stated
      BY <2>1 DEF Lost, Awaits, Stated, reading
    <3>3. ~Waiting /\ ~Sent
      BY <2>1 DEF Waiting, Sent, Replying, SendingData
    <3> QED  BY <3>1, <3>2, <3>3 DEF HostPlace
  <2>6. Collecting => Collecting'
    <3>1. Collects => Collects'
      BY <1>3, <1>5, <1>7, <2>2, <2>3 DEF Collects
    <3>2. Collecting => token'.room /\ token'.open
      BY <2>4 DEF Collecting, Collects, RxEmpty
    <3> QED  BY <1>3, <1>5, <1>7, <2>3, <3>1, <3>2 DEF Collecting
  <2>7. fpc = "idle" /\ Refusing => Refusing'
    <3>1. fpc = "idle" /\ Refusing => token'.room /\ ~token'.open /\ Aside /\ stall0
      BY <2>4 DEF Refusing, RxEmpty
    <3> QED  BY <1>3, <1>5, <1>7, <2>2, <2>3, <3>1 DEF Refusing
  <2>8. Thanking => Thanking'
    <3>1. Replying => Replying'
      BY <1>3, <1>5, <1>7, <2>2, <2>3 DEF Replying
    <3>2. Thanking => token'.room /\ token'.open /\ ep0_dir_out_q'
      BY <2>2, <2>4 DEF Thanking, Replying, RxEmpty
    <3> QED  BY <1>3, <1>5, <2>2, <3>1, <3>2 DEF Thanking
  <2>9. Place'
    BY <1>5, <2>5, <2>6, <2>7, <2>8 DEF Place, Normal
  <2>10. AskedOK'
    <3>1. ep0_dir_in_q' \in BOOLEAN /\ ep0_dir_out_q' \in BOOLEAN
      BY <2>2 DEF AskedOK
    <3> QED  BY <1>3, <3>1 DEF AskedOK
  <2> QED  BY <1>6, <2>9, <2>10 DEF TransferInv
<1> QED  BY <1>8, <1>9

-----------------------------------------------------------------------------
(* A data packet of the transfer: it finds the endpoint empty. *)
toggle0 == ep_data_bit_r(0)
taken0  == token.open /\ ~mismatch(StageTr)

(* A packet of the host comes: what it changes in endpoint 0. *)
LEMMA DataFacts ==
  ASSUME Hosting, HostData, MAXP <= DEPTH
  PROVE  /\ inTransfer /\ StageTr.ep = 0 /\ Token0 /\ token.room
         /\ \/ /\ ~intr_reset_r /\ fpc = "idle" /\ ~came
               /\ (AtRest /\ hstage = "setup") \/ Collecting \/ Refusing
            \/ ~intr_reset_r /\ fpc = "sendAck" /\ Thanking
            \/ /\ intr_reset_r /\ fpc \in {"sendSpin", "sendAck"} /\ Upset /\ hstage = "setup"
         /\ UNCHANGED <<current_addr_q, func_addr_r, ep0_dir_in_q, ep0_dir_out_q, intr_reset_r>>
         /\ (stall0' <=> stall0) /\ (rx_setup_q'[0] <=> rx_setup_q[0]) /\ TxSame
         /\ (TxEmpty' <=> TxEmpty)
         /\ came' /\ ~Token0' /\ ~token'.valid
         /\ rx_fifo'[0] = IF taken0 THEN StageTr.data ELSE << >>
         /\ rx_len_q'[0] = IF taken0 THEN Len(StageTr.data) ELSE 0
         /\ rx_ready_q'[0] <=> token.open /\ (mismatch(StageTr) => StageTr.data = << >>)
         /\ toggle0 \in BOOLEAN
         /\ bit0' <=> IF handshake(StageTr) = "ACK" /\ ~mismatch(StageTr) THEN ~toggle0 ELSE toggle0
         /\ handshake(StageTr) = (IF stall0 THEN "STALL" ELSE "ACK")
         /\ UNCHANGED <<hresets, hfails>>
         /\ hfuncs' = IF hstage' = "done" THEN Function!Effects(asked, hfuncs) ELSE hfuncs
         /\ CASE handshake(StageTr) = "ACK"   -> HearsAck
              [] handshake(StageTr) = "STALL" -> HearsStall
              [] OTHER                        -> UNCHANGED host
<1> USE HostFacts, TransactionsAssumption
<1>1. token.ep = 0 /\ Data(StageTr) /\ token.valid
  BY DEF HostData, Data
<1>2. inTransfer /\ StageTr.ep = 0 /\ Token0
  BY <1>1, StageTrType DEF HostOK, Token0
<1>3. \/ /\ ~intr_reset_r /\ fpc = "idle" /\ ~came
         /\ (AtRest /\ hstage = "setup") \/ Collecting \/ Refusing
      \/ ~intr_reset_r /\ fpc = "sendAck" /\ Thanking
      \/ intr_reset_r /\ fpc \in {"sendSpin", "sendAck"} /\ Upset /\ hstage = "setup"
  BY <1>2 DEF HostPlace, Lost, Stated, Waiting, Sent, SendingData, AtRest, Upset, HostQuiet
<1>4. RxEmpty /\ token.room
  <2>1. AtRest \/ Upset => RxEmpty /\ token.room
    BY <1>2 DEF AtRest, Upset, SetupToken
  <2>2. Collecting \/ Refusing \/ Thanking => RxEmpty /\ token.room
    BY <1>2 DEF Collecting, Refusing, Thanking, Replying
  <2> QED  BY <1>3, <2>1, <2>2
<1>5. /\ UNCHANGED <<current_addr_q, ep0_dir_in_q, ep0_dir_out_q, rx_setup_q, txVars, cfgVars,
                     ep_cfg_stall_ep_r, intr_reset_r>>
      /\ token' = NoToken
  BY <1>1 DEF Data
<1>6. /\ UNCHANGED <<current_addr_q, func_addr_r, ep0_dir_in_q, ep0_dir_out_q, intr_reset_r>>
      /\ (stall0' <=> stall0) /\ (rx_setup_q'[0] <=> rx_setup_q[0]) /\ TxSame
      /\ (TxEmpty' <=> TxEmpty) /\ ~Token0' /\ ~token'.valid
  BY <1>5 DEF cfgVars, txVars, stall0, TxSame, TxEmpty, Token0, NoToken
<1>7. StageTr.data \in Seq(Payload) /\ Len(StageTr.data) <= DEPTH /\ Len(StageTr.data) \in Nat
  BY <1>2, StageTrType, StageTrLength
<1>8. toggle0 \in BOOLEAN /\ bit0 \in BOOLEAN
  <2>1. bit0 \in BOOLEAN
    BY DeviceTypes DEF bit0
  <2>2. ep0_dir_in_q \in BOOLEAN /\ ep0_dir_out_q \in BOOLEAN
    BY DEF AskedOK
  <2> QED  BY <2>1, <2>2 DEF toggle0, ep_data_bit_r, bit0
<1> DEFINE i == 0
           fits  == DEPTH - Len(rx_fifo[0])
           bytes == IF token.open /\ ~mismatch(StageTr) THEN StageTr.data ELSE << >>
           kept  == IF Len(bytes) <= fits THEN bytes ELSE SubSeq(bytes, 1, fits)
<1>9. /\ rx_fifo' = [rx_fifo EXCEPT ![0] = @ \o kept]
      /\ rx_len_q' = [rx_len_q EXCEPT ![0] = @ + Len(bytes)]
      /\ rx_ready_q' = [rx_ready_q EXCEPT ![0] =
              @ \/ (token.open /\ (mismatch(StageTr) => StageTr.data = << >>))]
      /\ intr_ep_rx_ready_r' = [intr_ep_rx_ready_r EXCEPT ![0] = @ \/ token.room]
      /\ ep_data_bit_q' = [ep_data_bit_q EXCEPT ![0] =
              IF handshake(StageTr) = "ACK" /\ ~mismatch(StageTr) THEN ~toggle0 ELSE toggle0]
  BY <1>1, <1>2 DEF Data, toggle0
<1>10. /\ bytes = IF taken0 THEN StageTr.data ELSE << >>
       /\ bytes \in Seq(Payload) /\ Len(bytes) \in Nat /\ Len(bytes) <= DEPTH
  BY <1>7, EmptyType DEF taken0
<1>11. rx_fifo[0] = << >> /\ Len(rx_fifo[0]) = 0 /\ rx_len_q[0] = 0 /\ ~rx_ready_q[0]
  BY <1>4, EmptyType DEF RxEmpty
<1>12. kept = bytes
  <2>1. fits = DEPTH
    BY <1>11
  <2> QED  BY <1>10, <2>1
<1>13. rx_fifo'[0] = bytes
  <2> HIDE DEF bytes, kept
  <2>1. rx_fifo'[0] = << >> \o kept
    BY <1>9, <1>11, DeviceTypes
  <2>2. << >> \o bytes = bytes
    BY <1>10, ConcatProperties, EmptyType
  <2> QED  BY <1>12, <2>1, <2>2
<1>14. rx_len_q'[0] = Len(bytes)
  <2> HIDE DEF bytes
  <2>1. rx_len_q'[0] = 0 + Len(bytes)
    BY <1>9, <1>11, DeviceTypes
  <2> QED  BY <1>10, <2>1
<1>15. rx_ready_q'[0] <=> token.open /\ (mismatch(StageTr) => StageTr.data = << >>)
  <2>1. rx_ready_q \in [EP -> BOOLEAN]
    BY DeviceTypes
  <2> DEFINE p == token.open /\ (mismatch(StageTr) => StageTr.data = << >>)
  <2>2. rx_ready_q'[0] = (rx_ready_q[0] \/ p)
    BY <1>9, <2>1
  <2> QED  BY <1>11, <2>2
<1>16. came'
  <2>1. intr_ep_rx_ready_r \in [EP -> BOOLEAN]
    BY DeviceTypes
  <2>2. intr_ep_rx_ready_r'[0] = (intr_ep_rx_ready_r[0] \/ token.room)
    BY <1>9, <2>1
  <2> QED  BY <1>4, <2>2 DEF came
<1>17. bit0' <=> IF handshake(StageTr) = "ACK" /\ ~mismatch(StageTr) THEN ~toggle0 ELSE toggle0
  <2>1. ep_data_bit_q \in [EP -> BOOLEAN]
    BY DeviceTypes
  <2> DEFINE p == IF handshake(StageTr) = "ACK" /\ ~mismatch(StageTr) THEN ~toggle0 ELSE toggle0
  <2> HIDE DEF p
  <2>2. ep_data_bit_q' = [ep_data_bit_q EXCEPT ![0] = p]
    BY <1>9 DEF p
  <2>3. ep_data_bit_q'[0] = p
    BY <2>1, <2>2
  <2>4. bit0' <=> p
    BY <2>3 DEF bit0
  <2> QED  BY <2>4 DEF p
<1>18. handshake(StageTr) = (IF stall0 THEN "STALL" ELSE "ACK")
  BY <1>2, <1>4 DEF handshake, stall0
<1>19. /\ UNCHANGED <<hresets, hfails>>
       /\ hfuncs' = IF hstage' = "done" THEN Function!Effects(asked, hfuncs) ELSE hfuncs
       /\ CASE handshake(StageTr) = "ACK"   -> HearsAck
            [] handshake(StageTr) = "STALL" -> HearsStall
            [] OTHER                        -> UNCHANGED host
  BY DEF HostData, KeepsScore
<1>20. /\ rx_fifo'[0] = IF taken0 THEN StageTr.data ELSE << >>
       /\ rx_len_q'[0] = IF taken0 THEN Len(StageTr.data) ELSE 0
  BY <1>10, <1>13, <1>14, EmptyType DEF taken0
<1> QED  BY <1>2, <1>3, <1>4, <1>6, <1>8, <1>15, <1>16, <1>17, <1>18, <1>19, <1>20

-----------------------------------------------------------------------------
(* What it leaves alone. *)
LEMMA DataKeeps ==
  ASSUME Hosting, HostData, MAXP <= DEPTH, hreq' = hreq, haddr' = haddr
  PROVE  /\ asked' = asked /\ (reading' <=> reading)
         /\ (Owed' <=> Owed) /\ (AddrOld' <=> AddrOld) /\ AddressAgreed'
         /\ hstage' # "done" => (Knows' <=> Knows) /\ (WillReset' <=> WillReset)
         /\ /\ htog' \in BOOLEAN /\ hstage' # "setup"
            /\ hstage' \in {"data", "status"} => inTransfer
            => AskedOK'
<1> USE HostFacts, DataFacts
<1>1. asked' = asked /\ (reading' <=> reading)
  BY DEF asked, reading
<1>2. Owed' <=> Owed
  BY DEF Owed
<1>3. AddrOld' <=> AddrOld
  BY DEF AddrOld
<1>4. AddressAgreed'
  BY DEF AddressAgreed
<1>5. hstage' # "done" => (Knows' <=> Knows) /\ (WillReset' <=> WillReset)
  <2>1. hstage' # "done" => (Knows' <=> Knows)
    BY DEF Knows
  <2>2. hstage' # "done" => (WillReset' <=> WillReset)
    BY DEF WillReset, Program!staticVars
  <2> QED  BY <2>1, <2>2
<1>6. /\ htog' \in BOOLEAN /\ hstage' # "setup"
      /\ hstage' \in {"data", "status"} => inTransfer
      => AskedOK'
  <2> SUFFICES ASSUME htog' \in BOOLEAN, hstage' # "setup", hstage' \in {"data", "status"} => inTransfer
               PROVE AskedOK'
    OBVIOUS
  <2>1. inTransfer' => inTransfer
    BY DEF inTransfer
  <2>2. NoOnePacket' => hfails' <= hresets'
    BY DEF AskedOK
  <2>3. /\ hresets' \in Nat /\ hfails' \in Nat
        /\ ep0_dir_in_q' \in BOOLEAN /\ ep0_dir_out_q' \in BOOLEAN
    BY DEF AskedOK
  <2>4. inTransfer' => hreq' \in now'.requests
    BY <2>1 DEF AskedOK
  <2>5. (inTransfer /\ haddr = 0)' => \/ Standard(asked', REQ_GET_DESCRIPTOR)
                                      \/ Standard(asked', REQ_SET_ADDRESS)
    BY <1>1, <2>1 DEF AskedOK
  <2> QED  BY <2>2, <2>3, <2>4, <2>5 DEF AskedOK
<1> QED  BY <1>1, <1>2, <1>3, <1>4, <1>5, <1>6

(* The SETUP. *)
LEMMA SetupComes ==
  ASSUME Hosting, HostData, MAXP <= DEPTH, hstage = "setup", AtRest \/ Upset
  PROVE  /\ taken0 /\ StageTr.data = <<hreq>> /\ token.open /\ bit0' /\ rx_setup_q[0] /\ ~stall0
         /\ ~ep0_dir_in_q /\ ~ep0_dir_out_q
         /\ hstage' = (IF asked.wLength = 0 THEN "status" ELSE "data") /\ htog' = TRUE
         /\ hdata' = hdata /\ hreq' = hreq /\ haddr' = haddr
<1> USE HostFacts, DataFacts
<1>1. SetupToken
  BY DEF AtRest, Upset
<1>2. /\ token.open /\ rx_setup_q[0] /\ ~stall0 /\ ~bit0 /\ ~ep0_dir_in_q /\ ~ep0_dir_out_q
  BY <1>1 DEF SetupToken
<1>3. ~toggle0
  BY <1>2 DEF toggle0, ep_data_bit_r, bit0
<1>4. StageTr.datapid = "DATA0" /\ StageTr.data = <<hreq>>
  BY DEF StageTr
<1>5. ~mismatch(StageTr)
  BY <1>3, <1>4 DEF mismatch, toggle0
<1>6. handshake(StageTr) = "ACK"
  BY <1>2
<1>7. bit0'
  BY <1>3, <1>5, <1>6
<1>8. /\ hstage' = (IF asked.wLength = 0 THEN "status" ELSE "data") /\ htog' = TRUE
      /\ hdata' = hdata /\ hreq' = hreq /\ haddr' = haddr
  BY <1>6 DEF HearsAck
<1> QED  BY <1>2, <1>4, <1>5, <1>7, <1>8 DEF taken0

(* It is the SETUP of a request: for a program that rests ... *)
LEMMA SetupTransfers ==
  ASSUME Hosting, HostData, MAXP <= DEPTH, ~intr_reset_r, fpc = "idle", AtRest, hstage = "setup"
  PROVE  TransferInv'
<1> USE HostFacts, DataFacts, SetupComes, DataKeeps
<1>1. Len(<<hreq>>) = 1
  OBVIOUS
<1>2. hdata' = asked'.data
  BY DEF AskedOK
<1>3. SetupTaken'
  <2>1. rx_fifo'[0] = <<hreq'>> /\ rx_len_q'[0] = 1 /\ rx_ready_q'[0]
    BY <1>1 DEF taken0
  <2>2. TxEmpty' /\ Knows' /\ AddrOld' /\ ~Token0'
    BY DEF AtRest
  <2>3. hstage' = (IF asked'.wLength = 0 THEN "status" ELSE "data") /\ htog'
    OBVIOUS
  <2>4. rx_setup_q'[0] /\ ~stall0' /\ bit0' /\ ~ep0_dir_in_q' /\ ~ep0_dir_out_q'
    OBVIOUS
  <2>5. fpc' = "idle" /\ came'
    OBVIOUS
  <2> QED  BY <1>2, <2>1, <2>2, <2>3, <2>4, <2>5 DEF SetupTaken
<1>4. Place'
  BY <1>3 DEF Place, Normal
<1>5. AskedOK' /\ AddressAgreed'
  OBVIOUS
<1> QED  BY <1>4, <1>5 DEF TransferInv

(* ... or for one that still sends what was asked before a bus reset. *)
LEMMA UpsetTransfers ==
  ASSUME Hosting, HostData, MAXP <= DEPTH, intr_reset_r, fpc \in {"sendSpin", "sendAck"},
         Upset, hstage = "setup"
  PROVE  TransferInv'
<1> USE HostFacts, DataFacts, SetupComes, DataKeeps
<1>1. haddr = 0 /\ WillReset /\ Owed
  BY DEF Upset
<1>2. Awaits'
  <2>1. Known(asked)
    BY AskedIs
  <2>2. Standard(asked, REQ_GET_DESCRIPTOR) \/ Standard(asked, REQ_SET_ADDRESS)
    BY <1>1 DEF AskedOK
  <2>3. CASE Standard(asked, REQ_GET_DESCRIPTOR)
    <3>1. dirIn(asked) /\ asked.wLength > 0
      BY <2>1, <2>3 DEF Known, MayRead
    <3>2. asked.wLength # 0
      BY <3>1, AskedIs
    <3>3. reading' /\ hstage' = "data"
      BY <3>1, <3>2 DEF reading
    <3> QED  BY <3>3 DEF Awaits
  <2>4. CASE Standard(asked, REQ_SET_ADDRESS)
    <3>1. ~dirIn(asked) /\ asked.wLength = 0
      BY <2>1, <2>4 DEF Known
    <3>2. ~reading' /\ hstage' = "status"
      BY <3>1 DEF reading
    <3> QED  BY <3>2 DEF Awaits
  <2> QED  BY <2>2, <2>3, <2>4
<1>3. Swallowing'
  <2>1. rx_ready_q'[0] /\ ~Token0' /\ haddr' = 0 /\ WillReset' /\ Owed'
    BY <1>1 DEF taken0
  <2>2. \/ fpc' = "sendSpin" /\ (send' >= MAXP => fcnt' = Len(Program!answer') /\ Done')
        \/ fpc' \in {"sendAck", "sendAccept"}
    BY DEF Upset
  <2> QED  BY <1>2, <2>1, <2>2 DEF Swallowing
<1>4. Place'
  BY <1>3 DEF Place
<1>5. AskedOK' /\ AddressAgreed'
  OBVIOUS
<1> QED  BY <1>4, <1>5 DEF TransferInv

(* Data that is refused, and the status of a request that reads. *)
LEMMA RefusingTransfers ==
  ASSUME Hosting, HostData, MAXP <= DEPTH, ~intr_reset_r, fpc = "idle", Refusing
  PROVE  TransferInv'
<1> USE HostFacts, DataFacts, DataKeeps
<1>1. stall0 /\ ~token.open /\ ~taken0
  BY DEF Refusing, taken0
<1>2. hstage' = "failed" /\ UNCHANGED <<hreq, htog, haddr, hdata>>
  BY <1>1 DEF HearsStall
<1>3. ~inTransfer'
  BY <1>2 DEF inTransfer
<1>4. RxEmpty'
  BY <1>1 DEF RxEmpty
<1>5. Refused'
  BY <1>2, <1>3, <1>4 DEF Refusing, Refused
<1>6. Place'
  BY <1>5 DEF Place, Normal
<1>7. AskedOK' /\ AddressAgreed'
  BY <1>2 DEF AskedOK
<1> QED  BY <1>6, <1>7 DEF TransferInv

(* It is the status of a request that reads. *)
LEMMA ThankingTransfers ==
  ASSUME Hosting, HostData, MAXP <= DEPTH, ~intr_reset_r, fpc = "sendAck", Thanking
  PROVE  TransferInv'
<1> USE HostFacts, DataFacts, DataKeeps
<1>1. /\ ~stall0 /\ token.open /\ ep0_dir_in_q /\ ep0_dir_out_q /\ hstage = "status" /\ reading
      /\ Knows /\ AddrOld /\ answerTo(asked) = "send" /\ TxEmpty /\ ~rx_setup_q[0]
  BY DEF Thanking, Replying
<1>2. toggle0
  BY <1>1 DEF toggle0, ep_data_bit_r
<1>3. StageTr.datapid = "DATA1" /\ StageTr.data = << >>
  BY <1>1 DEF StageTr
<1>4. ~mismatch(StageTr)
  BY <1>2, <1>3 DEF mismatch, toggle0
<1>5. hstage' = "done" /\ UNCHANGED <<hreq, htog, haddr, hdata>>
  BY <1>1 DEF HearsAck
<1>6. ~inTransfer'
  BY <1>5 DEF inTransfer
<1>7. Knows'
  <2>1. hfuncs' = Function!Effects(asked, hfuncs)
    BY <1>5
  <2> QED  BY <1>1, <2>1, DoneKnows
<1>8. rx_ready_q'[0] /\ rx_len_q'[0] = 0 /\ rx_fifo'[0] = << >>
  BY <1>1, <1>3, <1>4, EmptyType
<1>9. Thanked'
  BY <1>1, <1>5, <1>7, <1>8 DEF Thanked
<1>10. Place'
  BY <1>9 DEF Place, Normal
<1>11. AskedOK' /\ AddressAgreed'
  BY <1>5 DEF AskedOK
<1> QED  BY <1>10, <1>11 DEF TransferInv

(* A packet of the data of a request. *)
LEMMA ChunkPart ==
  ASSUME hdata \in Seq(Payload), NEW a \in Seq(Payload), NEW n \in Nat,
         Part(hdata, a, n), n + Len(hdata) = Len(a), hdata # << >>
  PROVE  LET m == MIN(MAXP, Len(a) - n)
             t == SubSeq(hdata, Len(Chunk) + 1, Len(hdata))
         IN  /\ Chunk \in Seq(Payload) /\ Len(Chunk) = m /\ m \in Nat /\ n < Len(a)
             /\ Part(Chunk, a, n)
             /\ t \in Seq(Payload) /\ Len(t) = Len(hdata) - m
             /\ Part(t, a, n + m) /\ n + m + Len(t) = Len(a)
<1> DEFINE m == MIN(MAXP, Len(a) - n)
           t == SubSeq(hdata, Len(Chunk) + 1, Len(hdata))
           L == Len(hdata)
           A == Len(a)
<1>1. L \in Nat /\ A \in Nat /\ L > 0 /\ MAXP \in Nat
  <2>1. L \in Nat /\ A \in Nat /\ L # 0
    BY LenProperties, EmptySeq
  <2> QED  BY <2>1, RequestAssumption
<1>2. n + L = A
  OBVIOUS
<1> HIDE DEF L, A
<1>3. A - n = L /\ n < A
  BY <1>1, <1>2
<1>4. m = MIN(MAXP, L) /\ m \in Nat /\ m <= L
  BY <1>1, <1>3 DEF MIN, A
<1>5. Chunk = SubSeq(hdata, 1, m)
  BY <1>4 DEF Chunk, L
<1>6. Chunk \in Seq(Payload) /\ Len(Chunk) = m /\ Part(Chunk, hdata, 0)
  <2> HIDE DEF m
  <2>1. /\ SubSeq(hdata, 1, m) \in Seq(Payload) /\ Len(SubSeq(hdata, 1, m)) = m
        /\ Part(SubSeq(hdata, 1, m), hdata, 0)
    BY <1>4, PartFirst DEF L
  <2> QED  BY <1>5, <2>1
<1>7. Part(Chunk, a, n)
  <2>1. Part(Chunk, a, n + 0)
    BY <1>6, PartPart
  <2>2. n + 0 = n
    OBVIOUS
  <2> QED  BY <2>1, <2>2
<1> HIDE DEF m
<1> DEFINE d == L - m
<1>8. d \in Nat /\ m + d = L
  BY <1>1, <1>4
<1>9. t = SubSeq(hdata, m + 1, m + d)
  BY <1>6, <1>8 DEF L
<1> HIDE DEF d, t
<1>10. t \in Seq(Payload) /\ Len(t) = d /\ Part(t, hdata, m)
  <2>1. m + d <= Len(hdata)
    BY <1>1, <1>8 DEF L
  <2>2. /\ SubSeq(hdata, m + 1, m + d) \in Seq(Payload)
        /\ Len(SubSeq(hdata, m + 1, m + d)) = d
        /\ Part(SubSeq(hdata, m + 1, m + d), hdata, m)
    BY <1>4, <1>8, <2>1, PartSub
  <2> QED  BY <1>9, <2>2
<1>11. Part(t, a, n + m)
  BY <1>4, <1>10, PartPart
<1>12. n + m + d = A
  <2>1. \A x, y, z, u, v \in Nat : y + z = u /\ x + u = v => x + y + z = v
    OBVIOUS
  <2>2. n \in Nat /\ m \in Nat /\ d \in Nat /\ L \in Nat /\ A \in Nat
    BY <1>1, <1>4, <1>8
  <2> QED  BY <1>2, <1>8, <2>1, <2>2
<1> QED  BY <1>3, <1>4, <1>6, <1>7, <1>10, <1>11, <1>12 DEF m, t, d, L, A

-----------------------------------------------------------------------------
(* It is data that the program collects. *)
LEMMA CollectingTransfers ==
  ASSUME Hosting, HostData, MAXP <= DEPTH, ~intr_reset_r, fpc = "idle", Collecting
  PROVE  TransferInv'
<1> USE HostFacts, DataFacts, DataKeeps
<1>1. /\ Collects /\ hstage = "data" /\ (bit0 <=> htog) /\ (htog <=> (data_idx = 0))
      /\ Part(hdata, asked.data, data_idx) /\ data_idx + Len(hdata) = asked.wLength
      /\ hdata # << >> /\ token.open /\ ~stall0 /\ ~ep0_dir_in_q /\ ~rx_setup_q[0] /\ ~reading
      /\ data_idx \in Nat
  <2>1. token.open
    BY DEF Collecting
  <2>2. ~stall0 /\ ~ep0_dir_in_q /\ ~rx_setup_q[0] /\ ~reading
    BY DEF Collecting, Collects, reading
  <2>3. data_idx \in Nat
    BY RequestAssumption DEF Collecting, Collects
  <2>4. (bit0 <=> htog) /\ (htog <=> (data_idx = 0))
    BY DEF Collecting
  <2> QED  BY <2>1, <2>2, <2>3, <2>4 DEF Collecting
<1>2. toggle0 <=> htog
  BY <1>1 DEF toggle0, ep_data_bit_r, bit0
<1>3. StageTr.datapid = (IF htog THEN "DATA1" ELSE "DATA0") /\ StageTr.data = Chunk
  BY <1>1 DEF StageTr
<1>4. ~mismatch(StageTr)
  <2>1. (StageTr.datapid = "DATA1") \in BOOLEAN /\ ((StageTr.datapid = "DATA1") <=> htog)
    BY <1>3
  <2>2. mismatch(StageTr) <=> ~((StageTr.datapid = "DATA1") <=> toggle0)
    BY <2>1 DEF mismatch, toggle0
  <2> QED  BY <1>2, <2>1, <2>2
<1>5. /\ hdata' = SubSeq(hdata, Len(Chunk) + 1, Len(hdata)) /\ htog' = ~htog
      /\ hstage' = IF hdata' = << >> THEN "status" ELSE "data"
      /\ UNCHANGED <<hreq, haddr>>
  BY <1>1 DEF HearsAck
<1>6. bit0' <=> ~htog
  BY <1>1, <1>2, <1>4
<1>7. taken0
  BY <1>1, <1>4 DEF taken0
<1>8. /\ asked.data \in Seq(Payload) /\ asked.wLength \in Nat /\ Len(asked.data) = asked.wLength
      /\ hdata \in Seq(Payload)
  BY AskedIs DEF Collecting, Collects
<1>9. taken' = MIN(MAXP, Len(asked.data) - data_idx)
  <2>1. asked' = asked /\ data_idx' = data_idx
    BY <1>5
  <2> QED  BY <1>8, <2>1 DEF taken
<1>10. /\ Chunk \in Seq(Payload) /\ Len(Chunk) = taken' /\ taken' \in Nat
       /\ data_idx < asked.wLength /\ Part(Chunk, asked.data, data_idx)
       /\ Part(hdata', asked.data, data_idx + taken')
       /\ data_idx + taken' + Len(hdata') = asked.wLength
  BY <1>1, <1>5, <1>8, <1>9, ChunkPart
<1>11. rx_fifo'[0] = Chunk /\ rx_len_q'[0] = Len(Chunk) /\ rx_ready_q'[0]
  BY <1>1, <1>3, <1>4, <1>7
<1>12. Collects'
  <2>1. asked' = asked
    BY <1>5
  <2>2. hstage' # "done"
    BY <1>5
  <2>3. Knows' /\ AddrOld' /\ TxEmpty'
    BY <1>1, <1>5, <2>2 DEF Collects
  <2>4. Part(SubSeq(data_buffer', 1, data_idx'), asked'.data, 0)
    BY <1>1, <2>1 DEF Collects
  <2> QED  BY <1>1, <1>5, <2>1, <2>3, <2>4 DEF Collects
<1>13. (bit0' <=> htog') /\ (htog' <=> (data_idx' # 0))
  BY <1>1, <1>5, <1>6
<1>14. bit0' \in BOOLEAN /\ htog' \in BOOLEAN
  <2>1. htog' \in BOOLEAN
    BY <1>5
  <2>2. DeviceOK'
    <3>1. HostData /\ scenario' = scenario /\ DeviceOK /\ HostOK
      OBVIOUS
    <3> QED  BY <3>1, HostDataType
  <2>3. ep_data_bit_q' \in [EP -> BOOLEAN]
    BY <2>2 DEF DeviceOK, DeviceTypeOK
  <2>4. ep_data_bit_q'[0] \in BOOLEAN
    BY <2>3, TransactionsAssumption
  <2>5. bit0' \in BOOLEAN
    BY <2>4 DEF bit0
  <2> QED  BY <2>1, <2>5
<1>15. bit0' = htog' /\ htog' = (data_idx' # 0)
  <2>1. (data_idx' # 0) \in BOOLEAN
    OBVIOUS
  <2> QED  BY <1>13, <1>14, <2>1
<1>16. Taking'
  <2>1. asked' = asked /\ fpc' = "idle" /\ came' /\ ~Token0' /\ data_idx' = data_idx
    BY <1>5
  <2>2. rx_len_q'[0] = taken' /\ Len(rx_fifo'[0]) = taken' /\ Part(rx_fifo'[0], asked'.data, data_idx')
    BY <1>10, <1>11, <2>1
  <2>3. /\ Part(hdata', asked'.data, data_idx' + taken') /\ data_idx' < asked'.wLength
        /\ data_idx' + taken' + Len(hdata') = asked'.wLength
    BY <1>10, <2>1
  <2>4. hstage' = IF hdata' = << >> THEN "status" ELSE "data"
    BY <1>5
  <2> QED  BY <1>11, <1>12, <1>15, <2>1, <2>2, <2>3, <2>4 DEF Taking
<1>17. Place'
  BY <1>16 DEF Place, Normal
<1>18. AskedOK' /\ AddressAgreed'
  BY <1>5, <1>14
<1> QED  BY <1>17, <1>18 DEF TransferInv

(* A packet of the host keeps the invariant, wherever the program is. *)
LEMMA DataTransfers == ASSUME Hosting, HostData, MAXP <= DEPTH PROVE TransferInv'
BY DataFacts, SetupTransfers, UpsetTransfers, RefusingTransfers, ThankingTransfers,
   CollectingTransfers

-----------------------------------------------------------------------------
(* An IN transaction of the transfer. *)
sends0 == tx_active_q[0] /\ ~stall0
isData == inAnswer(StageTr) \in {"DATA0", "DATA1"}

(* The host asks for a packet: what changes in endpoint 0. *)
LEMMA InFacts ==
  ASSUME Hosting, HostIn
  PROVE  /\ inTransfer /\ StageTr.ep = 0 /\ StageTr.pid = "IN" /\ ~token.valid /\ Awaits
         /\ \/ ~intr_reset_r /\ fpc = "idle" /\ ~came /\ (Lost \/ Stated \/ Refusing)
            \/ ~intr_reset_r /\ Waiting
            \/ ~intr_reset_r /\ fpc = "sendAck" /\ Sent
         /\ UNCHANGED <<token, ep0_dir_out_q, func_addr_r, intr_reset_r>>
         /\ RxSame /\ (RxEmpty' <=> RxEmpty) /\ stall0' = stall0 /\ came' = came
         /\ ep0_dir_in_q' = TRUE /\ bit0 \in BOOLEAN
         /\ (isData <=> sends0)
         /\ inAnswer(StageTr) = (IF stall0 THEN "STALL"
                                 ELSE IF ~tx_active_q[0] THEN "NAK"
                                 ELSE IF ep_data_bit_r(0) THEN "DATA1" ELSE "DATA0")
         /\ UNCHANGED <<hresets, hfails>> \/ tooLong
         /\ ~sends0 => /\ TxSame /\ bit0' = bit0 /\ current_addr_q' = current_addr_q
                       /\ UNCHANGED <<hresets, hfails>>
                       /\ hfuncs' = IF hstage' = "done" THEN Function!Effects(asked, hfuncs) ELSE hfuncs
                       /\ IF stall0 THEN HearsStall ELSE UNCHANGED host
         /\ sends0 /\ ~tooLong =>
              /\ ~tx_active_q'[0] /\ tx_len_q'[0] = 0
              /\ tx_fifo'[0] = SubSeq(tx_fifo[0], sent(tx_len_q[0]) + 1, Len(tx_fifo[0]))
              /\ bit0' <=> ~(bit0 \/ ep0_dir_out_q)
              /\ current_addr_q' = IF tx_len_q[0] = 0 THEN func_addr_r ELSE current_addr_q
              /\ HearsData(inAnswer(StageTr), inData(StageTr))
              /\ UNCHANGED <<hresets, hfails>>
              /\ hfuncs' = IF hstage' = "done" THEN Function!Effects(asked, hfuncs) ELSE hfuncs
<1> USE HostFacts, TransactionsAssumption
<1>1. /\ inTransfer /\ StageTr.pid = "IN" /\ In(StageTr, ~tooLong) /\ ~token.valid
      /\ CASE isData /\ ~tooLong -> HearsData(inAnswer(StageTr), inData(StageTr))
           [] inAnswer(StageTr) = "STALL" \/ (isData /\ tooLong) -> HearsStall
           [] OTHER -> UNCHANGED host
      /\ KeepsScore(isData /\ tooLong)
  BY HostWaits DEF HostIn, isData
<1>2. StageTr.ep = 0
  BY <1>1, StageTrType
<1>3. Awaits /\ hstage # "setup"
  BY <1>1 DEF StageTr, inTransfer, Awaits
<1>4. \/ ~intr_reset_r /\ fpc = "idle" /\ ~came /\ (Lost \/ Stated \/ Refusing)
      \/ ~intr_reset_r /\ Waiting
      \/ ~intr_reset_r /\ fpc = "sendAck" /\ Sent
  <2>1. ~AtRest /\ ~Upset
    BY <1>1, <1>3 DEF AtRest, Upset, HostQuiet
  <2>2. ~Collecting /\ ~Thanking
    BY <1>3 DEF Collecting, Collects, Thanking, Replying, Awaits, reading
  <2> QED  BY <2>1, <2>2 DEF HostPlace
<1>5. /\ UNCHANGED <<token, ep0_dir_out_q, rxVars, cfgVars, ep_cfg_stall_ep_r,
                     intr_ep_rx_ready_r, intr_reset_r>>
      /\ ep0_dir_in_q' = (ep0_dir_in_q \/ StageTr.ep = 0)
  BY <1>1 DEF In
<1>6. ep0_dir_in_q' = TRUE
  <2>1. ep0_dir_in_q \in BOOLEAN
    BY DEF AskedOK
  <2> QED  BY <1>2, <1>5, <2>1
<1>7. /\ UNCHANGED <<token, ep0_dir_out_q, func_addr_r, intr_reset_r>>
      /\ RxSame /\ (RxEmpty' <=> RxEmpty) /\ stall0' = stall0 /\ came' = came
  BY <1>5 DEF rxVars, cfgVars, RxSame, RxEmpty, stall0, came
<1>8. inAnswer(StageTr) = (IF stall0 THEN "STALL"
                           ELSE IF ~tx_active_q[0] THEN "NAK"
                           ELSE IF ep_data_bit_r(0) THEN "DATA1" ELSE "DATA0")
  BY <1>2 DEF inAnswer, stall0
<1>9. isData <=> sends0
  BY <1>8 DEF isData, sends0
<1>10. bit0 \in BOOLEAN
  BY DeviceTypes DEF bit0
<1>11. UNCHANGED <<hresets, hfails>> \/ tooLong
  BY <1>1 DEF KeepsScore
<1>12. ASSUME ~sends0
       PROVE  /\ TxSame /\ bit0' = bit0 /\ current_addr_q' = current_addr_q
              /\ UNCHANGED <<hresets, hfails>>
              /\ hfuncs' = IF hstage' = "done" THEN Function!Effects(asked, hfuncs) ELSE hfuncs
              /\ IF stall0 THEN HearsStall ELSE UNCHANGED host
  <2>1. UNCHANGED <<txVars, intr_ep_tx_complete_r, ep_data_bit_q, current_addr_q>>
    BY <1>1, <1>9, <1>12 DEF In, isData
  <2>2. TxSame /\ bit0' = bit0
    BY <2>1 DEF txVars, TxSame, bit0
  <2>3. UNCHANGED <<hresets, hfails>>
        /\ hfuncs' = IF hstage' = "done" THEN Function!Effects(asked, hfuncs) ELSE hfuncs
    BY <1>1, <1>9, <1>12 DEF KeepsScore
  <2>4. IF stall0 THEN HearsStall ELSE UNCHANGED host
    BY <1>1, <1>8, <1>9, <1>12
  <2> QED  BY <2>1, <2>2, <2>3, <2>4
<1>13. ASSUME sends0, ~tooLong
       PROVE  /\ ~tx_active_q'[0] /\ tx_len_q'[0] = 0
              /\ tx_fifo'[0] = SubSeq(tx_fifo[0], sent(tx_len_q[0]) + 1, Len(tx_fifo[0]))
              /\ bit0' <=> ~(bit0 \/ ep0_dir_out_q)
              /\ current_addr_q' = IF tx_len_q[0] = 0 THEN func_addr_r ELSE current_addr_q
              /\ HearsData(inAnswer(StageTr), inData(StageTr))
              /\ UNCHANGED <<hresets, hfails>>
              /\ hfuncs' = IF hstage' = "done" THEN Function!Effects(asked, hfuncs) ELSE hfuncs
  <2>1. /\ tx_active_q' = [tx_active_q EXCEPT ![0] = FALSE]
        /\ tx_len_q' = [tx_len_q EXCEPT ![0] = 0]
        /\ tx_fifo' = [tx_fifo EXCEPT ![0] = SubSeq(@, sent(tx_len_q[0]) + 1, Len(@))]
        /\ ep_data_bit_q' = [ep_data_bit_q EXCEPT ![0] =
             (~tooLong) # (@ \/ (StageTr.ep = 0 /\ ep0_dir_in_q' /\ ep0_dir_out_q))]
        /\ current_addr_q' = IF StageTr.ep = 0 /\ tx_len_q[0] = 0 THEN func_addr_r ELSE current_addr_q
    BY <1>1, <1>2, <1>9, <1>13 DEF In, isData
  <2>2. ~tx_active_q'[0] /\ tx_len_q'[0] = 0
        /\ tx_fifo'[0] = SubSeq(tx_fifo[0], sent(tx_len_q[0]) + 1, Len(tx_fifo[0]))
    BY <2>1, DeviceTypes
  <2>3. bit0' <=> ~(bit0 \/ ep0_dir_out_q)
    <3> DEFINE b == (~tooLong) # (ep_data_bit_q[0] \/ (StageTr.ep = 0 /\ ep0_dir_in_q' /\ ep0_dir_out_q))
    <3>1. b <=> ~(bit0 \/ ep0_dir_out_q)
      BY <1>2, <1>6, <1>10, <1>13 DEF bit0
    <3> HIDE DEF b
    <3>2. ep_data_bit_q' = [ep_data_bit_q EXCEPT ![0] = b]
      BY <2>1 DEF b
    <3>3. ep_data_bit_q'[0] = b
      BY <3>2, DeviceTypes
    <3>4. bit0' <=> b
      BY <3>3 DEF bit0
    <3> QED  BY <3>1, <3>4
  <2>4. current_addr_q' = IF tx_len_q[0] = 0 THEN func_addr_r ELSE current_addr_q
    BY <1>2, <2>1
  <2>5. HearsData(inAnswer(StageTr), inData(StageTr))
    <3>1. isData /\ inAnswer(StageTr) # "STALL"
      BY <1>8, <1>9, <1>13 DEF sends0
    <3> QED  BY <1>1, <1>13, <3>1
  <2>6. UNCHANGED <<hresets, hfails>>
        /\ hfuncs' = IF hstage' = "done" THEN Function!Effects(asked, hfuncs) ELSE hfuncs
    BY <1>1, <1>13 DEF KeepsScore
  <2> QED  BY <2>2, <2>3, <2>4, <2>5, <2>6
<1> QED  BY <1>1, <1>2, <1>3, <1>4, <1>6, <1>7, <1>8, <1>9, <1>10, <1>11, <1>12, <1>13

-----------------------------------------------------------------------------
(* What stays as it is. *)
LEMMA InKeeps ==
  ASSUME Hosting, HostIn, ~tooLong \/ ~sends0, hreq' = hreq
  PROVE  /\ asked' = asked /\ (reading' <=> reading)
         /\ (Owed' <=> Owed)
         /\ hstage' # "done" => (Knows' <=> Knows) /\ (Did' <=> Did)
         /\ /\ htog' \in BOOLEAN /\ hstage' # "setup"
            /\ haddr' = haddr \/ ~inTransfer'
            => AskedOK'
<1> USE HostFacts, InFacts
<1>1. asked' = asked /\ (reading' <=> reading)
  BY DEF asked, reading
<1>2. UNCHANGED <<hresets, hfails>>
      /\ hfuncs' = IF hstage' = "done" THEN Function!Effects(asked, hfuncs) ELSE hfuncs
  OBVIOUS
<1>3. Owed' <=> Owed
  BY <1>2 DEF Owed
<1>4. hstage' # "done" => (Knows' <=> Knows)
  BY <1>2 DEF Knows
<1>5. hstage' # "done" => (Did' <=> Did)
  BY <1>1, <1>2 DEF Did
<1>6. /\ htog' \in BOOLEAN /\ hstage' # "setup"
      /\ haddr' = haddr \/ ~inTransfer'
      => AskedOK'
  <2> SUFFICES ASSUME htog' \in BOOLEAN, hstage' # "setup", haddr' = haddr \/ ~inTransfer'
               PROVE AskedOK'
    OBVIOUS
  <2>1. NoOnePacket' => hfails' <= hresets'
    BY <1>2 DEF AskedOK
  <2>2. hresets' \in Nat /\ hfails' \in Nat
    BY <1>2 DEF AskedOK
  <2>3. ep0_dir_in_q' \in BOOLEAN /\ ep0_dir_out_q' \in BOOLEAN
    BY DEF AskedOK
  <2>4. inTransfer' => hreq' \in now'.requests
    BY DEF AskedOK
  <2>5. (inTransfer /\ haddr = 0)' => \/ Standard(asked', REQ_GET_DESCRIPTOR)
                                      \/ Standard(asked', REQ_SET_ADDRESS)
    BY <1>1 DEF AskedOK
  <2> QED  BY <2>1, <2>2, <2>3, <2>4, <2>5 DEF AskedOK
<1> QED  BY <1>1, <1>3, <1>4, <1>5, <1>6

(* The endpoint has nothing for the host. *)
LEMMA NothingTransfers ==
  ASSUME Hosting, HostIn, ~intr_reset_r, fpc = "idle", ~came, Lost \/ Refusing
  PROVE  TransferInv'
<1> USE HostFacts, InFacts, InKeeps
<1>1. ~sends0 /\ TxEmpty /\ RxEmpty /\ AddrOld
  BY DEF Lost, Refusing, TxEmpty, sends0
<1>2. /\ TxSame /\ bit0' = bit0 /\ current_addr_q' = current_addr_q
      /\ UNCHANGED <<hresets, hfails>>
      /\ hfuncs' = IF hstage' = "done" THEN Function!Effects(asked, hfuncs) ELSE hfuncs
  BY <1>1
<1>3. TxEmpty' /\ RxEmpty'
  BY <1>1, <1>2 DEF TxEmpty, TxSame
<1>4. (Aside' <=> Aside) /\ ~Token0 /\ ~Token0'
  BY DEF Aside, Token0
<1>5. CASE ~stall0
  <2>1. UNCHANGED host
    BY <1>1, <1>5
  <2>2. UNCHANGED <<hreq, hstage, htog, haddr, hdata>>
    BY <2>1 DEF host
  <2>3. hstage \in {"data", "status"}
    BY DEF Awaits
  <2>4. Lost
    BY <1>5 DEF Refusing
  <2>5. Awaits' /\ AddrOld' /\ (Knows' <=> Knows) /\ (Did' <=> Did) /\ (Owed' <=> Owed) /\ asked' = asked
    <3>1. Awaits' /\ AddrOld'
      BY <1>1, <2>2 DEF Awaits, AddrOld, reading, asked
    <3> QED  BY <1>1, <2>2, <2>3, <3>1
  <2>6. Lost'
    BY <1>3, <1>4, <1>5, <2>4, <2>5 DEF Lost
  <2>7. Place'
    BY <2>6 DEF Place, Normal
  <2>8. AskedOK'
    <3>1. htog' \in BOOLEAN /\ hstage' # "setup"
      BY <2>2, <2>3 DEF AskedOK
    <3> QED  BY <1>1, <2>2, <3>1
  <2>9. AddressAgreed'
    BY <1>2, <2>2 DEF AddressAgreed
  <2> QED  BY <2>7, <2>8, <2>9 DEF TransferInv
<1>6. CASE stall0
  <2>1. hstage' = "failed" /\ UNCHANGED <<hreq, htog, haddr, hdata>>
    BY <1>1, <1>6 DEF HearsStall
  <2>2. ~inTransfer'
    BY <2>1 DEF inTransfer
  <2>3. Knows
    BY <1>6 DEF Lost, Refusing
  <2>4. Knows'
    BY <1>1, <2>1, <2>3
  <2>5. AddrOld'
    BY <1>1, <2>1 DEF AddrOld
  <2>6. HostQuiet' /\ SetupToken'
    BY <1>4, <2>2 DEF HostQuiet, SetupToken
  <2>7. Aside'
    BY <1>4 DEF Lost, Refusing
  <2>8. AtRest'
    BY <1>3, <2>4, <2>5, <2>6, <2>7 DEF AtRest
  <2>9. Place'
    BY <2>8 DEF Place, Normal
  <2>10. AskedOK'
    <3>1. htog' \in BOOLEAN /\ hstage' # "setup"
      BY <2>1 DEF AskedOK
    <3> QED  BY <1>1, <2>1, <3>1
  <2>11. AddressAgreed'
    BY <1>2, <2>1 DEF AddressAgreed
  <2> QED  BY <2>9, <2>10, <2>11 DEF TransferInv
<1> QED  BY <1>5, <1>6

(* The status of a request that does not read. *)
LEMMA StatedTransfers ==
  ASSUME Hosting, HostIn, ~intr_reset_r, fpc = "idle", ~came, Stated
  PROVE  TransferInv'
<1> USE HostFacts, InFacts, InKeeps, TransactionsAssumption
<1>1. /\ RxEmpty /\ hstage = "status" /\ ~dirIn(asked) /\ ~reading /\ AddrNew /\ ~stall0
      /\ ~ep0_dir_in_q /\ bit0 = ~OnePacket(asked)
      /\ tx_active_q[0] /\ tx_len_q[0] = 0 /\ tx_fifo[0] = << >> /\ Aside /\ Did
  BY DEF Stated, reading
<1>2. sends0
  BY <1>1 DEF sends0
<1>3. inData(StageTr) = << >> /\ ~tooLong
  <2>1. inData(StageTr) \in Seq(Payload)
    BY InDataType
  <2>2. Len(inData(StageTr)) = 0
    <3>1. DOMAIN inData(StageTr) = 1 .. 0
      BY <1>1 DEF inData
    <3> QED  BY <2>1, <3>1, LenProperties
  <2>3. inData(StageTr) = << >>
    BY <2>1, <2>2, EmptySeq
  <2>4. expected = 0
    BY <1>1 DEF expected
  <2>5. ~tooLong
    BY <2>2, <2>4 DEF tooLong
  <2> QED  BY <2>3, <2>5
<1>4. /\ ~tx_active_q'[0] /\ tx_len_q'[0] = 0
      /\ tx_fifo'[0] = SubSeq(tx_fifo[0], sent(tx_len_q[0]) + 1, Len(tx_fifo[0]))
      /\ current_addr_q' = func_addr_r
      /\ HearsData(inAnswer(StageTr), inData(StageTr))
      /\ hfuncs' = IF hstage' = "done" THEN Function!Effects(asked, hfuncs) ELSE hfuncs
  BY <1>1, <1>2, <1>3
<1>5. TxEmpty'
  <2>1. SubSeq(tx_fifo[0], sent(tx_len_q[0]) + 1, Len(tx_fifo[0])) = << >>
    BY <1>1, EmptyType, SubSeqEmpty DEF sent
  <2> QED  BY <1>4, <2>1 DEF TxEmpty
<1>6. inAnswer(StageTr) = IF OnePacket(asked) THEN "DATA0" ELSE "DATA1"
  <2>1. ep_data_bit_r(0) <=> ~OnePacket(asked)
    BY <1>1 DEF ep_data_bit_r, bit0
  <2> QED  BY <1>1, <2>1
<1>7. StageTr.datapid = "DATA1"
  BY <1>1 DEF StageTr
<1>8. hreq' = hreq
  BY <1>4 DEF HearsData
<1>9. (Aside' <=> Aside) /\ ~Token0'
  BY DEF Aside, Token0
<1>10. CASE OnePacket(asked)
  <2>1. UNCHANGED <<hstage, htog, haddr, hdata>>
    BY <1>4, <1>6, <1>7, <1>10 DEF HearsData
  <2>2. func_addr_r = haddr
    <3>1. asked.wLength > 0
      BY <1>10, AskedIs, RequestAssumption DEF OnePacket
    <3>2. ~Standard(asked, REQ_SET_ADDRESS)
      BY <3>1, AskedIs DEF Known
    <3>3. answerTo(asked) # "address"
      BY <3>2, Changes
    <3> QED  BY <1>1, <3>3 DEF AddrNew
  <2>3. AddrOld' /\ AddressAgreed'
    BY <1>4, <2>1, <2>2 DEF AddrOld, AddressAgreed
  <2>4. Did' /\ asked' = asked /\ Awaits'
    <3>1. Did' /\ asked' = asked /\ (reading' <=> reading)
      BY <1>1, <1>3, <1>8, <2>1
    <3> QED  BY <1>1, <2>1, <3>1 DEF Awaits
  <2>5. Lost'
    BY <1>1, <1>5, <1>9, <1>10, <2>3, <2>4 DEF Lost
  <2>6. Place'
    BY <2>5 DEF Place, Normal
  <2>7. AskedOK'
    <3>1. htog' \in BOOLEAN /\ hstage' # "setup"
      BY <1>1, <2>1 DEF AskedOK
    <3> QED  BY <1>3, <1>8, <2>1, <3>1
  <2> QED  BY <2>3, <2>6, <2>7 DEF TransferInv
<1>11. CASE ~OnePacket(asked)
  <2>1. /\ hstage' = "done" /\ UNCHANGED <<htog, hdata>>
        /\ haddr' = IF Standard(asked, REQ_SET_ADDRESS) THEN addressOf(asked) ELSE haddr
    BY <1>1, <1>4, <1>6, <1>7, <1>11 DEF HearsData
  <2>2. haddr' = func_addr_r
    BY <1>1, <2>1, Changes DEF AddrNew
  <2>3. AddrOld' /\ AddressAgreed'
    BY <1>4, <2>2 DEF AddrOld, AddressAgreed
  <2>4. Knows'
    <3>1. hfuncs' = Function!Effects(asked, hfuncs)
      BY <1>4, <2>1
    <3> QED  BY <1>1, <3>1, DoneKnows
  <2>5. ~inTransfer'
    BY <2>1 DEF inTransfer
  <2>6. HostQuiet' /\ SetupToken'
    BY <1>9, <2>5 DEF HostQuiet, SetupToken
  <2>7. AtRest'
    BY <1>1, <1>5, <1>9, <2>3, <2>4, <2>6 DEF AtRest
  <2>8. Place'
    BY <2>7 DEF Place, Normal
  <2>9. AskedOK'
    <3>1. htog' \in BOOLEAN /\ hstage' # "setup"
      BY <2>1 DEF AskedOK
    <3> QED  BY <1>3, <1>8, <2>5, <3>1
  <2> QED  BY <2>3, <2>8, <2>9 DEF TransferInv
<1> QED  BY <1>10, <1>11

-----------------------------------------------------------------------------
(* A packet of an answer. *)
LEMMA Fetches ==
  ASSUME Hosting, HostIn, ~intr_reset_r, Replying, SendingData,
         tx_active_q[0], tx_len_q[0] = Len(tx_fifo[0]), tx_len_q[0] \in 1 .. MAXP,
         Part(tx_fifo[0], Program!answer, Len(hdata))
  PROVE  /\ Program!answer \in Seq(Payload) /\ Len(Program!answer) \in Nat
         /\ Len(Program!answer) <= asked.wLength /\ Len(Program!answer) <= 2 * MAXP
         /\ asked.wLength \in Nat /\ Len(hdata) \in Nat /\ hstage = "data" /\ reading
         /\ Len(hdata') = Len(hdata) + tx_len_q[0] /\ Len(hdata') <= Len(Program!answer)
         /\ hstage' = IF tx_len_q[0] < MAXP \/ Len(hdata') >= asked.wLength THEN "status" ELSE "data"
         /\ Replying' /\ TxEmpty' /\ bit0' = htog' /\ AskedOK' /\ AddressAgreed'
<1> USE HostFacts, InFacts, TransactionsAssumption
<1>1. /\ ~stall0 /\ hstage = "data" /\ reading /\ (bit0 <=> htog) /\ ~ep0_dir_out_q /\ request = hreq
      /\ answerTo(asked) = "send" /\ Part(hdata, Program!answer, 0) /\ Knows /\ AddrOld /\ RxEmpty
      /\ ~data_expected /\ ~rx_setup_q[0]
  BY DEF Replying, SendingData
<1>2. sends0
  BY <1>1 DEF sends0
<1>3. /\ Program!answer \in Seq(Payload) /\ Len(Program!answer) \in Nat
      /\ Len(Program!answer) <= asked.wLength /\ Len(Program!answer) <= 2 * MAXP
      /\ asked.wLength \in Nat
  BY <1>1, Answers DEF Hosting
<1> DEFINE f == tx_fifo[0]
           n == tx_len_q[0]
<1>4. f \in Seq(Payload) /\ Len(f) = n /\ n \in Nat /\ n >= 1 /\ n <= MAXP /\ MAXP \in Nat
  BY DeviceTypes, RequestAssumption
<1>5. hdata \in Seq(Payload) /\ Len(hdata) \in Nat
  BY AskedIs, LenProperties
<1>6. inData(StageTr) = f
  <2>1. inData(StageTr) \in Seq(Payload)
    BY InDataType
  <2>2. inData(StageTr) = [k \in 1 .. n |-> IF k <= Len(f) THEN f[k] ELSE Stale]
    BY DEF inData
  <2> DEFINE g == inData(StageTr)
  <2> HIDE DEF g, f, n
  <2>3. DOMAIN g = 1 .. n /\ \A k \in 1 .. n : g[k] = f[k]
    BY <1>4, <2>2 DEF g
  <2>4. Len(g) = n
    <3>1. g \in Seq(Payload)
      BY <2>1 DEF g
    <3> QED  BY <1>4, <2>3, <3>1, LenProperties
  <2>5. g = f
    <3>1. g \in Seq(Payload)
      BY <2>1 DEF g
    <3> QED  BY <1>4, <2>3, <2>4, <3>1, SeqEqual
  <2> QED  BY <2>5 DEF g
<1>7. n + Len(hdata) <= Len(Program!answer)
  <2>1. Len(hdata) + Len(f) <= Len(Program!answer)
    BY DEF Part
  <2> QED  BY <1>3, <1>4, <1>5, <2>1
<1>8. ~tooLong
  <2>1. expected = MIN(MAXP, asked.wLength - Len(hdata))
    BY <1>1 DEF expected
  <2>2. \A x, y, z, w, m \in Nat : x + y <= z /\ z <= w /\ x <= m => ~(x > MIN(m, w - y))
    BY DEF MIN
  <2>3. ~(n > MIN(MAXP, asked.wLength - Len(hdata)))
    <3> HIDE DEF n
    <3> QED  BY <1>3, <1>4, <1>5, <1>7, <2>2
  <2> QED  BY <1>4, <1>6, <2>1, <2>3 DEF tooLong
<1>9. /\ ~tx_active_q'[0]
      /\ tx_fifo'[0] = SubSeq(f, sent(n) + 1, Len(f))
      /\ bit0' <=> ~(bit0 \/ ep0_dir_out_q)
      /\ current_addr_q' = IF n = 0 THEN func_addr_r ELSE current_addr_q
      /\ HearsData(inAnswer(StageTr), f)
      /\ hfuncs' = IF hstage' = "done" THEN Function!Effects(asked, hfuncs) ELSE hfuncs
  BY <1>2, <1>6, <1>8
<1>10. TxEmpty'
  <2>1. sent(n) = n
    BY <1>4 DEF sent
  <2>2. SubSeq(f, n + 1, n) = << >>
    BY <1>4, SubSeqEmpty
  <2> QED  BY <1>4, <1>9, <2>1, <2>2 DEF TxEmpty
<1>11. inAnswer(StageTr) = StageTr.datapid
  <2>1. StageTr.datapid = IF htog THEN "DATA1" ELSE "DATA0"
    BY <1>1 DEF StageTr
  <2>2. ep_data_bit_r(0) <=> bit0
    BY <1>1 DEF ep_data_bit_r, bit0
  <2> QED  BY <1>1, <1>2, <2>1, <2>2 DEF sends0
<1>12. /\ hdata' = hdata \o f /\ htog' = ~htog
       /\ hstage' = IF Len(f) < MAXP \/ Len(hdata') >= asked.wLength THEN "status" ELSE "data"
       /\ haddr' = haddr /\ hreq' = hreq
  <2> HIDE DEF f
  <2> QED  BY <1>1, <1>9, <1>11 DEF HearsData
<1>13. Len(hdata') = Len(hdata) + n
  BY <1>4, <1>5, <1>12, ConcatType
<1>14. Part(hdata', Program!answer, 0)
  <2>1. 0 + Len(hdata) = Len(hdata)
    BY <1>5
  <2>2. Part(f, Program!answer, 0 + Len(hdata))
    BY <2>1
  <2> HIDE DEF f
  <2>3. Part(hdata \o f, Program!answer, 0)
    BY <1>1, <1>3, <1>4, <1>5, <2>2, PartConcat
  <2> QED  BY <1>12, <2>3
<1>15. hstage' \in {"status", "data"}
  BY <1>12
<1>16. asked' = asked /\ (reading' <=> reading) /\ (Knows' <=> Knows)
  BY <1>8, <1>12, <1>15, InKeeps
<1>17. AddrOld' /\ AddressAgreed'
  <2>1. current_addr_q' = current_addr_q
    BY <1>4, <1>9
  <2> QED  BY <1>1, <1>12, <2>1 DEF AddrOld, AddressAgreed
<1>18. AskedOK'
  <2>1. htog' \in BOOLEAN /\ hstage' # "setup" /\ haddr' = haddr
    BY <1>12, <1>15
  <2> QED  BY <1>8, <1>12, <2>1, InKeeps
<1>19. Replying'
  <2>1. rx_setup_q'[0] = rx_setup_q[0]
    BY DEF RxSame
  <2> QED  BY <1>1, <1>12, <1>14, <1>16, <1>17, <2>1 DEF Replying
<1>20. bit0' = htog'
  <2>1. DeviceOK'
    BY HostInType
  <2>2. ep_data_bit_q' \in [EP -> BOOLEAN]
    BY <2>1 DEF DeviceOK, DeviceTypeOK
  <2>3. ep_data_bit_q'[0] \in BOOLEAN
    BY <2>2
  <2>4. bit0' \in BOOLEAN
    BY <2>3 DEF bit0
  <2>5. bit0' <=> htog'
    BY <1>1, <1>9, <1>12
  <2>6. htog' \in BOOLEAN
    BY <1>12
  <2> QED  BY <2>4, <2>5, <2>6
<1>21. Len(hdata') <= Len(Program!answer)
  BY <1>3, <1>4, <1>5, <1>7, <1>13
<1>22. hstage' = IF n < MAXP \/ Len(hdata') >= asked.wLength THEN "status" ELSE "data"
  BY <1>4, <1>12
<1> QED  BY <1>1, <1>3, <1>5, <1>10, <1>13, <1>17, <1>18, <1>19, <1>20, <1>21, <1>22

(* It fetches a packet while the program waits to send the next, *)
LEMMA WaitingTransfers ==
  ASSUME Hosting, HostIn, ~intr_reset_r, Waiting PROVE TransferInv'
<1> USE HostFacts, InFacts
<1>1. /\ fpc = "sendPoll" /\ Replying /\ SendingData
      /\ tx_active_q[0] /\ tx_len_q[0] = MAXP /\ Len(tx_fifo[0]) = MAXP
      /\ Part(tx_fifo[0], Program!answer, Len(hdata))
      /\ fcnt = Len(hdata) + MAXP /\ fcnt < Len(Program!answer)
      /\ send = Program!chunk(fcnt) /\ Len(fbuf) = send /\ Part(fbuf, Program!answer, fcnt)
      /\ ~fflush
  BY DEF Waiting
<1>2. MAXP \in Nat /\ MAXP > 0 /\ tx_len_q[0] \in 1 .. MAXP
  BY <1>1, RequestAssumption
<1>3. /\ Program!answer \in Seq(Payload) /\ Len(Program!answer) \in Nat
      /\ Len(Program!answer) <= asked.wLength /\ Len(Program!answer) <= 2 * MAXP
      /\ asked.wLength \in Nat /\ Len(hdata) \in Nat
      /\ Len(hdata') = Len(hdata) + tx_len_q[0]
      /\ hstage' = IF tx_len_q[0] < MAXP \/ Len(hdata') >= asked.wLength THEN "status" ELSE "data"
      /\ Replying' /\ TxEmpty' /\ bit0' = htog' /\ AskedOK' /\ AddressAgreed'
  BY <1>1, <1>2, Fetches
<1>4. Len(hdata) = 0 /\ fcnt = MAXP
  <2>1. Len(hdata) \in {0, MAXP}
    BY <1>1 DEF SendingData
  <2> QED  BY <1>1, <1>2, <1>3, <2>1
<1>5. Len(hdata') = MAXP /\ hstage' = "data"
  BY <1>1, <1>2, <1>3, <1>4
<1>6. SendingData'
  <2>1. ~Token0' /\ ~ep0_dir_out_q'
    BY <1>1 DEF SendingData, Token0
  <2> QED  BY <1>3, <1>5, <2>1 DEF SendingData
<1>7. tx_fifo'[0] = << >> /\ Len(tx_fifo'[0]) = 0 /\ ~tx_active_q'[0]
  BY <1>3, EmptyType DEF TxEmpty
<1>8. Filling'
  <2>1. Len(tx_fifo'[0]) + Len(fbuf') = send'
    <3>1. fbuf \in Seq(Payload)
      BY DEF XferOK
    <3>2. Len(fbuf) \in Nat
      BY <3>1, LenProperties
    <3> QED  BY <1>1, <1>7, <3>2
  <2>2. Part(tx_fifo'[0], Program!answer', fcnt')
    <3>1. Part(<< >>, Program!answer, MAXP)
      BY <1>1, <1>2, <1>3, <1>4, PartEmpty
    <3> QED  BY <1>4, <1>7, <3>1
  <2>3. Part(fbuf', Program!answer', fcnt' + Len(tx_fifo'[0]))
    <3>1. fcnt' + Len(tx_fifo'[0]) = fcnt
      BY <1>2, <1>4, <1>7
    <3> QED  BY <1>1, <3>1
  <2>4. send' = (Program!chunk(fcnt))'
    BY <1>1, ChunkIs
  <2>5. fcnt' = Len(hdata') /\ fcnt' < Len(Program!answer')
    BY <1>1, <1>4, <1>5
  <2> QED  BY <1>1, <1>3, <1>6, <1>7, <2>1, <2>2, <2>3, <2>4, <2>5 DEF Filling
<1>9. Place'
  BY <1>8 DEF Place, Normal
<1> QED  BY <1>3, <1>9 DEF TransferInv

(* ... or the last one. *)
LEMMA SentTransfers ==
  ASSUME Hosting, HostIn, ~intr_reset_r, fpc = "sendAck", Sent PROVE TransferInv'
<1> USE HostFacts, InFacts
<1>1. /\ Replying /\ SendingData
      /\ tx_active_q[0] /\ tx_len_q[0] = Len(tx_fifo[0]) /\ tx_len_q[0] \in 1 .. MAXP
      /\ Part(tx_fifo[0], Program!answer, Len(hdata))
      /\ Len(hdata) + tx_len_q[0] = Len(Program!answer)
      /\ tx_len_q[0] < MAXP \/ Len(Program!answer) = asked.wLength
  BY DEF Sent
<1>2. /\ asked.wLength \in Nat
      /\ Len(hdata') = Len(hdata) + tx_len_q[0]
      /\ hstage' = IF tx_len_q[0] < MAXP \/ Len(hdata') >= asked.wLength THEN "status" ELSE "data"
      /\ Replying' /\ TxEmpty' /\ AskedOK' /\ AddressAgreed'
  BY <1>1, Fetches
<1>3. Len(hdata') = Len(Program!answer') /\ hstage' = "status"
  BY <1>1, <1>2
<1>4. ~Token0' /\ ep0_dir_in_q'
  BY DEF Token0
<1>5. Thanking'
  BY <1>2, <1>3, <1>4 DEF Thanking
<1>6. Place'
  BY <1>5 DEF Place, Normal
<1> QED  BY <1>2, <1>6 DEF TransferInv

(* What the host fetches keeps the invariant, wherever the program is. *)
LEMMA InTransfers == ASSUME Hosting, HostIn PROVE TransferInv'
BY InFacts, NothingTransfers, StatedTransfers, WaitingTransfers, SentTransfers

-----------------------------------------------------------------------------
(* A bus reset.  What the program has done of the request of which the     *)
(* host has not heard is undone, or known.                                 *)
LEMMA WaitingAnswer ==
  ASSUME Hosting, Replying, hstage = "data"
  PROVE  /\ Program!answer \in Seq(Payload) /\ Len(Program!answer) \in Nat
         /\ Len(Program!answer) <= 2 * MAXP /\ MAXP \in Nat /\ MAXP > 0
         /\ Len(Program!answer) \in {MAXP, 2 * MAXP} => Done
         /\ Len(hdata) \in Nat
<1> USE HostFacts
<1>1. inTransfer /\ request = hreq /\ reading /\ answerTo(asked) = "send"
  BY DEF Replying, inTransfer
<1>2. /\ Program!answer \in Seq(Payload) /\ Len(Program!answer) \in Nat
      /\ Len(Program!answer) <= 2 * MAXP
      /\ Len(Program!answer) \in {MAXP, 2 * MAXP} => Len(Program!answer) = asked.wLength
      /\ Program!req = asked
  BY <1>1, Answers DEF Hosting
<1>3. Len(hdata) \in Nat
  BY AskedIs, LenProperties
<1> QED  BY <1>2, <1>3, RequestAssumption DEF Done

(* A reset of the bus keeps the invariant, wherever the program is. *)
LEMMA ResetTransfers == ASSUME Hosting, HostResets PROVE TransferInv'
<1> USE HostFacts, TransactionsAssumption
<1>1. /\ BusReset /\ hstage' = "failed" /\ haddr' = 0 /\ UNCHANGED <<hreq, htog, hdata>>
      /\ hresets' = hresets + 1 /\ hfails' = hfails
      /\ hfuncs' = Function!Reset(hfuncs \cup
                      IF inTransfer THEN Function!Effects(asked, hfuncs) ELSE {})
  BY DEF HostResets, Forgets
<1>2. /\ token' = NoToken /\ current_addr_q' = 0 /\ ep0_dir_in_q' = FALSE /\ ep0_dir_out_q' = FALSE
      /\ intr_reset_r' = TRUE
      /\ UNCHANGED <<rxVars, txVars, cfgVars, ep_cfg_stall_ep_r,
                     intr_ep_rx_ready_r, intr_ep_tx_complete_r>>
  BY <1>1 DEF BusReset
<1>3. /\ UNCHANGED <<rx_ready_q, rx_len_q, rx_setup_q, rx_fifo, tx_active_q, tx_len_q, tx_fifo>>
      /\ RxSame /\ (RxEmpty' <=> RxEmpty) /\ came' = came
  BY <1>2 DEF rxVars, txVars, RxSame, RxEmpty, came
<1>4. ~Token0' /\ ~inTransfer' /\ HostQuiet' /\ SetupToken'
  <2>1. ~Token0'
    BY <1>2 DEF Token0, NoToken
  <2>2. ~inTransfer'
    BY <1>1 DEF inTransfer
  <2> QED  BY <2>1, <2>2 DEF HostQuiet, SetupToken
<1>5. Owed'
  <2>1. NoOnePacket => hfails < hresets + 1
    BY DEF AskedOK
  <2> QED  BY <1>1, <2>1 DEF Owed
<1>6. WillReset'
  <2>1. Knows \/ (Did /\ inTransfer) \/ WillReset
    <3>1. AtRest \/ Collecting \/ Refusing \/ Waiting \/ Sent \/ Thanking => Knows
      BY DEF AtRest, Collecting, Collects, Refusing, Waiting, Sent, Thanking, Replying
    <3>2. Lost => Knows \/ (Did /\ inTransfer)
      BY DEF Lost, Awaits, inTransfer
    <3>3. Stated /\ fpc = "idle" => Did /\ inTransfer
      BY DEF Stated, inTransfer
    <3>4. Upset => WillReset
      BY DEF Upset
    <3> QED  BY <3>1, <3>2, <3>3, <3>4 DEF HostPlace
  <2> QED  BY <1>1, <2>1, ResetForgets
<1>7. AddressAgreed'
  BY <1>1, <1>2 DEF AddressAgreed
<1>8. AskedOK'
  <2>1. NoOnePacket' => hfails' <= hresets'
    BY <1>1 DEF AskedOK
  <2>2. hresets' \in Nat /\ hfails' \in Nat /\ htog' \in BOOLEAN
    BY <1>1 DEF AskedOK
  <2> QED  BY <1>1, <1>2, <1>4, <2>1, <2>2 DEF AskedOK
<1>9. CASE fpc = "idle" /\ ~came /\ ~func_stat_rst /\ RxEmpty
  <2>1. Aside'
    BY <1>3, <1>9 DEF Aside, AsidePc
  <2>2. Resetting'
    BY <1>1, <1>3, <1>4, <1>5, <1>6, <1>9, <2>1 DEF Resetting, RxEmpty
  <2>3. Place'
    BY <1>2, <2>2 DEF Place
  <2> QED  BY <1>7, <1>8, <2>3 DEF TransferInv
<1>10. CASE fpc # "idle"
  <2>1. RxEmpty'
    BY <1>3, <1>10 DEF HostPlace, Waiting, Sent, Thanking, Replying, Upset
  <2>2. \/ /\ fpc' = "sendPoll" /\ ~inTransfer'
           /\ fcnt' + send' = Len(Program!answer') /\ (send' >= MAXP => Done')
           /\ tx_active_q'[0] => ~fflush'
        \/ fpc' = "sendSpin" /\ (send' >= MAXP => fcnt' = Len(Program!answer') /\ Done')
        \/ fpc' = "sendAck"
    <3>1. CASE Waiting
      <4>1. /\ fpc = "sendPoll" /\ Replying /\ SendingData /\ ~fflush
            /\ fcnt = Len(hdata) + MAXP /\ fcnt < Len(Program!answer) /\ send = Program!chunk(fcnt)
        BY <3>1 DEF Waiting
      <4>2. /\ Program!answer \in Seq(Payload) /\ Len(Program!answer) \in Nat
            /\ Len(Program!answer) <= 2 * MAXP /\ MAXP \in Nat /\ MAXP > 0
            /\ Len(Program!answer) \in {MAXP, 2 * MAXP} => Done
            /\ Len(hdata) \in {0, MAXP} /\ Len(hdata) \in Nat
        BY <4>1, WaitingAnswer DEF SendingData
      <4>3. fcnt = MAXP
        BY <4>1, <4>2
      <4>4. send = IF Len(Program!answer) - MAXP > MAXP THEN MAXP ELSE Len(Program!answer) - MAXP
        BY <4>1, <4>3 DEF Program!chunk, Program!MIN
      <4>5. send = Len(Program!answer) - MAXP
        BY <4>2, <4>4
      <4>6. fcnt + send = Len(Program!answer)
        BY <4>2, <4>3, <4>5
      <4>7. send >= MAXP => Done
        BY <4>2, <4>5
      <4> QED  BY <1>4, <4>1, <4>6, <4>7
    <3>2. CASE Upset /\ fpc \in {"sendSpin", "sendAck"}
      BY <3>2 DEF Upset
    <3>3. CASE fpc = "sendAck"
      BY <3>3
    <3> QED  BY <1>10, <3>1, <3>2, <3>3 DEF HostPlace
  <2>3. Upset'
    BY <1>1, <1>4, <1>5, <1>6, <2>1, <2>2 DEF Upset
  <2>4. Place'
    BY <1>2, <2>3 DEF Place
  <2> QED  BY <1>7, <1>8, <2>4 DEF TransferInv
<1>11. fpc = "idle" => ~came /\ ~func_stat_rst /\ RxEmpty
  BY DEF HostPlace, AtRest, Lost, Collecting, Stated, Refusing, Waiting
<1> QED  BY <1>9, <1>10, <1>11

(* Every step of the host keeps the invariant. *)
LEMMA HostTransfers == ASSUME Hosting, MAXP <= DEPTH PROVE TransferInv'
<1>1. HostPings \/ HostPingData \/ HostPongs => TransferInv'
  BY PingsStay
<1>2. Host
  BY DEF Hosting
<1> QED  BY <1>1, <1>2, AsksTransfers, TokenTransfers, DataTransfers, InTransfers,
            AbandonsTransfers, ResetTransfers DEF Host

-----------------------------------------------------------------------------
(* The invariant, of every behaviour in which the host is patient and asks *)
(* what it may ask.                                                        *)
LEMMA TransferInit == Init => TransferInv
<1> SUFFICES ASSUME Init PROVE TransferInv
  OBVIOUS
<1> USE TransactionsAssumption
<1>1. /\ mpc = "startUp" /\ fpc = "idle" /\ func_stat_rst = FALSE
      /\ configured = 0 /\ remote_wake_enabled = FALSE /\ endpoint_stalled = {}
      /\ line_coding = Line0
  BY DEF Init, Program!FirmwareInit
<1>2. /\ token = NoToken /\ current_addr_q = 0 /\ func_addr_r = 0 /\ ~intr_reset_r
      /\ ep0_dir_in_q = FALSE /\ ep0_dir_out_q = FALSE
      /\ ~rx_ready_q[0] /\ rx_len_q[0] = 0 /\ rx_fifo[0] = << >>
      /\ ~tx_active_q[0] /\ tx_fifo[0] = << >> /\ ~intr_ep_rx_ready_r[0]
  BY DEF Init, DeviceInit
<1>3. /\ hstage = "failed" /\ htog = FALSE /\ haddr = 0 /\ hresets = 0 /\ hfails = 0
      /\ hfuncs = {new}
  BY DEF Init, HostInit
<1>4. ~inTransfer /\ ~Token0
  BY <1>2, <1>3 DEF inTransfer, Token0, NoToken
<1>5. Knows
  <2>1. memory = new
    BY <1>1 DEF memory, Func, new
  <2> QED  BY <1>3, <2>1 DEF Knows
<1>6. AtRest
  BY <1>1, <1>2, <1>3, <1>4, <1>5
     DEF AtRest, RxEmpty, TxEmpty, AddrOld, HostQuiet, SetupToken, Aside, AsidePc, came
<1>7. Place /\ StartPlace
  BY <1>2, <1>4, <1>6 DEF Place, Normal, StartPlace
<1>8. ResetOK
  BY <1>1 DEF ResetOK, Ep0Pc, Masked
<1>9. AskedOK
  <2>1. ~inTransfer /\ ~(hstage = "setup")
    BY <1>3, <1>4
  <2>2. hresets \in Nat /\ hfails \in Nat /\ hfails <= hresets
    BY <1>3
  <2>3. htog \in BOOLEAN /\ ep0_dir_in_q \in BOOLEAN /\ ep0_dir_out_q \in BOOLEAN
    BY <1>2, <1>3
  <2> QED  BY <2>1, <2>2, <2>3 DEF AskedOK
<1>10. AddressAgreed
  BY <1>2, <1>3 DEF AddressAgreed
<1> QED  BY <1>7, <1>8, <1>9, <1>10 DEF TransferInv

(* A step that changes nothing. *)
LEMMA TransferSame ==
  ASSUME SystemInv, PatientInv, Informed, TransferInv, UNCHANGED vars PROVE TransferInv'
<1>1. UNCHANGED <<deviceVars, host, scenario, hfuncs, hresets, hfails>> /\ UNCHANGED program
  BY DEF vars, counts
<1>2. /\ UNCHANGED <<token, current_addr_q, ep0_dir_in_q, ep0_dir_out_q, ep_data_bit_q,
                     rx_ready_q, rx_len_q, rx_setup_q, rx_fifo, tx_active_q, tx_len_q, tx_fifo,
                     func_addr_r, ep_cfg_stall_ep_r, intr_ep_rx_ready_r, intr_reset_r>>
  BY <1>1 DEF deviceVars, coreVars, rxVars, txVars, cfgVars, intrVars
<1>3. /\ UNCHANGED <<Program!handlerVars, Program!copyVars, Program!xferVars, Program!staticVars>>
      /\ UNCHANGED <<mpc, fpc, func_stat_rst, enable_rst_intr, irq>>
  BY <1>1 DEF program, Program!handlerVars, Program!copyVars, Program!xferVars, Program!staticVars
<1>4. /\ RxSame /\ TxSame /\ CfgSame /\ IntrSame /\ CoreStill
  BY <1>2 DEF RxSame, TxSame, CfgSame, IntrSame, CoreStill, stall0, bit0, Token0, came
<1>5. Still
  BY <1>1, <1>3, <1>4 DEF Still, HostStill
<1>6. Place' /\ (StartAt => StartAt')
  BY <1>3, <1>4, <1>5, PlaceStays DEF TransferInv
<1>7. /\ UNCHANGED <<hreq, hstage, htog, haddr, hdata, hresets, hfails>> /\ now' = now
      /\ asked' = asked /\ (inTransfer' <=> inTransfer) /\ NoOnePacket' = NoOnePacket
  BY <1>1, HostKeeps
<1>8. AskedOK' /\ AddressAgreed'
  BY <1>2, <1>7 DEF TransferInv, AskedOK, AddressAgreed
<1>9. ResetOK'
  BY <1>2, <1>3 DEF TransferInv, ResetOK
<1>10. StartPlace'
  <2>1. StartPlace <=> (mpc \in StartPc => StartAt) /\ (mpc = "startUp" => ~inTransfer)
    BY DEF StartPlace, StartAt
  <2>2. StartPlace' <=> ((mpc \in StartPc)' => StartAt') /\ ((mpc = "startUp")' => ~inTransfer')
    BY DEF StartPlace, StartAt
  <2> QED  BY <1>3, <1>6, <1>7, <2>1, <2>2 DEF TransferInv
<1> QED  BY <1>6, <1>8, <1>9, <1>10 DEF TransferInv

(* Every step keeps the invariant. *)
LEMMA TransferNext ==
  ASSUME SystemInv, PatientInv, Informed, TransferInv, [Next]_vars, MAXP <= DEPTH
  PROVE  TransferInv'
<1>1. CASE Main
  BY <1>1, MainTransfers DEF Maining
<1>2. CASE Handler
  BY <1>2, HandlerTransfers DEF Handling
<1>3. CASE Host
  BY <1>3, HostTransfers DEF Hosting
<1>4. CASE UNCHANGED vars
  BY <1>4, TransferSame
<1> QED  BY <1>1, <1>2, <1>3, <1>4 DEF Next

(* The invariant holds always, for a host that is patient and asks what is *)
(* known.                                                                  *)
LEMMA TransferInvariant ==
  ASSUME MAXP <= DEPTH PROVE Spec => [](Informed => TransferInv)
<1>1. Init => (Informed => TransferInv)
  BY TransferInit
<1>2. /\ SystemInv /\ (Patient => PatientInv) /\ (Informed => TransferInv) /\ [Next]_vars
      => (Informed => TransferInv)'
  <2> SUFFICES ASSUME SystemInv, Patient => PatientInv, Informed => TransferInv, [Next]_vars, Informed'
               PROVE  TransferInv'
    OBVIOUS
  <2>1. scenario' = scenario
    BY DEF Next, Main, Handler, Host, vars
  <2>2. Informed
    BY <2>1 DEF Informed, Patient, now
  <2> QED  BY <2>2, TransferNext DEF Informed
<1> QED  BY <1>1, <1>2, SystemInvariant, PatientInvariant, PTL DEF Spec

(* Host and device mean the same address whenever the host may begin a     *)
(* transaction: SET_ADDRESS takes effect at both with the same packet, and *)
(* a bus reset takes it back at both, wherever the program is with the     *)
(* transfer that the reset ends.                                           *)
THEOREM TransferAddressAgreed ==
  ASSUME MAXP <= DEPTH PROVE Spec => [](Informed => AddressAgreed)
<1>1. (Informed => TransferInv) => (Informed => AddressAgreed)
  BY DEF TransferInv
<1> QED  BY <1>1, TransferInvariant, PTL

(* When the program is back in its loop and no transfer is under way, what *)
(* it remembers is what the host knows of the device: a request is carried *)
(* out once or not at all, also one that a bus reset ends halfway, of which*)
(* the host has not heard.                                                 *)
THEOREM TransferMemoryAgrees ==
  ASSUME MAXP <= DEPTH PROVE Spec => [](Informed => MemoryAgrees)
<1>1. SystemInv /\ (Patient => PatientInv) /\ (Informed => TransferInv) => (Informed => MemoryAgrees)
  <2> SUFFICES ASSUME SystemInv, PatientInv, Informed, TransferInv, Program!resting, ~inTransfer
               PROVE  [configured |-> configured, wake |-> remote_wake_enabled,
                       halted |-> endpoint_stalled \ {0}, line |-> line_coding] \in hfuncs
    BY DEF MemoryAgrees, Informed
  <2>1. Program!waiting /\ fpc = "idle"
    BY DEF Program!waiting, Program!resting
  <2>2. ~intr_reset_r /\ ~came
    BY <2>1, WaitingAt
  <2>3. Place
    BY DEF TransferInv
  <2>4. AtRest \/ Lost \/ Collecting \/ Stated \/ Refusing \/ SetupTaken \/ Taking \/ Refused
    BY <2>1, <2>2, <2>3, PlacesAt
  <2>5. ~SetupTaken /\ ~Taking /\ ~Refused
    BY <2>1, <2>2 DEF SetupTaken, Taking, Refused
  <2>6. ~Lost /\ ~Collecting /\ ~Stated /\ ~Refusing
    BY DEF Lost, Awaits, Collecting, Stated, Refusing, inTransfer
  <2>7. memory \in hfuncs
    BY <2>4, <2>5, <2>6 DEF AtRest, Knows
  <2> QED  BY <2>7 DEF memory, Func
<1> QED  BY <1>1, SystemInvariant, PatientInvariant, TransferInvariant, PTL

(* A bus reset, wherever in a transfer the program is, costs the host at   *)
(* most one request, and nothing else does: if it writes in more than one  *)
(* packet or not at all, no request is left without an answer.             *)
THEOREM TransferRecovers ==
  ASSUME MAXP <= DEPTH PROVE Spec => [](Informed /\ NoOnePacket => Recovers)
<1>1. (Informed => TransferInv) => (Informed /\ NoOnePacket => Recovers)
  BY DEF TransferInv, AskedOK, Recovers
<1> QED  BY <1>1, TransferInvariant, PTL

-----------------------------------------------------------------------------
(* The refinement: what the host does is a step of UsbFunction or nothing  *)
(* to it, what the device and the program do is nothing to it.             *)
fphase == IF inTransfer THEN "asked" ELSE hstage
fdata  == IF hstage = "done" /\ dirIn(asked) THEN hdata ELSE << >>
fvars  == <<fphase, hreq, fdata, hfuncs>>

(* The program answers what the function it remembers would. *)
LEMMA FunctionAnswers ==
  ASSUME NEW q, MayRead(q), answerTo(q) = "send", NEW c, NEW w, NEW st, NEW line
  PROVE  Function!Answer(q, Func(c, w, st \ {0}, line)) = Program!reply(q, c, w, st, line)
<1> DEFINE P == Program!reply(q, c, w, st, line)
           F == Function!reply(q, c, w, st \ {0}, line)
<1>1. Function!Answer(q, Func(c, w, st \ {0}, line)) = F
  BY DEF Function!Answer, Func
<1> HIDE DEF P, F
<1>2. /\ Program!recipient(q) = recipient(q) /\ Function!recipient(q) = recipient(q)
      /\ Program!endpointOf(q) = endpointOf(q) /\ Function!endpointOf(q) = endpointOf(q)
      /\ \A r : /\ Program!Standard(q, r) <=> Standard(q, r)
                /\ Program!Class(q, r) <=> Class(q, r)
                /\ Function!Standard(q, r) <=> Standard(q, r)
                /\ Function!Class(q, r) <=> Class(q, r)
  BY ProgramReads, FunctionReads
<1>3. \/ /\ Standard(q, REQ_GET_STATUS)
         /\ recipient(q) \in {"device", "interface", "endpoint"}
      \/ Standard(q, REQ_GET_DESCRIPTOR)
      \/ Standard(q, REQ_GET_CONFIGURATION)
      \/ Class(q, CDC_GET_LINE_CODING)
  <2>1. Program!answerTo(q) = "send"
    BY ProgramAnswers
  <2> QED  BY <1>2, <2>1, SendKinds DEF Program!REQ_GET_STATUS, REQ_GET_STATUS,
     Program!REQ_GET_DESCRIPTOR, REQ_GET_DESCRIPTOR,
     Program!REQ_GET_CONFIGURATION, REQ_GET_CONFIGURATION,
     Program!CDC_GET_LINE_CODING, CDC_GET_LINE_CODING
<1>4. /\ Standard(q, REQ_GET_STATUS) => ~Standard(q, REQ_GET_DESCRIPTOR)
                /\ ~Standard(q, REQ_GET_CONFIGURATION) /\ ~Class(q, CDC_GET_LINE_CODING)
      /\ Standard(q, REQ_GET_DESCRIPTOR) => /\ ~Standard(q, REQ_GET_CONFIGURATION)
                                            /\ ~Class(q, CDC_GET_LINE_CODING)
      /\ Standard(q, REQ_GET_CONFIGURATION) => ~Class(q, CDC_GET_LINE_CODING)
  BY Exclusive DEF REQ_GET_STATUS, REQ_GET_DESCRIPTOR, REQ_GET_CONFIGURATION
<1>5. \A n, b : Program!byteOf(n) = Function!byteOf(n) /\ Program!bit(b) = Function!bit(b)
  BY DEF Program!byteOf, Function!byteOf, Program!bit, Function!bit
<1>6. Program!usb_is_bus_powered = Function!usb_is_bus_powered
  BY DEF Program!usb_is_bus_powered, Function!usb_is_bus_powered
<1> USE DEF Program!REQ_GET_STATUS, REQ_GET_STATUS, Program!REQ_GET_DESCRIPTOR, REQ_GET_DESCRIPTOR,
     Program!REQ_GET_CONFIGURATION, REQ_GET_CONFIGURATION,
     Program!CDC_GET_LINE_CODING, CDC_GET_LINE_CODING,
     Function!REQ_GET_STATUS, Function!REQ_GET_DESCRIPTOR, Function!REQ_GET_CONFIGURATION,
     Function!CDC_GET_LINE_CODING
<1>7. CASE Standard(q, REQ_GET_STATUS) /\ recipient(q) = "device"
  <2>1. P = <<Program!byteOf(Program!bit(~Program!usb_is_bus_powered) + 2 * Program!bit(w)), "0">>
    BY <1>2, <1>4, <1>7 DEF Program!reply, P
  <2>2. F = <<Function!byteOf(Function!bit(~Function!usb_is_bus_powered) + 2 * Function!bit(w)), "0">>
    BY <1>2, <1>4, <1>7 DEF Function!reply, F
  <2> QED  BY <1>1, <1>5, <1>6, <2>1, <2>2 DEF P
<1>8. CASE Standard(q, REQ_GET_STATUS) /\ recipient(q) = "interface"
  <2>1. P = <<"0", "0">>
    BY <1>2, <1>4, <1>8 DEF Program!reply, P
  <2>2. F = <<"0", "0">>
    BY <1>2, <1>4, <1>8 DEF Function!reply, F
  <2> QED  BY <1>1, <2>1, <2>2 DEF P
<1>9. CASE Standard(q, REQ_GET_STATUS) /\ recipient(q) = "endpoint"
  <2>1. P = <<Program!byteOf(Program!bit(endpointOf(q) \in st)), "0">>
    BY <1>2, <1>4, <1>9 DEF Program!reply, P
  <2>2. F = <<Function!byteOf(Function!bit(endpointOf(q) \in st \ {0})), "0">>
    BY <1>2, <1>4, <1>9 DEF Function!reply, F
  <2>3. (endpointOf(q) \in st \ {0}) = (endpointOf(q) \in st)
    BY <1>9 DEF MayRead
  <2> QED  BY <1>1, <1>5, <2>1, <2>2, <2>3 DEF P
<1>10. CASE Standard(q, REQ_GET_DESCRIPTOR)
  <2>1. Program!descriptorOf(q) = Function!descriptorOf(q)
    BY DEF Program!descriptorOf, Function!descriptorOf, Program!HI_BYTE, Function!HI_BYTE,
       Program!LO_BYTE, Function!LO_BYTE, Program!DESC_DEVICE, Function!DESC_DEVICE,
       Program!DESC_CONFIGURATION, Function!DESC_CONFIGURATION,
       Program!DESC_STRING, Function!DESC_STRING
  <2> DEFINE d == Descriptor[Program!descriptorOf(q)]
  <2>2. P = SubSeq(d, 1, MIN(Len(d), q.wLength))
    BY <1>2, <1>4, <1>10 DEF Program!reply, Program!MIN, MIN, P
  <2>3. F = SubSeq(d, 1, MIN(Len(d), q.wLength))
    BY <1>2, <1>4, <1>10, <2>1 DEF Function!reply, Function!MIN, MIN, F
  <2> QED  BY <1>1, <2>2, <2>3 DEF P
<1>11. CASE Standard(q, REQ_GET_CONFIGURATION)
  <2>1. P = <<Program!byteOf(c)>>
    BY <1>2, <1>4, <1>11 DEF Program!reply, P
  <2>2. F = <<Function!byteOf(c)>>
    BY <1>2, <1>4, <1>11 DEF Function!reply, F
  <2> QED  BY <1>1, <1>5, <2>1, <2>2 DEF P
<1>12. CASE Class(q, CDC_GET_LINE_CODING)
  <2>1. P = line
    BY <1>2, <1>4, <1>12 DEF Program!reply, P
  <2>2. F = line
    BY <1>2, <1>4, <1>12 DEF Function!reply, F
  <2> QED  BY <1>1, <2>1, <2>2 DEF P
<1> QED  BY <1>3, <1>7, <1>8, <1>9, <1>10, <1>11, <1>12

(* When the host acknowledges an answer it has the whole of it, and it is  *)
(* the answer of one of the functions that the device may be.              *)
LEMMA ThankingAnswer ==
  ASSUME Hosting, Thanking
  PROVE  \E f \in hfuncs : hdata = Function!Answer(asked, f)
<1> USE HostFacts
<1>1. /\ inTransfer /\ request = hreq /\ reading /\ answerTo(asked) = "send" /\ Knows
      /\ Part(hdata, Program!answer, 0) /\ Len(hdata) = Len(Program!answer)
  BY DEF Thanking, Replying, inTransfer
<1>2. Program!answer \in Seq(Payload) /\ Program!req = asked /\ MayRead(asked)
  BY <1>1, Answers DEF Hosting
<1>3. hdata \in Seq(Payload)
  BY AskedIs
<1>4. hdata = Program!answer
  <2>1. Part(Program!answer, Program!answer, 0)
    BY <1>2, PartSelf
  <2> QED  BY <1>1, <1>2, <1>3, <2>1, PartWhole
<1>5. Program!answer = Function!Answer(asked, memory)
  BY <1>1, <1>2, FunctionAnswers DEF Program!answer, memory
<1> QED  BY <1>1, <1>4, <1>5 DEF Knows

-----------------------------------------------------------------------------
(* The four kinds of steps. *)
LEMMA FunctionSilent ==
  ASSUME hreq' = hreq, hfuncs' = hfuncs,
         (inTransfer /\ inTransfer') \/ UNCHANGED host
  PROVE  UNCHANGED fvars
<1>1. CASE inTransfer /\ inTransfer'
  <2>1. fphase' = fphase
    BY <1>1 DEF fphase
  <2>2. fdata = << >> /\ fdata' = << >>
    BY <1>1 DEF fdata, inTransfer
  <2> QED  BY <2>1, <2>2 DEF fvars
<1>2. CASE UNCHANGED host
  BY <1>2 DEF host, fvars, fphase, fdata, inTransfer, asked
<1> QED  BY <1>1, <1>2

(* The host hears of a stall, gives up, or resets the bus. *)
LEMMA FunctionFails ==
  ASSUME inTransfer, hreq' = hreq, hstage' = "failed",
         hfuncs' = hfuncs \/ hfuncs' = hfuncs \cup Function!Effects(asked, hfuncs)
  PROVE  Function!Fail
<1>1. ~inTransfer'
  BY DEF inTransfer
<1>2. fphase = "asked" /\ fphase' = "failed"
  BY <1>1 DEF fphase
<1>3. fdata = << >> /\ fdata' = << >>
  BY DEF fdata, inTransfer
<1> QED  BY <1>2, <1>3 DEF Function!Fail, fphase, fdata, asked

(* The host learns that the request has been carried out. *)
LEMMA FunctionSucceeds ==
  ASSUME inTransfer, hreq' = hreq, hstage' = "done", hfuncs' = Function!Effects(asked, hfuncs),
         dirIn(asked) => \E f \in hfuncs : hdata' = Function!Answer(asked, f)
  PROVE  Function!Succeed
<1>1. ~inTransfer'
  BY DEF inTransfer
<1>2. fphase = "asked" /\ fphase' = "done"
  BY <1>1 DEF fphase
<1>3. asked' = asked
  BY DEF asked
<1>4. fdata' = IF dirIn(asked) THEN hdata' ELSE << >>
  BY <1>3 DEF fdata
<1>5. IF Function!dirIn(asked) THEN \E f \in hfuncs : fdata' = Function!Answer(asked, f)
                               ELSE fdata' = << >>
  BY <1>4, FunctionReads
<1> QED  BY <1>2, <1>5 DEF Function!Succeed, fphase, fdata, asked

(* The host goes on with a request, and learns nothing of it. *)
LEMMA FunctionHears ==
  ASSUME inTransfer, HearsStall, NEW g \in BOOLEAN, KeepsScore(g)
  PROVE  Function!Fail
<1>1. hstage' = "failed" /\ hreq' = hreq
  BY DEF HearsStall
<1>2. hfuncs' = hfuncs \/ hfuncs' = hfuncs \cup Function!Effects(asked, hfuncs)
  BY <1>1 DEF KeepsScore
<1> QED  BY <1>1, <1>2, FunctionFails

-----------------------------------------------------------------------------
(* Every step of the host. *)
FunctionStep == Function!Next \/ UNCHANGED fvars

(* A step of the host as a step of the function: a request ... *)
LEMMA FunctionAsks == ASSUME Hosting, HostAsks PROVE FunctionStep
<1> USE HostFacts
<1>1. PICK r \in askable : Asks(r)
  BY DEF HostAsks
<1>2. /\ ~inTransfer /\ hreq' = r /\ hstage' = "setup" /\ hfuncs' = hfuncs
  BY <1>1 DEF Asks, HostAsks, counts
<1>3. r \in DOMAIN Request
  <2>1. scenario \in DOMAIN Scenario
    BY DEF HostOK
  <2> QED  BY <2>1, SystemAssumption DEF askable, now
<1>4. inTransfer'
  BY <1>2 DEF inTransfer
<1>5. fphase # "asked" /\ fphase' = "asked"
  BY <1>2, <1>4 DEF fphase, HostOK, Stage, inTransfer
<1>6. fdata' = << >>
  BY <1>2 DEF fdata
<1>7. Function!Ask
  BY <1>2, <1>3, <1>5, <1>6 DEF Function!Ask, fphase, fdata
<1> QED  BY <1>7 DEF FunctionStep, Function!Next

(* ... a packet it sends ... *)
LEMMA FunctionHostData == ASSUME Hosting, HostData, MAXP <= DEPTH PROVE FunctionStep
<1> USE HostFacts, DataFacts
<1>1. handshake(StageTr) \in {"ACK", "STALL"}
  OBVIOUS
<1>2. CASE handshake(StageTr) = "STALL"
  <2>1. HearsStall /\ KeepsScore(FALSE)
    BY <1>2 DEF HostData
  <2> QED  BY <2>1, FunctionHears DEF FunctionStep, Function!Next
<1>3. CASE handshake(StageTr) = "ACK"
  <2>1. HearsAck /\ ~stall0
    BY <1>3
  <2>2. hreq' = hreq
    BY <2>1 DEF HearsAck
  <2>3. CASE hstage \in {"setup", "data"}
    <3>1. hstage' \in {"data", "status"}
      BY <2>1, <2>3 DEF HearsAck
    <3>2. inTransfer'
      BY <3>1 DEF inTransfer
    <3>3. hfuncs' = hfuncs
      BY <3>1
    <3> QED  BY <2>2, <3>2, <3>3, FunctionSilent DEF FunctionStep
  <2>4. CASE hstage = "status"
    <3>1. Thanking
      <4>1. ~Collecting
        BY <2>4 DEF Collecting
      <4>2. ~Refusing
        BY <2>1 DEF Refusing
      <4> QED  BY <2>4, <4>1, <4>2
    <3>2. hstage' = "done" /\ hdata' = hdata
      BY <2>1, <2>4 DEF HearsAck
    <3>3. hfuncs' = Function!Effects(asked, hfuncs)
      BY <3>2
    <3>4. \E f \in hfuncs : hdata' = Function!Answer(asked, f)
      BY <3>1, <3>2, ThankingAnswer
    <3> QED  BY <2>2, <3>2, <3>3, <3>4, FunctionSucceeds DEF FunctionStep, Function!Next
  <2> QED  BY <2>3, <2>4 DEF inTransfer
<1> QED  BY <1>1, <1>2, <1>3

(* ... a packet it fetches ... *)
LEMMA FunctionHostIn == ASSUME Hosting, HostIn PROVE FunctionStep
<1> USE HostFacts, InFacts
<1>1. /\ inTransfer
      /\ CASE isData /\ ~tooLong -> HearsData(inAnswer(StageTr), inData(StageTr))
           [] inAnswer(StageTr) = "STALL" \/ (isData /\ tooLong) -> HearsStall
           [] OTHER -> UNCHANGED host
      /\ KeepsScore(isData /\ tooLong)
  BY DEF HostIn, isData
<1>2. CASE isData /\ ~tooLong
  <2>1. HearsData(inAnswer(StageTr), inData(StageTr))
    BY <1>1, <1>2
  <2>2. hreq' = hreq
    BY <2>1 DEF HearsData
  <2>3. hfuncs' = IF hstage' = "done" THEN Function!Effects(asked, hfuncs) ELSE hfuncs
    BY <1>1, <1>2 DEF KeepsScore
  <2>4. CASE hstage' = hstage \/ hstage' \in {"data", "status"}
    <3>1. inTransfer'
      BY <1>1, <2>4 DEF inTransfer
    <3>2. hfuncs' = hfuncs
      BY <1>1, <2>3, <2>4 DEF inTransfer
    <3> QED  BY <2>2, <3>1, <3>2, FunctionSilent DEF FunctionStep
  <2>5. CASE hstage' = "done"
    <3>1. hstage = "status"
      <4>1. hstage \in {"data", "status"}
        BY DEF Awaits
      <4> QED  BY <1>1, <2>1, <2>5, <4>1 DEF HearsData
    <3>2. ~reading
      BY <3>1 DEF Awaits
    <3>3. ~dirIn(asked)
      <4>1. Known(asked) /\ asked.wLength \in Nat
        BY AskedIs
      <4> QED  BY <3>2, <4>1 DEF Known, MayRead, reading
    <3> QED  BY <2>2, <2>3, <2>5, <3>3, FunctionSucceeds DEF FunctionStep, Function!Next
  <2> QED  BY <2>1, <2>4, <2>5 DEF HearsData
<1>3. CASE ~(isData /\ ~tooLong) /\ (inAnswer(StageTr) = "STALL" \/ (isData /\ tooLong))
  <2>1. HearsStall
    BY <1>1, <1>3
  <2>2. (isData /\ tooLong) \in BOOLEAN
    BY DEF isData, tooLong
  <2> QED  BY <1>1, <2>1, <2>2, FunctionHears DEF FunctionStep, Function!Next
<1>4. CASE ~(isData /\ ~tooLong) /\ ~(inAnswer(StageTr) = "STALL" \/ (isData /\ tooLong))
  <2>1. UNCHANGED host
    BY <1>1, <1>4
  <2>2. hreq' = hreq /\ hstage' = hstage
    BY <2>1 DEF host
  <2>3. hfuncs' = hfuncs
    BY <1>1, <1>4, <2>2 DEF KeepsScore, inTransfer
  <2> QED  BY <2>1, <2>2, <2>3, FunctionSilent DEF FunctionStep
<1> QED  BY <1>2, <1>3, <1>4

(* ... a reset of the bus ... *)
LEMMA FunctionResets == ASSUME Hosting, HostResets PROVE FunctionStep
<1> USE HostFacts
<1>1. /\ hstage' = "failed" /\ hreq' = hreq
      /\ hfuncs' = Function!Reset(hfuncs \cup
                      IF inTransfer THEN Function!Effects(asked, hfuncs) ELSE {})
  BY DEF HostResets, Forgets
<1>2. ~inTransfer'
  BY <1>1 DEF inTransfer
<1>3. fphase' = "failed" /\ fdata' = << >>
  BY <1>1, <1>2 DEF fphase, fdata
<1>4. fphase = "asked" <=> inTransfer
  BY DEF fphase, HostOK, Stage, inTransfer
<1>5. Function!ResetBus
  BY <1>1, <1>3, <1>4 DEF Function!ResetBus, fphase, fdata, asked
<1> QED  BY <1>5 DEF FunctionStep, Function!Next

(* ... and every step of it. *)
LEMMA FunctionHost == ASSUME Hosting, MAXP <= DEPTH PROVE FunctionStep
<1>1. CASE HostAbandons
  <2>1. inTransfer /\ HearsStall /\ KeepsScore(TRUE)
    BY <1>1 DEF HostAbandons
  <2> QED  BY <2>1, FunctionHears DEF FunctionStep, Function!Next
<1>2. CASE HostToken \/ HostPings \/ HostPingData \/ HostPongs
  <2>1. UNCHANGED host /\ hfuncs' = hfuncs
    BY <1>2 DEF HostToken, HostPings, HostPingData, HostPongs, counts
  <2>2. hreq' = hreq
    BY <2>1 DEF host
  <2> QED  BY <2>1, <2>2, FunctionSilent DEF FunctionStep
<1>3. Host
  BY DEF Hosting
<1> QED  BY <1>1, <1>2, <1>3, FunctionAsks, FunctionHostData, FunctionHostIn, FunctionResets DEF Host

-----------------------------------------------------------------------------
(* At the start the function is new and nothing has been asked. *)
LEMMA FunctionInit == Init => Function!Init
<1> SUFFICES ASSUME Init PROVE Function!Init
  OBVIOUS
<1>1. hstage = "failed" /\ hreq \in DOMAIN Request /\ hfuncs = {new}
  BY DEF Init, HostInit
<1>2. fphase = "failed" /\ fdata = << >>
  BY <1>1 DEF fphase, fdata, inTransfer
<1> QED  BY <1>1, <1>2 DEF Function!Init, fphase, fdata

(* Every step of the system is one of the function, or none. *)
LEMMA FunctionNext ==
  ASSUME SystemInv, PatientInv, Informed, TransferInv, [Next]_vars, MAXP <= DEPTH
  PROVE  FunctionStep
<1>1. CASE Main \/ Handler \/ UNCHANGED vars
  <2>1. UNCHANGED host /\ hfuncs' = hfuncs
    BY <1>1 DEF Main, Handler, vars, counts
  <2>2. hreq' = hreq
    BY <2>1 DEF host
  <2> QED  BY <2>1, <2>2, FunctionSilent DEF FunctionStep
<1>2. CASE Host
  BY <1>2, FunctionHost DEF Hosting
<1> QED  BY <1>1, <1>2 DEF Next

(* What the host reads is what it has written, through every bus reset:    *)
(* every transfer is a read or a write of the function at one moment, or   *)
(* is carried out or not when the host does not hear of it.                *)
THEOREM TransfersImplementFunction ==
  ASSUME MAXP <= DEPTH PROVE Spec /\ Informed => ImplementsFunction
<1>1. Informed /\ [Next]_vars => Informed'
  <2> SUFFICES ASSUME Informed, [Next]_vars PROVE Informed'
    OBVIOUS
  <2>1. scenario' = scenario
    BY DEF Next, Main, Handler, Host, vars
  <2> QED  BY <2>1 DEF Informed, Patient, now
<1>2. SystemInv /\ (Patient => PatientInv) /\ (Informed => TransferInv) /\ Informed /\ [Next]_vars
      => [Function!Next]_fvars
  <2> SUFFICES ASSUME SystemInv, Patient => PatientInv, Informed => TransferInv, Informed, [Next]_vars
               PROVE  FunctionStep
    BY DEF FunctionStep
  <2>1. PatientInv /\ TransferInv
    BY DEF Informed
  <2> QED  BY <2>1, FunctionNext
<1> QED  BY <1>1, <1>2, FunctionInit, SystemInvariant, PatientInvariant, TransferInvariant, PTL
         DEF Spec, ImplementsFunction, Function!Spec, fvars, fphase, fdata
=============================================================================
