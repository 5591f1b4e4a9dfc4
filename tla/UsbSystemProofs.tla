-------------------------- MODULE UsbSystemProofs --------------------------
(***************************************************************************)
(* Whatever the host asks, whenever it resets the bus, and however long    *)
(* the packets of endpoint 0 are: the registers and FIFOs of the device,   *)
(* and the variables of the program, keep to their types and limits.       *)
(*                                                                         *)
(* The limits are the point.  Nothing the program writes is outside its    *)
(* arrays: data_buffer, rx_packet_buf, line_coding; what it sends is not   *)
(* longer than the answer.  So the invariant says, for each place in the   *)
(* handler and in main, what the code may rely on there: what is left to   *)
(* copy, what is left to send, which request is being answered.            *)
(*                                                                         *)
(* For a host that is patient the second part says more: the program reads *)
(* only what has come.                                                     *)
(***************************************************************************)
EXTENDS UsbSystem, SequenceTheorems, TLAPS

-----------------------------------------------------------------------------
(* What the program may write, and where. *)
Legal(c) ==
  /\ c.op \in {"start", "flush_start"} => c.arg \in Nat /\ (c.ep = 0 => c.arg <= MAXP)
  /\ c.op = "write" => c.arg \in Payload
  /\ c.op = "cfg" => c.arg \in EPx_CFG
  /\ c.op = "ctrl" => c.arg \in FUNC_CTRL
  /\ c.op = "addr" => c.arg \in Dev
  /\ c.op = "stat" => c.rst \in BOOLEAN

(* What it writes when it starts and after a reset of the bus. *)
Flushes == [op : {"tx_flush", "rx_flush"}, ep : 0 .. 2]
             \cup [op : {"stat"}, ep : {0}, rst : {TRUE}]
Writes  == Flushes \cup [op : {"cfg"}, ep : 0 .. 2, arg : {d \in EPx_CFG : d.int_rx}]
                   \cup [op : {"ctrl"}, ep : {0}, arg : FUNC_CTRL]

Token == [ep : EP, room : BOOLEAN, open : BOOLEAN, valid : BOOLEAN]

(* The registers, and what the core remembers of the last token. *)
DeviceOK ==
  /\ DeviceTypeOK
  /\ rx_fifo \in [EP -> Seq(Payload)] /\ tx_fifo \in [EP -> Seq(Payload)]
  /\ token \in Token /\ tx_len_q[0] <= MAXP
  /\ int_en_rst_r \in BOOLEAN /\ phy_termselect_r \in BOOLEAN /\ intr_reset_r \in BOOLEAN

Stage == {"setup", "data", "status", "done", "failed"}

(* Only a data packet that the host has still to send has had its token.   *)
HostOK ==
  /\ scenario \in DOMAIN Scenario /\ hreq \in DOMAIN Request /\ hstage \in Stage
  /\ hdata \in Seq(Payload) /\ hsent \in 0 .. Len(now.echo) /\ hback \in Seq(Seq(Payload))
  /\ token.valid /\ token.ep = 0 => inTransfer
  /\ token.valid /\ token.ep = 1 => hsent < Len(now.echo)

StartPc   == {"startUp", "flush"}
TxPc      == {"txPoll", "txWrite"}
MainPc    == StartPc \cup TxPc \cup {"enable", "loop", "txCall", "txStart", "txDone"}

(* main sends what openusb_rx_data gave it, which rx_packet_buf can hold.  *)
MainOK ==
  /\ mpc \in MainPc
  /\ mwrites \in Seq(Writes) /\ (mpc \in StartPc => mwrites # << >>)
  /\ mlen \in 0 .. Len(Buffer0) /\ mcnt \in Nat /\ (mpc \in TxPc => mcnt < mlen)

EchoOK ==
  /\ ep1_rx_len \in 0 .. Len(Buffer0)
  /\ rx_packet_buf \in Seq(Payload) /\ Len(rx_packet_buf) = Len(Buffer0)

ReadPc   == {"setupRead", "outRead"}
PacketPc == {"sendPoll", "sendWrite"}
SendPc   == PacketPc \cup {"sendStart", "sendSpin"}
FwPc     == ReadPc \cup SendPc \cup
            {"idle", "intsts", "reset", "service", "clear", "stat", "ep1Count", "ep1Read",
             "setupCount", "outCount", "address", "status", "statusSpin", "halt", "stall",
             "mask", "sendAck", "sendAccept", "unmask"}

(* The static variables: openusb_device.c and openusb_cdc.c.               *)
StaticOK ==
  /\ configured \in {0, 1} /\ remote_wake_enabled \in BOOLEAN /\ endpoint_stalled \subseteq EP
  /\ line_coding \in Seq(Payload) /\ Len(line_coding) = Len(Line0)

(* The control transfer: where its data goes, and what of it is sent.      *)
XferOK ==
  /\ request \in DOMAIN Request
  /\ data_buffer \in Seq(Payload) /\ Len(data_buffer) = MAXDATA /\ data_idx \in 0 .. MAXDATA
  /\ fbuf \in Seq(Payload) /\ fcnt \in Nat /\ send \in 0 .. MAXP

(* What the handler may rely on where it is. *)
HandlerOK ==
  /\ fpc \in FwPc
  /\ fwrites \in Seq(Writes) /\ (fpc = "reset" => fwrites # << >>)
  /\ ep_intsts \in EP_INTSTS(EP)
  /\ fpc \in ReadPc => Len(fbuf) <= fcnt
  /\ fpc = "outRead" => data_idx + fcnt <= MAXDATA
  /\ fpc \in {"ep1Count", "ep1Read"} => 1 \in EP
  /\ fpc = "ep1Read" => fcnt <= ep1_rx_len
  /\ fpc \in PacketPc => fbuf # << >>
  /\ fpc \in SendPc \cup {"mask"} => Program!answerTo(Program!req) = "send"
  /\ fpc \in PacketPc \cup {"sendStart"} => fcnt + send <= Len(Program!answer)
  /\ fpc = "sendSpin" => fcnt <= Len(Program!answer)
  /\ fpc = "address" => Program!answerTo(Program!req) = "address"
  /\ fpc = "halt" => Program!setsStall(Program!req) \/ Program!clearsStall(Program!req)

ProgramOK == MainOK /\ EchoOK /\ StaticOK /\ XferOK /\ HandlerOK

SystemInv == DeviceOK /\ HostOK /\ ProgramOK

-----------------------------------------------------------------------------
(* The device. *)
LEMMA PutType == \A S, f, i, v : f \in [EP -> S] /\ v \in S => Put(f, i, v) \in [EP -> S]
BY DEF Put

LEMMA PutAt == \A f, i, v : DOMAIN f = EP =>
                 \A j \in EP : Put(f, i, v)[j] = IF i = j THEN v ELSE f[j]
BY DEF Put

LEMMA EmptyType == \A S : << >> \in Seq(S) /\ Len(<< >>) = 0
OBVIOUS

LEMMA TailType == \A S : \A s \in Seq(S) : s # << >> =>
                    /\ Tail(s) \in Seq(S) /\ Len(Tail(s)) = Len(s) - 1 /\ Head(s) \in S
                    /\ Len(s) \in Nat /\ Len(s) > 0
OBVIOUS

LEMMA AppendType == \A S : \A s \in Seq(S) : \A v \in S :
                      Append(s, v) \in Seq(S) /\ Len(Append(s, v)) = Len(s) + 1 /\ Len(s) \in Nat
OBVIOUS

LEMMA DeviceTypes ==
  DeviceOK <=>
    /\ current_addr_q \in Dev /\ func_addr_r \in Dev
    /\ ep_data_bit_q \in [EP -> BOOLEAN] /\ rx_ready_q \in [EP -> BOOLEAN]
    /\ rx_setup_q \in [EP -> BOOLEAN] /\ tx_active_q \in [EP -> BOOLEAN]
    /\ ep_cfg_int_rx_r \in [EP -> BOOLEAN] /\ ep_cfg_int_tx_r \in [EP -> BOOLEAN]
    /\ ep_cfg_stall_ep_r \in [EP -> BOOLEAN]
    /\ intr_ep_rx_ready_r \in [EP -> BOOLEAN] /\ intr_ep_tx_complete_r \in [EP -> BOOLEAN]
    /\ rx_len_q \in [EP -> Nat] /\ tx_len_q \in [EP -> Nat] /\ tx_len_q[0] <= MAXP
    /\ rx_fifo \in [EP -> Seq(Payload)] /\ tx_fifo \in [EP -> Seq(Payload)]
    /\ \A i \in EP : Len(rx_fifo[i]) <= DEPTH
    /\ \A i \in EP : Len(tx_fifo[i]) <= DEPTH
    /\ token \in Token
    /\ int_en_rst_r \in BOOLEAN /\ phy_termselect_r \in BOOLEAN /\ intr_reset_r \in BOOLEAN
BY DEF DeviceOK, DeviceTypeOK

LEMMA DeviceTypesAfter ==
  /\ current_addr_q' \in Dev /\ func_addr_r' \in Dev
  /\ ep_data_bit_q' \in [EP -> BOOLEAN] /\ rx_ready_q' \in [EP -> BOOLEAN]
  /\ rx_setup_q' \in [EP -> BOOLEAN] /\ tx_active_q' \in [EP -> BOOLEAN]
  /\ ep_cfg_int_rx_r' \in [EP -> BOOLEAN] /\ ep_cfg_int_tx_r' \in [EP -> BOOLEAN]
  /\ ep_cfg_stall_ep_r' \in [EP -> BOOLEAN]
  /\ intr_ep_rx_ready_r' \in [EP -> BOOLEAN] /\ intr_ep_tx_complete_r' \in [EP -> BOOLEAN]
  /\ rx_len_q' \in [EP -> Nat] /\ tx_len_q' \in [EP -> Nat] /\ tx_len_q'[0] <= MAXP
  /\ rx_fifo' \in [EP -> Seq(Payload)] /\ tx_fifo' \in [EP -> Seq(Payload)]
  /\ (\A i \in EP : Len(rx_fifo'[i]) <= DEPTH)
  /\ (\A i \in EP : Len(tx_fifo'[i]) <= DEPTH)
  /\ token' \in Token
  /\ int_en_rst_r' \in BOOLEAN /\ phy_termselect_r' \in BOOLEAN /\ intr_reset_r' \in BOOLEAN
  => DeviceOK'
BY DEF DeviceOK, DeviceTypeOK

LEMMA CpuRxType ==
  ASSUME DeviceOK, NEW c, CpuRx(c)
  PROVE  /\ rx_ready_q' \in [EP -> BOOLEAN] /\ rx_setup_q' \in [EP -> BOOLEAN]
         /\ rx_len_q' \in [EP -> Nat]
         /\ rx_fifo' \in [EP -> Seq(Payload)] /\ \A i \in EP : Len(rx_fifo'[i]) <= DEPTH
<1> USE TransactionsAssumption, DeviceTypes
<1>1. CASE c.op = "accept"
  BY <1>1 DEF CpuRx, Accepted, Put
<1>2. CASE c.op = "read" /\ rx_fifo[c.ep] # << >>
  <2>1. /\ rx_fifo' = Put(rx_fifo, c.ep, Tail(rx_fifo[c.ep]))
        /\ UNCHANGED <<rx_ready_q, rx_len_q, rx_setup_q>>
    BY <1>2 DEF CpuRx
  <2>2. ASSUME NEW i \in EP
        PROVE  rx_fifo'[i] \in Seq(Payload) /\ Len(rx_fifo'[i]) <= DEPTH
    <3>1. Len(rx_fifo[i]) \in Nat
      OBVIOUS
    <3>2. CASE i = c.ep
      <4>1. rx_fifo'[i] = Tail(rx_fifo[i])
        BY <2>1, <3>2 DEF Put
      <4>2. Tail(rx_fifo[i]) \in Seq(Payload) /\ Len(Tail(rx_fifo[i])) = Len(rx_fifo[i]) - 1
        BY <1>2, <3>2, TailType
      <4> QED  BY <3>1, <4>1, <4>2
    <3>3. CASE i # c.ep
      BY <2>1, <3>3 DEF Put
    <3> QED  BY <3>2, <3>3
  <2>3. rx_fifo' = [i \in EP |-> rx_fifo'[i]]
    BY <2>1 DEF Put
  <2> QED  BY <2>1, <2>2, <2>3
<1>3. CASE c.op = "rx_flush"
  <2>1. rx_fifo' = Put(rx_fifo, c.ep, << >>) /\ UNCHANGED <<rx_ready_q, rx_len_q, rx_setup_q>>
    BY <1>3 DEF CpuRx
  <2>2. rx_fifo' \in [EP -> Seq(Payload)]
    BY <2>1, EmptyType, PutType
  <2>3. \A i \in EP : Len(rx_fifo'[i]) <= DEPTH
    BY <2>1, EmptyType, PutAt
  <2> QED  BY <2>1, <2>2, <2>3
<1>4. CASE c.op \notin {"accept", "rx_flush"} /\ ~(c.op = "read" /\ rx_fifo[c.ep] # << >>)
  <2>1. UNCHANGED rxVars
    BY <1>4 DEF CpuRx
  <2> QED  BY <2>1 DEF rxVars
<1> QED  BY <1>1, <1>2, <1>3, <1>4

LEMMA CpuTxType ==
  ASSUME DeviceOK, NEW c, Legal(c), CpuTx(c)
  PROVE  /\ tx_active_q' \in [EP -> BOOLEAN] /\ tx_len_q' \in [EP -> Nat] /\ tx_len_q'[0] <= MAXP
         /\ tx_fifo' \in [EP -> Seq(Payload)] /\ \A i \in EP : Len(tx_fifo'[i]) <= DEPTH
<1> USE TransactionsAssumption, RequestAssumption, DeviceTypes
<1>1. CASE c.op \in {"tx_flush", "flush_start"}
  <2>1. /\ tx_active_q' = Put(tx_active_q, c.ep, FALSE) /\ tx_len_q' = Put(tx_len_q, c.ep, 0)
        /\ tx_fifo' = Put(tx_fifo, c.ep, << >>)
    BY <1>1 DEF CpuTx
  <2>2. tx_fifo' \in [EP -> Seq(Payload)]
    BY <2>1, EmptyType, PutType
  <2>5. \A i \in EP : Len(tx_fifo'[i]) <= DEPTH
    BY <2>1, EmptyType, PutAt
  <2>3. tx_active_q' \in [EP -> BOOLEAN] /\ tx_len_q' \in [EP -> Nat]
    BY <2>1, PutType
  <2>4. tx_len_q'[0] <= MAXP
    BY <2>1, PutAt
  <2> QED  BY <2>2, <2>3, <2>4, <2>5
<1>2. CASE c.op = "start"
  <2>1. c.arg \in Nat /\ (c.ep = 0 => c.arg <= MAXP)
    BY <1>2 DEF Legal
  <2> QED  BY <1>2, <2>1 DEF CpuTx, Put
<1>3. CASE c.op = "write" /\ Len(tx_fifo[c.ep]) < DEPTH
  <2>1. /\ tx_fifo' = Put(tx_fifo, c.ep, Append(tx_fifo[c.ep], c.arg))
        /\ UNCHANGED <<tx_active_q, tx_len_q>>
    BY <1>3 DEF CpuTx
  <2>2. c.arg \in Payload
    BY <1>3 DEF Legal
  <2>3. ASSUME NEW i \in EP
        PROVE  tx_fifo'[i] \in Seq(Payload) /\ Len(tx_fifo'[i]) <= DEPTH
    <3>1. CASE i = c.ep
      <4>1. tx_fifo'[i] = Append(tx_fifo[i], c.arg)
        BY <2>1, <3>1 DEF Put
      <4>2. Len(tx_fifo[i]) < DEPTH
        BY <1>3, <3>1
      <4> QED  BY <2>2, <4>1, <4>2, AppendType
    <3>2. CASE i # c.ep
      BY <2>1, <3>2 DEF Put
    <3> QED  BY <3>1, <3>2
  <2>4. tx_fifo' = [i \in EP |-> tx_fifo'[i]]
    BY <2>1 DEF Put
  <2> QED  BY <2>1, <2>3, <2>4
<1>4. CASE /\ c.op \notin {"tx_flush", "flush_start", "start"}
           /\ ~(c.op = "write" /\ Len(tx_fifo[c.ep]) < DEPTH)
  <2>1. UNCHANGED txVars
    BY <1>4 DEF CpuTx
  <2> QED  BY <2>1 DEF txVars
<1> QED  BY <1>1, <1>2, <1>3, <1>4

LEMMA CpuCfgType ==
  ASSUME DeviceOK, NEW c, Legal(c), CpuCfg(c)
  PROVE  /\ ep_cfg_int_rx_r' \in [EP -> BOOLEAN] /\ ep_cfg_int_tx_r' \in [EP -> BOOLEAN]
         /\ ep_cfg_stall_ep_r' \in [EP -> BOOLEAN]
         /\ func_addr_r' \in Dev /\ int_en_rst_r' \in BOOLEAN /\ phy_termselect_r' \in BOOLEAN
<1> USE DeviceTypes
<1>1. CASE c.op = "cfg"
  <2>1. c.arg.int_rx \in BOOLEAN /\ c.arg.int_tx \in BOOLEAN /\ c.arg.stall_ep \in BOOLEAN
    BY <1>1 DEF Legal, EPx_CFG
  <2>2. ((ep_cfg_stall_ep_r[c.ep] \/ c.arg.stall_ep) /\ ~rx_setup_q[c.ep]) \in BOOLEAN
    OBVIOUS
  <2>3. /\ ep_cfg_int_rx_r' = Put(ep_cfg_int_rx_r, c.ep, c.arg.int_rx)
        /\ ep_cfg_int_tx_r' = Put(ep_cfg_int_tx_r, c.ep, c.arg.int_tx)
        /\ ep_cfg_stall_ep_r' = Put(ep_cfg_stall_ep_r, c.ep,
             (ep_cfg_stall_ep_r[c.ep] \/ c.arg.stall_ep) /\ ~rx_setup_q[c.ep])
        /\ UNCHANGED <<func_addr_r, int_en_rst_r, phy_termselect_r>>
    BY <1>1 DEF CpuCfg
  <2> QED  BY <2>1, <2>2, <2>3, PutType
<1>2. CASE c.op = "ctrl"
  BY <1>2 DEF CpuCfg, Legal, FUNC_CTRL
<1>3. CASE c.op = "addr"
  BY <1>3 DEF CpuCfg, Legal
<1>4. CASE c.op \notin {"cfg", "ctrl", "addr"}
  <2>1. UNCHANGED <<cfgVars, ep_cfg_stall_ep_r>>
    BY <1>4 DEF CpuCfg
  <2> QED  BY <2>1 DEF cfgVars
<1> QED  BY <1>1, <1>2, <1>3, <1>4

LEMMA CpuIntrType ==
  ASSUME DeviceOK, NEW c, Legal(c), CpuIntr(c)
  PROVE  /\ intr_ep_rx_ready_r' \in [EP -> BOOLEAN] /\ intr_ep_tx_complete_r' \in [EP -> BOOLEAN]
         /\ intr_reset_r' \in BOOLEAN
<1> USE DeviceTypes
<1>1. CASE c.op = "intsts"
  BY <1>1 DEF CpuIntr
<1>2. CASE c.op = "stat"
  BY <1>2 DEF CpuIntr, Legal
<1>3. CASE c.op \notin {"intsts", "stat"}
  BY <1>3 DEF CpuIntr, intrVars
<1> QED  BY <1>1, <1>2, <1>3

LEMMA CpuType ==
  ASSUME DeviceOK, NEW c, Legal(c), Cpu(c) PROVE DeviceOK'
<1>1. UNCHANGED coreVars
  BY DEF Cpu
<1>2. CpuRx(c) /\ CpuTx(c) /\ CpuCfg(c) /\ CpuIntr(c)
  BY DEF Cpu
<1>3. /\ current_addr_q' \in Dev /\ ep_data_bit_q' \in [EP -> BOOLEAN] /\ token' \in Token
  BY <1>1, DeviceTypes DEF coreVars
<1> QED  BY <1>2, <1>3, CpuRxType, CpuTxType, CpuCfgType, CpuIntrType, DeviceTypesAfter

LEMMA TokenOutType ==
  ASSUME DeviceOK, NEW t, t.ep \in EP, TokenOut(t) PROVE DeviceOK'
<1> USE DeviceTypes
<1>1. token' \in Token
  <2>1. token' = [ep |-> t.ep, room |-> ~rx_ready_q[t.ep], valid |-> TRUE,
                  open |-> ~rx_ready_q[t.ep] /\ (t.pid = "OUT" => ~ep_cfg_stall_ep_r[t.ep])]
    BY DEF TokenOut
  <2> QED  BY <2>1 DEF Token
<1>2. /\ rx_setup_q' \in [EP -> BOOLEAN] /\ ep_cfg_stall_ep_r' \in [EP -> BOOLEAN]
      /\ ep_data_bit_q' \in [EP -> BOOLEAN]
  BY DEF TokenOut
<1>3. UNCHANGED <<current_addr_q, rx_ready_q, rx_len_q, rx_fifo, txVars, cfgVars, intrVars>>
  BY DEF TokenOut
<1> QED  BY <1>1, <1>2, <1>3, DeviceTypesAfter DEF txVars, cfgVars, intrVars

LEMMA ConcatType == \A S : \A s, t \in Seq(S) : s \o t \in Seq(S) /\ Len(s \o t) = Len(s) + Len(t)
                                             /\ Len(s) \in Nat /\ Len(t) \in Nat
OBVIOUS

LEMMA SubSeqType == \A S : \A s \in Seq(S) : \A m, n \in Nat :
  m >= 1 /\ n <= Len(s) => /\ SubSeq(s, m, n) \in Seq(S)
                          /\ Len(SubSeq(s, m, n)) = IF m <= n THEN n - m + 1 ELSE 0
OBVIOUS

LEMMA DataType ==
  ASSUME DeviceOK, NEW t, t.ep \in EP, t.data \in Seq(Payload), Data(t) PROVE DeviceOK'
<1> USE DeviceTypes, TransactionsAssumption
<1> DEFINE fits  == DEPTH - Len(rx_fifo[t.ep])
           bytes == IF token.open /\ ~mismatch(t) THEN t.data ELSE << >>
           kept  == IF Len(bytes) <= fits THEN bytes ELSE SubSeq(bytes, 1, fits)
<1>1. /\ rx_fifo' = [rx_fifo EXCEPT ![t.ep] = @ \o kept]
      /\ rx_len_q' = [rx_len_q EXCEPT ![t.ep] = @ + Len(bytes)]
      /\ rx_ready_q' = [rx_ready_q EXCEPT ![t.ep] =
           @ \/ (token.open /\ (mismatch(t) => t.data = << >>))]
      /\ intr_ep_rx_ready_r' = [intr_ep_rx_ready_r EXCEPT ![t.ep] = @ \/ token.room]
      /\ ep_data_bit_q' = [ep_data_bit_q EXCEPT ![t.ep] =
           IF handshake(t) = "ACK" /\ ~mismatch(t) THEN ~ep_data_bit_r(t.ep) ELSE ep_data_bit_r(t.ep)]
  BY DEF Data
<1>2. rx_fifo[t.ep] \in Seq(Payload) /\ Len(rx_fifo[t.ep]) \in Nat /\ fits \in Nat
  <2>1. rx_fifo[t.ep] \in Seq(Payload) /\ Len(rx_fifo[t.ep]) <= DEPTH
    OBVIOUS
  <2>2. Len(rx_fifo[t.ep]) \in Nat
    BY <2>1, LenProperties
  <2> QED  BY <2>1, <2>2
<1>3. bytes \in Seq(Payload) /\ Len(bytes) \in Nat
  BY EmptyType, LenProperties
<1>4. kept \in Seq(Payload) /\ Len(kept) <= fits
  <2> HIDE DEF fits, bytes
  <2>1. CASE Len(bytes) <= fits
    BY <1>3, <2>1
  <2>2. CASE ~(Len(bytes) <= fits)
    <3>1. SubSeq(bytes, 1, fits) \in Seq(Payload)
          /\ Len(SubSeq(bytes, 1, fits)) = IF 1 <= fits THEN fits - 1 + 1 ELSE 0
      BY <1>2, <1>3, <2>2, SubSeqType
    <3> QED  BY <1>2, <2>2, <3>1
  <2> QED  BY <2>1, <2>2
<1> HIDE DEF kept, bytes
<1>5. rx_fifo' \in [EP -> Seq(Payload)]
  <2>1. rx_fifo[t.ep] \o kept \in Seq(Payload)
    BY <1>2, <1>4, ConcatType
  <2> QED  BY <1>1, <2>1
<1>6. ASSUME NEW i \in EP PROVE Len(rx_fifo'[i]) <= DEPTH
  <2>1. CASE i = t.ep
    <3>1. rx_fifo'[i] = rx_fifo[t.ep] \o kept
      BY <1>1, <2>1
    <3>2. Len(rx_fifo[t.ep] \o kept) = Len(rx_fifo[t.ep]) + Len(kept) /\ Len(kept) \in Nat
      BY <1>2, <1>4, ConcatType
    <3> QED  BY <1>2, <1>4, <3>1, <3>2
  <2>2. CASE i # t.ep
    BY <1>1, <2>2
  <2> QED  BY <2>1, <2>2
<1>7. rx_len_q' \in [EP -> Nat]
  <2>1. rx_len_q[t.ep] + Len(bytes) \in Nat
    <3>1. rx_len_q[t.ep] \in Nat
      OBVIOUS
    <3>2. \A m, n \in Nat : m + n \in Nat
      OBVIOUS
    <3> QED  BY <1>3, <3>1, <3>2
  <2> QED  BY <1>1, <2>1
<1>8. /\ rx_ready_q' \in [EP -> BOOLEAN] /\ intr_ep_rx_ready_r' \in [EP -> BOOLEAN]
      /\ ep_data_bit_q' \in [EP -> BOOLEAN]
  <2>1. token.room \in BOOLEAN /\ token.open \in BOOLEAN
    BY DEF Token
  <2>2. ep_data_bit_r(t.ep) \in BOOLEAN
    BY DEF ep_data_bit_r
  <2> QED  BY <1>1, <2>1, <2>2
<1>9. token' = NoToken
      /\ UNCHANGED <<current_addr_q, ep0_dir_in_q, ep0_dir_out_q, rx_setup_q, txVars, cfgVars,
                     ep_cfg_stall_ep_r, intr_ep_tx_complete_r, intr_reset_r>>
  BY DEF Data
<1> QED  BY <1>5, <1>6, <1>7, <1>8, <1>9, DeviceTypesAfter DEF txVars, cfgVars, NoToken, Token

LEMMA InDataType ==
  ASSUME DeviceOK, NEW t, t.ep \in EP PROVE inData(t) \in Seq(Payload)
<1>1. tx_len_q[t.ep] \in Nat /\ tx_fifo[t.ep] \in Seq(Payload)
  BY DeviceTypes
<1>2. \A k \in 1 .. tx_len_q[t.ep] :
        (IF k <= Len(tx_fifo[t.ep]) THEN tx_fifo[t.ep][k] ELSE Stale) \in Payload
  BY <1>1, TransactionsAssumption, ElementOfSeq
<1> QED  BY <1>1, <1>2, IsASeq DEF inData

LEMMA InType ==
  ASSUME DeviceOK, NEW t, t.ep \in EP, NEW acked \in BOOLEAN, In(t, acked) PROVE DeviceOK'
<1> USE DeviceTypes, TransactionsAssumption
<1>1. UNCHANGED <<token, ep0_dir_out_q, rxVars, cfgVars, ep_cfg_stall_ep_r,
                  intr_ep_rx_ready_r, intr_reset_r>>
  BY DEF In
<1>2. CASE inAnswer(t) \in {"DATA0", "DATA1"}
  <2>1. /\ tx_active_q' = [tx_active_q EXCEPT ![t.ep] = FALSE]
        /\ tx_len_q' = [tx_len_q EXCEPT ![t.ep] = 0]
        /\ tx_fifo' = [tx_fifo EXCEPT ![t.ep] = SubSeq(@, sent(tx_len_q[t.ep]) + 1, Len(@))]
        /\ intr_ep_tx_complete_r' = [intr_ep_tx_complete_r EXCEPT ![t.ep] = TRUE]
        /\ ep_data_bit_q' = [ep_data_bit_q EXCEPT ![t.ep] =
             acked # (@ \/ (t.ep = 0 /\ ep0_dir_in_q' /\ ep0_dir_out_q))]
        /\ current_addr_q' = IF t.ep = 0 /\ tx_len_q[0] = 0 THEN func_addr_r ELSE current_addr_q
    BY <1>2 DEF In
  <2>2. tx_active_q' \in [EP -> BOOLEAN] /\ intr_ep_tx_complete_r' \in [EP -> BOOLEAN]
        /\ ep_data_bit_q' \in [EP -> BOOLEAN] /\ current_addr_q' \in Dev
    BY <2>1
  <2>3. tx_len_q' \in [EP -> Nat] /\ tx_len_q'[0] <= MAXP
    BY <2>1, RequestAssumption
  <2> DEFINE rest == SubSeq(tx_fifo[t.ep], sent(tx_len_q[t.ep]) + 1, Len(tx_fifo[t.ep]))
  <2>4. rest \in Seq(Payload) /\ Len(rest) <= Len(tx_fifo[t.ep])
    <3>1. tx_fifo[t.ep] \in Seq(Payload) /\ Len(tx_fifo[t.ep]) \in Nat
      BY LenProperties
    <3>2. sent(tx_len_q[t.ep]) + 1 \in Nat /\ sent(tx_len_q[t.ep]) + 1 >= 1
      <4>1. tx_len_q[t.ep] \in Nat
        OBVIOUS
      <4> QED  BY <4>1 DEF sent
    <3> HIDE DEF rest
    <3>3. rest \in Seq(Payload) /\ Len(rest) = IF sent(tx_len_q[t.ep]) + 1 <= Len(tx_fifo[t.ep])
            THEN Len(tx_fifo[t.ep]) - (sent(tx_len_q[t.ep]) + 1) + 1 ELSE 0
      BY <3>1, <3>2, SubSeqType DEF rest
    <3> QED  BY <3>1, <3>2, <3>3
  <2>5. tx_fifo' \in [EP -> Seq(Payload)]
    BY <2>1, <2>4
  <2>6. ASSUME NEW i \in EP PROVE Len(tx_fifo'[i]) <= DEPTH
    <3>1. tx_fifo'[i] = IF i = t.ep THEN rest ELSE tx_fifo[i]
      BY <2>1
    <3>2. Len(tx_fifo[t.ep]) \in Nat /\ Len(rest) \in Nat
      BY <2>4, LenProperties
    <3> HIDE DEF rest
    <3> QED  BY <2>4, <3>1, <3>2
  <2> QED  BY <1>1, <2>2, <2>3, <2>5, <2>6, DeviceTypesAfter DEF rxVars, cfgVars
<1>3. CASE inAnswer(t) \notin {"DATA0", "DATA1"}
  <2>1. UNCHANGED <<txVars, intr_ep_tx_complete_r, ep_data_bit_q, current_addr_q>>
    BY <1>3 DEF In
  <2> QED  BY <1>1, <2>1, DeviceTypesAfter DEF rxVars, txVars, cfgVars
<1> QED  BY <1>2, <1>3

LEMMA ResetType == ASSUME DeviceOK, BusReset PROVE DeviceOK'
BY DeviceTypes, DeviceTypesAfter, TransactionsAssumption
   DEF BusReset, rxVars, txVars, cfgVars, NoToken, Token

-----------------------------------------------------------------------------
(* The host. *)
LEMMA ScenarioType ==
  ASSUME HostOK
  PROVE  /\ now.echo \in Seq(Seq(Payload)) /\ Len(now.echo) \in Nat
         /\ now.echo # << >> => {1, 2} \subseteq EP
BY SystemAssumption, LenProperties DEF HostOK, now

LEMMA ChunkType ==
  ASSUME hdata \in Seq(Payload)
  PROVE  /\ Chunk \in Seq(Payload) /\ Len(Chunk) \in Nat
         /\ SubSeq(hdata, Len(Chunk) + 1, Len(hdata)) \in Seq(Payload)
<1>1. Len(hdata) \in Nat
  BY LenProperties
<1> DEFINE m == MIN(MAXP, Len(hdata))
<1>2. m \in Nat /\ m <= Len(hdata)
  BY <1>1, RequestAssumption DEF MIN
<1> HIDE DEF m
<1>3. Chunk = SubSeq(hdata, 1, m)
  BY DEF Chunk, m
<1>4. Chunk \in Seq(Payload)
  BY <1>1, <1>2, <1>3, SubSeqType
<1>5. Len(Chunk) \in Nat
  BY <1>4, LenProperties
<1>6. Len(Chunk) + 1 \in Nat /\ Len(Chunk) + 1 >= 1
  BY <1>5
<1> QED  BY <1>1, <1>4, <1>5, <1>6, SubSeqType

LEMMA StageTrType ==
  ASSUME HostOK, inTransfer PROVE StageTr.ep = 0 /\ StageTr.data \in Seq(Payload)
<1>1. Chunk \in Seq(Payload) /\ <<hreq>> \in Seq(Payload)
  BY ChunkType, SystemAssumption DEF HostOK
<1>2. hstage = "setup" \/ hstage = "data" \/ hstage = "status"
  BY DEF inTransfer
<1>3. CASE hstage = "setup"
  BY <1>1, <1>3 DEF StageTr
<1>4. CASE hstage = "data"
  BY <1>1, <1>4, EmptyType DEF StageTr
<1>5. CASE hstage = "status"
  BY <1>1, <1>5, EmptyType DEF StageTr
<1> QED  BY <1>2, <1>3, <1>4, <1>5

(* What the host does next changes its variables within their types. *)
HostTyped == hreq \in DOMAIN Request /\ hstage \in Stage /\ hdata \in Seq(Payload)

LEMMA HearsAckType == ASSUME HostTyped, inTransfer, HearsAck PROVE HostTyped'
<1>1. hreq' = hreq
  BY DEF HearsAck
<1>2. CASE hstage = "setup"
  BY <1>1, <1>2 DEF HearsAck, HostTyped, Stage
<1>3. CASE hstage = "data"
  <2>1. hdata' = SubSeq(hdata, Len(Chunk) + 1, Len(hdata)) /\ hstage' \in {"data", "status"}
    BY <1>3 DEF HearsAck
  <2> QED  BY <1>1, <2>1, ChunkType DEF HostTyped, Stage
<1>4. CASE hstage = "status"
  BY <1>1, <1>4 DEF HearsAck, HostTyped, Stage
<1> QED  BY <1>2, <1>3, <1>4 DEF inTransfer

LEMMA HearsDataType ==
  ASSUME HostTyped, NEW pid, NEW bytes \in Seq(Payload), HearsData(pid, bytes) PROVE HostTyped'
<1>1. hdata \o bytes \in Seq(Payload)
  BY ConcatType DEF HostTyped
<1> QED  BY <1>1 DEF HearsData, HostTyped, Stage

LEMMA HearsStallType == ASSUME HostTyped, HearsStall PROVE HostTyped'
BY DEF HostTyped, HearsStall, Stage

LEMMA HostAsksType ==
  ASSUME DeviceOK, HostOK, HostAsks, scenario' = scenario PROVE DeviceOK' /\ HostOK'
<1>1. UNCHANGED <<deviceVars, counts>>
  BY DEF HostAsks
<1>2. DeviceOK'
  BY <1>1, DeviceTypes, DeviceTypesAfter
     DEF deviceVars, coreVars, rxVars, txVars, cfgVars, intrVars
<1>3. PICK r \in askable : Asks(r)
  BY DEF HostAsks
<1>4. r \in DOMAIN Request
  BY SystemAssumption DEF askable, now, HostOK
<1>5. hreq' = r /\ hdata' = Request[r].data /\ hstage' = "setup"
  BY <1>3 DEF Asks
<1>6. hdata' \in Seq(Payload)
  BY <1>4, <1>5, SystemAssumption
<1>7. ~token.valid /\ token' = token /\ hsent' = hsent /\ hback' = hback
  BY <1>1 DEF HostAsks, mayAct, counts, deviceVars, coreVars
<1> QED  BY <1>2, <1>4, <1>5, <1>6, <1>7 DEF HostOK, Stage, now

LEMMA HostTokenType ==
  ASSUME DeviceOK, HostOK, HostToken, scenario' = scenario PROVE DeviceOK' /\ HostOK'
<1>1. inTransfer /\ TokenOut(StageTr) /\ UNCHANGED <<host, counts>>
  BY DEF HostToken
<1>2. StageTr.ep = 0
  BY <1>1, StageTrType
<1>3. DeviceOK'
  BY <1>1, <1>2, TokenOutType, TransactionsAssumption
<1>4. token'.ep = 0
  BY <1>1, <1>2 DEF TokenOut
<1> QED  BY <1>1, <1>3, <1>4 DEF HostOK, host, counts, inTransfer, now

LEMMA HostDataType ==
  ASSUME DeviceOK, HostOK, HostData, scenario' = scenario PROVE DeviceOK' /\ HostOK'
<1>1. token.ep = 0 /\ Data(StageTr) /\ KeepsScore(FALSE)
  BY DEF HostData
<1>2. inTransfer
  BY <1>1 DEF HostOK, Data
<1>3. StageTr.ep = 0 /\ StageTr.data \in Seq(Payload)
  BY <1>2, StageTrType
<1>4. DeviceOK'
  BY <1>1, <1>3, DataType, TransactionsAssumption
<1>5. HostTyped
  BY DEF HostOK, HostTyped
<1>6. HearsAck \/ HearsStall \/ UNCHANGED host
  BY DEF HostData
<1>7. HostTyped'
  BY <1>2, <1>5, <1>6, HearsAckType, HearsStallType DEF HostTyped, host
<1>8. ~token'.valid /\ hsent' = hsent /\ hback' = hback
  BY <1>1 DEF Data, NoToken, KeepsScore
<1> QED  BY <1>4, <1>7, <1>8 DEF HostOK, HostTyped, now

LEMMA HostInType ==
  ASSUME DeviceOK, HostOK, HostIn, scenario' = scenario PROVE DeviceOK' /\ HostOK'
<1>1. /\ ~token.valid /\ inTransfer /\ In(StageTr, ~tooLong) /\ token' = token
      /\ hsent' = hsent /\ hback' = hback
  BY DEF HostIn, mayAct, In, KeepsScore
<1>2. StageTr.ep = 0 /\ StageTr.ep \in EP
  BY <1>1, StageTrType, TransactionsAssumption
<1>3. DeviceOK'
  <2>1. (~tooLong) \in BOOLEAN
    BY DEF tooLong
  <2> QED  BY <1>1, <1>2, <2>1, InType
<1>4. HostTyped
  BY DEF HostOK, HostTyped
<1>5. HearsData(inAnswer(StageTr), inData(StageTr)) \/ HearsStall \/ UNCHANGED host
  BY DEF HostIn
<1>6. HostTyped'
  <2>1. inData(StageTr) \in Seq(Payload)
    BY <1>2, InDataType
  <2> QED  BY <1>4, <1>5, <2>1, HearsDataType, HearsStallType DEF HostTyped, host
<1> QED  BY <1>1, <1>3, <1>6 DEF HostOK, HostTyped, now

LEMMA HostAbandonsType ==
  ASSUME DeviceOK, HostOK, HostAbandons, scenario' = scenario PROVE DeviceOK' /\ HostOK'
<1>1. UNCHANGED deviceVars /\ HearsStall /\ hsent' = hsent /\ hback' = hback /\ ~token.valid
  BY DEF HostAbandons, KeepsScore, mayAct
<1>2. DeviceOK' /\ token' = token
  BY <1>1, DeviceTypes, DeviceTypesAfter
     DEF deviceVars, coreVars, rxVars, txVars, cfgVars, intrVars
<1> QED  BY <1>1, <1>2 DEF HostOK, HearsStall, Stage, now

LEMMA HostResetsType ==
  ASSUME DeviceOK, HostOK, HostResets, scenario' = scenario PROVE DeviceOK' /\ HostOK'
<1>1. BusReset /\ Forgets /\ hsent' = hsent /\ hback' = hback
  BY DEF HostResets
<1>2. ~token'.valid
  BY <1>1 DEF BusReset, NoToken
<1> QED  BY <1>1, <1>2, ResetType DEF HostOK, Forgets, Stage, now

LEMMA OutTrType ==
  ASSUME HostOK, hsent < Len(now.echo)
  PROVE  outTr.ep = 1 /\ 1 \in EP /\ outTr.data \in Seq(Payload) /\ outTr.data = now.echo[hsent + 1]
<1>1. hsent + 1 \in 1 .. Len(now.echo) /\ now.echo # << >>
  BY ScenarioType DEF HostOK
<1> QED  BY <1>1, ScenarioType, ElementOfSeq DEF outTr, EchoTr

LEMMA InTrType == ASSUME HostOK, Len(hback) < hsent PROVE inTr.ep = 2 /\ 2 \in EP
<1>1. Len(hback) \in Nat
  BY LenProperties DEF HostOK
<1>2. now.echo # << >>
  BY <1>1, ScenarioType DEF HostOK
<1> QED  BY <1>2, ScenarioType DEF inTr, EchoTr

LEMMA HostPingsType ==
  ASSUME DeviceOK, HostOK, HostPings, scenario' = scenario PROVE DeviceOK' /\ HostOK'
<1>1. hsent < Len(now.echo) /\ TokenOut(outTr) /\ UNCHANGED <<host, counts>>
  BY DEF HostPings
<1>2. DeviceOK'
  BY <1>1, OutTrType, TokenOutType
<1>3. token'.ep = 1
  BY <1>1, OutTrType DEF TokenOut
<1> QED  BY <1>1, <1>2, <1>3 DEF HostOK, host, counts, now

LEMMA HostPingDataType ==
  ASSUME DeviceOK, HostOK, HostPingData, scenario' = scenario PROVE DeviceOK' /\ HostOK'
<1>1. token.ep = 1 /\ Data(outTr) /\ token.valid
  BY DEF HostPingData, Data
<1>2. hsent < Len(now.echo)
  BY <1>1 DEF HostOK
<1>3. DeviceOK'
  BY <1>1, <1>2, OutTrType, DataType
<1>4. ~token'.valid /\ hback' = hback /\ UNCHANGED host /\ hsent' \in {hsent, hsent + 1}
  BY <1>1 DEF HostPingData, Data, NoToken
<1>5. hsent' \in 0 .. Len(now.echo)
  BY <1>2, <1>4, ScenarioType DEF HostOK
<1> QED  BY <1>3, <1>4, <1>5 DEF HostOK, host, now

LEMMA HostPongsType ==
  ASSUME DeviceOK, HostOK, HostPongs, scenario' = scenario PROVE DeviceOK' /\ HostOK'
<1>1. /\ Len(hback) < hsent /\ In(inTr, TRUE) /\ hsent' = hsent /\ UNCHANGED host
      /\ token' = token /\ ~token.valid
  BY DEF HostPongs, In, mayAct
<1>2. DeviceOK'
  BY <1>1, InTrType, InType
<1>3. inData(inTr) \in Seq(Payload)
  BY <1>1, InTrType, InDataType
<1>4. hback' \in Seq(Seq(Payload))
  BY <1>3, AppendType DEF HostPongs, HostOK
<1> QED  BY <1>1, <1>2, <1>4 DEF HostOK, host, now

LEMMA HostType == ASSUME DeviceOK, HostOK, Host PROVE DeviceOK' /\ HostOK' /\ UNCHANGED program
<1>1. scenario' = scenario /\ UNCHANGED program
  BY DEF Host
<1> QED  BY <1>1, HostAsksType, HostTokenType, HostDataType, HostInType, HostAbandonsType,
            HostResetsType, HostPingsType, HostPingDataType, HostPongsType DEF Host

-----------------------------------------------------------------------------
(* The program: what it writes. *)
LEMMA WritesLegal == \A c \in Writes : Legal(c)
<1>1. \A c \in [op : {"tx_flush", "rx_flush"}, ep : 0 .. 2] : Legal(c)
  BY DEF Legal
<1>2. \A c \in [op : {"stat"}, ep : {0}, rst : {TRUE}] : Legal(c)
  BY DEF Legal
<1>3. \A c \in [op : {"cfg"}, ep : 0 .. 2, arg : {d \in EPx_CFG : d.int_rx}] : Legal(c)
  BY DEF Legal
<1>4. \A c \in [op : {"ctrl"}, ep : {0}, arg : FUNC_CTRL] : Legal(c)
  BY DEF Legal
<1> QED  BY <1>1, <1>2, <1>3, <1>4 DEF Writes, Flushes

(* A sequence over S with at least one element. *)
Some(S, s) == s \in Seq(S) /\ s # << >>

LEMMA SomeMore == \A S : \A s, t : Some(S, s) /\ t \in Seq(S) => Some(S, s \o t)
<1>1. \A S : \A s \in Seq(S) : s # << >> => Len(s) \in Nat /\ Len(s) > 0
  OBVIOUS
<1>2. \A m, n \in Nat : m > 0 => m + n > 0
  OBVIOUS
<1>3. ASSUME NEW S, NEW s \in Seq(S), s # << >>, NEW t \in Seq(S) PROVE s \o t # << >>
  BY <1>1, <1>2, <1>3, ConcatType, EmptyType
<1> QED  BY <1>3, ConcatType DEF Some

LEMMA OneWrite == \A S : \A c \in S : Some(S, <<c>>)
BY DEF Some

LEMMA TwoWrites == \A S : \A c, d \in S : Some(S, <<c, d>>)
BY DEF Some

LEMMA WriteSeq == \A s \in Seq(Flushes) : s \in Seq(Writes)
BY DEF Writes

LEMMA FlushesWrites == Some(Flushes, Program!Each(Program!FlushBoth))
<1>1. ASSUME NEW i \in 0 .. 2 PROVE Some(Flushes, Program!FlushBoth(i))
  <2>1. Program!TxFlush(i) \in Flushes /\ Program!RxFlush(i) \in Flushes
    BY DEF Flushes, Program!TxFlush, Program!RxFlush
  <2> QED  BY <2>1, TwoWrites DEF Program!FlushBoth
<1> DEFINE a == Program!FlushBoth(0)
           b == Program!FlushBoth(1)
           c == Program!FlushBoth(2)
<1>2. Some(Flushes, a) /\ Some(Flushes, b) /\ Some(Flushes, c)
  BY <1>1
<1>3. \/ Program!Each(Program!FlushBoth) = a
      \/ Program!Each(Program!FlushBoth) = a \o b
      \/ Program!Each(Program!FlushBoth) = a \o b \o c
  BY DEF Program!Each
<1> HIDE DEF a, b, c
<1> QED  BY <1>2, <1>3, SomeMore DEF Some

LEMMA EnablesWrites == Some(Writes, Program!Each(Program!EnableInt))
<1>1. ASSUME NEW i \in 0 .. 2 PROVE Some(Writes, Program!EnableInt(i))
  <2> DEFINE d == [iso |-> FALSE, stall_ep |-> FALSE, int_tx |-> i # 0, int_rx |-> TRUE]
  <2>1. d \in {e \in EPx_CFG : e.int_rx}
    BY DEF EPx_CFG
  <2> HIDE DEF d
  <2>2. Program!Cfg(i, d) \in Writes
    BY <2>1 DEF Writes, Program!Cfg
  <2> QED  BY <2>2, OneWrite DEF Program!EnableInt, d
<1> DEFINE a == Program!EnableInt(0)
           b == Program!EnableInt(1)
           c == Program!EnableInt(2)
<1>2. Some(Writes, a) /\ Some(Writes, b) /\ Some(Writes, c)
  BY <1>1
<1>3. \/ Program!Each(Program!EnableInt) = a
      \/ Program!Each(Program!EnableInt) = a \o b
      \/ Program!Each(Program!EnableInt) = a \o b \o c
  BY DEF Program!Each
<1> HIDE DEF a, b, c
<1> QED  BY <1>2, <1>3, SomeMore DEF Some

LEMMA ResetWritesType == Some(Flushes, Program!ResetWrites)
<1>1. <<Program!Stat(TRUE)>> \in Seq(Flushes)
  BY DEF Flushes, Program!Stat
<1> QED  BY <1>1, FlushesWrites, SomeMore DEF Program!ResetWrites

LEMMA StartUpType == Some(Writes, Program!StartUp)
<1>1. ASSUME NEW term \in BOOLEAN, NEW rst \in BOOLEAN PROVE Program!FuncCtrl(term, rst) \in Writes
  BY DEF Program!FuncCtrl, Writes, FUNC_CTRL, Program!Ctrl
<1>2. ASSUME NEW state \in {0, 1} PROVE Some(Writes, Program!Attach(state))
  <2>1. Program!FuncCtrl(state = 1, FALSE) \in Writes
    BY <1>1
  <2>2. Program!Stat(TRUE) \in Writes
    BY DEF Writes, Flushes, Program!Stat
  <2> QED  BY <2>1, <2>2, TwoWrites DEF Program!Attach
<1>3. Some(Writes, <<Program!FuncCtrl(TRUE, TRUE)>>)
  BY <1>1, OneWrite
<1> DEFINE a == Program!Attach(0)
           f == Program!Each(Program!FlushBoth)
           b == Program!Attach(1)
           e == Program!Each(Program!EnableInt)
           z == <<Program!FuncCtrl(TRUE, TRUE)>>
<1>4. Some(Writes, a) /\ Some(Writes, f) /\ Some(Writes, b) /\ Some(Writes, e) /\ Some(Writes, z)
  BY <1>2, <1>3, FlushesWrites, EnablesWrites, WriteSeq DEF Some
<1>5. Program!StartUp = a \o f \o a \o b \o e \o z
  BY DEF Program!StartUp
<1> HIDE DEF a, f, b, e, z
<1> QED  BY <1>4, <1>5, SomeMore DEF Some

-----------------------------------------------------------------------------
(* main *)
LEMMA MainOpLegal == ASSUME ProgramOK PROVE Legal(Program!mainOp)
<1> USE DEF ProgramOK, MainOK, EchoOK
<1>1. CASE mpc \in {"startUp", "flush"}
  <2>1. mwrites # << >> /\ Head(mwrites) \in Writes
    BY <1>1, TailType DEF StartPc
  <2> QED  BY <1>1, <2>1, WritesLegal DEF Program!mainOp
<1>2. CASE mpc = "txWrite"
  <2>1. mcnt + 1 \in 1 .. Len(rx_packet_buf)
    BY <1>2 DEF TxPc
  <2>2. rx_packet_buf[mcnt + 1] \in Payload
    BY <2>1, ElementOfSeq
  <2>3. Program!mainOp = Program!Write(2, rx_packet_buf[mcnt + 1])
    BY <1>2 DEF Program!mainOp
  <2> QED  BY <2>2, <2>3 DEF Legal, Program!Write
<1>3. CASE mpc = "txStart"
  <2>1. Program!mainOp \in {Program!FlushStart(2, mlen), Program!Start(2, mlen)}
    BY <1>3 DEF Program!mainOp
  <2>2. mlen \in Nat
    BY LenProperties
  <2> QED  BY <2>1, <2>2 DEF Legal, Program!FlushStart, Program!Start
<1>4. CASE mpc \notin {"startUp", "flush", "txWrite", "txStart"}
  <2>1. Program!mainOp \in {Program!TxFlush(2), Program!NoOp}
    BY <1>4 DEF Program!mainOp
  <2> QED  BY <2>1 DEF Legal, Program!TxFlush, Program!NoOp
<1> QED  BY <1>1, <1>2, <1>3, <1>4

LEMMA MainStepType ==
  ASSUME ProgramOK, Program!Main
  PROVE  /\ mpc' \in MainPc
         /\ mwrites' \in Seq(Writes) /\ (mpc' \in StartPc => mwrites' # << >>)
         /\ mlen' \in 0 .. Len(Buffer0) /\ mcnt' \in Nat /\ (mpc' \in TxPc => mcnt' < mlen')
         /\ ep1_rx_len' \in {ep1_rx_len, 0} /\ rx_packet_buf' = rx_packet_buf
<1> USE DEF ProgramOK, MainOK, EchoOK, MainPc, StartPc, TxPc, Program!echoVars
<1>0. Len(Buffer0) \in Nat
  BY SystemAssumption, LenProperties
<1>1. CASE Program!MainWrites
  <2>1. mwrites' \in Seq(Writes)
    BY <1>1, TailType DEF Program!MainWrites
  <2> QED  BY <1>1, <2>1 DEF Program!MainWrites
<1>2. CASE Program!MainEnables
  BY <1>2 DEF Program!MainEnables
<1>3. CASE Program!MainReset
  BY <1>3, ResetWritesType, WriteSeq DEF Program!MainReset, Some
<1>4. CASE Program!MainEcho
  BY <1>4 DEF Program!MainEcho
<1>5. CASE Program!MainCalls
  BY <1>0, <1>5 DEF Program!MainCalls
<1>6. CASE Program!MainPolls \/ Program!MainGivesUp
  BY <1>6 DEF Program!MainPolls, Program!MainGivesUp
<1>7. CASE Program!MainTxByte
  BY <1>0, <1>7 DEF Program!MainTxByte
<1>8. CASE Program!MainTxStart
  BY <1>8 DEF Program!MainTxStart
<1>9. CASE Program!MainForgets
  BY <1>0, <1>9 DEF Program!MainForgets
<1> QED  BY <1>1, <1>2, <1>3, <1>4, <1>5, <1>6, <1>7, <1>8, <1>9 DEF Program!Main

LEMMA MainType == ASSUME DeviceOK, HostOK, ProgramOK, Main PROVE SystemInv'
<1>1. Program!Main /\ Cpu(Program!mainOp) /\ UNCHANGED <<host, scenario, counts>>
  BY DEF Main
<1>2. DeviceOK'
  BY <1>1, MainOpLegal, CpuType
<1>3. token' = token
  BY <1>1 DEF Cpu, coreVars
<1>4. HostOK'
  BY <1>1, <1>3 DEF HostOK, host, counts, inTransfer, now
<1>5. MainOK' /\ EchoOK'
  <2>1. Len(Buffer0) \in Nat /\ ep1_rx_len' \in 0 .. Len(Buffer0)
    BY <1>1, MainStepType, SystemAssumption, LenProperties DEF ProgramOK, EchoOK
  <2>2. MainOK'
    BY <1>1, MainStepType DEF MainOK
  <2>3. EchoOK'
    BY <1>1, <2>1, MainStepType DEF ProgramOK, EchoOK
  <2> QED  BY <2>2, <2>3
<1>6. StaticOK' /\ XferOK'
  BY <1>1 DEF ProgramOK, StaticOK, XferOK, Program!Main, Program!handlerVars, Program!xferVars,
              Program!copyVars, Program!staticVars
<1>7. HandlerOK'
  <2>1. fpc' = "idle" /\ fwrites' = fwrites /\ ep_intsts' = ep_intsts
    BY <1>1 DEF Program!Main, Program!handlerVars
  <2> QED  BY <2>1 DEF ProgramOK, HandlerOK, FwPc, ReadPc, SendPc, PacketPc
<1> QED  BY <1>2, <1>4, <1>5, <1>6, <1>7 DEF SystemInv, ProgramOK

-----------------------------------------------------------------------------
(* my_usb_intr: the answers. *)
AnswerKind == {"send", "none", "address", "status", "stall"}

LEMMA AnswerKinds == \A q : Program!answerTo(q) \in AnswerKind
<1>1. \A q : Program!standardAnswer(q) \in AnswerKind
  BY DEF Program!standardAnswer, AnswerKind
<1>2. \A q : Program!classAnswer(q) \in AnswerKind
  BY DEF Program!classAnswer, AnswerKind
<1> QED  BY <1>1, <1>2 DEF Program!answerTo, AnswerKind

LEMMA DescriptorNamed ==
  \A q : q.wValue \in Nat /\ Program!descriptorOf(q) # "none"
           => Program!descriptorOf(q) \in DescriptorName
<1> SUFFICES ASSUME NEW q, q.wValue \in Nat, Program!descriptorOf(q) # "none"
             PROVE  Program!descriptorOf(q) \in DescriptorName
  OBVIOUS
<1> DEFINE string == <<"lang", "man", "prod", "serial">>
<1>1. Program!LO_BYTE(q.wValue) \in Nat
  BY DEF Program!LO_BYTE
<1>2. Program!LO_BYTE(q.wValue) < 4 => string[Program!LO_BYTE(q.wValue) + 1] \in DescriptorName
  <2>1. \A n \in Nat : n < 4 => string[n + 1] \in DescriptorName
    BY DEF DescriptorName
  <2> QED  BY <1>1, <2>1
<1>3. Program!descriptorOf(q) \in
        {"device", "config", "none", string[Program!LO_BYTE(q.wValue) + 1]}
      /\ (Program!descriptorOf(q) = string[Program!LO_BYTE(q.wValue) + 1] =>
             Program!LO_BYTE(q.wValue) < 4 \/ Program!descriptorOf(q) \in {"device", "config", "none"})
  BY DEF Program!descriptorOf
<1> QED  BY <1>2, <1>3 DEF DescriptorName

LEMMA SendKinds ==
  ASSUME NEW q, Program!answerTo(q) = "send"
  PROVE  \/ /\ Program!Standard(q, Program!REQ_GET_STATUS)
            /\ Program!recipient(q) \in {"device", "interface", "endpoint"}
         \/ /\ Program!Standard(q, Program!REQ_GET_DESCRIPTOR)
            /\ Program!descriptorOf(q) # "none"
         \/ Program!Standard(q, Program!REQ_GET_CONFIGURATION)
         \/ Program!Class(q, Program!CDC_GET_LINE_CODING)
<1>1. CASE Program!typeOf(q) = "standard"
  <2>1. Program!standardAnswer(q) = "send"
    BY <1>1 DEF Program!answerTo
  <2> QED  BY <1>1, <2>1 DEF Program!standardAnswer, Program!Standard
<1>2. CASE Program!typeOf(q) = "class"
  <2>1. Program!classAnswer(q) = "send"
    BY <1>2 DEF Program!answerTo
  <2> QED  BY <1>2, <2>1 DEF Program!classAnswer, Program!Class
<1>3. CASE Program!typeOf(q) \notin {"standard", "class"}
  BY <1>3 DEF Program!answerTo
<1> QED  BY <1>1, <1>2, <1>3

(* What is sent is a sequence of bytes. *)
LEMMA ReplyType ==
  ASSUME NEW q, q.wValue \in Nat, q.wLength \in Nat, Program!answerTo(q) = "send",
         NEW c \in {0, 1}, NEW w \in BOOLEAN, NEW st, NEW line \in Seq(Payload)
  PROVE  Program!reply(q, c, w, st, line) \in Seq(Payload)
<1> DEFINE Is(k) == Program!reply(q, c, w, st, line) = k
           desc  == Descriptor[Program!descriptorOf(q)]
           part  == SubSeq(desc, 1, Program!MIN(Len(desc), q.wLength))
<1>1. \A n \in 0 .. 3 : Program!byteOf(n) \in Payload
  BY SystemAssumption DEF Program!byteOf
<1>2. "0" \in Payload
  BY SystemAssumption
<1>3. CASE Program!Standard(q, Program!REQ_GET_STATUS)
            /\ Program!recipient(q) \in {"device", "interface", "endpoint"}
  <2>0. /\ ~Program!Standard(q, Program!REQ_GET_DESCRIPTOR)
        /\ ~Program!Standard(q, Program!REQ_GET_CONFIGURATION)
        /\ ~Program!Class(q, Program!CDC_GET_LINE_CODING)
    BY <1>3 DEF Program!Standard, Program!Class, Program!REQ_GET_STATUS,
                Program!REQ_GET_DESCRIPTOR, Program!REQ_GET_CONFIGURATION
  <2>1. \A b \in BOOLEAN : Program!bit(b) \in 0 .. 1 /\ 0 + 2 * Program!bit(b) \in 0 .. 3
    BY DEF Program!bit
  <2>2. Program!bit(~Program!usb_is_bus_powered) = 0
    BY DEF Program!bit, Program!usb_is_bus_powered
  <2>3. CASE Program!recipient(q) = "device"
    <3>1. Program!reply(q, c, w, st, line) =
            <<Program!byteOf(Program!bit(~Program!usb_is_bus_powered) + 2 * Program!bit(w)), "0">>
      BY <1>3, <2>0, <2>3 DEF Program!reply
    <3>2. Program!byteOf(Program!bit(~Program!usb_is_bus_powered) + 2 * Program!bit(w)) \in Payload
      BY <1>1, <2>1, <2>2
    <3> QED  BY <1>2, <3>1, <3>2
  <2>4. CASE Program!recipient(q) = "interface"
    <3>1. Program!reply(q, c, w, st, line) = <<"0", "0">>
      BY <1>3, <2>0, <2>4 DEF Program!reply
    <3> QED  BY <1>2, <3>1
  <2>5. CASE Program!recipient(q) = "endpoint"
    <3>1. Program!reply(q, c, w, st, line) =
            <<Program!byteOf(Program!bit(Program!endpointOf(q) \in st)), "0">>
      BY <1>3, <2>0, <2>5 DEF Program!reply
    <3>2. Program!bit(Program!endpointOf(q) \in st) \in 0 .. 3
      BY DEF Program!bit
    <3>3. Program!byteOf(Program!bit(Program!endpointOf(q) \in st)) \in Payload
      BY <1>1, <3>2
    <3> QED  BY <1>2, <3>1, <3>3
  <2> QED  BY <1>3, <2>3, <2>4, <2>5
<1>4. CASE Program!Standard(q, Program!REQ_GET_DESCRIPTOR) /\ Program!descriptorOf(q) # "none"
  <2>1. /\ ~Program!Standard(q, Program!REQ_GET_STATUS)
        /\ ~Program!Standard(q, Program!REQ_GET_CONFIGURATION)
        /\ ~Program!Class(q, Program!CDC_GET_LINE_CODING)
    BY <1>4 DEF Program!Standard, Program!Class, Program!REQ_GET_STATUS,
                Program!REQ_GET_DESCRIPTOR, Program!REQ_GET_CONFIGURATION
  <2>2. Program!reply(q, c, w, st, line) = part
    BY <1>4, <2>1 DEF Program!reply
  <2>3. desc \in Seq(Payload) /\ Len(desc) \in Nat
    BY <1>4, DescriptorNamed, SystemAssumption, LenProperties
  <2> DEFINE m == Program!MIN(Len(desc), q.wLength)
  <2>4. m \in Nat /\ m <= Len(desc)
    BY <2>3 DEF Program!MIN
  <2> HIDE DEF desc, m
  <2>5. SubSeq(desc, 1, m) \in Seq(Payload)
    BY <2>3, <2>4, SubSeqType
  <2> QED  BY <2>2, <2>5 DEF m
<1>5. CASE Program!Standard(q, Program!REQ_GET_CONFIGURATION)
  <2>1. /\ ~Program!Standard(q, Program!REQ_GET_STATUS)
        /\ ~Program!Standard(q, Program!REQ_GET_DESCRIPTOR)
        /\ ~Program!Class(q, Program!CDC_GET_LINE_CODING)
    BY <1>5 DEF Program!Standard, Program!Class, Program!REQ_GET_STATUS,
                Program!REQ_GET_DESCRIPTOR, Program!REQ_GET_CONFIGURATION
  <2>2. Program!reply(q, c, w, st, line) = <<Program!byteOf(c)>>
    BY <1>5, <2>1 DEF Program!reply
  <2> QED  BY <1>1, <2>2
<1>6. CASE Program!Class(q, Program!CDC_GET_LINE_CODING)
  <2>1. /\ ~Program!Standard(q, Program!REQ_GET_STATUS)
        /\ ~Program!Standard(q, Program!REQ_GET_DESCRIPTOR)
        /\ ~Program!Standard(q, Program!REQ_GET_CONFIGURATION)
    BY <1>6 DEF Program!Standard, Program!Class
  <2> QED  BY <1>6, <2>1 DEF Program!reply
<1> QED  BY <1>3, <1>4, <1>5, <1>6, SendKinds

LEMMA ReqType ==
  ASSUME request \in DOMAIN Request
  PROVE  Program!req.wValue \in Nat /\ Program!req.wLength \in Nat
BY HostAssumption DEF Program!req

LEMMA AnswerType ==
  ASSUME StaticOK, request \in DOMAIN Request, Program!answerTo(Program!req) = "send"
  PROVE  Program!answer \in Seq(Payload) /\ Len(Program!answer) \in Nat
<1>1. Program!answer \in Seq(Payload)
  BY ReqType, ReplyType DEF StaticOK, Program!answer
<1> QED  BY <1>1, LenProperties

-----------------------------------------------------------------------------
(* my_usb_intr: what it writes. *)
LEMMA HandlerOps ==
  ASSUME XferOK
  PROVE
  /\ fpc = "reset" => Program!handlerOp = Head(fwrites)
  /\ fpc = "clear" => Program!handlerOp = Program!Intsts(ep_intsts)
  /\ fpc = "stat" => Program!handlerOp = Program!Stat(TRUE)
  /\ fpc = "ep1Read" => Program!handlerOp \in {Program!Read(1), Program!Accept(1), Program!NoOp}
  /\ fpc \in ReadPc /\ Len(fbuf) < fcnt => Program!handlerOp = Program!Read(0)
  /\ fpc \in ReadPc /\ ~(Len(fbuf) < fcnt) /\ Len(fbuf) = fcnt => Program!handlerOp = Program!Accept(0)
  /\ fpc \in ReadPc => Program!handlerOp \in {Program!Read(0), Program!Accept(0), Program!NoOp}
  /\ fpc = "address" => Program!handlerOp = Program!SetAddr(Program!addressOf(Program!req))
  /\ fpc = "status" => Program!handlerOp = Program!Start(0, 0)
  /\ fpc = "halt" =>
       Program!handlerOp = Program!stalling(Program!endpointOf(Program!req), Program!setsStall(Program!req))
  /\ fpc = "stall" => Program!handlerOp = Program!stalling(0, TRUE)
  /\ fpc = "mask" => Program!handlerOp = Program!Cfg(0, [EpCfg(0) EXCEPT !.int_rx = FALSE])
  /\ fpc = "unmask" => Program!handlerOp = Program!Cfg(0, [EpCfg(0) EXCEPT !.int_rx = TRUE])
  /\ fpc = "sendPoll" => Program!handlerOp \in {Program!TxFlush(0), Program!NoOp}
  /\ fpc = "sendWrite" => Program!handlerOp = Program!Write(0, Head(fbuf))
  /\ fpc = "sendStart" => Program!handlerOp = IF fflush THEN Program!FlushStart(0, send) ELSE Program!Start(0, send)
  /\ fpc = "sendAccept" => Program!handlerOp = Program!Accept(0)
  /\ fpc \in {"idle", "intsts", "service", "ep1Count", "setupCount", "outCount", "statusSpin",
              "sendSpin", "sendAck"} => Program!handlerOp = Program!NoOp
<1> USE DEF Program!handlerOp, Program!reading, Program!served, ReadPc
<1>1. fpc = "reset" => Program!handlerOp = Head(fwrites)
  OBVIOUS
<1>2. fpc = "clear" => Program!handlerOp = Program!Intsts(ep_intsts)
  OBVIOUS
<1>3. fpc = "stat" => Program!handlerOp = Program!Stat(TRUE)
  OBVIOUS
<1>4. fpc = "ep1Read" => Program!handlerOp \in {Program!Read(1), Program!Accept(1), Program!NoOp}
  OBVIOUS
<1>5. fpc \in ReadPc /\ Len(fbuf) < fcnt => Program!handlerOp = Program!Read(0)
  <2>1. Len(fbuf) \in Nat /\ fcnt \in Nat
    BY LenProperties DEF XferOK
  <2>2. \A m, n \in Nat : m < n => m # n
    OBVIOUS
  <2>3. Len(fbuf) < fcnt => Len(fbuf) # fcnt
    BY <2>1, <2>2
  <2> QED  BY <2>3
<1>6. fpc \in ReadPc /\ ~(Len(fbuf) < fcnt) /\ Len(fbuf) = fcnt => Program!handlerOp = Program!Accept(0)
  OBVIOUS
<1>7. fpc \in ReadPc => Program!handlerOp \in {Program!Read(0), Program!Accept(0), Program!NoOp}
  OBVIOUS
<1>8. fpc = "address" => Program!handlerOp = Program!SetAddr(Program!addressOf(Program!req))
  OBVIOUS
<1>9. fpc = "status" => Program!handlerOp = Program!Start(0, 0)
  OBVIOUS
<1>10. fpc = "halt" =>
       Program!handlerOp = Program!stalling(Program!endpointOf(Program!req), Program!setsStall(Program!req))
  OBVIOUS
<1>11. fpc = "stall" => Program!handlerOp = Program!stalling(0, TRUE)
  OBVIOUS
<1>12. fpc = "mask" => Program!handlerOp = Program!Cfg(0, [EpCfg(0) EXCEPT !.int_rx = FALSE])
  BY TransactionsAssumption
<1>13. fpc = "unmask" => Program!handlerOp = Program!Cfg(0, [EpCfg(0) EXCEPT !.int_rx = TRUE])
  BY TransactionsAssumption
<1>14. fpc = "sendPoll" => Program!handlerOp \in {Program!TxFlush(0), Program!NoOp}
  OBVIOUS
<1>15. fpc = "sendWrite" => Program!handlerOp = Program!Write(0, Head(fbuf))
  OBVIOUS
<1>16. fpc = "sendStart" =>
         Program!handlerOp = IF fflush THEN Program!FlushStart(0, send) ELSE Program!Start(0, send)
  OBVIOUS
<1>17. fpc = "sendAccept" => Program!handlerOp = Program!Accept(0)
  OBVIOUS
<1>18. fpc \in {"idle", "intsts", "service", "ep1Count", "setupCount", "outCount", "statusSpin",
                "sendSpin", "sendAck"} => Program!handlerOp = Program!NoOp
  OBVIOUS
<1> HIDE DEF Program!handlerOp, Program!reading, Program!served, ReadPc
<1> QED  BY <1>1, <1>2, <1>3, <1>4, <1>5, <1>6, <1>7, <1>8, <1>9, <1>10, <1>11, <1>12, <1>13,
            <1>14, <1>15, <1>16, <1>17, <1>18

LEMMA HarmlessLegal ==
  /\ \A i : Legal(Program!Read(i)) /\ Legal(Program!Accept(i)) /\ Legal(Program!TxFlush(i))
  /\ \A ints : Legal(Program!Intsts(ints))
  /\ Legal(Program!Stat(TRUE)) /\ Legal(Program!NoOp)
BY DEF Legal, Program!Intsts, Program!Stat, Program!Read, Program!Accept, Program!TxFlush,
       Program!NoOp

LEMMA HandlerOpLegal == ASSUME DeviceOK, ProgramOK PROVE Legal(Program!handlerOp)
<1> DEFINE op == Program!handlerOp
<1> USE DEF ProgramOK, HandlerOK, XferOK
<1>1. ASSUME NEW i \in EP, NEW on \in BOOLEAN PROVE Legal(Program!stalling(i, on))
  <2>1. EpCfg(i) \in EPx_CFG
    BY DeviceTypes DEF EpCfg, EPx_CFG
  <2>2. Program!stalling(i, on) = Program!Cfg(i, [EpCfg(i) EXCEPT !.stall_ep = on])
    BY DEF Program!stalling
  <2>3. [EpCfg(i) EXCEPT !.stall_ep = on] \in EPx_CFG
    BY <2>1 DEF EPx_CFG
  <2> QED  BY <2>2, <2>3 DEF Legal, Program!Cfg
<1>2. ASSUME NEW on \in BOOLEAN PROVE Legal(Program!Cfg(0, [EpCfg(0) EXCEPT !.int_rx = on]))
  <2>1. EpCfg(0) \in EPx_CFG
    BY DeviceTypes, TransactionsAssumption DEF EpCfg, EPx_CFG
  <2>2. [EpCfg(0) EXCEPT !.int_rx = on] \in EPx_CFG
    BY <2>1 DEF EPx_CFG
  <2> QED  BY <2>2 DEF Legal, Program!Cfg
<1>3. CASE fpc = "reset"
  <2>1. op = Head(fwrites)
    BY <1>3, HandlerOps
  <2> QED  BY <1>3, <2>1, TailType, WritesLegal
<1>4. CASE fpc = "address"
  <2>1. op = Program!SetAddr(Program!addressOf(Program!req))
    BY <1>4, HandlerOps
  <2>2. Program!addressOf(Program!req) \in Dev
    BY <1>4, ProgramAssumption DEF Program!req
  <2> QED  BY <2>1, <2>2 DEF Legal, Program!SetAddr
<1>5. CASE fpc = "status"
  <2>1. op = Program!Start(0, 0)
    BY <1>5, HandlerOps
  <2> QED  BY <2>1, RequestAssumption DEF Legal, Program!Start
<1>6. CASE fpc = "halt"
  <2>1. op = Program!stalling(Program!endpointOf(Program!req), Program!setsStall(Program!req))
    BY <1>6, HandlerOps
  <2>2. Program!endpointOf(Program!req) \in EP
    BY <1>6, ProgramAssumption DEF Program!FirmwareConstants, Program!req
  <2>3. Program!setsStall(Program!req) \in BOOLEAN
    BY DEF Program!setsStall
  <2> QED  BY <1>1, <2>1, <2>2, <2>3
<1>7. CASE fpc = "stall"
  <2>1. op = Program!stalling(0, TRUE)
    BY <1>7, HandlerOps
  <2> QED  BY <1>1, <2>1, TransactionsAssumption
<1>8. CASE fpc \in {"mask", "unmask"}
  <2>1. op = Program!Cfg(0, [EpCfg(0) EXCEPT !.int_rx = (fpc = "unmask")])
    BY <1>8, HandlerOps
  <2> QED  BY <1>2, <2>1
<1>9. CASE fpc = "sendWrite"
  <2>1. op = Program!Write(0, Head(fbuf))
    BY <1>9, HandlerOps
  <2>2. Head(fbuf) \in Payload
    BY <1>9, TailType DEF PacketPc
  <2> QED  BY <2>1, <2>2 DEF Legal, Program!Write
<1>10. CASE fpc = "sendStart"
  <2>1. op \in {Program!FlushStart(0, send), Program!Start(0, send)}
    BY <1>10, HandlerOps
  <2> QED  BY <2>1, RequestAssumption DEF Legal, Program!Start, Program!FlushStart
<1>11. CASE fpc \notin {"reset", "address", "status", "halt", "stall", "mask", "unmask",
                        "sendWrite", "sendStart"}
  <2>1. op \in {Program!Intsts(Program!served), Program!Stat(TRUE), Program!Read(1),
                Program!Accept(1), Program!Read(0), Program!Accept(0), Program!TxFlush(0),
                Program!NoOp}
    BY <1>11, HandlerOps DEF Program!served, HandlerOK, FwPc, SendPc, PacketPc
  <2> QED  BY <2>1, HarmlessLegal
<1> HIDE DEF ProgramOK, HandlerOK, XferOK, op
<1> QED  BY <1>3, <1>4, <1>5, <1>6, <1>7, <1>8, <1>9, <1>10, <1>11 DEF op

-----------------------------------------------------------------------------
(* my_usb_intr: its steps. *)
FwOK == EchoOK /\ StaticOK /\ XferOK /\ HandlerOK

(* Where it relies on nothing. *)
FreePc == {"idle", "intsts", "service", "clear", "stat", "setupCount", "outCount", "status",
           "statusSpin", "stall", "sendAck", "sendAccept", "unmask"}

LEMMA DoneEp0 ==
  ASSUME HandlerOK PROVE Program!doneEp0 = "clear" \/ (Program!doneEp0 = "ep1Count" /\ 1 \in EP)
BY DEF HandlerOK, EP_INTSTS, Program!doneEp0, Program!afterEp0

LEMMA ServiceAt ==
  \A ints \in EP_INTSTS(EP) :
    Program!service(ints) \in FreePc \/ (Program!service(ints) = "ep1Count" /\ 1 \in EP)
BY DEF EP_INTSTS, Program!service, Program!afterEp0, FreePc

LEMMA FreeHandler ==
  ASSUME fwrites' \in Seq(Writes), ep_intsts' \in EP_INTSTS(EP),
         fpc' \in FreePc \/ (fpc' = "ep1Count" /\ 1 \in EP)
  PROVE  HandlerOK'
BY DEF HandlerOK, FreePc, FwPc, ReadPc, PacketPc, SendPc

LEMMA GoesFree ==
  ASSUME HandlerOK, NEW pc, Program!Goto(pc),
         pc \in FreePc \/ pc = Program!doneEp0
  PROVE  HandlerOK'
<1>1. fpc' = pc /\ fwrites' = fwrites /\ ep_intsts' = ep_intsts
  BY DEF Program!Goto
<1>2. pc \in FreePc \/ (pc = "ep1Count" /\ 1 \in EP)
  BY DoneEp0 DEF FreePc
<1> QED  BY <1>1, <1>2, FreeHandler DEF HandlerOK

LEMMA SameEcho == ASSUME EchoOK, UNCHANGED Program!echoVars PROVE EchoOK'
BY DEF EchoOK, Program!echoVars

LEMMA SameStatic == ASSUME StaticOK, UNCHANGED Program!staticVars PROVE StaticOK'
BY DEF StaticOK, Program!staticVars

LEMMA SameXfer == ASSUME XferOK, UNCHANGED <<Program!xferVars, Program!copyVars>> PROVE XferOK'
BY DEF XferOK, Program!xferVars, Program!copyVars

(* The steps that change little but where it is. *)
LEMMA FwPlain ==
  ASSUME FwOK,
         \/ Program!FwInterrupt \/ Program!FwService \/ Program!FwClear \/ Program!FwStat
         \/ Program!FwAddress \/ Program!FwStatus \/ Program!FwSendAck \/ Program!FwUnmask
  PROVE  FwOK'
<1> USE DEF FwOK
<1>1. UNCHANGED <<Program!echoVars, Program!xferVars, Program!copyVars, Program!staticVars>>
  BY DEF Program!FwInterrupt, Program!FwService, Program!FwClear, Program!FwStat,
         Program!FwAddress, Program!FwStatus, Program!FwSendAck, Program!FwUnmask
<1>2. EchoOK' /\ StaticOK' /\ XferOK'
  BY <1>1, SameEcho, SameStatic, SameXfer
<1> SUFFICES HandlerOK'
  BY <1>2
<1>0. fwrites \in Seq(Writes) /\ ep_intsts \in EP_INTSTS(EP)
  BY DEF HandlerOK
<1>3. CASE Program!FwInterrupt
  BY <1>0, <1>3, FreeHandler DEF Program!FwInterrupt, FreePc
<1>4. CASE Program!FwService
  <2>1. PICK pc \in {"setupCount", "outCount", "stall"} : Program!Goto(pc)
    BY <1>4 DEF Program!FwService
  <2> QED  BY <2>1, GoesFree DEF FreePc
<1>5. CASE Program!FwClear
  <2>1. ep_intsts' \in EP_INTSTS(EP)
    BY <1>5 DEF Program!FwClear, Program!NoInts, EP_INTSTS
  <2> QED  BY <1>0, <1>5, <2>1, FreeHandler DEF Program!FwClear, FreePc
<1>6. CASE Program!FwStat
  BY <1>0, <1>6, FreeHandler DEF Program!FwStat, FreePc
<1>7. CASE Program!FwAddress \/ Program!FwStatus \/ Program!FwSendAck \/ Program!FwUnmask
  <2>1. PICK pc \in {"status", "statusSpin", "sendAccept", Program!doneEp0} : Program!Goto(pc)
    BY <1>7 DEF Program!FwAddress, Program!FwStatus, Program!FwSendAck, Program!FwUnmask
  <2> QED  BY <2>1, GoesFree DEF FreePc
<1> QED  BY <1>3, <1>4, <1>5, <1>6, <1>7

LEMMA FwIntstsType == ASSUME DeviceOK, FwOK, Program!FwIntsts PROVE FwOK'
<1> USE DEF FwOK
<1>1. EchoOK' /\ XferOK'
  BY SameEcho, SameXfer DEF Program!FwIntsts
<1>2. StaticOK'
  BY DEF Program!FwIntsts, Program!BusResetEvent, StaticOK
<1>3. ep_intsts' = EpIntsts /\ EpIntsts \in EP_INTSTS(EP)
  BY DEF Program!FwIntsts, EpIntsts, EP_INTSTS
<1>4. CASE func_stat_rst /\ enable_rst_intr
  <2>1. fpc' = "reset" /\ fwrites' = Program!ResetWrites
    BY <1>4 DEF Program!FwIntsts, Program!BusResetEvent
  <2> QED  BY <1>1, <1>2, <1>3, <2>1, ResetWritesType, WriteSeq
           DEF HandlerOK, FwPc, ReadPc, PacketPc, SendPc, Some
<1>5. CASE ~(func_stat_rst /\ enable_rst_intr)
  <2>1. fpc' = Program!service(EpIntsts) /\ fwrites' = fwrites
    BY <1>5 DEF Program!FwIntsts
  <2>2. HandlerOK'
    BY <1>3, <2>1, ServiceAt, FreeHandler DEF HandlerOK
  <2> QED  BY <1>1, <1>2, <2>2
<1> QED  BY <1>4, <1>5

LEMMA FwResetType == ASSUME FwOK, Program!FwReset PROVE FwOK'
<1> USE DEF FwOK
<1>1. EchoOK' /\ XferOK' /\ StaticOK'
  BY SameEcho, SameXfer, SameStatic DEF Program!FwReset
<1>2. fwrites' \in Seq(Writes) /\ ep_intsts' = ep_intsts /\ ep_intsts \in EP_INTSTS(EP)
  BY TailType DEF Program!FwReset, HandlerOK
<1>3. CASE fwrites' = << >>
  <2>1. fpc' = Program!service(ep_intsts)
    BY <1>3 DEF Program!FwReset
  <2>2. HandlerOK'
    BY <1>2, <2>1, ServiceAt, FreeHandler
  <2> QED  BY <1>1, <2>2
<1>4. CASE fwrites' # << >>
  <2>1. fpc' = "reset"
    BY <1>4 DEF Program!FwReset
  <2>2. HandlerOK'
    BY <1>2, <1>4, <2>1 DEF HandlerOK, FwPc, ReadPc, PacketPc, SendPc
  <2> QED  BY <1>1, <2>2
<1> QED  BY <1>3, <1>4

(* Endpoint 1. *)
LEMMA FwEp1CountType == ASSUME DeviceOK, FwOK, Program!FwEp1Count PROVE FwOK'
<1> USE DEF FwOK
<1>1. 1 \in EP /\ fpc = "ep1Count" /\ Program!Goto("ep1Read")
  BY DEF Program!FwEp1Count, HandlerOK
<1>2. Len(Buffer0) \in Nat /\ rx_len_q[1] \in Nat
  BY <1>1, DeviceTypes, SystemAssumption, LenProperties
<1>3. /\ ep1_rx_len' = Program!MIN(rx_len_q[1], Len(Buffer0)) /\ fcnt' = 0
      /\ rx_packet_buf' = rx_packet_buf
      /\ UNCHANGED <<Program!xferVars, fbuf, send, fflush, Program!staticVars>>
  BY <1>1 DEF Program!FwEp1Count, EchoOK, Sts
<1>4. ep1_rx_len' \in 0 .. Len(Buffer0)
  BY <1>2, <1>3 DEF Program!MIN
<1>5. EchoOK' /\ XferOK' /\ StaticOK'
  BY <1>3, <1>4, SameStatic DEF EchoOK, XferOK, Program!xferVars
<1>6. fpc' = "ep1Read" /\ fwrites' = fwrites /\ ep_intsts' = ep_intsts
  BY <1>1 DEF Program!Goto
<1>7. HandlerOK'
  BY <1>1, <1>3, <1>4, <1>6 DEF HandlerOK, FwPc, ReadPc, PacketPc, SendPc
<1> QED  BY <1>5, <1>7

LEMMA FwEp1ReadType == ASSUME DeviceOK, FwOK, Program!FwEp1Read PROVE FwOK'
<1> USE DEF FwOK
<1>1. /\ 1 \in EP /\ fpc = "ep1Read" /\ fcnt < ep1_rx_len
      /\ rx_packet_buf' = [rx_packet_buf EXCEPT ![fcnt + 1] = RxByte(1)] /\ fcnt' = fcnt + 1
      /\ UNCHANGED <<fpc, fwrites, ep_intsts, ep1_rx_len, fbuf, send, fflush,
                     Program!xferVars, Program!staticVars>>
  BY DEF Program!FwEp1Read, Program!handlerVars, HandlerOK
<1>2. RxByte(1) \in Payload
  <2>1. rx_fifo[1] \in Seq(Payload)
    BY <1>1, DeviceTypes
  <2> QED  BY <2>1, TailType, TransactionsAssumption DEF RxByte
<1>3. Len(Buffer0) \in Nat /\ fcnt \in Nat
  BY SystemAssumption, LenProperties DEF XferOK
<1>4. fcnt + 1 \in 1 .. Len(rx_packet_buf)
  BY <1>1, <1>3 DEF EchoOK
<1>5. rx_packet_buf' \in Seq(Payload) /\ Len(rx_packet_buf') = Len(Buffer0)
  <2>1. rx_packet_buf \in Seq(Payload) /\ Len(rx_packet_buf) = Len(Buffer0)
    BY DEF EchoOK
  <2> QED  BY <1>1, <1>2, <1>4, <2>1, ExceptSeq
<1>6. EchoOK'
  BY <1>1, <1>5 DEF EchoOK
<1>7. XferOK' /\ StaticOK'
  BY <1>1, <1>3, SameStatic DEF XferOK, Program!xferVars
<1>8. fcnt' <= ep1_rx_len'
  BY <1>1, <1>3 DEF EchoOK
<1>9. HandlerOK'
  BY <1>1, <1>8 DEF HandlerOK, FwPc, ReadPc, PacketPc, SendPc
<1> QED  BY <1>6, <1>7, <1>9

LEMMA FwEp1AcceptType == ASSUME FwOK, Program!FwEp1Accept PROVE FwOK'
<1> USE DEF FwOK
<1>1. /\ Program!Goto("clear") /\ fcnt' = 0
      /\ UNCHANGED <<ep1_rx_len, rx_packet_buf, fbuf, send, fflush,
                     Program!xferVars, Program!staticVars>>
  BY DEF Program!FwEp1Accept
<1>2. EchoOK' /\ XferOK' /\ StaticOK'
  BY <1>1, SameStatic DEF EchoOK, XferOK, Program!xferVars
<1> QED  BY <1>1, <1>2, GoesFree DEF FreePc

(* Endpoint 0 receives. *)
LEMMA FwCountType == ASSUME DeviceOK, FwOK, Program!FwCount PROVE FwOK'
<1> USE DEF FwOK
<1>1. rx_len_q[0] \in Nat
  BY DeviceTypes, TransactionsAssumption
<1>2. /\ fcnt' = IF fpc = "setupCount" THEN Program!MIN(rx_len_q[0], MAXP) ELSE rx_len_q[0]
      /\ fbuf' = << >> /\ fpc \in {"setupCount", "outCount"}
      /\ UNCHANGED <<send, fflush, Program!echoVars, Program!xferVars, Program!staticVars>>
  BY TransactionsAssumption DEF Program!FwCount, Sts
<1>3. fcnt' \in Nat
  BY <1>1, <1>2, RequestAssumption DEF Program!MIN
<1>4. EchoOK' /\ XferOK' /\ StaticOK'
  BY <1>2, <1>3, SameEcho, SameStatic, EmptyType DEF XferOK, Program!xferVars
<1>5. data_idx \in Nat /\ data_idx' = data_idx
  BY <1>2 DEF XferOK, Program!xferVars
<1>6. /\ fwrites' = fwrites /\ ep_intsts' = ep_intsts
      /\ \/ fpc' = "setupRead" \/ fpc' = "stall"
         \/ fpc' = "outRead" /\ data_idx + fcnt' <= MAXDATA
  <2>1. CASE fpc = "setupCount"
    BY <2>1 DEF Program!FwCount, Program!Goto
  <2>2. CASE fpc = "outCount" /\ data_idx + fcnt' <= MAXDATA
    BY <2>2 DEF Program!FwCount, Program!Goto
  <2>3. CASE fpc = "outCount" /\ ~(data_idx + fcnt' <= MAXDATA)
    <3>0. \A k, m, n \in Nat : ~(k + m <= n) => k + m > n
      OBVIOUS
    <3>1. data_idx + fcnt' > MAXDATA
      BY <1>3, <1>5, <2>3, <3>0, RequestAssumption
    <3> QED  BY <2>3, <3>1 DEF Program!FwCount, Program!Goto
  <2> QED  BY <1>2, <2>1, <2>2, <2>3
<1>7. Len(fbuf') <= fcnt'
  BY <1>2, <1>3, EmptyType
<1>8. HandlerOK'
  BY <1>5, <1>6, <1>7 DEF HandlerOK, FwPc, ReadPc, PacketPc, SendPc
<1> QED  BY <1>4, <1>8

LEMMA FwReadType == ASSUME DeviceOK, FwOK, Program!FwRead PROVE FwOK'
<1> USE DEF FwOK
<1>1. /\ fpc \in ReadPc /\ Len(fbuf) < fcnt /\ fbuf' = Append(fbuf, RxByte(0))
      /\ UNCHANGED <<fpc, fwrites, ep_intsts, fcnt, send, fflush,
                     Program!echoVars, Program!xferVars, Program!staticVars>>
  BY TransactionsAssumption DEF Program!FwRead, Program!handlerVars, ReadPc
<1>2. RxByte(0) \in Payload
  <2>1. rx_fifo[0] \in Seq(Payload)
    BY DeviceTypes, TransactionsAssumption
  <2> QED  BY <2>1, TailType, TransactionsAssumption DEF RxByte
<1>3. fbuf' \in Seq(Payload) /\ Len(fbuf') = Len(fbuf) + 1 /\ Len(fbuf) \in Nat
  BY <1>1, <1>2, AppendType DEF XferOK
<1>4. EchoOK' /\ XferOK' /\ StaticOK'
  BY <1>1, <1>3, SameEcho, SameStatic DEF XferOK, Program!xferVars
<1>5. Len(fbuf') <= fcnt'
  BY <1>1, <1>3 DEF XferOK
<1>6. HandlerOK'
  <2>1. data_idx' = data_idx
    BY <1>1 DEF Program!xferVars
  <2> QED  BY <1>1, <1>5, <2>1 DEF HandlerOK, FwPc, ReadPc, PacketPc, SendPc
<1> QED  BY <1>4, <1>6

LEMMA LineCodingType ==
  ASSUME StaticOK, XferOK, NEW r \in DOMAIN Request
  PROVE  LET l == Program!newLineCoding(Request[r], data_buffer, line_coding)
         IN  l \in Seq(Payload) /\ Len(l) = Len(Line0)
<1>1. Len(line_coding) \in Nat
  BY LenProperties DEF StaticOK
<1>2. CASE Program!Class(Request[r], Program!CDC_SET_LINE_CODING)
  <2>1. Len(line_coding) <= Len(data_buffer)
    BY <1>2, ProgramAssumption DEF Program!FirmwareConstants, StaticOK, XferOK
  <2>2. /\ SubSeq(data_buffer, 1, Len(line_coding)) \in Seq(Payload)
        /\ Len(SubSeq(data_buffer, 1, Len(line_coding))) =
             IF 1 <= Len(line_coding) THEN Len(line_coding) - 1 + 1 ELSE 0
    BY <1>1, <2>1, SubSeqType DEF XferOK
  <2>3. Len(SubSeq(data_buffer, 1, Len(line_coding))) = Len(line_coding)
    BY <1>1, <2>2
  <2> QED  BY <1>2, <2>2, <2>3 DEF Program!newLineCoding, StaticOK
<1>3. CASE ~Program!Class(Request[r], Program!CDC_SET_LINE_CODING)
  BY <1>3 DEF Program!newLineCoding, StaticOK
<1> QED  BY <1>2, <1>3

(* usb_process_request, of the request it has stored. *)
LEMMA ProcessType ==
  ASSUME FwOK, request' \in DOMAIN Request, Program!Process(Request[request']),
         UNCHANGED endpoint_stalled, configured' \in {0, 1}
  PROVE  StaticOK' /\ HandlerOK'
<1> USE DEF FwOK
<1> DEFINE r == request'
           k == Program!answerTo(Request[r])
<1>1. /\ remote_wake_enabled' = Program!newRemoteWake(Request[r], remote_wake_enabled)
      /\ line_coding' = Program!newLineCoding(Request[r], data_buffer, line_coding)
      /\ Program!Goto(CASE k = "send" -> "mask" [] k = "none" -> Program!doneEp0 [] OTHER -> k)
  BY DEF Program!Process
<1>2. remote_wake_enabled' \in BOOLEAN
  BY <1>1 DEF Program!newRemoteWake, StaticOK
<1>3. line_coding' \in Seq(Payload) /\ Len(line_coding') = Len(Line0)
  BY <1>1, LineCodingType
<1>4. StaticOK'
  BY <1>2, <1>3 DEF StaticOK
<1>5. k \in AnswerKind
  BY AnswerKinds
<1>6. k = Program!answerTo(Program!req)'
  BY DEF Program!req
<1>7. CASE k \in {"none", "status", "stall"}
  <2>1. PICK pc \in {Program!doneEp0, "status", "stall"} : Program!Goto(pc)
    BY <1>1, <1>7
  <2> QED  BY <1>4, <2>1, GoesFree DEF FreePc
<1>8. CASE k \in {"send", "address"}
  <2>1. fpc' = (IF k = "send" THEN "mask" ELSE "address")
        /\ fwrites' = fwrites /\ ep_intsts' = ep_intsts
    BY <1>1, <1>8 DEF Program!Goto
  <2> HIDE DEF k
  <2>2. \/ fpc' = "mask" /\ Program!answerTo(Program!req)' = "send"
        \/ fpc' = "address" /\ Program!answerTo(Program!req)' = "address"
    BY <1>6, <1>8, <2>1
  <2>3. HandlerOK'
    BY <2>1, <2>2 DEF HandlerOK, FwPc, ReadPc, PacketPc, SendPc
  <2> QED  BY <1>4, <2>3
<1> HIDE DEF k
<1> QED  BY <1>5, <1>7, <1>8 DEF AnswerKind

LEMMA FwSetupType == ASSUME FwOK, Program!FwSetup PROVE FwOK'
<1> USE DEF FwOK
<1>1. PICK r \in DOMAIN Request :
        /\ request' = r
        /\ data_expected' = Program!dataExpected(Request[r]) /\ data_idx' = 0
        /\ IF Program!answeredAtOnce(Request[r]) THEN Program!Process(Request[r])
           ELSE /\ Program!Goto(IF data_expected' THEN Program!doneEp0 ELSE "stall")
                /\ UNCHANGED <<remote_wake_enabled, line_coding>>
  BY DEF Program!FwSetup
<1>2. /\ fbuf' = << >> /\ fcnt' = 0
      /\ UNCHANGED <<Program!echoVars, data_buffer, send, fflush, configured, endpoint_stalled>>
  BY DEF Program!FwSetup
<1>3. EchoOK' /\ XferOK'
  BY <1>1, <1>2, SameEcho, EmptyType, RequestAssumption DEF XferOK
<1>4. CASE Program!answeredAtOnce(Request[r])
  <2>1. Program!Process(Request[request'])
    BY <1>1, <1>4
  <2>2. configured' \in {0, 1} /\ UNCHANGED endpoint_stalled
    BY <1>2 DEF StaticOK
  <2>3. request' \in DOMAIN Request
    BY <1>1
  <2> HIDE DEF FwOK
  <2>4. StaticOK' /\ HandlerOK'
    BY <2>1, <2>2, <2>3, ProcessType
  <2> QED  BY <1>3, <2>4 DEF FwOK
<1>5. CASE ~Program!answeredAtOnce(Request[r])
  <2>1. PICK pc \in {Program!doneEp0, "stall"} : Program!Goto(pc)
    BY <1>1, <1>5
  <2>2. HandlerOK'
    BY <2>1, GoesFree DEF FreePc
  <2>3. StaticOK'
    BY <1>1, <1>2, <1>5 DEF StaticOK
  <2> QED  BY <1>3, <2>2, <2>3
<1> QED  BY <1>4, <1>5

LEMMA FwOutType == ASSUME FwOK, Program!FwOut PROVE FwOK'
<1> USE DEF FwOK
<1>1. /\ fpc = "outRead" /\ Len(fbuf) = fcnt /\ data_idx' = data_idx + fcnt
      /\ data_buffer' = [i \in DOMAIN data_buffer |->
           IF i \in data_idx + 1 .. data_idx' THEN fbuf[i - data_idx] ELSE data_buffer[i]]
      /\ fbuf' = << >> /\ fcnt' = 0
      /\ UNCHANGED <<request, send, Program!echoVars, Program!staticVars>>
  BY DEF Program!FwOut
<1>2. data_idx + fcnt <= MAXDATA /\ data_idx \in Nat /\ fcnt \in Nat
  BY <1>1 DEF HandlerOK, XferOK
<1>3. data_idx' \in 0 .. MAXDATA
  BY <1>1, <1>2, RequestAssumption
<1>4. data_buffer \in Seq(Payload) /\ fbuf \in Seq(Payload) /\ Len(data_buffer) = MAXDATA
      /\ DOMAIN data_buffer = 1 .. MAXDATA
  BY LenProperties DEF XferOK
<1>5. data_buffer' \in Seq(Payload) /\ Len(data_buffer') = MAXDATA
  <2> DEFINE e(i) == IF i \in data_idx + 1 .. data_idx + fcnt THEN fbuf[i - data_idx]
                                                              ELSE data_buffer[i]
  <2>1. data_buffer' = [i \in 1 .. MAXDATA |-> e(i)]
    BY <1>1, <1>4
  <2>2. ASSUME NEW i \in 1 .. MAXDATA PROVE e(i) \in Payload
    <3>1. CASE i \in data_idx + 1 .. data_idx + fcnt
      <4>1. i - data_idx \in 1 .. Len(fbuf)
        BY <1>1, <1>2, <3>1
      <4> QED  BY <1>4, <3>1, <4>1, ElementOfSeq
    <3>2. CASE i \notin data_idx + 1 .. data_idx + fcnt
      BY <1>4, <3>2, ElementOfSeq
    <3> QED  BY <3>1, <3>2
  <2> HIDE DEF e
  <2>3. MAXDATA \in Nat
    BY RequestAssumption
  <2>4. [i \in 1 .. MAXDATA |-> e(i)] \in Seq(Payload)
    BY <2>2, <2>3, IsASeq
  <2>5. Len([i \in 1 .. MAXDATA |-> e(i)]) = MAXDATA
    BY <2>3
  <2> QED  BY <2>1, <2>4, <2>5
<1>6. EchoOK' /\ XferOK' /\ StaticOK'
  BY <1>1, <1>3, <1>5, SameEcho, SameStatic, EmptyType DEF XferOK
<1>7. PICK pc \in {"status", Program!doneEp0} : Program!Goto(pc)
  BY DEF Program!FwOut
<1> QED  BY <1>6, <1>7, GoesFree DEF FreePc

LEMMA FwStatusSpinType == ASSUME FwOK, Program!FwStatusSpin PROVE FwOK'
<1> USE DEF FwOK
<1>1. UNCHANGED <<Program!echoVars, request, data_buffer, data_idx, Program!copyVars,
                  endpoint_stalled>>
  BY DEF Program!FwStatusSpin
<1>2. EchoOK' /\ XferOK'
  BY <1>1, SameEcho DEF XferOK, Program!copyVars
<1>3. request' \in DOMAIN Request /\ Program!req = Request[request']
  BY <1>1 DEF XferOK, Program!req
<1>4. CASE data_expected
  <2>1. Program!Process(Request[request']) /\ configured' = configured
    BY <1>3, <1>4 DEF Program!FwStatusSpin
  <2>2. configured' \in {0, 1} /\ UNCHANGED endpoint_stalled
    BY <1>1, <2>1 DEF StaticOK
  <2> HIDE DEF FwOK
  <2>3. StaticOK' /\ HandlerOK'
    BY <1>3, <2>1, <2>2, ProcessType
  <2> QED  BY <1>2, <2>3 DEF FwOK
<1>5. CASE ~data_expected
  <2>1. /\ Program!Goto(IF Program!setsStall(Program!req) \/ Program!clearsStall(Program!req)
                          THEN "halt" ELSE Program!doneEp0)
        /\ configured' = Program!newConfigured(Program!req, configured)
        /\ UNCHANGED <<remote_wake_enabled, line_coding>>
    BY <1>5 DEF Program!FwStatusSpin
  <2>2. configured' \in {0, 1}
    BY <2>1 DEF Program!newConfigured, StaticOK
  <2>3. StaticOK'
    BY <1>1, <2>1, <2>2 DEF StaticOK
  <2>4. CASE Program!setsStall(Program!req) \/ Program!clearsStall(Program!req)
    <3>1. fpc' = "halt" /\ fwrites' = fwrites /\ ep_intsts' = ep_intsts
      BY <2>1, <2>4 DEF Program!Goto
    <3>2. Program!setsStall(Program!req)' \/ Program!clearsStall(Program!req)'
      BY <1>1, <2>4 DEF Program!req
    <3>3. HandlerOK'
      BY <3>1, <3>2 DEF HandlerOK, FwPc, ReadPc, PacketPc, SendPc
    <3> QED  BY <1>2, <2>3, <3>3
  <2>5. CASE ~(Program!setsStall(Program!req) \/ Program!clearsStall(Program!req))
    <3>1. Program!Goto(Program!doneEp0)
      BY <2>1, <2>5
    <3> QED  BY <1>2, <2>3, <3>1, GoesFree
  <2> QED  BY <2>4, <2>5
<1> QED  BY <1>4, <1>5

LEMMA FwHaltType == ASSUME FwOK, Program!FwHalt \/ Program!FwStall PROVE FwOK'
<1> USE DEF FwOK
<1>1. /\ Program!Goto(Program!doneEp0)
      /\ UNCHANGED <<Program!echoVars, Program!xferVars, Program!copyVars, configured,
                     remote_wake_enabled, line_coding>>
  BY DEF Program!FwHalt, Program!FwStall
<1>2. endpoint_stalled' \subseteq EP
  <2>1. CASE Program!FwHalt
    <3>1. Program!endpointOf(Program!req) \in EP
      BY <2>1, ProgramAssumption
         DEF Program!FwHalt, HandlerOK, XferOK, Program!FirmwareConstants, Program!req
    <3> QED  BY <2>1, <3>1 DEF Program!FwHalt, StaticOK
  <2>2. CASE Program!FwStall
    BY <2>2, TransactionsAssumption DEF Program!FwStall, StaticOK
  <2> QED  BY <2>1, <2>2
<1>3. EchoOK' /\ XferOK' /\ StaticOK'
  BY <1>1, <1>2, SameEcho, SameXfer DEF StaticOK
<1> QED  BY <1>1, <1>3, GoesFree

(* Endpoint 0 sends. *)
LEMMA NextPacketType ==
  ASSUME FwOK, NEW n \in Nat, Program!answerTo(Program!req) = "send", n <= Len(Program!answer),
         Program!NextPacket(n), UNCHANGED <<Program!echoVars, Program!xferVars, Program!staticVars>>
  PROVE  FwOK'
<1> USE DEF FwOK
<1> DEFINE a == Program!answer
<1>1. EchoOK' /\ StaticOK' /\ request' = request
  BY SameEcho, SameStatic DEF Program!xferVars
<1>2. a' = a /\ (Program!answerTo(Program!req) = "send")'
  BY DEF Program!answer, Program!req, Program!xferVars, Program!staticVars
<1>3. a \in Seq(Payload) /\ Len(a) \in Nat
  BY AnswerType DEF XferOK
<1>4. /\ fcnt' = n /\ send' = Program!chunk(n) /\ fbuf' = SubSeq(a, n + 1, n + send')
      /\ fwrites' = fwrites /\ ep_intsts' = ep_intsts
      /\ fpc' = (CASE n < Len(a)                               -> "sendPoll"
                   [] n = Len(a) /\ Len(a) = Program!req.wLength -> "sendAck"
                   [] n = Len(a) /\ Len(a) # Program!req.wLength -> "sendStart")
  BY DEF Program!NextPacket, Program!Goto
<1>5. Program!chunk(n) = Program!MIN(Len(a) - n, MAXP)
  BY DEF Program!chunk
<1> HIDE DEF a
<1>6. send' \in 0 .. MAXP /\ n + send' <= Len(a) /\ (n < Len(a) => send' > 0)
  <2>1. \A l, p \in Nat : n <= l /\ p > 0 =>
          LET m == Program!MIN(l - n, p) IN m \in 0 .. p /\ n + m <= l /\ (n < l => m > 0)
    BY DEF Program!MIN
  <2>2. Len(a) \in Nat /\ MAXP \in Nat /\ MAXP > 0 /\ n <= Len(a)
    BY <1>3, RequestAssumption DEF a
  <2>3. send' = Program!MIN(Len(a) - n, MAXP)
    BY <1>4, <1>5
  <2> QED  BY <2>1, <2>2, <2>3
<1>7. PICK m \in 0 .. MAXP : m = send'
  BY <1>6
<1>8. n + 1 \in Nat /\ n + 1 >= 1 /\ n + m \in Nat /\ n + m <= Len(a) /\ (n < Len(a) => m > 0)
  <2>1. m \in Nat
    BY <1>7, RequestAssumption
  <2>2. n + m <= Len(a) /\ (n < Len(a) => m > 0)
    BY <1>6, <1>7
  <2>3. \A k \in Nat : n + k \in Nat /\ n + 1 \in Nat /\ n + 1 >= 1
    OBVIOUS
  <2> QED  BY <2>1, <2>2, <2>3
<1>9. fbuf' = SubSeq(a, n + 1, n + m)
  BY <1>4, <1>7
<1>10. SubSeq(a, n + 1, n + m) \in Seq(Payload)
       /\ Len(SubSeq(a, n + 1, n + m)) = IF n + 1 <= n + m THEN n + m - (n + 1) + 1 ELSE 0
  BY <1>3, <1>8, SubSeqType
<1>11. XferOK'
  BY <1>4, <1>6, <1>9, <1>10 DEF XferOK, Program!xferVars
<1>12. n < Len(a) => fbuf' # << >>
  BY <1>8, <1>9, <1>10, EmptyType, RequestAssumption
<1>13. (fpc' = "sendPoll" /\ n < Len(a)) \/ fpc' \in {"sendAck", "sendStart"}
  <2>1. n < Len(a) \/ n = Len(a)
    BY <1>3 DEF a
  <2> QED  BY <1>4, <2>1
<1>14. fcnt' + send' <= Len(a')
  BY <1>2, <1>4, <1>6
<1>15. HandlerOK'
  BY <1>2, <1>4, <1>12, <1>13, <1>14 DEF HandlerOK, FwPc, ReadPc, PacketPc, SendPc, a
<1> QED  BY <1>1, <1>11, <1>15

LEMMA FwMaskType == ASSUME FwOK, Program!FwMask PROVE FwOK'
<1>1. Program!answerTo(Program!req) = "send"
  BY DEF Program!FwMask, FwOK, HandlerOK
<1>2. 0 <= Len(Program!answer) /\ 0 \in Nat
  BY <1>1, AnswerType DEF FwOK, XferOK
<1> QED  BY <1>1, <1>2, NextPacketType DEF Program!FwMask

(* Where a packet is under way to the endpoint, what is sent does not change. *)
LEMMA SameAnswer ==
  ASSUME UNCHANGED <<Program!xferVars, Program!staticVars>>
  PROVE  /\ Program!answer' = Program!answer
         /\ Program!answerTo(Program!req) = "send" => (Program!answerTo(Program!req) = "send")'
BY DEF Program!answer, Program!req, Program!xferVars, Program!staticVars

LEMMA FwSendPollType ==
  ASSUME FwOK, Program!FwSendPoll \/ Program!FwSendGivesUp PROVE FwOK'
<1> USE DEF FwOK
<1>1. /\ fpc = "sendPoll" /\ Program!Goto("sendWrite")
      /\ UNCHANGED <<fbuf, fcnt, send, Program!echoVars, Program!xferVars, Program!staticVars>>
  BY DEF Program!FwSendPoll, Program!FwSendGivesUp, Program!copyVars
<1>2. EchoOK' /\ XferOK' /\ StaticOK'
  BY <1>1, SameEcho, SameStatic DEF XferOK, Program!xferVars
<1>3. HandlerOK'
  <2>1. fpc' = "sendWrite" /\ fwrites' = fwrites /\ ep_intsts' = ep_intsts
    BY <1>1 DEF Program!Goto
  <2>2. /\ fbuf' # << >> /\ fcnt' + send' <= Len(Program!answer')
        /\ (Program!answerTo(Program!req) = "send")'
    BY <1>1, SameAnswer DEF HandlerOK, PacketPc, SendPc
  <2> QED  BY <2>1, <2>2 DEF HandlerOK, FwPc, ReadPc, PacketPc, SendPc
<1> QED  BY <1>2, <1>3

LEMMA FwSendWriteType == ASSUME FwOK, Program!FwSendWrite PROVE FwOK'
<1> USE DEF FwOK
<1>1. /\ fpc = "sendWrite" /\ fbuf' = Tail(fbuf)
      /\ Program!Goto(IF fbuf' = << >> THEN "sendStart" ELSE "sendPoll")
      /\ UNCHANGED <<fcnt, send, fflush, Program!echoVars, Program!xferVars, Program!staticVars>>
  BY DEF Program!FwSendWrite
<1>2. fbuf' \in Seq(Payload)
  BY <1>1, TailType DEF HandlerOK, XferOK, PacketPc
<1>3. EchoOK' /\ XferOK' /\ StaticOK'
  BY <1>1, <1>2, SameEcho, SameStatic DEF XferOK, Program!xferVars
<1>4. HandlerOK'
  <2>1. /\ fpc' = "sendStart" \/ (fpc' = "sendPoll" /\ fbuf' # << >>)
        /\ fwrites' = fwrites /\ ep_intsts' = ep_intsts
    BY <1>1 DEF Program!Goto
  <2>2. /\ fcnt' + send' <= Len(Program!answer')
        /\ (Program!answerTo(Program!req) = "send")'
    BY <1>1, SameAnswer DEF HandlerOK, PacketPc, SendPc
  <2> QED  BY <2>1, <2>2 DEF HandlerOK, FwPc, ReadPc, PacketPc, SendPc
<1> QED  BY <1>3, <1>4

LEMMA FwSendStartType == ASSUME FwOK, Program!FwSendStart PROVE FwOK'
<1> USE DEF FwOK
<1>1. /\ fpc = "sendStart" /\ Program!Goto("sendSpin") /\ fcnt' = fcnt + send
      /\ UNCHANGED <<fbuf, send, fflush, Program!echoVars, Program!xferVars, Program!staticVars>>
  BY DEF Program!FwSendStart
<1>2. fcnt' \in Nat
  <2>1. \A k, m \in Nat : k + m \in Nat
    OBVIOUS
  <2>2. fcnt \in Nat /\ send \in Nat
    BY RequestAssumption DEF XferOK
  <2> QED  BY <1>1, <2>1, <2>2
<1>3. EchoOK' /\ XferOK' /\ StaticOK'
  BY <1>1, <1>2, SameEcho, SameStatic DEF XferOK, Program!xferVars
<1>4. HandlerOK'
  <2>1. fpc' = "sendSpin" /\ fwrites' = fwrites /\ ep_intsts' = ep_intsts
    BY <1>1 DEF Program!Goto
  <2>2. /\ fcnt' <= Len(Program!answer')
        /\ (Program!answerTo(Program!req) = "send")'
    BY <1>1, SameAnswer DEF HandlerOK, PacketPc, SendPc
  <2> QED  BY <2>1, <2>2 DEF HandlerOK, FwPc, ReadPc, PacketPc, SendPc
<1> QED  BY <1>3, <1>4

LEMMA FwSendSpinType == ASSUME FwOK, Program!FwSendSpin PROVE FwOK'
<1>1. /\ fpc = "sendSpin"
      /\ UNCHANGED <<Program!echoVars, Program!xferVars, Program!staticVars>>
  BY DEF Program!FwSendSpin
<1>2. /\ Program!answerTo(Program!req) = "send" /\ fcnt <= Len(Program!answer) /\ fcnt \in Nat
  BY <1>1 DEF FwOK, HandlerOK, XferOK, SendPc
<1>3. CASE Program!NextPacket(fcnt)
  BY <1>1, <1>2, <1>3, NextPacketType
<1>4. CASE Program!Goto("sendAck") /\ UNCHANGED Program!copyVars
  BY <1>1, <1>4, SameEcho, SameStatic, SameXfer, GoesFree DEF FwOK, FreePc
<1> QED  BY <1>3, <1>4 DEF Program!FwSendSpin

LEMMA FwSendAcceptType == ASSUME FwOK, Program!FwSendAccept PROVE FwOK'
<1> USE DEF FwOK
<1>1. /\ Program!Goto("unmask") /\ fcnt' = 0 /\ send' = 0
      /\ UNCHANGED <<fbuf, Program!echoVars, Program!xferVars, Program!staticVars>>
  BY DEF Program!FwSendAccept
<1>2. EchoOK' /\ XferOK' /\ StaticOK'
  BY <1>1, SameEcho, SameStatic, RequestAssumption DEF XferOK, Program!xferVars
<1> QED  BY <1>1, <1>2, GoesFree DEF FreePc

LEMMA HandlerType == ASSUME DeviceOK, HostOK, ProgramOK, Handler PROVE SystemInv'
<1>1. Program!Handler /\ Cpu(Program!handlerOp) /\ UNCHANGED <<host, scenario, counts>>
  BY DEF Handler
<1>2. DeviceOK'
  BY <1>1, HandlerOpLegal, CpuType
<1>3. token' = token
  BY <1>1 DEF Cpu, coreVars
<1>4. HostOK'
  BY <1>1, <1>3 DEF HostOK, host, counts, inTransfer, now
<1>5. MainOK'
  BY <1>1 DEF Program!Handler, Program!mainVars, ProgramOK, MainOK
<1>6. FwOK
  BY DEF ProgramOK, FwOK
<1>7. FwOK'
  BY <1>1, <1>6, FwPlain, FwIntstsType, FwResetType, FwEp1CountType, FwEp1ReadType,
     FwEp1AcceptType, FwCountType, FwReadType, FwSetupType, FwOutType, FwStatusSpinType,
     FwHaltType, FwMaskType, FwSendPollType, FwSendWriteType, FwSendStartType, FwSendSpinType,
     FwSendAcceptType DEF Program!Handler
<1> QED  BY <1>2, <1>4, <1>5, <1>7 DEF SystemInv, ProgramOK, FwOK

-----------------------------------------------------------------------------
(* At the start, and always. *)
LEMMA SystemInit == Init => SystemInv
<1> SUFFICES ASSUME Init PROVE SystemInv
  OBVIOUS
<1>1. DeviceOK
  BY TransactionsAssumption, RequestAssumption, EmptyType
     DEF Init, DeviceInit, DeviceOK, DeviceTypeOK, NoToken, Token
<1>2. HostOK
  BY ScenarioType, SystemAssumption, EmptyType, LenProperties
     DEF Init, DeviceInit, NoToken, HostInit, HostOK, Stage, now
<1>3. Program!FirmwareInit /\ request = hreq /\ hreq \in DOMAIN Request
  BY DEF Init, HostInit
<1>4. MainOK
  BY <1>3, StartUpType DEF Program!FirmwareInit, MainOK, MainPc, StartPc, TxPc, Some
<1>5. EchoOK
  BY <1>3, SystemAssumption, LenProperties DEF Program!FirmwareInit, EchoOK
<1>6. StaticOK
  BY <1>3, SystemAssumption DEF Program!FirmwareInit, StaticOK
<1>7. XferOK
  BY <1>3, SystemAssumption, ProgramAssumption, RequestAssumption, EmptyType
     DEF Program!FirmwareInit, XferOK, Program!FirmwareConstants
<1>8. HandlerOK
  <2>1. fpc = "idle" /\ fwrites = << >> /\ ep_intsts = Program!NoInts
    BY <1>3 DEF Program!FirmwareInit
  <2>2. Program!NoInts \in EP_INTSTS(EP)
    BY DEF Program!NoInts, EP_INTSTS
  <2> QED  BY <2>1, <2>2, EmptyType DEF HandlerOK, FwPc, ReadPc, PacketPc, SendPc
<1> QED  BY <1>1, <1>2, <1>4, <1>5, <1>6, <1>7, <1>8 DEF SystemInv, ProgramOK

LEMMA SameSystem == ASSUME SystemInv, UNCHANGED vars PROVE SystemInv'
<1>1. UNCHANGED <<deviceVars, host, scenario, counts, program>>
  BY DEF vars
<1>2. DeviceOK' /\ token' = token
  BY <1>1, DeviceTypes, DeviceTypesAfter
     DEF SystemInv, deviceVars, coreVars, rxVars, txVars, cfgVars, intrVars
<1>3. HostOK'
  BY <1>1, <1>2 DEF SystemInv, HostOK, host, counts, inTransfer, now
<1>4. ProgramOK'
  BY <1>1 DEF SystemInv, ProgramOK, MainOK, EchoOK, StaticOK, XferOK, HandlerOK, program,
              Program!req, Program!answer
<1> QED  BY <1>2, <1>3, <1>4 DEF SystemInv

(* Every step of main, of the handler and of the host keeps the invariant. *)
LEMMA SystemInvariant == Spec => []SystemInv
<1>1. SystemInv /\ [Next]_vars => SystemInv'
  <2> SUFFICES ASSUME SystemInv, [Next]_vars PROVE SystemInv'
    OBVIOUS
  <2>1. CASE Main
    BY <2>1, MainType DEF SystemInv
  <2>2. CASE Handler
    BY <2>2, HandlerType DEF SystemInv
  <2>3. CASE Host
    <3>1. DeviceOK' /\ HostOK' /\ UNCHANGED program
      BY <2>3, HostType DEF SystemInv
    <3>2. ProgramOK'
      BY <3>1 DEF SystemInv, ProgramOK, MainOK, EchoOK, StaticOK, XferOK, HandlerOK, program,
                  Program!req, Program!answer
    <3> QED  BY <3>1, <3>2 DEF SystemInv
  <2>4. CASE UNCHANGED vars
    BY <2>4, SameSystem
  <2> QED  BY <2>1, <2>2, <2>3, <2>4 DEF Next
<1> QED  BY <1>1, SystemInit, PTL DEF Spec

(* The type invariant of the system, with the limits of data_buffer, of    *)
(* rx_packet_buf and of the packets of endpoint 0, in every state: for any *)
(* requests, endpoints, scenarios, and lengths of the FIFOs and buffers.   *)
THEOREM SystemTypeOK == Spec => []TypeOK
<1>1. SystemInv => TypeOK
  <2> SUFFICES ASSUME SystemInv PROVE TypeOK
    OBVIOUS
  <2>1. DeviceTypeOK /\ tx_len_q[0] <= MAXP
    BY DEF SystemInv, DeviceOK
  <2>2. ASSUME NEW i \in EP PROVE Sts(i) \in EPx_STS /\ EpCfg(i) \in EPx_CFG
    BY DeviceTypes, TransactionsAssumption DEF SystemInv, Sts, EPx_STS, EpCfg, EPx_CFG
  <2>3. ep_intsts \in EP_INTSTS(EP)
    BY DEF SystemInv, ProgramOK, HandlerOK
  <2>4. Len(data_buffer) = MAXDATA /\ data_idx <= MAXDATA
    BY DEF SystemInv, ProgramOK, XferOK
  <2>5. Len(rx_packet_buf) = Len(Buffer0) /\ ep1_rx_len <= Len(Buffer0)
    BY DEF SystemInv, ProgramOK, EchoOK
  <2>6. endpoint_stalled \subseteq EP
    BY DEF SystemInv, ProgramOK, StaticOK
  <2> QED  BY <2>1, <2>2, <2>3, <2>4, <2>5, <2>6 DEF TypeOK
<1> QED  BY <1>1, SystemInvariant, PTL

-----------------------------------------------------------------------------
(***************************************************************************)
(* A host that waits until the program waits for it: then the program      *)
(* reads only what has come.                                               *)
(***************************************************************************)
Patient == now.hasty = "never"

-----------------------------------------------------------------------------
(* Endpoint 0: a packet has come, and the handler knows of one. *)
came    == intr_ep_rx_ready_r[0]
served  == 0 \in ep_intsts.rx
inside  == fpc \notin {"idle", "intsts"}

Masked  == {"sendPoll", "sendWrite", "sendStart", "sendSpin", "sendAck", "sendAccept", "unmask"}
Ep0Pc   == Masked \cup {"service", "setupCount", "setupRead", "outCount", "outRead", "address",
                        "status", "statusSpin", "halt", "stall", "mask"}

(* Before main has enabled the interrupts none is raised. *)
StartOK ==
  mpc \in {"startUp", "enable"} =>
    /\ fpc = "idle" /\ ~irq /\ ~intr_reset_r
    /\ \A i \in EP : ~intr_ep_rx_ready_r[i] /\ ~intr_ep_tx_complete_r[i]

(* What main has still to write enables them; what is written after a      *)
(* reset leaves them alone.                                                *)
Enables(c) == c.op = "cfg" /\ c.ep = 0
WritesOK ==
  /\ mpc = "startUp" =>
       /\ mwrites[Len(mwrites)] = Program!FuncCtrl(TRUE, TRUE)
       /\ ep_cfg_int_rx_r[0] \/ \E k \in 1 .. Len(mwrites) : Enables(mwrites[k])
  /\ mpc = "flush" => mwrites \in Seq(Flushes)
  /\ fpc = "reset" => fwrites \in Seq(Flushes)

EnabledOK == mpc # "startUp" => int_en_rst_r /\ (fpc \notin Masked => ep_cfg_int_rx_r[0])

(* Where endpoint 0 is flushed no packet is in it. *)
FlushOK ==
  /\ fpc = "idle" => ~func_stat_rst
  /\ ~inside /\ (intr_reset_r \/ func_stat_rst \/ mpc \in StartPc) => ~came
  /\ fpc = "reset" => ~came /\ ~served
  /\ fpc = "stat" => ~came

(* The handler clears what it has served, and nothing else. *)
ServedOK ==
  /\ fpc \in Ep0Pc => served
  /\ inside /\ came => served

(* What the endpoint counts is in its FIFO until it is read. *)
PacketOK ==
  /\ rx_len_q[0] > 0 => rx_ready_q[0]
  /\ (came \/ (inside /\ served)) /\ fpc \notin ReadPc => rx_len_q[0] <= Len(rx_fifo[0])
  /\ fpc \in ReadPc => fcnt <= Len(fbuf) + Len(rx_fifo[0])

(* Between a token and its data packet the program goes on waiting. *)
TokenOK ==
  token.valid =>
    /\ Program!waiting
    /\ token.ep = 0 /\ (token.room \/ token.open) => ~rx_ready_q[0]

(* Only what endpoint 1 has received is sent to endpoint 2. *)
EchoingPc == {"txCall", "txPoll", "txWrite", "txStart", "txDone"}
EchoesOK  == ep1_rx_suc \/ mpc \in EchoingPc => 2 \in EP

PatientInv == /\ StartOK /\ WritesOK /\ EnabledOK /\ FlushOK /\ ServedOK /\ PacketOK /\ TokenOK
              /\ EchoesOK

-----------------------------------------------------------------------------
(* While the program waits it does nothing. *)
LEMMA WaitsOn == Program!waiting => ~Program!Main /\ ~Program!Handler
<1> SUFFICES ASSUME Program!waiting PROVE ~Program!Main /\ ~Program!Handler
  OBVIOUS
<1>1. \/ /\ fpc = "idle" /\ ~intr_o /\ ~irq
         /\ \/ mpc = "loop" /\ ~intr_reset_r /\ ~(ep1_rx_suc /\ ep1_rx_len # 0)
            \/ mpc = "txPoll" /\ Program!waiting
      \/ fpc \in {"statusSpin", "sendPoll", "sendSpin", "sendAck"}
  BY DEF Program!waiting, Program!resting
<1>2. ~Program!Main
  BY DEF Program!waiting, Program!resting, Program!Main, Program!MainWrites,
         Program!MainEnables, Program!MainReset, Program!MainEcho, Program!MainCalls,
         Program!MainPolls, Program!MainGivesUp, Program!MainTxByte, Program!MainTxStart,
         Program!MainForgets
<1>3. ~Program!Handler
  BY DEF Program!waiting, Program!resting, Program!Handler, Program!FwInterrupt,
         Program!FwIntsts, Program!FwReset, Program!FwService, Program!FwClear, Program!FwStat,
         Program!FwEp1Count, Program!FwEp1Read, Program!FwEp1Accept,
         Program!FwCount, Program!FwRead, Program!FwSetup, Program!FwOut,
         Program!FwAddress, Program!FwStatus, Program!FwStatusSpin, Program!FwHalt,
         Program!FwStall, Program!FwMask, Program!FwSendPoll, Program!FwSendGivesUp,
         Program!FwSendWrite, Program!FwSendStart, Program!FwSendSpin, Program!FwSendAck,
         Program!FwSendAccept, Program!FwUnmask
<1> QED  BY <1>2, <1>3

(* What an access changes of endpoint 0 and of the interrupts. *)
LEMMA AccessRx ==
  ASSUME DeviceOK, NEW c, CpuRx(c)
  PROVE  /\ c.op \notin {"accept", "read", "rx_flush"} \/ c.ep # 0 =>
              /\ rx_ready_q'[0] = rx_ready_q[0] /\ rx_len_q'[0] = rx_len_q[0]
              /\ rx_fifo'[0] = rx_fifo[0]
         /\ c.op \in {"read", "rx_flush"} =>
              rx_ready_q'[0] = rx_ready_q[0] /\ rx_len_q'[0] = rx_len_q[0]
         /\ c.op = "read" /\ c.ep = 0 =>
              rx_fifo'[0] = IF rx_fifo[0] # << >> THEN Tail(rx_fifo[0]) ELSE rx_fifo[0]
         /\ c.op = "accept" /\ c.ep = 0 =>
              rx_len_q'[0] = 0 /\ rx_fifo'[0] = rx_fifo[0]
<1> USE DeviceTypes, TransactionsAssumption
<1>1. CASE c.op = "accept"
  BY <1>1 DEF CpuRx, Accepted, Put
<1>2. CASE c.op = "read"
  <2>1. CASE rx_fifo[c.ep] # << >>
    BY <1>2, <2>1 DEF CpuRx, Put
  <2>2. CASE rx_fifo[c.ep] = << >>
    BY <1>2, <2>2 DEF CpuRx, rxVars
  <2> QED  BY <2>1, <2>2
<1>3. CASE c.op = "rx_flush"
  BY <1>3 DEF CpuRx, Put
<1>4. CASE c.op \notin {"accept", "read", "rx_flush"}
  BY <1>4 DEF CpuRx, rxVars
<1> QED  BY <1>1, <1>2, <1>3, <1>4

LEMMA AccessCfg ==
  ASSUME DeviceOK, NEW c, CpuCfg(c)
  PROVE  /\ ~Enables(c) => ep_cfg_int_rx_r'[0] = ep_cfg_int_rx_r[0]
         /\ Enables(c) => ep_cfg_int_rx_r'[0] = c.arg.int_rx
         /\ c.op # "ctrl" => int_en_rst_r' = int_en_rst_r
         /\ c.op = "ctrl" => int_en_rst_r' = c.arg.int_en_rst
<1> USE DeviceTypes, TransactionsAssumption DEF Enables
<1>1. CASE c.op = "cfg"
  BY <1>1 DEF CpuCfg, Put
<1>2. CASE c.op = "ctrl"
  BY <1>2 DEF CpuCfg
<1>3. CASE c.op = "addr"
  BY <1>3 DEF CpuCfg
<1>4. CASE c.op \notin {"cfg", "ctrl", "addr"}
  BY <1>4 DEF CpuCfg, cfgVars
<1> QED  BY <1>1, <1>2, <1>3, <1>4

LEMMA AccessIntr ==
  ASSUME DeviceOK, NEW c, CpuIntr(c)
  PROVE  /\ \A i \in EP : /\ intr_ep_rx_ready_r'[i] => intr_ep_rx_ready_r[i]
                          /\ intr_ep_tx_complete_r'[i] => intr_ep_tx_complete_r[i]
         /\ intr_reset_r' => intr_reset_r
         /\ c.op # "intsts" => intr_ep_rx_ready_r'[0] = intr_ep_rx_ready_r[0]
         /\ c.op = "intsts" /\ 0 \in c.arg.rx => ~intr_ep_rx_ready_r'[0]
         /\ c.op = "stat" /\ c.rst => ~intr_reset_r'
<1> USE DeviceTypes, TransactionsAssumption
<1>1. CASE c.op = "intsts"
  BY <1>1 DEF CpuIntr
<1>2. CASE c.op = "stat"
  BY <1>2 DEF CpuIntr
<1>3. CASE c.op \notin {"intsts", "stat"}
  BY <1>3 DEF CpuIntr, intrVars
<1> QED  BY <1>1, <1>2, <1>3

LEMMA WritesAre ==
  /\ \A c \in Writes : /\ c.op \notin {"accept", "read", "intsts"}
                       /\ c.op = "cfg" => c.arg.int_rx
  /\ \A c \in Flushes : c.op \notin {"accept", "read", "intsts", "cfg", "ctrl"}
<1>1. \A c \in [op : {"tx_flush", "rx_flush"}, ep : 0 .. 2] :
        c.op \notin {"accept", "read", "intsts", "cfg", "ctrl"}
  OBVIOUS
<1>2. \A c \in [op : {"stat"}, ep : {0}, rst : {TRUE}] :
        c.op \notin {"accept", "read", "intsts", "cfg", "ctrl"}
  OBVIOUS
<1>3. \A c \in [op : {"cfg"}, ep : 0 .. 2, arg : {d \in EPx_CFG : d.int_rx}] :
        c.op \notin {"accept", "read", "intsts"} /\ c.arg.int_rx
  OBVIOUS
<1>4. \A c \in [op : {"ctrl"}, ep : {0}, arg : FUNC_CTRL] :
        c.op \notin {"accept", "read", "intsts", "cfg"}
  OBVIOUS
<1> QED  BY <1>1, <1>2, <1>3, <1>4 DEF Writes, Flushes

LEMMA TailAt == \A S : \A s \in Seq(S) : s # << >> =>
                  /\ \A k \in 1 .. Len(s) : k = 1 \/ (k - 1 \in 1 .. Len(Tail(s)) /\ Tail(s)[k - 1] = s[k])
                  /\ s[1] = Head(s)
                  /\ Tail(s) # << >> => Tail(s)[Len(Tail(s))] = s[Len(s)]
                  /\ Tail(s) = << >> => Len(s) = 1
<1> SUFFICES ASSUME NEW S, NEW s \in Seq(S), s # << >>
             PROVE  /\ \A k \in 1 .. Len(s) : k = 1 \/ (k - 1 \in 1 .. Len(Tail(s)) /\ Tail(s)[k - 1] = s[k])
                    /\ s[1] = Head(s)
                    /\ Tail(s) # << >> => Tail(s)[Len(Tail(s))] = s[Len(s)]
                    /\ Tail(s) = << >> => Len(s) = 1
  OBVIOUS
<1>1. Len(Tail(s)) = Len(s) - 1 /\ Len(s) \in Nat /\ Len(s) > 0 /\ Tail(s) \in Seq(S)
  BY TailType
<1>2. \A k \in 1 .. Len(s) - 1 : Tail(s)[k] = s[k + 1]
  BY HeadTailProperties
<1>3. \A k \in 1 .. Len(s) : k = 1 \/ (k - 1 \in 1 .. Len(s) - 1 /\ Tail(s)[k - 1] = s[(k - 1) + 1])
  BY <1>1, <1>2
<1>4. ASSUME Tail(s) # << >> PROVE Tail(s)[Len(Tail(s))] = s[Len(s)]
  <2>1. Len(Tail(s)) > 0
    BY <1>1, <1>4, EmptySeq, LenProperties
  <2> QED  BY <1>1, <1>2, <2>1
<1>5. Tail(s) = << >> => Len(s) = 1
  <2>1. \A n \in Nat : n - 1 = 0 => n = 1
    OBVIOUS
  <2> QED  BY <1>1, <2>1, EmptyType
<1> QED  BY <1>1, <1>3, <1>4, <1>5

LEMMA MainOps ==
  /\ mpc \in StartPc => Program!mainOp = Head(mwrites)
  /\ mpc \notin StartPc => Program!mainOp.op \in {"tx_flush", "write", "flush_start", "start", "none"}
<1>1. mpc \in StartPc => Program!mainOp = Head(mwrites)
  BY DEF Program!mainOp, StartPc
<1>2. ASSUME mpc \notin StartPc
      PROVE  Program!mainOp.op \in {"tx_flush", "write", "flush_start", "start", "none"}
  <2>1. Program!mainOp \in {Program!TxFlush(2), Program!Write(2, rx_packet_buf[mcnt + 1]),
                            Program!FlushStart(2, mlen), Program!Start(2, mlen), Program!NoOp}
    BY <1>2 DEF Program!mainOp, StartPc
  <2> QED  BY <2>1 DEF Program!TxFlush, Program!Write, Program!FlushStart, Program!Start, Program!NoOp
<1> QED  BY <1>1, <1>2

(* main *)
LEMMA PatientMain == ASSUME SystemInv, PatientInv, Main PROVE PatientInv'
<1> DEFINE c == Program!mainOp
<1> USE DEF PatientInv
<1>1. /\ Program!Main /\ Cpu(c) /\ fpc = "idle" /\ ~irq /\ irq' = intr_o
      /\ UNCHANGED <<Program!handlerVars, Program!xferVars, Program!copyVars>>
  BY DEF Main, Program!Main
<1>2. fpc' = "idle" /\ func_stat_rst' = func_stat_rst /\ ep_intsts' = ep_intsts /\ fwrites' = fwrites
  BY <1>1 DEF Program!handlerVars
<1>3. ~token.valid /\ token' = token
  BY <1>1, WaitsOn DEF TokenOK, Cpu, coreVars
<1>4. DeviceOK /\ MainOK /\ CpuRx(c) /\ CpuCfg(c) /\ CpuIntr(c)
  BY <1>1 DEF SystemInv, ProgramOK, Cpu
<1>5. /\ mpc \in StartPc => c \in Writes /\ c = Head(mwrites) /\ Tail(mwrites) \in Seq(Writes)
                            /\ mwrites # << >> /\ mwrites \in Seq(Writes)
      /\ mpc = "flush" => c \in Flushes /\ Tail(mwrites) \in Seq(Flushes)
      /\ mpc \notin StartPc => c.op \in {"tx_flush", "write", "flush_start", "start", "none"}
  BY <1>4, MainOps, TailType DEF MainOK, StartPc, WritesOK
<1>6. c.op \notin {"accept", "read", "intsts"} /\ (c.op = "cfg" => c.arg.int_rx)
      /\ (mpc # "startUp" => c.op \notin {"cfg", "ctrl", "accept", "read", "intsts"})
  BY <1>5, WritesAre DEF StartPc
<1>7. (mpc \notin StartPc \/ c.op # "rx_flush") => rx_fifo'[0] = rx_fifo[0]
  BY <1>4, <1>5, <1>6, AccessRx
<1>8. rx_ready_q'[0] = rx_ready_q[0] /\ rx_len_q'[0] = rx_len_q[0]
  BY <1>4, <1>6, AccessRx
<1> HIDE DEF c
<1>9. came' = came /\ (intr_reset_r' => intr_reset_r)
  BY <1>4, <1>6, AccessIntr DEF came
<1>10. ~intr_o \/ mpc \notin {"startUp", "enable"}
  BY DEF StartOK, intr_o
<1>11. mpc' \in {"startUp", "enable"} => mpc \in {"startUp", "enable"}
  BY <1>1 DEF Program!Main, Program!MainWrites, Program!MainEnables, Program!MainReset,
         Program!MainEcho, Program!MainCalls, Program!MainPolls, Program!MainGivesUp,
         Program!MainTxByte, Program!MainTxStart, Program!MainForgets
<1>12. StartOK'
  BY <1>1, <1>2, <1>4, <1>9, <1>10, <1>11, AccessIntr DEF StartOK
<1>0. EchoesOK'
  BY <1>1 DEF EchoesOK, EchoingPc, Program!Main, Program!MainWrites, Program!MainEnables,
         Program!MainReset, Program!MainEcho, Program!MainCalls, Program!MainPolls,
         Program!MainGivesUp, Program!MainTxByte, Program!MainTxStart, Program!MainForgets,
         Program!echoVars
<1>13. CASE mpc \in StartPc
  <2>1. mwrites' = Tail(mwrites) /\ mpc' = IF mwrites' # << >> THEN mpc
            ELSE IF mpc = "startUp" THEN "enable" ELSE "loop"
    BY <1>1, <1>13 DEF StartPc, Program!Main, Program!MainWrites, Program!MainEnables, Program!MainReset,
         Program!MainEcho, Program!MainCalls, Program!MainPolls, Program!MainGivesUp,
         Program!MainTxByte, Program!MainTxStart, Program!MainForgets
  <2>2. ASSUME mpc = "startUp" PROVE WritesOK' /\ EnabledOK'
    <3>1. ep_cfg_int_rx_r'[0] \/ \E k \in 1 .. Len(mwrites) : k # 1 /\ Enables(mwrites[k])
      <4>1. Enables(c) => ep_cfg_int_rx_r'[0]
        BY <1>4, <1>6, AccessCfg DEF Enables
      <4>2. ~Enables(c) => ep_cfg_int_rx_r'[0] = ep_cfg_int_rx_r[0]
        BY <1>4, AccessCfg
      <4>3. mwrites[1] = c
        BY <1>5, <1>13, TailAt
      <4> QED  BY <2>2, <4>1, <4>2, <4>3 DEF WritesOK
    <3>2. CASE mwrites' # << >>
      <4>1. mpc' = "startUp"
        BY <2>1, <2>2, <3>2
      <4>2. mwrites'[Len(mwrites')] = Program!FuncCtrl(TRUE, TRUE)
        BY <1>5, <1>13, <2>1, <2>2, <3>2, TailAt DEF WritesOK
      <4>3. ep_cfg_int_rx_r'[0] \/ \E k \in 1 .. Len(mwrites') : Enables(mwrites'[k])
        BY <1>5, <1>13, <2>1, <3>1, TailAt
      <4> QED  BY <1>2, <4>1, <4>2, <4>3 DEF WritesOK, EnabledOK
    <3>3. CASE mwrites' = << >>
      <4>1. mpc' = "enable" /\ Len(mwrites) = 1
        BY <1>5, <1>13, <2>1, <2>2, <3>3, TailAt
      <4>2. c = Program!FuncCtrl(TRUE, TRUE)
        BY <1>5, <1>13, <2>2, <4>1, TailAt DEF WritesOK
      <4>3. int_en_rst_r'
        BY <1>4, <4>2, AccessCfg DEF Program!FuncCtrl, Program!Ctrl
      <4>4. ep_cfg_int_rx_r'[0]
        BY <3>1, <4>1
      <4> QED  BY <1>2, <4>1, <4>3, <4>4 DEF WritesOK, EnabledOK
    <3> QED  BY <3>2, <3>3
  <2>3. ASSUME mpc = "flush" PROVE WritesOK' /\ EnabledOK'
    <3>1. mpc' \in {"flush", "loop"} /\ mwrites' \in Seq(Flushes)
      BY <1>5, <2>1, <2>3
    <3>2. int_en_rst_r' = int_en_rst_r /\ ep_cfg_int_rx_r'[0] = ep_cfg_int_rx_r[0]
      BY <1>4, <1>6, <2>3, AccessCfg DEF Enables
    <3> QED  BY <1>1, <1>2, <2>3, <3>1, <3>2 DEF WritesOK, EnabledOK
  <2>4. ~came
    BY <1>1, <1>13 DEF FlushOK, inside
  <2>5. FlushOK' /\ ServedOK' /\ PacketOK'
    BY <1>1, <1>2, <1>8, <1>9, <2>4 DEF FlushOK, ServedOK, PacketOK, inside, Ep0Pc, Masked, ReadPc
  <2> QED  BY <1>0, <1>3, <1>12, <1>13, <2>2, <2>3, <2>5 DEF StartPc, TokenOK
<1>14. CASE mpc \notin StartPc
  <2>1. int_en_rst_r' = int_en_rst_r /\ ep_cfg_int_rx_r'[0] = ep_cfg_int_rx_r[0]
    BY <1>4, <1>6, <1>14, AccessCfg DEF Enables, StartPc
  <2>2. \/ mpc' \notin StartPc
        \/ mpc' = "flush" /\ intr_reset_r /\ mwrites' = Program!ResetWrites
    BY <1>1, <1>14 DEF StartPc, Program!Main, Program!MainWrites, Program!MainEnables, Program!MainReset,
         Program!MainEcho, Program!MainCalls, Program!MainPolls, Program!MainGivesUp,
         Program!MainTxByte, Program!MainTxStart, Program!MainForgets
  <2>3. WritesOK' /\ EnabledOK'
    BY <1>1, <1>2, <1>14, <2>1, <2>2, ResetWritesType DEF WritesOK, EnabledOK, StartPc, Some, Masked
  <2>4. rx_fifo'[0] = rx_fifo[0]
    BY <1>7, <1>14
  <2>5. FlushOK' /\ ServedOK' /\ PacketOK'
    BY <1>1, <1>2, <1>8, <1>9, <2>2, <2>4 DEF FlushOK, ServedOK, PacketOK, inside, Ep0Pc, Masked, ReadPc
  <2> QED  BY <1>0, <1>3, <1>12, <2>3, <2>5 DEF TokenOK
<1> QED  BY <1>13, <1>14

-----------------------------------------------------------------------------
(* my_usb_intr: what its accesses change. *)
LEMMA HandlerOpNames ==
  ASSUME SystemInv, PatientInv
  PROVE  LET c == Program!handlerOp
         IN  /\ c.op # "ctrl"
             /\ fpc \notin {"reset", "mask", "unmask", "halt", "stall"} => c.op # "cfg"
             /\ fpc \notin ReadPc \cup {"sendAccept", "reset", "ep1Read"} =>
                  c.op \notin {"accept", "read", "rx_flush"}
             /\ fpc = "ep1Read" => c.ep # 0 \/ c.op = "none"
             /\ fpc # "clear" => c.op # "intsts"
             /\ fpc = "reset" => c \in Flushes
<1> DEFINE c == Program!handlerOp
<1>0. /\ XferOK /\ HandlerOK
      /\ fpc = "reset" => fwrites # << >> /\ fwrites \in Seq(Flushes)
  BY DEF SystemInv, ProgramOK, HandlerOK, PatientInv, WritesOK
<1> USE DEF Program!Intsts, Program!Stat, Program!Read, Program!Accept, Program!NoOp,
            Program!SetAddr, Program!Start, Program!FlushStart, Program!Cfg, Program!TxFlush,
            Program!Write
<1>1. CASE fpc = "reset"
  <2>1. c \in Flushes
    BY <1>0, <1>1, HandlerOps, TailType
  <2> QED  BY <1>1, <2>1, WritesAre DEF ReadPc
<1>2. CASE fpc \in {"halt", "stall"}
  <2>1. PICK i, on : c = Program!stalling(i, on)
    BY <1>0, <1>2, HandlerOps
  <2> QED  BY <1>2, <2>1 DEF Program!stalling, ReadPc
<1>3. CASE fpc \in {"mask", "unmask"}
  <2>1. c = Program!Cfg(0, [EpCfg(0) EXCEPT !.int_rx = (fpc = "unmask")])
    BY <1>0, <1>3, HandlerOps
  <2> QED  BY <1>3, <2>1 DEF ReadPc
<1>4. CASE fpc = "sendWrite"
  BY <1>0, <1>4, HandlerOps DEF ReadPc
<1>5. CASE fpc \in {"sendStart", "status", "address", "sendPoll", "clear", "stat"}
  <2>1. c \in {Program!Intsts(ep_intsts), Program!Stat(TRUE), Program!TxFlush(0),
               Program!FlushStart(0, send), Program!Start(0, send), Program!Start(0, 0),
               Program!SetAddr(Program!addressOf(Program!req)), Program!NoOp}
        /\ (fpc # "clear" => c # Program!Intsts(ep_intsts))
    BY <1>0, <1>5, HandlerOps
  <2> QED  BY <1>5, <2>1 DEF ReadPc
<1>6. CASE fpc \in ReadPc \cup {"sendAccept", "ep1Read"}
  <2>1. c \in {Program!Read(0), Program!Accept(0), Program!Read(1), Program!Accept(1), Program!NoOp}
        /\ (fpc = "ep1Read" => c \in {Program!Read(1), Program!Accept(1), Program!NoOp})
    BY <1>0, <1>6, HandlerOps DEF ReadPc
  <2> QED  BY <1>6, <2>1 DEF ReadPc
<1>7. CASE fpc \in {"idle", "intsts", "service", "ep1Count", "setupCount", "outCount",
                    "statusSpin", "sendSpin", "sendAck"}
  BY <1>0, <1>7, HandlerOps DEF ReadPc
<1> HIDE DEF c, Program!Intsts, Program!Stat, Program!Read, Program!Accept, Program!NoOp,
            Program!SetAddr, Program!Start, Program!FlushStart, Program!Cfg, Program!TxFlush,
            Program!Write
<1> QED  BY <1>0, <1>1, <1>2, <1>3, <1>4, <1>5, <1>6, <1>7
         DEF c, HandlerOK, FwPc, ReadPc, SendPc, PacketPc

LEMMA HandlerAccess ==
  ASSUME SystemInv, PatientInv, Cpu(Program!handlerOp)
  PROVE  /\ int_en_rst_r' = int_en_rst_r
         /\ fpc \notin {"mask", "unmask"} => ep_cfg_int_rx_r'[0] = ep_cfg_int_rx_r[0]
         /\ fpc = "unmask" => ep_cfg_int_rx_r'[0]
         /\ fpc \notin ReadPc \cup {"sendAccept", "reset"} =>
              /\ rx_ready_q'[0] = rx_ready_q[0] /\ rx_len_q'[0] = rx_len_q[0]
              /\ rx_fifo'[0] = rx_fifo[0]
         /\ fpc = "sendAccept" \/ (fpc \in ReadPc /\ Len(fbuf) = fcnt) =>
              rx_len_q'[0] = 0 /\ rx_fifo'[0] = rx_fifo[0]
         /\ fpc \in ReadPc /\ Len(fbuf) < fcnt =>
              /\ rx_ready_q'[0] = rx_ready_q[0] /\ rx_len_q'[0] = rx_len_q[0]
              /\ rx_fifo'[0] = IF rx_fifo[0] # << >> THEN Tail(rx_fifo[0]) ELSE rx_fifo[0]
         /\ fpc = "reset" => rx_ready_q'[0] = rx_ready_q[0] /\ rx_len_q'[0] = rx_len_q[0]
         /\ intr_ep_rx_ready_r'[0] => intr_ep_rx_ready_r[0]
         /\ fpc # "clear" => intr_ep_rx_ready_r'[0] = intr_ep_rx_ready_r[0]
         /\ fpc = "clear" /\ served => ~intr_ep_rx_ready_r'[0]
         /\ intr_reset_r' => intr_reset_r
         /\ fpc = "stat" => ~intr_reset_r'
<1> DEFINE c == Program!handlerOp
<1>1. DeviceOK /\ XferOK /\ HandlerOK /\ CpuRx(c) /\ CpuCfg(c) /\ CpuIntr(c)
  BY DEF SystemInv, ProgramOK, Cpu
<1>2. /\ c.op # "ctrl"
      /\ fpc \notin {"reset", "mask", "unmask", "halt", "stall"} => c.op # "cfg"
      /\ fpc \notin ReadPc \cup {"sendAccept", "reset", "ep1Read"} =>
           c.op \notin {"accept", "read", "rx_flush"}
      /\ fpc = "ep1Read" => c.ep # 0 \/ c.op = "none"
      /\ fpc # "clear" => c.op # "intsts"
      /\ fpc = "reset" => c.op \notin {"accept", "read", "cfg"}
  BY HandlerOpNames, WritesAre
<1>3. int_en_rst_r' = int_en_rst_r
  BY <1>1, <1>2, AccessCfg
<1>4. ASSUME fpc \in {"halt", "stall"} PROVE ep_cfg_int_rx_r'[0] = ep_cfg_int_rx_r[0]
  <2>1. PICK i, on : c = Program!stalling(i, on)
    BY <1>1, <1>4, HandlerOps
  <2>2. c = Program!Cfg(i, [([j \in EP |-> EpCfg(j)])[i] EXCEPT !.stall_ep = on])
    BY <2>1 DEF Program!stalling
  <2> HIDE DEF c
  <2>3. CASE i = 0
    <3>1. c = Program!Cfg(0, [EpCfg(0) EXCEPT !.stall_ep = on])
      BY <2>2, <2>3, TransactionsAssumption
    <3>2. c.op = "cfg" /\ c.ep = 0 /\ c.arg.int_rx = ep_cfg_int_rx_r[0]
      BY <3>1 DEF Program!Cfg, EpCfg
    <3> QED  BY <1>1, <3>2, AccessCfg DEF Enables
  <2>4. CASE i # 0
    <3>1. c.ep # 0
      BY <2>2, <2>4 DEF Program!Cfg
    <3> QED  BY <1>1, <3>1, AccessCfg DEF Enables
  <2> QED  BY <2>3, <2>4
<1>5. fpc \notin {"mask", "unmask"} => ep_cfg_int_rx_r'[0] = ep_cfg_int_rx_r[0]
  BY <1>1, <1>2, <1>4, AccessCfg DEF Enables
<1>6. ASSUME fpc = "unmask" PROVE ep_cfg_int_rx_r'[0]
  <2>1. c = Program!Cfg(0, [EpCfg(0) EXCEPT !.int_rx = TRUE])
    BY <1>1, <1>6, HandlerOps
  <2>2. c.op = "cfg" /\ c.ep = 0 /\ c.arg.int_rx
    BY <2>1 DEF Program!Cfg, EpCfg
  <2> QED  BY <1>1, <2>2, AccessCfg DEF Enables
<1>7. fpc \notin ReadPc \cup {"sendAccept", "reset"} =>
        /\ rx_ready_q'[0] = rx_ready_q[0] /\ rx_len_q'[0] = rx_len_q[0]
        /\ rx_fifo'[0] = rx_fifo[0]
  BY <1>1, <1>2, AccessRx
<1>8. fpc = "reset" => rx_ready_q'[0] = rx_ready_q[0] /\ rx_len_q'[0] = rx_len_q[0]
  BY <1>1, <1>2, AccessRx
<1>9. ASSUME fpc = "sendAccept" \/ (fpc \in ReadPc /\ Len(fbuf) = fcnt)
      PROVE  rx_len_q'[0] = 0 /\ rx_fifo'[0] = rx_fifo[0]
  <2>1. Len(fbuf) \in Nat /\ fcnt \in Nat
    BY <1>1, LenProperties DEF XferOK
  <2>2. \A m, n \in Nat : m = n => ~(m < n)
    OBVIOUS
  <2>3. c = Program!Accept(0)
    BY <1>1, <1>9, <2>1, <2>2, HandlerOps
  <2> QED  BY <1>1, <2>3, AccessRx DEF Program!Accept
<1>10. ASSUME fpc \in ReadPc, Len(fbuf) < fcnt
       PROVE  /\ rx_ready_q'[0] = rx_ready_q[0] /\ rx_len_q'[0] = rx_len_q[0]
              /\ rx_fifo'[0] = IF rx_fifo[0] # << >> THEN Tail(rx_fifo[0]) ELSE rx_fifo[0]
  <2>1. c = Program!Read(0)
    BY <1>1, <1>10, HandlerOps
  <2> QED  BY <1>1, <2>1, AccessRx DEF Program!Read
<1>11. /\ intr_ep_rx_ready_r'[0] => intr_ep_rx_ready_r[0]
       /\ fpc # "clear" => intr_ep_rx_ready_r'[0] = intr_ep_rx_ready_r[0]
       /\ intr_reset_r' => intr_reset_r
  BY <1>1, <1>2, AccessIntr, TransactionsAssumption
<1>12. ASSUME fpc = "clear", served PROVE ~intr_ep_rx_ready_r'[0]
  <2>1. c = Program!Intsts(ep_intsts)
    BY <1>1, <1>12, HandlerOps
  <2> QED  BY <1>1, <1>12, <2>1, AccessIntr DEF Program!Intsts, served
<1>13. ASSUME fpc = "stat" PROVE ~intr_reset_r'
  <2>1. c = Program!Stat(TRUE)
    BY <1>1, <1>13, HandlerOps
  <2> QED  BY <1>1, <2>1, AccessIntr DEF Program!Stat
<1> QED  BY <1>3, <1>5, <1>6, <1>7, <1>8, <1>9, <1>10, <1>11, <1>12, <1>13

(* my_usb_intr: where it goes while it serves endpoint 0. *)
Leaves == {"clear", "ep1Count"}

LEMMA ProcessGoes ==
  ASSUME NEW q, Program!Process(q)
  PROVE  /\ UNCHANGED <<fwrites, func_stat_rst, ep_intsts>>
         /\ fpc' \in {"mask", "address", "status", "stall"} \cup Leaves
         /\ fpc' = "ep1Count" => 1 \in ep_intsts.rx
         /\ fpc' = "clear" => 1 \notin ep_intsts.rx
<1>1. Program!answerTo(q) \in AnswerKind
  BY AnswerKinds
<1>2. Program!Goto(CASE Program!answerTo(q) = "send" -> "mask"
                     [] Program!answerTo(q) = "none" -> Program!doneEp0
                     [] OTHER                        -> Program!answerTo(q))
  BY DEF Program!Process
<1> QED  BY <1>1, <1>2 DEF AnswerKind, Program!Goto, Program!doneEp0, Program!afterEp0, Leaves

LEMMA NextPacketGoes ==
  ASSUME NEW n, Program!NextPacket(n), Program!answer \in Seq(Payload), n \in Nat,
         n <= Len(Program!answer)
  PROVE  /\ UNCHANGED <<fwrites, func_stat_rst, ep_intsts>>
         /\ fpc' \in {"sendPoll", "sendAck", "sendStart"}
<1>1. n < Len(Program!answer) \/ n = Len(Program!answer)
  BY LenProperties
<1> QED  BY <1>1 DEF Program!NextPacket, Program!Goto

LEMMA Ep0Goes ==
  ASSUME SystemInv, Program!Handler, fpc \in Ep0Pc
  PROVE  /\ UNCHANGED <<fwrites, func_stat_rst, ep_intsts>>
         /\ fpc' \in Ep0Pc \cup Leaves
         /\ fpc = "mask" => fpc' \in Masked
         /\ fpc \in Masked => fpc' \in Masked \/ fpc = "unmask"
         /\ fpc' \in ReadPc => fpc \in ReadPc \cup {"setupCount", "outCount"}
         /\ fpc' = "ep1Count" => 1 \in ep_intsts.rx
         /\ fpc' = "clear" => 1 \notin ep_intsts.rx
<1> USE DEF Program!Goto, Leaves, Ep0Pc, Masked, ReadPc
<1>0. /\ XferOK /\ Program!doneEp0 \in Leaves
      /\ Program!doneEp0 = "ep1Count" => 1 \in ep_intsts.rx
      /\ Program!doneEp0 = "clear" => 1 \notin ep_intsts.rx
      /\ fpc = "mask" => 0 <= Len(Program!answer) /\ Program!answer \in Seq(Payload)
      /\ fpc = "sendSpin" => fcnt <= Len(Program!answer) /\ Program!answer \in Seq(Payload)
  <2>1. Program!doneEp0 \in Leaves /\ (Program!doneEp0 = "ep1Count" => 1 \in ep_intsts.rx)
        /\ (Program!doneEp0 = "clear" => 1 \notin ep_intsts.rx)
    BY DEF Program!doneEp0, Program!afterEp0
  <2>2. XferOK /\ StaticOK /\ HandlerOK
    BY DEF SystemInv, ProgramOK
  <2>3. fpc \in {"mask", "sendSpin"} => Program!answer \in Seq(Payload) /\ Len(Program!answer) \in Nat
    BY <2>2, AnswerType DEF HandlerOK, SendPc, XferOK
  <2> QED  BY <2>1, <2>2, <2>3 DEF HandlerOK
<1>1. CASE Program!FwService
  BY <1>1 DEF Program!FwService
<1>2. CASE Program!FwCount
  <2>1. fcnt' \in Nat /\ data_idx \in Nat
    BY <1>2, DeviceTypes, TransactionsAssumption, RequestAssumption
       DEF Program!FwCount, Program!MIN, SystemInv, ProgramOK, XferOK, Sts
  <2>2. \/ fpc = "setupCount"
        \/ fpc = "outCount" /\ data_idx + fcnt' <= MAXDATA
        \/ fpc = "outCount" /\ ~(data_idx + fcnt' <= MAXDATA) /\ data_idx + fcnt' > MAXDATA
    <3>1. \A k, m, n \in Nat : k + m <= n \/ (~(k + m <= n) /\ k + m > n)
      OBVIOUS
    <3> QED  BY <1>2, <2>1, <3>1, RequestAssumption DEF Program!FwCount
  <2> QED  BY <1>2, <2>2 DEF Program!FwCount
<1>3. CASE Program!FwRead
  BY <1>3 DEF Program!FwRead, Program!handlerVars
<1>4. CASE Program!FwSetup
  <2>1. PICK r \in DOMAIN Request :
           \/ Program!Process(Request[r])
           \/ Program!Goto(IF data_expected' THEN Program!doneEp0 ELSE "stall")
    BY <1>4 DEF Program!FwSetup
  <2> QED  BY <1>0, <1>4, <2>1, ProcessGoes DEF Program!FwSetup
<1>5. CASE Program!FwOut
  BY <1>0, <1>5 DEF Program!FwOut
<1>6. CASE Program!FwAddress \/ Program!FwStatus \/ Program!FwHalt \/ Program!FwStall
           \/ Program!FwUnmask
  BY <1>0, <1>6 DEF Program!FwAddress, Program!FwStatus, Program!FwHalt, Program!FwStall,
                    Program!FwUnmask
<1>7. CASE Program!FwStatusSpin
  <2>1. \/ Program!Process(Program!req)
        \/ Program!Goto("halt") \/ Program!Goto(Program!doneEp0)
    BY <1>7 DEF Program!FwStatusSpin
  <2> QED  BY <1>0, <1>7, <2>1, ProcessGoes DEF Program!FwStatusSpin
<1>8. CASE Program!FwMask
  <2>1. fpc = "mask" /\ Program!NextPacket(0)
    BY <1>8 DEF Program!FwMask
  <2> QED  BY <1>0, <2>1, NextPacketGoes
<1>9. CASE Program!FwSendSpin
  <2>1. fpc = "sendSpin" /\ (Program!NextPacket(fcnt) \/ Program!Goto("sendAck"))
    BY <1>9 DEF Program!FwSendSpin
  <2>2. fcnt \in Nat
    BY <1>0 DEF XferOK
  <2> QED  BY <1>0, <2>1, <2>2, NextPacketGoes
<1>10. CASE Program!FwSendPoll \/ Program!FwSendGivesUp \/ Program!FwSendWrite
            \/ Program!FwSendStart \/ Program!FwSendAck \/ Program!FwSendAccept
  BY <1>10 DEF Program!FwSendPoll, Program!FwSendGivesUp, Program!FwSendWrite,
               Program!FwSendStart, Program!FwSendAck, Program!FwSendAccept
<1>11. ~(Program!FwInterrupt \/ Program!FwIntsts \/ Program!FwReset \/ Program!FwClear
         \/ Program!FwStat \/ Program!FwEp1Count \/ Program!FwEp1Read \/ Program!FwEp1Accept)
  BY DEF Program!FwInterrupt, Program!FwIntsts, Program!FwReset, Program!FwClear, Program!FwStat,
         Program!FwEp1Count, Program!FwEp1Read, Program!FwEp1Accept
<1> HIDE DEF Program!Goto, Leaves, Ep0Pc, Masked, ReadPc
<1> QED  BY <1>1, <1>2, <1>3, <1>4, <1>5, <1>6, <1>7, <1>8, <1>9, <1>10, <1>11
         DEF Program!Handler

LEMMA Ep0Packet ==
  ASSUME SystemInv, PatientInv, Program!Handler, Cpu(Program!handlerOp), fpc \in Ep0Pc
  PROVE  PacketOK'
<1>1. DeviceOK /\ XferOK /\ HandlerOK /\ PacketOK /\ served /\ inside
  BY DEF SystemInv, ProgramOK, PatientInv, ServedOK, inside, Ep0Pc, Masked
<1>2. rx_len_q[0] \in Nat /\ rx_fifo[0] \in Seq(Payload) /\ Len(rx_fifo[0]) \in Nat
      /\ fbuf \in Seq(Payload) /\ Len(fbuf) \in Nat /\ fcnt \in Nat
  BY <1>1, DeviceTypes, TransactionsAssumption, LenProperties DEF XferOK
<1>3. CASE Program!FwRead
  <2>1. fpc \in ReadPc /\ Len(fbuf) < fcnt /\ fpc' = fpc /\ fcnt' = fcnt
        /\ fbuf' = Append(fbuf, RxByte(0))
    BY <1>3, TransactionsAssumption DEF Program!FwRead, Program!handlerVars, ReadPc
  <2>2. /\ rx_ready_q'[0] = rx_ready_q[0] /\ rx_len_q'[0] = rx_len_q[0]
        /\ rx_fifo'[0] = IF rx_fifo[0] # << >> THEN Tail(rx_fifo[0]) ELSE rx_fifo[0]
    BY <2>1, HandlerAccess
  <2>3. fcnt <= Len(fbuf) + Len(rx_fifo[0]) /\ Len(rx_fifo[0]) > 0 /\ rx_fifo[0] # << >>
    <3>1. fcnt <= Len(fbuf) + Len(rx_fifo[0])
      BY <1>1, <2>1 DEF PacketOK
    <3> QED  BY <1>2, <2>1, <3>1, EmptyType
  <2>4. Len(rx_fifo'[0]) = Len(rx_fifo[0]) - 1
    BY <1>2, <2>2, <2>3, TailType
  <2>5. Len(fbuf') = Len(fbuf) + 1
    <3>1. RxByte(0) \in Payload
      BY <1>2, <2>3, TailType DEF RxByte
    <3> QED  BY <1>2, <2>1, <3>1, AppendType
  <2>6. fcnt' <= Len(fbuf') + Len(rx_fifo'[0])
    <3>1. \A n, k, l \in Nat : n <= k + l => n <= (k + 1) + (l - 1)
      OBVIOUS
    <3>2. fcnt <= (Len(fbuf) + 1) + (Len(rx_fifo[0]) - 1)
      BY <1>2, <2>3, <3>1
    <3> QED  BY <2>1, <2>4, <2>5, <3>2
  <2> QED  BY <1>1, <2>1, <2>2, <2>6 DEF PacketOK
<1>4. CASE Program!FwCount
  <2>1. /\ fpc \in {"setupCount", "outCount"} /\ fbuf' = << >>
        /\ fcnt' = IF fpc = "setupCount" THEN Program!MIN(rx_len_q[0], MAXP) ELSE rx_len_q[0]
    BY <1>4, TransactionsAssumption DEF Program!FwCount, Sts
  <2>2. /\ rx_ready_q'[0] = rx_ready_q[0] /\ rx_len_q'[0] = rx_len_q[0]
        /\ rx_fifo'[0] = rx_fifo[0]
    BY <2>1, HandlerAccess DEF ReadPc
  <2>3. rx_len_q[0] <= Len(rx_fifo[0])
    BY <1>1, <2>1 DEF PacketOK, ReadPc
  <2>4. fcnt' <= rx_len_q[0] /\ fcnt' \in Nat
    BY <1>2, <2>1, RequestAssumption DEF Program!MIN
  <2>5. fcnt' <= Len(fbuf') + Len(rx_fifo'[0])
    BY <1>2, <2>1, <2>2, <2>3, <2>4, EmptyType
  <2> QED  BY <1>1, <2>2, <2>3, <2>5 DEF PacketOK
<1>5. CASE ~Program!FwRead /\ ~Program!FwCount
  <2>1. ~(Program!FwInterrupt \/ Program!FwIntsts \/ Program!FwReset \/ Program!FwClear
          \/ Program!FwStat \/ Program!FwEp1Count \/ Program!FwEp1Read \/ Program!FwEp1Accept)
    BY DEF Program!FwInterrupt, Program!FwIntsts, Program!FwReset, Program!FwClear, Program!FwStat,
           Program!FwEp1Count, Program!FwEp1Read, Program!FwEp1Accept, Ep0Pc, Masked
  <2>2. /\ fpc \in ReadPc => Len(fbuf) = fcnt
        /\ fpc \notin {"setupCount", "outCount"}
    BY <1>5, <2>1 DEF Program!Handler, Program!FwSetup, Program!FwOut, Program!FwService,
         Program!FwAddress, Program!FwStatus, Program!FwStatusSpin, Program!FwHalt,
         Program!FwStall, Program!FwMask, Program!FwSendPoll, Program!FwSendGivesUp,
         Program!FwSendWrite, Program!FwSendStart, Program!FwSendSpin, Program!FwSendAck,
         Program!FwSendAccept, Program!FwUnmask, ReadPc
  <2>3. fpc' \notin ReadPc
    <3>1. CASE Program!FwSetup
      <4>1. PICK r \in DOMAIN Request :
              \/ Program!Process(Request[r])
              \/ Program!Goto(IF data_expected' THEN Program!doneEp0 ELSE "stall")
        BY <3>1 DEF Program!FwSetup
      <4> QED  BY <4>1, ProcessGoes DEF Program!Goto, Program!doneEp0, Program!afterEp0, Leaves, ReadPc
    <3>2. CASE Program!FwOut
      BY <3>2 DEF Program!FwOut, Program!Goto, Program!doneEp0, Program!afterEp0, ReadPc
    <3>3. CASE fpc \notin ReadPc
      BY <2>2, <3>3, Ep0Goes
    <3>4. fpc \in ReadPc => Program!FwSetup \/ Program!FwOut
      BY <1>5, <2>1 DEF Program!Handler, Program!FwService,
         Program!FwAddress, Program!FwStatus, Program!FwStatusSpin, Program!FwHalt,
         Program!FwStall, Program!FwMask, Program!FwSendPoll, Program!FwSendGivesUp,
         Program!FwSendWrite, Program!FwSendStart, Program!FwSendSpin, Program!FwSendAck,
         Program!FwSendAccept, Program!FwUnmask, ReadPc
    <3> QED  BY <3>1, <3>2, <3>3, <3>4
  <2>4. \/ /\ rx_ready_q'[0] = rx_ready_q[0] /\ rx_len_q'[0] = rx_len_q[0]
           /\ rx_fifo'[0] = rx_fifo[0] /\ fpc \notin ReadPc
        \/ rx_len_q'[0] = 0 /\ rx_fifo'[0] = rx_fifo[0]
    BY <2>2, HandlerAccess DEF Ep0Pc, Masked
  <2>5. rx_len_q'[0] > 0 => rx_ready_q'[0]
    BY <1>1, <2>4 DEF PacketOK
  <2>6. rx_len_q'[0] <= Len(rx_fifo'[0])
    BY <1>1, <1>2, <2>4 DEF PacketOK
  <2> QED  BY <2>3, <2>5, <2>6 DEF PacketOK
<1> QED  BY <1>3, <1>4, <1>5

LEMMA PatientHandler == ASSUME SystemInv, PatientInv, Handler PROVE PatientInv'
<1>1. /\ Program!Handler /\ Cpu(Program!handlerOp) /\ UNCHANGED Program!mainVars
  BY DEF Handler, Program!Handler
<1>2. mpc' = mpc /\ mwrites' = mwrites
  BY <1>1 DEF Program!mainVars
<1>3. TokenOK'
  <2>1. ~token.valid /\ token' = token
    BY <1>1, WaitsOn DEF PatientInv, TokenOK, Cpu, coreVars
  <2> QED  BY <2>1 DEF TokenOK
<1>4. mpc \notin {"startUp", "enable"}
  <2>1. CASE fpc # "idle"
    BY <2>1 DEF PatientInv, StartOK
  <2>2. CASE fpc = "idle"
    <3>1. intr_o \/ irq
      BY <1>1, <2>2 DEF Program!Handler, Program!FwInterrupt,
         Program!FwIntsts, Program!FwReset, Program!FwService, Program!FwClear, Program!FwStat,
         Program!FwEp1Count, Program!FwEp1Read, Program!FwEp1Accept,
         Program!FwCount, Program!FwRead, Program!FwSetup, Program!FwOut,
         Program!FwAddress, Program!FwStatus, Program!FwStatusSpin, Program!FwHalt,
         Program!FwStall, Program!FwMask, Program!FwSendPoll, Program!FwSendGivesUp,
         Program!FwSendWrite, Program!FwSendStart, Program!FwSendSpin, Program!FwSendAck,
         Program!FwSendAccept, Program!FwUnmask
    <3> QED  BY <3>1 DEF PatientInv, StartOK, intr_o
  <2> QED  BY <2>1, <2>2
<1>5. StartOK'
  BY <1>2, <1>4 DEF StartOK
<1>9. EchoesOK'
  <2>1. EchoesOK /\ HandlerOK
    BY DEF PatientInv, SystemInv, ProgramOK
  <2>2. CASE Program!FwEp1Accept
    BY <2>1, <2>2, SystemAssumption DEF Program!FwEp1Accept, HandlerOK, EchoesOK
  <2>3. CASE ~Program!FwEp1Accept
    <3>1. ep1_rx_suc' = ep1_rx_suc
      BY <1>1, <2>3 DEF Program!Handler, Program!FwInterrupt, Program!echoVars,
         Program!FwIntsts, Program!FwReset, Program!FwService, Program!FwClear, Program!FwStat,
         Program!FwEp1Count, Program!FwEp1Read,
         Program!FwCount, Program!FwRead, Program!FwSetup, Program!FwOut,
         Program!FwAddress, Program!FwStatus, Program!FwStatusSpin, Program!FwHalt,
         Program!FwStall, Program!FwMask, Program!FwSendPoll, Program!FwSendGivesUp,
         Program!FwSendWrite, Program!FwSendStart, Program!FwSendSpin, Program!FwSendAck,
         Program!FwSendAccept, Program!FwUnmask
    <3> QED  BY <1>2, <2>1, <3>1 DEF EchoesOK
  <2> QED  BY <2>2, <2>3
<1> SUFFICES WritesOK' /\ EnabledOK' /\ FlushOK' /\ ServedOK' /\ PacketOK'
  BY <1>3, <1>5, <1>9 DEF PatientInv
<1>6. int_en_rst_r' = int_en_rst_r /\ (came' => came) /\ (intr_reset_r' => intr_reset_r)
      /\ (fpc # "clear" => came' = came)
  BY <1>1, HandlerAccess DEF came
<1>7. CASE fpc \in Ep0Pc
  <2>1. /\ UNCHANGED <<fwrites, func_stat_rst, ep_intsts>>
        /\ fpc' \in Ep0Pc \cup Leaves
        /\ fpc = "mask" => fpc' \in Masked
        /\ fpc \in Masked => fpc' \in Masked \/ fpc = "unmask"
    BY <1>1, <1>7, Ep0Goes
  <2>2. served' /\ inside'
    BY <1>7, <2>1 DEF PatientInv, ServedOK, served, inside, Ep0Pc, Masked, Leaves
  <2>3. fpc' \notin {"reset", "stat"}
    BY <2>1 DEF Ep0Pc, Masked, Leaves
  <2>4. WritesOK' /\ FlushOK' /\ ServedOK'
    BY <1>2, <1>4, <2>2, <2>3 DEF PatientInv, WritesOK, FlushOK, ServedOK, inside
  <2>5. EnabledOK'
    <3>1. fpc' \notin Masked => ep_cfg_int_rx_r'[0]
      BY <1>1, <1>4, <2>1, HandlerAccess DEF PatientInv, EnabledOK, Masked
    <3> QED  BY <1>4, <1>6, <3>1 DEF PatientInv, EnabledOK
  <2> QED  BY <1>1, <1>7, <2>4, <2>5, Ep0Packet
<1>8. CASE fpc \notin Ep0Pc
  <2>0. /\ PacketOK /\ FlushOK /\ ServedOK /\ WritesOK /\ HandlerOK
        /\ rx_len_q[0] \in Nat /\ rx_fifo[0] \in Seq(Payload)
    BY DeviceTypes, TransactionsAssumption DEF PatientInv, SystemInv, ProgramOK
  <2>1. EnabledOK' \/ fpc' \in Masked
    <3>1. ep_cfg_int_rx_r'[0] = ep_cfg_int_rx_r[0]
      BY <1>1, <1>8, HandlerAccess DEF Ep0Pc, Masked
    <3> QED  BY <1>4, <1>6, <1>8, <3>1 DEF PatientInv, EnabledOK, Ep0Pc
  <2>2. /\ fpc # "reset" => /\ rx_ready_q'[0] = rx_ready_q[0] /\ rx_len_q'[0] = rx_len_q[0]
                            /\ rx_fifo'[0] = rx_fifo[0]
        /\ rx_ready_q'[0] = rx_ready_q[0] /\ rx_len_q'[0] = rx_len_q[0]
        /\ fpc \notin ReadPc
    BY <1>1, <1>8, HandlerAccess DEF Ep0Pc, Masked, ReadPc
  <2>3. CASE Program!FwInterrupt
    <3>1. fpc = "idle" /\ fpc' = "intsts" /\ func_stat_rst' = intr_reset_r
          /\ fwrites' = fwrites /\ ep_intsts' = ep_intsts
      BY <2>3 DEF Program!FwInterrupt
    <3> QED  BY <1>2, <1>4, <1>6, <2>0, <2>1, <2>2, <3>1
             DEF WritesOK, FlushOK, ServedOK, PacketOK, inside, Ep0Pc, Masked, ReadPc
  <2>4. CASE Program!FwIntsts
    <3>1. fpc = "intsts" /\ ep_intsts' = EpIntsts /\ func_stat_rst' = func_stat_rst
      BY <2>4 DEF Program!FwIntsts
    <3>2. served' <=> came
      BY <3>1, TransactionsAssumption DEF served, came, EpIntsts
    <3>3. \/ /\ fpc' = "reset" /\ fwrites' = Program!ResetWrites /\ func_stat_rst
          \/ /\ fpc' = "service" /\ served' /\ fwrites' = fwrites
          \/ /\ fpc' \in Leaves /\ ~served' /\ fwrites' = fwrites
      BY <2>4, <3>1 DEF Program!FwIntsts, Program!BusResetEvent, Program!service,
            Program!afterEp0, served, Leaves
    <3>4. inside'
      BY <3>3 DEF inside, Leaves
    <3>5. CASE fpc' = "reset" /\ fwrites' = Program!ResetWrites /\ func_stat_rst
      <4>1. ~came /\ ~served'
        BY <2>0, <3>1, <3>2, <3>5 DEF FlushOK, inside
      <4> QED  BY <1>2, <1>4, <1>6, <2>0, <2>1, <2>2, <3>1, <3>4, <3>5, <4>1, ResetWritesType
           DEF WritesOK, FlushOK, ServedOK, PacketOK, Ep0Pc, Masked, ReadPc, Some
    <3>6. CASE fpc' = "service" /\ served' /\ fwrites' = fwrites
      BY <1>2, <1>4, <1>6, <2>0, <2>1, <2>2, <3>1, <3>2, <3>4, <3>6
         DEF WritesOK, FlushOK, ServedOK, PacketOK, Ep0Pc, Masked, ReadPc
    <3>7. CASE fpc' \in Leaves /\ ~served' /\ fwrites' = fwrites
      BY <1>2, <1>4, <1>6, <2>0, <2>1, <2>2, <3>1, <3>2, <3>4, <3>7
         DEF WritesOK, FlushOK, ServedOK, PacketOK, Ep0Pc, Masked, ReadPc, Leaves
    <3> QED  BY <3>3, <3>5, <3>6, <3>7
  <2>5. CASE Program!FwReset
    <3>1. /\ fpc = "reset" /\ fwrites' = Tail(fwrites)
          /\ ep_intsts' = ep_intsts /\ func_stat_rst' = func_stat_rst
          /\ fpc' = IF fwrites' = << >> THEN Program!service(ep_intsts) ELSE "reset"
      BY <2>5 DEF Program!FwReset
    <3>2. ~came' /\ ~served' /\ ~came /\ ~served
      BY <1>6, <2>0, <3>1 DEF FlushOK, served
    <3>3. fpc' = "reset" \/ fpc' \in Leaves
      BY <3>1, <3>2 DEF Program!service, Program!afterEp0, served, Leaves
    <3>4. fwrites' \in Seq(Flushes)
      BY <2>0, <3>1, TailType DEF WritesOK, HandlerOK
    <3> QED  BY <1>2, <1>4, <1>6, <2>0, <2>1, <2>2, <3>1, <3>2, <3>3, <3>4
             DEF WritesOK, FlushOK, ServedOK, PacketOK, inside, Ep0Pc, Masked, ReadPc, Leaves
  <2>6. CASE Program!FwClear
    <3>1. /\ fpc = "clear" /\ ep_intsts' = Program!NoInts /\ fwrites' = fwrites
          /\ func_stat_rst' = func_stat_rst
          /\ fpc' = IF func_stat_rst THEN "stat" ELSE "idle"
      BY <2>6 DEF Program!FwClear
    <3>2. ~came'
      <4>1. came => served
        BY <2>0, <3>1 DEF ServedOK, inside
      <4> QED  BY <1>1, <1>6, <3>1, <4>1, HandlerAccess DEF came
    <3>3. ~served'
      BY <3>1 DEF served, Program!NoInts
    <3> QED  BY <1>2, <1>4, <1>6, <2>0, <2>1, <2>2, <3>1, <3>2, <3>3
             DEF WritesOK, FlushOK, ServedOK, PacketOK, inside, Ep0Pc, Masked, ReadPc
  <2>7. CASE Program!FwStat
    <3>1. /\ fpc = "stat" /\ fpc' = "idle" /\ ~func_stat_rst' /\ fwrites' = fwrites
          /\ ep_intsts' = ep_intsts
      BY <2>7 DEF Program!FwStat
    <3>2. ~came /\ ~came'
      BY <1>6, <2>0, <3>1 DEF FlushOK
    <3> QED  BY <1>2, <1>4, <1>6, <2>0, <2>1, <2>2, <3>1, <3>2
             DEF WritesOK, FlushOK, ServedOK, PacketOK, inside, Ep0Pc, Masked, ReadPc
  <2>8. CASE Program!FwEp1Count \/ Program!FwEp1Read \/ Program!FwEp1Accept
    <3>1. /\ fpc \in {"ep1Count", "ep1Read"} /\ fpc' \in {"ep1Read", "clear"}
          /\ UNCHANGED <<fwrites, func_stat_rst, ep_intsts>>
      BY <2>8 DEF Program!FwEp1Count, Program!FwEp1Read, Program!FwEp1Accept, Program!Goto,
                  Program!handlerVars
    <3>2. served' = served /\ inside /\ inside'
      BY <3>1 DEF served, inside
    <3> QED  BY <1>2, <1>4, <1>6, <2>0, <2>1, <2>2, <3>1, <3>2
             DEF WritesOK, FlushOK, ServedOK, PacketOK, Ep0Pc, Masked, ReadPc
  <2> QED
    BY <1>1, <1>8, <2>3, <2>4, <2>5, <2>6, <2>7, <2>8
       DEF Program!Handler, Program!FwService,
         Program!FwCount, Program!FwRead, Program!FwSetup, Program!FwOut,
         Program!FwAddress, Program!FwStatus, Program!FwStatusSpin, Program!FwHalt,
         Program!FwStall, Program!FwMask, Program!FwSendPoll, Program!FwSendGivesUp,
         Program!FwSendWrite, Program!FwSendStart, Program!FwSendSpin, Program!FwSendAck,
         Program!FwSendAccept, Program!FwUnmask, Ep0Pc, Masked
<1> QED  BY <1>7, <1>8

-----------------------------------------------------------------------------
(* The host.  A data packet is no longer than what endpoint 0 may send.    *)
LEMMA StageTrLength ==
  ASSUME HostOK, inTransfer, MAXP <= DEPTH
  PROVE  Len(StageTr.data) \in Nat /\ Len(StageTr.data) <= DEPTH
<1>0. MAXP \in Nat /\ MAXP > 0 /\ DEPTH \in Nat /\ DEPTH > 0
  BY RequestAssumption, TransactionsAssumption
<1>1. Len(hdata) \in Nat /\ hdata \in Seq(Payload)
  BY LenProperties DEF HostOK
<1>2. Len(Chunk) \in Nat /\ Len(Chunk) <= MAXP
  <2> DEFINE m == MIN(MAXP, Len(hdata))
  <2>1. m \in Nat /\ m <= Len(hdata) /\ m <= MAXP
    BY <1>0, <1>1 DEF MIN
  <2> HIDE DEF m
  <2>2. Chunk = SubSeq(hdata, 1, m)
    BY DEF Chunk, m
  <2>3. Len(SubSeq(hdata, 1, m)) = IF 1 <= m THEN m - 1 + 1 ELSE 0
    BY <1>1, <2>1, SubSeqType
  <2> QED  BY <1>0, <2>1, <2>2, <2>3
<1>3. StageTr.data \in {<<hreq>>, << >>, Chunk}
  BY DEF StageTr, inTransfer
<1>4. Len(<<hreq>>) = 1 /\ Len(<< >>) = 0
  OBVIOUS
<1>5. CASE StageTr.data = Chunk
  BY <1>0, <1>2, <1>5
<1>6. CASE StageTr.data = <<hreq>>
  BY <1>0, <1>4, <1>6
<1>7. CASE StageTr.data = << >>
  BY <1>0, <1>4, <1>7
<1> QED  BY <1>3, <1>5, <1>6, <1>7

(* Where the program waits, endpoint 0 is served or nothing has come.      *)
LEMMA WaitingAt ==
  ASSUME SystemInv, PatientInv, Program!waiting
  PROVE  /\ mpc \notin {"startUp", "enable"} /\ fpc \notin ReadPc \cup {"intsts", "reset", "stat"}
         /\ fpc = "idle" => ~intr_reset_r /\ ~func_stat_rst /\ ~came /\ mpc \notin StartPc
         /\ fpc # "idle" => inside /\ served
<1>1. \/ fpc = "idle" /\ ~intr_o /\ mpc \in {"loop", "txPoll"}
      \/ fpc \in {"statusSpin", "sendPoll", "sendSpin", "sendAck"}
  BY DEF Program!waiting, Program!resting
<1>2. ASSUME fpc = "idle" PROVE ~intr_reset_r /\ ~func_stat_rst /\ ~came
  <2>1. int_en_rst_r /\ ep_cfg_int_rx_r[0]
    BY <1>1, <1>2 DEF PatientInv, EnabledOK, Masked
  <2> QED  BY <1>1, <1>2, <2>1, TransactionsAssumption DEF intr_o, came, PatientInv, FlushOK
<1>3. ASSUME fpc # "idle" PROVE inside /\ served /\ mpc \notin {"startUp", "enable"}
  BY <1>1, <1>3 DEF inside, PatientInv, ServedOK, StartOK, Ep0Pc, Masked
<1> QED  BY <1>1, <1>2, <1>3 DEF StartPc, ReadPc

(* What a step of the host that leaves the endpoints alone leaves true. *)
LEMMA PatientSame ==
  ASSUME SystemInv, PatientInv, Program!waiting, UNCHANGED program,
         ep_cfg_int_rx_r'[0] = ep_cfg_int_rx_r[0], int_en_rst_r' = int_en_rst_r,
         fpc = "idle" => ~came' \/ ~intr_reset_r'
  PROVE  StartOK' /\ WritesOK' /\ EnabledOK' /\ FlushOK' /\ ServedOK' /\ EchoesOK'
<1>1. /\ mpc' = mpc /\ mwrites' = mwrites /\ irq' = irq /\ fpc' = fpc /\ fwrites' = fwrites
      /\ func_stat_rst' = func_stat_rst /\ ep_intsts' = ep_intsts
  BY DEF program
<1>2. served' = served /\ inside' = inside
  BY <1>1 DEF served, inside
<1>3. StartOK' /\ WritesOK' /\ EnabledOK'
  BY <1>1, WaitingAt DEF PatientInv, StartOK, WritesOK, EnabledOK, StartPc
<1>4. ServedOK'
  BY <1>1, <1>2, WaitingAt DEF PatientInv, ServedOK, inside, Ep0Pc, Masked
<1>5. FlushOK'
  BY <1>1, <1>2, WaitingAt DEF PatientInv, FlushOK, inside
<1>6. EchoesOK'
  BY DEF PatientInv, EchoesOK, program
<1> QED  BY <1>3, <1>4, <1>5, <1>6

LEMMA DataPacket ==
  ASSUME SystemInv, PatientInv, UNCHANGED program, NEW t, t.ep = 0, Data(t),
         t.data \in Seq(Payload), Len(t.data) <= DEPTH, fpc \notin ReadPc
  PROVE  PacketOK'
<1> DEFINE fits  == DEPTH - Len(rx_fifo[0])
           bytes == IF token.open /\ ~mismatch(t) THEN t.data ELSE << >>
           kept  == IF Len(bytes) <= fits THEN bytes ELSE SubSeq(bytes, 1, fits)
<1>1. DeviceOK /\ TokenOK /\ PacketOK /\ token.valid /\ token.ep = 0
  BY DEF SystemInv, PatientInv, Data
<1>2. /\ rx_fifo[0] \in Seq(Payload) /\ Len(rx_fifo[0]) \in Nat /\ fits \in Nat /\ DEPTH \in Nat
      /\ rx_len_q[0] \in Nat /\ Len(t.data) \in Nat /\ Len(rx_fifo[0]) <= DEPTH
  <2>1. rx_fifo[0] \in Seq(Payload) /\ Len(rx_fifo[0]) <= DEPTH /\ rx_len_q[0] \in Nat
    BY <1>1, DeviceTypes, TransactionsAssumption
  <2> QED  BY <2>1, LenProperties, TransactionsAssumption
<1>3. /\ rx_fifo'[0] = rx_fifo[0] \o kept
      /\ rx_len_q'[0] = rx_len_q[0] + Len(bytes)
      /\ rx_ready_q'[0] = (rx_ready_q[0] \/ (token.open /\ (mismatch(t) => t.data = << >>)))
      /\ came' = (came \/ token.room)
  BY <1>1, DeviceTypes, TransactionsAssumption DEF Data, came
<1>4. bytes \in Seq(Payload) /\ Len(bytes) \in Nat /\ Len(bytes) <= DEPTH
      /\ (bytes # << >> => token.open /\ ~mismatch(t)) /\ (bytes = << >> => Len(bytes) = 0)
  BY <1>2, EmptyType
<1> HIDE DEF bytes
<1>5. /\ kept \in Seq(Payload) /\ Len(rx_fifo[0] \o kept) \in Nat
      /\ Len(rx_fifo[0]) <= Len(rx_fifo[0] \o kept)
      /\ Len(bytes) <= Len(rx_fifo[0] \o kept)
  <2>1. CASE Len(bytes) <= fits
    <3>1. kept = bytes
      BY <2>1
    <3>2. Len(rx_fifo[0] \o bytes) = Len(rx_fifo[0]) + Len(bytes)
      BY <1>2, <1>4, ConcatType
    <3> HIDE DEF kept
    <3> QED  BY <1>2, <1>4, <3>1, <3>2
  <2>2. CASE ~(Len(bytes) <= fits)
    <3>1. kept = SubSeq(bytes, 1, fits)
      BY <2>2
    <3>2. kept \in Seq(Payload) /\ Len(kept) = IF 1 <= fits THEN fits - 1 + 1 ELSE 0
      BY <1>2, <1>4, <2>2, <3>1, SubSeqType
    <3> HIDE DEF kept
    <3>3. Len(kept) = fits
      <4>1. \A n \in Nat : (IF 1 <= n THEN n - 1 + 1 ELSE 0) = n
        OBVIOUS
      <4> QED  BY <1>2, <3>2, <4>1
    <3>4. Len(rx_fifo[0] \o kept) = Len(rx_fifo[0]) + Len(kept)
      BY <1>2, <3>2, ConcatType
    <3>5. Len(rx_fifo[0] \o kept) = DEPTH
      BY <1>2, <3>3, <3>4
    <3> QED  BY <1>2, <1>4, <3>2, <3>5
  <2> QED  BY <2>1, <2>2
<1>6. token.open \/ token.room => rx_len_q[0] = 0
  BY <1>1, <1>2 DEF TokenOK, PacketOK
<1>7. fpc' = fpc /\ (inside /\ served)' = (inside /\ served)
  BY DEF program, inside, served
<1>8. rx_len_q'[0] > 0 => rx_ready_q'[0]
  <2>1. CASE bytes = << >>
    <3>1. rx_len_q'[0] = rx_len_q[0]
      BY <1>2, <1>3, <1>4, <2>1
    <3> QED  BY <1>1, <1>3, <3>1 DEF PacketOK
  <2>2. CASE bytes # << >>
    BY <1>3, <1>4, <2>2
  <2> QED  BY <2>1, <2>2
<1>9. ASSUME came' \/ (inside /\ served)' PROVE rx_len_q'[0] <= Len(rx_fifo'[0])
  <2> HIDE DEF kept
  <2>1. CASE token.open \/ token.room
    <3>1. rx_len_q'[0] = Len(bytes)
      BY <1>3, <1>4, <1>6, <2>1
    <3> QED  BY <1>3, <1>5, <3>1
  <2>2. CASE ~token.open /\ ~token.room
    <3>1. rx_len_q'[0] = rx_len_q[0]
      BY <1>2, <1>3, <1>4, <2>2
    <3>2. rx_len_q[0] <= Len(rx_fifo[0])
      BY <1>1, <1>3, <1>7, <1>9, <2>2 DEF PacketOK
    <3>3. \A k, m, n \in Nat : k <= m /\ m <= n => k <= n
      OBVIOUS
    <3> QED  BY <1>2, <1>3, <1>5, <3>1, <3>2, <3>3
  <2> QED  BY <2>1, <2>2
<1> QED  BY <1>7, <1>8, <1>9 DEF PacketOK

(* Two steps that leave what endpoint 0 has received alone. *)
LEMMA PacketSame ==
  ASSUME PacketOK, fpc' = fpc, ep_intsts' = ep_intsts, fbuf' = fbuf, fcnt' = fcnt,
         rx_ready_q'[0] = rx_ready_q[0], rx_len_q'[0] = rx_len_q[0], rx_fifo'[0] = rx_fifo[0],
         came' = came
  PROVE  PacketOK'
BY DEF PacketOK, inside, served

LEMMA WaitingSame ==
  ASSUME UNCHANGED <<program, host, scenario>>, UNCHANGED <<intrVars, cfgVars, tx_active_q, rx_ready_q>>,
         EchoesOK, Program!waiting
  PROVE  Program!waiting'
<1>1. intr_o' = intr_o /\ intr_reset_r' = intr_reset_r
  BY DEF intr_o, intrVars, cfgVars
<1>2. \A i \in EP : /\ ([j \in EP |-> Sts(j)][i].tx_busy)' = [j \in EP |-> Sts(j)][i].tx_busy
                     /\ ([j \in EP |-> Sts(j)][i].rx_ready)' = [j \in EP |-> Sts(j)][i].rx_ready
  BY DEF Sts
<1>3. (~inTransfer \/ (hstage = "status" /\ Scenario[scenario].slow))' =
        (~inTransfer \/ (hstage = "status" /\ Scenario[scenario].slow))
  BY DEF host, inTransfer
<1>4. 0 \in EP /\ (mpc = "txPoll" => 2 \in EP)
  BY TransactionsAssumption DEF EchoesOK, EchoingPc
<1>5. UNCHANGED <<fpc, mpc, irq, ep1_rx_suc, ep1_rx_len, mflush, fflush>>
  BY DEF program
<1> QED  BY <1>1, <1>2, <1>3, <1>4, <1>5 DEF Program!waiting, Program!resting

LEMMA PatientToken ==
  ASSUME SystemInv, PatientInv, Program!waiting, UNCHANGED <<program, host, scenario>>,
         NEW t, t.ep \in EP, TokenOut(t)
  PROVE  PatientInv'
<1>1. UNCHANGED <<rx_ready_q, rx_len_q, rx_fifo, txVars, cfgVars, intrVars>>
  BY DEF TokenOut
<1>2. UNCHANGED <<fpc, ep_intsts, fbuf, fcnt, tx_active_q, ep_cfg_int_rx_r, int_en_rst_r>>
      /\ came' = came
  BY <1>1 DEF program, txVars, cfgVars, intrVars, came
<1>3. PacketOK'
  BY <1>1, <1>2, PacketSame DEF PatientInv
<1>4. StartOK' /\ WritesOK' /\ EnabledOK' /\ FlushOK' /\ ServedOK' /\ EchoesOK'
  BY <1>1, <1>2, PatientSame, WaitingAt
<1>5. Program!waiting'
  BY <1>1, <1>2, WaitingSame DEF PatientInv
<1>6. token'.ep = t.ep /\ ((token'.room \/ token'.open) => ~rx_ready_q[t.ep])
  BY DEF TokenOut
<1>7. TokenOK'
  BY <1>1, <1>5, <1>6 DEF TokenOK
<1> QED  BY <1>3, <1>4, <1>7 DEF PatientInv

(* A data packet ends what its token began. *)
LEMMA PatientData ==
  ASSUME SystemInv, PatientInv, UNCHANGED program, NEW t, t.ep \in EP, Data(t),
         t.data \in Seq(Payload), t.ep = 0 => Len(t.data) <= DEPTH
  PROVE  PatientInv'
<1>1. token.valid /\ token.ep = t.ep /\ Program!waiting
  BY DEF Data, PatientInv, TokenOK
<1>2. TokenOK'
  BY DEF Data, NoToken, TokenOK
<1>3. ep_cfg_int_rx_r' = ep_cfg_int_rx_r /\ int_en_rst_r' = int_en_rst_r
  BY DEF Data, cfgVars
<1>4. fpc = "idle" => ~intr_reset_r'
  BY <1>1, WaitingAt DEF Data
<1>5. PacketOK'
  <2>1. CASE t.ep = 0
    BY <1>1, <2>1, WaitingAt, DataPacket
  <2>2. CASE t.ep # 0
    <3>1. rx_ready_q'[0] = rx_ready_q[0] /\ rx_len_q'[0] = rx_len_q[0] /\ rx_fifo'[0] = rx_fifo[0]
          /\ came' = came
      BY <2>2, DeviceTypes, TransactionsAssumption DEF SystemInv, Data, came
    <3>2. UNCHANGED <<fpc, ep_intsts, fbuf, fcnt>>
      BY DEF program
    <3> QED  BY <3>1, <3>2, PacketSame DEF PatientInv
  <2> QED  BY <2>1, <2>2
<1>6. StartOK' /\ WritesOK' /\ EnabledOK' /\ FlushOK' /\ ServedOK' /\ EchoesOK'
  BY <1>1, <1>3, <1>4, PatientSame
<1> QED  BY <1>2, <1>5, <1>6 DEF PatientInv

(* The other steps of the host leave alone what has come. *)
LEMMA PatientOther ==
  ASSUME SystemInv, PatientInv, Program!waiting, UNCHANGED program,
         UNCHANGED <<rx_ready_q, rx_len_q, rx_fifo, cfgVars, intr_ep_rx_ready_r>>,
         ~token'.valid
  PROVE  PatientInv'
<1>1. UNCHANGED <<fpc, ep_intsts, fbuf, fcnt, ep_cfg_int_rx_r, int_en_rst_r>> /\ came' = came
  BY DEF program, cfgVars, came
<1>2. PacketOK'
  BY <1>1, PacketSame DEF PatientInv
<1>3. StartOK' /\ WritesOK' /\ EnabledOK' /\ FlushOK' /\ ServedOK' /\ EchoesOK'
  BY <1>1, PatientSame, WaitingAt
<1> QED  BY <1>2, <1>3 DEF PatientInv, TokenOK

LEMMA PatientHost ==
  ASSUME SystemInv, PatientInv, Patient, Host, MAXP <= DEPTH PROVE PatientInv'
<1>1. UNCHANGED program /\ scenario' = scenario /\ HostOK
  BY DEF Host, SystemInv
<1>2. mayAct => Program!waiting /\ ~token.valid
  BY DEF mayAct, Patient
<1>3. CASE HostAsks
  <2>1. mayAct /\ UNCHANGED deviceVars
    BY <1>3 DEF HostAsks
  <2> QED  BY <1>1, <1>2, <2>1, PatientOther DEF deviceVars, coreVars, rxVars, intrVars
<1>4. CASE HostToken
  <2>1. mayAct /\ TokenOut(StageTr) /\ UNCHANGED host /\ inTransfer
    BY <1>4 DEF HostToken
  <2>2. StageTr.ep \in EP
    BY <1>1, <2>1, StageTrType, TransactionsAssumption
  <2> QED  BY <1>1, <1>2, <2>1, <2>2, PatientToken
<1>5. CASE HostData
  <2>1. Data(StageTr) /\ token.ep = 0 /\ token.valid
    BY <1>5 DEF HostData, Data
  <2>2. inTransfer
    BY <1>1, <2>1 DEF HostOK
  <2>3. StageTr.ep = 0 /\ StageTr.data \in Seq(Payload) /\ Len(StageTr.data) <= DEPTH
    BY <1>1, <2>2, StageTrType, StageTrLength
  <2> QED  BY <1>1, <2>1, <2>3, PatientData, TransactionsAssumption
<1>6. CASE HostIn
  <2>1. mayAct /\ In(StageTr, ~tooLong)
    BY <1>6 DEF HostIn
  <2>2. UNCHANGED <<token, rxVars, cfgVars, intr_ep_rx_ready_r>>
    BY <2>1 DEF In
  <2> QED  BY <1>1, <1>2, <2>1, <2>2, PatientOther DEF rxVars
<1>7. CASE HostAbandons
  <2>1. mayAct /\ UNCHANGED deviceVars
    BY <1>7 DEF HostAbandons
  <2> QED  BY <1>1, <1>2, <2>1, PatientOther DEF deviceVars, coreVars, rxVars, intrVars
<1>8. CASE HostResets
  <2>1. Program!waiting /\ BusReset
    BY <1>8 DEF HostResets, Patient
  <2>2. UNCHANGED <<rxVars, cfgVars, intr_ep_rx_ready_r>> /\ ~token'.valid
    BY <2>1 DEF BusReset, NoToken
  <2> QED  BY <1>1, <2>1, <2>2, PatientOther DEF rxVars
<1>9. CASE HostPings
  <2>1. mayAct /\ TokenOut(outTr) /\ UNCHANGED host /\ hsent < Len(now.echo)
    BY <1>9 DEF HostPings
  <2>2. outTr.ep \in EP
    BY <1>1, <2>1, OutTrType
  <2> QED  BY <1>1, <1>2, <2>1, <2>2, PatientToken
<1>10. CASE HostPingData
  <2>1. token.ep = 1 /\ Data(outTr) /\ token.valid
    BY <1>10 DEF HostPingData, Data
  <2>2. hsent < Len(now.echo)
    BY <1>1, <2>1 DEF HostOK
  <2>3. outTr.ep = 1 /\ 1 \in EP /\ outTr.data \in Seq(Payload)
    BY <1>1, <2>2, OutTrType
  <2> QED  BY <1>1, <2>1, <2>3, PatientData
<1>11. CASE HostPongs
  <2>1. mayAct /\ In(inTr, TRUE)
    BY <1>11 DEF HostPongs
  <2>2. UNCHANGED <<token, rxVars, cfgVars, intr_ep_rx_ready_r>>
    BY <2>1 DEF In
  <2> QED  BY <1>1, <1>2, <2>1, <2>2, PatientOther DEF rxVars
<1> QED  BY <1>3, <1>4, <1>5, <1>6, <1>7, <1>8, <1>9, <1>10, <1>11 DEF Host

-----------------------------------------------------------------------------
(* At the start, and always. *)
LEMMA LastAndWithin ==
  \A x, y, z \in Seq(Writes) : y # << >> /\ Len(z) = 1 =>
    /\ (x \o y \o z)[Len(x \o y \o z)] = z[1]
    /\ \E k \in 1 .. Len(x \o y \o z) : (x \o y \o z)[k] = y[1]
<1> SUFFICES ASSUME NEW x \in Seq(Writes), NEW y \in Seq(Writes), NEW z \in Seq(Writes),
                    y # << >>, Len(z) = 1
             PROVE  /\ (x \o y \o z)[Len(x \o y \o z)] = z[1]
                    /\ \E k \in 1 .. Len(x \o y \o z) : (x \o y \o z)[k] = y[1]
  OBVIOUS
<1>1. Len(x) \in Nat /\ Len(y) \in Nat /\ Len(y) > 0
  BY TailType, LenProperties
<1>2. x \o y \in Seq(Writes) /\ Len(x \o y) = Len(x) + Len(y)
  BY ConcatType
<1>3. Len(x \o y \o z) = Len(x) + Len(y) + 1
  <2>1. Len((x \o y) \o z) = Len(x \o y) + Len(z)
    BY <1>2, ConcatType
  <2> QED  BY <1>1, <1>2, <2>1
<1>4. (x \o y \o z)[Len(x) + Len(y) + 1] = z[1]
  BY <1>1, <1>2, ConcatProperties
<1>5. (x \o y)[Len(x) + 1] = y[1]
  BY <1>1, ConcatProperties
<1>6. (x \o y \o z)[Len(x) + 1] = (x \o y)[Len(x) + 1]
  BY <1>1, <1>2, ConcatProperties
<1> QED  BY <1>1, <1>3, <1>4, <1>5, <1>6

LEMMA StartUpParts ==
  /\ \E y \in Seq(Writes) : Program!StartUp = y \o Program!Each(Program!EnableInt)
                                                  \o <<Program!FuncCtrl(TRUE, TRUE)>>
  /\ Program!FuncCtrl(TRUE, TRUE) \in Writes
<1>1. ASSUME NEW term \in BOOLEAN, NEW rst \in BOOLEAN PROVE Program!FuncCtrl(term, rst) \in Writes
  BY DEF Program!FuncCtrl, Writes, FUNC_CTRL, Program!Ctrl
<1>2. ASSUME NEW state \in {0, 1} PROVE Some(Writes, Program!Attach(state))
  <2>1. Program!FuncCtrl(state = 1, FALSE) \in Writes
    BY <1>1
  <2>2. Program!Stat(TRUE) \in Writes
    BY DEF Writes, Flushes, Program!Stat
  <2> QED  BY <2>1, <2>2, TwoWrites DEF Program!Attach
<1> DEFINE a == Program!Attach(0)
           f == Program!Each(Program!FlushBoth)
           b == Program!Attach(1)
<1>3. Some(Writes, a) /\ Some(Writes, f) /\ Some(Writes, b)
  BY <1>2, FlushesWrites, WriteSeq DEF Some
<1>4. Program!StartUp = (a \o f \o a \o b) \o Program!Each(Program!EnableInt)
                                             \o <<Program!FuncCtrl(TRUE, TRUE)>>
  BY DEF Program!StartUp
<1> HIDE DEF a, f, b
<1>5. a \o f \o a \o b \in Seq(Writes)
  BY <1>3, SomeMore DEF Some
<1> QED  BY <1>1, <1>4, <1>5

LEMMA FirstEnable == Enables(Program!Each(Program!EnableInt)[1])
<1> DEFINE a == Program!EnableInt(0)
           b == Program!EnableInt(1)
           c == Program!EnableInt(2)
<1>0. \A i : Program!EnableInt(i) = <<Program!EnableInt(i)[1]>>
  BY DEF Program!EnableInt
<1>1. PICK u, v, w : a = <<u>> /\ b = <<v>> /\ c = <<w>> /\ Enables(u)
  <2>1. Enables(a[1])
    BY DEF Program!EnableInt, Program!Cfg, Enables
  <2> QED  BY <1>0, <2>1
<1>2. \/ Program!Each(Program!EnableInt) = a
      \/ Program!Each(Program!EnableInt) = a \o b
      \/ Program!Each(Program!EnableInt) = a \o b \o c
  BY DEF Program!Each
<1> HIDE DEF a, b, c
<1>3. <<u>>[1] = u /\ (<<u>> \o <<v>>)[1] = u /\ (<<u>> \o <<v>> \o <<w>>)[1] = u
  OBVIOUS
<1> QED  BY <1>1, <1>2, <1>3

LEMMA PatientInit == Init => PatientInv
<1> SUFFICES ASSUME Init PROVE PatientInv
  OBVIOUS
<1>1. /\ mpc = "startUp" /\ mwrites = Program!StartUp /\ irq = FALSE /\ ep1_rx_suc = FALSE
      /\ fpc = "idle" /\ func_stat_rst = FALSE
  BY DEF Init, Program!FirmwareInit
<1>2. /\ token = NoToken /\ rx_len_q[0] = 0 /\ ~intr_reset_r
      /\ \A i \in EP : ~intr_ep_rx_ready_r[i] /\ ~intr_ep_tx_complete_r[i]
  BY TransactionsAssumption DEF Init, DeviceInit
<1>3. /\ mwrites[Len(mwrites)] = Program!FuncCtrl(TRUE, TRUE)
      /\ \E k \in 1 .. Len(mwrites) : Enables(mwrites[k])
  <2> DEFINE e == Program!Each(Program!EnableInt)
             z == <<Program!FuncCtrl(TRUE, TRUE)>>
  <2>1. PICK y \in Seq(Writes) : Program!StartUp = y \o e \o z
    BY StartUpParts
  <2>2. e \in Seq(Writes) /\ e # << >>
    BY EnablesWrites DEF Some
  <2>4. z \in Seq(Writes) /\ Len(z) = 1 /\ z[1] = Program!FuncCtrl(TRUE, TRUE)
    BY StartUpParts, OneWrite DEF Some
  <2>3. Enables(e[1])
    BY FirstEnable
  <2> HIDE DEF e, z
  <2>5. mwrites = y \o e \o z
    BY <1>1, <2>1
  <2>6. /\ (y \o e \o z)[Len(y \o e \o z)] = z[1]
        /\ \E k \in 1 .. Len(y \o e \o z) : (y \o e \o z)[k] = e[1]
    BY <2>2, <2>4, LastAndWithin, Zenon
  <2> QED  BY <2>3, <2>4, <2>5, <2>6
<1>4. StartOK /\ WritesOK /\ EnabledOK
  BY <1>1, <1>2, <1>3 DEF StartOK, WritesOK, EnabledOK
<1>5. FlushOK /\ ServedOK /\ PacketOK
  BY <1>1, <1>2, TransactionsAssumption
     DEF FlushOK, ServedOK, PacketOK, came, inside, Ep0Pc, Masked, ReadPc
<1>6. TokenOK /\ EchoesOK
  BY <1>1, <1>2 DEF TokenOK, NoToken, EchoesOK, EchoingPc
<1> QED  BY <1>4, <1>5, <1>6 DEF PatientInv

(* A patient host stays patient, and then the endpoint holds what it counts. *)
LEMMA PatientInvariant ==
  ASSUME MAXP <= DEPTH PROVE Spec => [](Patient => PatientInv)
<1>1. Init => (Patient => PatientInv)
  BY PatientInit
<1>2. SystemInv /\ (Patient => PatientInv) /\ [Next]_vars => (Patient => PatientInv)'
  <2> SUFFICES ASSUME SystemInv, Patient => PatientInv, [Next]_vars, Patient'
               PROVE  PatientInv'
    OBVIOUS
  <2>1. scenario' = scenario
    BY DEF Next, Main, Handler, Host, vars
  <2>2. Patient /\ PatientInv
    BY <2>1 DEF Patient, now
  <2>3. CASE Main
    BY <2>2, <2>3, PatientMain
  <2>4. CASE Handler
    BY <2>2, <2>4, PatientHandler
  <2>5. CASE Host
    BY <2>2, <2>5, PatientHost
  <2>6. CASE UNCHANGED vars
    <3>1. UNCHANGED <<deviceVars, host, scenario, program>>
      BY <2>6 DEF vars
    <3>2. UNCHANGED <<rx_ready_q, rx_len_q, rx_fifo, ep_cfg_int_rx_r, ep_cfg_int_tx_r,
            int_en_rst_r, token, intr_ep_rx_ready_r, intr_ep_tx_complete_r, intr_reset_r,
            tx_active_q>>
      BY <3>1 DEF deviceVars, coreVars, rxVars, txVars, cfgVars, intrVars
    <3>3. Program!waiting' = Program!waiting
      BY <3>1, <3>2 DEF Program!waiting, Program!resting, program, host, now, inTransfer,
           intr_o, Sts, deviceVars, rxVars
    <3>4. /\ UNCHANGED <<mpc, mwrites, irq, fpc, fwrites, func_stat_rst, ep_intsts, fbuf, fcnt,
                          ep1_rx_suc>>
          /\ came' = came /\ served' = served /\ inside' = inside
      BY <3>1, <3>2 DEF program, came, served, inside
    <3>5. StartOK' /\ WritesOK' /\ EnabledOK' /\ EchoesOK'
      BY <2>2, <3>2, <3>4 DEF PatientInv, StartOK, WritesOK, EnabledOK, EchoesOK
    <3>6. FlushOK' /\ ServedOK' /\ PacketOK'
      BY <2>2, <3>2, <3>4 DEF PatientInv, FlushOK, ServedOK, PacketOK
    <3>7. TokenOK'
      BY <2>2, <3>2, <3>3 DEF PatientInv, TokenOK
    <3> QED  BY <3>5, <3>6, <3>7 DEF PatientInv
  <2> QED  BY <2>3, <2>4, <2>5, <2>6 DEF Next
<1> QED  BY <1>1, <1>2, SystemInvariant, PTL DEF Spec

(* When the handler reads a byte of a packet for endpoint 0, the byte is   *)
(* there, whatever the host asks and wherever it resets the bus, if it     *)
(* waits for the program with each of its steps, and the FIFO holds a      *)
(* packet.  (A host that does not wait: run system_reset.)                 *)
THEOREM PatientReadsWhatCame ==
  ASSUME MAXP <= DEPTH PROVE Spec => [](Patient => ReadsWhatCame)
<1>1. SystemInv /\ (Patient => PatientInv) => (Patient => ReadsWhatCame)
  <2> SUFFICES ASSUME SystemInv, PatientInv, Program!reading, Len(fbuf) < fcnt
               PROVE  rx_fifo[0] # << >>
    BY DEF ReadsWhatCame
  <2>1. fcnt <= Len(fbuf) + Len(rx_fifo[0])
    BY DEF PatientInv, PacketOK, Program!reading, ReadPc
  <2>2. Len(fbuf) \in Nat /\ fcnt \in Nat /\ Len(<< >>) = 0
    BY LenProperties DEF SystemInv, ProgramOK, XferOK
  <2> QED  BY <2>1, <2>2
<1> QED  BY <1>1, SystemInvariant, PatientInvariant, PTL
=============================================================================
