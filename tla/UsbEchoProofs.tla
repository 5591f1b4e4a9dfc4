--------------------------- MODULE UsbEchoProofs ---------------------------
(***************************************************************************)
(* What endpoint 1 has received is what endpoint 2 sends back: where a     *)
(* packet may be on its way through the device and the program.            *)
(***************************************************************************)
EXTENDS UsbTransferProofs

(* Packets that fit the FIFO and the buffer of main, and a bus that is not *)
(* reset, for a reset loses them.                                          *)
Fitting == /\ now.resets = 0
           /\ \A n \in 1 .. Len(now.echo) : /\ Len(now.echo[n]) <= DEPTH
                                            /\ Len(now.echo[n]) <= Len(Buffer0)

back   == Len(hback)
packet == now.echo[hsent]      \* the last that endpoint 1 has taken

SendingPc == {"txPoll", "txWrite", "txStart"}
Ep1Pc     == {"ep1Count", "ep1Read"}

(* No reset is seen, and the handler serves endpoint 1 if it was told to.  *)
Steady ==
  /\ ~intr_reset_r /\ ~func_stat_rst /\ mpc # "flush" /\ fpc \notin {"reset", "stat"}
  /\ fpc \in {"idle", "intsts"} => ep_intsts = Program!NoInts
  /\ fpc \in Ep1Pc => 1 \in ep_intsts.rx
  /\ ~rx_setup_q[1]

(* The toggles count the packets, and at most one is on its way. *)
Parity ==
  /\ hsent \in {back, back + 1}
  /\ ep_data_bit_q[1] = (hsent % 2 = 1)
  /\ ep_data_bit_q[2] = (back % 2 = 1)

(* What the token found is so when its data packet comes. *)
PingOK ==
  token.valid /\ token.ep = 1 =>
    hsent = back /\ (token.open <=> token.room /\ ~ep_cfg_stall_ep_r[1])

Under     == hsent = back + 1
Told      == intr_ep_rx_ready_r[1] \/ 1 \in ep_intsts.rx
Served    == fpc = "clear" /\ 1 \in ep_intsts.rx
Empty1    == rx_fifo[1] = << >> /\ rx_len_q[1] = 0
Empty2    == tx_fifo[2] = << >> /\ ~tx_active_q[2]
NoEcho    == /\ mpc \notin {"txCall"} \cup SendingPc
             /\ ep1_rx_suc /\ ep1_rx_len # 0 => mpc = "txDone"
Copied(n) == \A k \in 1 .. n : rx_packet_buf[k] = packet[k]

(* The places: endpoint 1 is stalled, and will be; nothing is on its way,  *)
(* or it was lost; in endpoint 1; between endpoint 1 and the buffer; in the*)
(* buffer; between the buffer and endpoint 2; in endpoint 2.               *)
Stalled  == hsent = back /\ ep_cfg_stall_ep_r[1]
Nowhere  == ~Told /\ Empty1 /\ Empty2 /\ NoEcho
Received == /\ Under /\ rx_fifo[1] = packet /\ rx_len_q[1] = Len(packet)
            /\ fpc # "ep1Read" /\ Empty2 /\ NoEcho /\ mpc # "startUp"
Reading  == /\ Under /\ fpc = "ep1Read" /\ ep1_rx_len = Len(packet) /\ fcnt <= Len(packet)
            /\ rx_fifo[1] = SubSeq(packet, fcnt + 1, Len(packet))
            /\ Copied(fcnt)
            /\ Empty2 /\ mpc \notin {"startUp", "txCall"} \cup SendingPc
Held     == /\ Under /\ ep1_rx_len = Len(packet) /\ Copied(Len(packet))
            /\ Empty1 /\ Empty2
            /\ ~Told \/ Served
            /\ mpc = "txCall" => packet # << >>
            /\ mpc \notin SendingPc \cup {"startUp"}
Sending  == /\ Under /\ mpc \in SendingPc /\ mlen = Len(packet) /\ packet # << >>
            /\ mpc = "txStart" => mcnt = mlen
            /\ Copied(Len(packet))
            /\ ~Told /\ Empty1 /\ ~tx_active_q[2]
            /\ ~mflush => tx_fifo[2] = SubSeq(packet, 1, mcnt)
Loaded   == /\ Under /\ ~Told /\ Empty1 /\ NoEcho /\ mpc # "startUp" /\ packet # << >>
            /\ tx_active_q[2] /\ tx_fifo[2] = packet /\ tx_len_q[2] = Len(packet)

Somewhere == Stalled \/ Nowhere \/ Received \/ Reading \/ Held \/ Sending \/ Loaded

EchoInv ==
  IF now.echo = << >> THEN hback = << >>
  ELSE Steady /\ Parity /\ PingOK /\ Somewhere /\ EchoFaithful

-----------------------------------------------------------------------------
(* What an access changes of endpoints 1 and 2. *)
LEMMA AccessAt ==
  ASSUME DeviceOK, NEW c, Cpu(c), NEW i \in EP
  PROVE  /\ c.op \notin {"accept", "read", "rx_flush"} \/ c.ep # i =>
              rx_fifo'[i] = rx_fifo[i] /\ rx_len_q'[i] = rx_len_q[i]
         /\ c.op \notin {"tx_flush", "flush_start", "start", "write"} \/ c.ep # i =>
              /\ tx_fifo'[i] = tx_fifo[i] /\ tx_active_q'[i] = tx_active_q[i]
              /\ tx_len_q'[i] = tx_len_q[i]
         /\ intr_ep_rx_ready_r'[i] => intr_ep_rx_ready_r[i]
         /\ ~rx_setup_q[i] => ~rx_setup_q'[i] /\ (ep_cfg_stall_ep_r[i] => ep_cfg_stall_ep_r'[i])
         /\ intr_reset_r' => intr_reset_r
         /\ UNCHANGED coreVars
<1> USE DeviceTypes
<1>1. CpuRx(c) /\ CpuTx(c) /\ CpuCfg(c) /\ CpuIntr(c) /\ UNCHANGED coreVars
  BY DEF Cpu
<1>2. /\ c.op \notin {"accept", "read", "rx_flush"} \/ c.ep # i =>
           rx_fifo'[i] = rx_fifo[i] /\ rx_len_q'[i] = rx_len_q[i]
      /\ ~rx_setup_q[i] => ~rx_setup_q'[i]
  <2>1. CASE c.op = "accept"
    BY <1>1, <2>1 DEF CpuRx, Accepted, Put
  <2>2. CASE c.op = "read" /\ rx_fifo[c.ep] # << >>
    BY <1>1, <2>2 DEF CpuRx, Put
  <2>3. CASE c.op = "read" /\ rx_fifo[c.ep] = << >>
    BY <1>1, <2>3 DEF CpuRx, rxVars
  <2>4. CASE c.op = "rx_flush"
    BY <1>1, <2>4 DEF CpuRx, Put
  <2>5. CASE c.op \notin {"accept", "read", "rx_flush"}
    BY <1>1, <2>5 DEF CpuRx, rxVars
  <2> QED  BY <2>1, <2>2, <2>3, <2>4, <2>5
<1>3. c.op \notin {"tx_flush", "flush_start", "start", "write"} \/ c.ep # i =>
        /\ tx_fifo'[i] = tx_fifo[i] /\ tx_active_q'[i] = tx_active_q[i]
        /\ tx_len_q'[i] = tx_len_q[i]
  <2>1. CASE c.op \in {"tx_flush", "flush_start"}
    BY <1>1, <2>1 DEF CpuTx, Put
  <2>2. CASE c.op = "start"
    BY <1>1, <2>2 DEF CpuTx, Put
  <2>3. CASE c.op = "write" /\ Len(tx_fifo[c.ep]) < DEPTH
    BY <1>1, <2>3 DEF CpuTx, Put
  <2>4. CASE c.op = "write" /\ ~(Len(tx_fifo[c.ep]) < DEPTH)
    BY <1>1, <2>4 DEF CpuTx, txVars
  <2>5. CASE c.op \notin {"tx_flush", "flush_start", "start", "write"}
    BY <1>1, <2>5 DEF CpuTx, txVars
  <2> QED  BY <2>1, <2>2, <2>3, <2>4, <2>5
<1>4. ASSUME ~rx_setup_q[i], ep_cfg_stall_ep_r[i] PROVE ep_cfg_stall_ep_r'[i]
  <2>1. CASE c.op = "cfg"
    BY <1>1, <1>4, <2>1 DEF CpuCfg, Put
  <2>2. CASE c.op # "cfg"
    BY <1>1, <1>4, <2>2 DEF CpuCfg
  <2> QED  BY <2>1, <2>2
<1> QED  BY <1>1, <1>2, <1>3, <1>4, AccessIntr

(* What is said of the packets to be echoed. *)
LEMMA PacketType ==
  ASSUME HostOK, Fitting, Under
  PROVE  /\ packet \in Seq(Payload) /\ Len(packet) \in Nat
         /\ Len(packet) <= DEPTH /\ Len(packet) <= Len(Buffer0)
<1>1. back \in Nat /\ hsent \in 0 .. Len(now.echo) /\ Len(now.echo) \in Nat
      /\ now.echo \in Seq(Seq(Payload))
  BY ScenarioType, LenProperties DEF HostOK, back
<1>2. hsent \in 1 .. Len(now.echo)
  BY <1>1 DEF Under
<1>3. packet \in Seq(Payload)
  BY <1>1, <1>2, ElementOfSeq DEF packet
<1> QED  BY <1>2, <1>3, LenProperties DEF Fitting, packet

(* A packet on its way from one place to the next. *)
LEMMA Grows ==
  ASSUME NEW s \in Seq(Payload), NEW n \in Nat, n < Len(s)
  PROVE  /\ SubSeq(s, 1, n) \in Seq(Payload) /\ Len(SubSeq(s, 1, n)) = n
         /\ Append(SubSeq(s, 1, n), s[n + 1]) = SubSeq(s, 1, n + 1)
         /\ s[n + 1] \in Payload
<1>1. Len(s) \in Nat /\ n + 1 \in 1 .. Len(s) /\ 1 \in 1 .. Len(s) /\ n + 1 - 1 = n
  BY LenProperties
<1>2. SubSeq(s, 1, n + 1) = SubSeq(s, 1, n) \o <<s[n + 1]>>
  <2>1. SubSeq(s, 1, n + 1) = SubSeq(s, 1, n + 1 - 1) \o <<s[n + 1]>>
    BY <1>1, SubSeqRecursiveSecond
  <2> QED  BY <1>1, <2>1
<1>3. SubSeq(s, 1, n) \in Seq(Payload) /\ Len(SubSeq(s, 1, n)) = n
  <2>1. Len(SubSeq(s, 1, n)) = IF 1 <= n THEN n - 1 + 1 ELSE 0
    BY <1>1, SubSeqType
  <2>2. SubSeq(s, 1, n) \in Seq(Payload)
    BY <1>1, SubSeqType
  <2> QED  BY <2>1, <2>2
<1>4. s[n + 1] \in Payload
  BY <1>1, ElementOfSeq
<1>5. Append(SubSeq(s, 1, n), s[n + 1]) = SubSeq(s, 1, n) \o <<s[n + 1]>>
  BY <1>3, <1>4, AppendIsConcat
<1> QED  BY <1>2, <1>3, <1>4, <1>5

LEMMA Shrinks ==
  ASSUME NEW s \in Seq(Payload), NEW n \in Nat, n < Len(s)
  PROVE  /\ SubSeq(s, n + 1, Len(s)) # << >> /\ Head(SubSeq(s, n + 1, Len(s))) = s[n + 1]
         /\ Tail(SubSeq(s, n + 1, Len(s))) = SubSeq(s, n + 2, Len(s))
<1>1. Len(s) \in Nat /\ n + 1 \in 1 .. Len(s) /\ Len(s) \in n + 1 .. Len(s) /\ n + 1 + 1 = n + 2
  BY LenProperties
<1>2. Len(SubSeq(s, n + 1, Len(s))) = Len(s) - n
  <2>1. \A i \in n + 1 .. Len(s) : s[i] \in Payload
    BY <1>1, ElementOfSeq
  <2>2. Len(SubSeq(s, n + 1, Len(s))) =
          IF n + 1 <= Len(s) THEN Len(s) - (n + 1) + 1 ELSE 0
    BY <1>1, <2>1, SubSeqProperties
  <2> QED  BY <1>1, <2>2
<1> DEFINE r == SubSeq(s, n + 1, Len(s))
<1>3. Head(r) = s[n + 1] /\ Tail(r) = SubSeq(s, n + 1 + 1, Len(s))
  BY <1>1, HeadTailOfSubSeq
<1>4. r # << >>
  <2>1. Len(r) > 0
    BY <1>1, <1>2
  <2> HIDE DEF r
  <2> QED  BY <2>1, EmptyType
<1> QED  BY <1>1, <1>3, <1>4

(* A step that leaves alone all the places where a packet may be. *)
LEMMA SamePlaces ==
  ASSUME Somewhere, UNCHANGED <<hsent, hback, scenario>>,
         rx_fifo'[1] = rx_fifo[1], rx_len_q'[1] = rx_len_q[1],
         tx_fifo'[2] = tx_fifo[2], tx_active_q'[2] = tx_active_q[2], tx_len_q'[2] = tx_len_q[2],
         UNCHANGED <<mpc, mlen, mcnt, mflush, ep1_rx_suc, ep1_rx_len, rx_packet_buf>>,
         ep_cfg_stall_ep_r[1] => ep_cfg_stall_ep_r'[1],
         ~Told => ~Told', Served => Served' \/ ~Told',
         fpc' = "ep1Read" <=> fpc = "ep1Read",
         fpc = "ep1Read" => fcnt' = fcnt
  PROVE  Somewhere'
<1>1. back' = back /\ packet' = packet /\ (Under <=> Under')
  BY DEF back, packet, now, Under
<1>2. (Empty1 <=> Empty1') /\ (Empty2 <=> Empty2') /\ (NoEcho <=> NoEcho')
  BY DEF Empty1, Empty2, NoEcho
<1>3. \A n : Copied(n) <=> Copied(n)'
  BY <1>1 DEF Copied
<1>4. CASE Stalled
  BY <1>1, <1>4 DEF Stalled, Somewhere
<1>5. CASE Nowhere
  BY <1>2, <1>5 DEF Nowhere, Somewhere
<1>6. CASE Received
  BY <1>1, <1>2, <1>6 DEF Received, Somewhere
<1>7. CASE Reading
  BY <1>1, <1>2, <1>3, <1>7 DEF Reading, Somewhere, Copied
<1>8. CASE Held
  BY <1>1, <1>2, <1>3, <1>8 DEF Held, Somewhere, Copied
<1>9. CASE Sending
  BY <1>1, <1>2, <1>3, <1>9 DEF Sending, Somewhere, Copied
<1>10. CASE Loaded
  BY <1>1, <1>2, <1>10 DEF Loaded, Somewhere
<1> QED  BY <1>4, <1>5, <1>6, <1>7, <1>8, <1>9, <1>10 DEF Somewhere

-----------------------------------------------------------------------------
(* main: its accesses where it is. *)
LEMMA MainAccess ==
  ASSUME 2 \in EP
  PROVE  /\ mpc \notin StartPc \cup SendingPc => Program!mainOp = Program!NoOp
         /\ mpc = "txPoll" /\ ~tx_active_q[0] => Program!mainOp = Program!NoOp
         /\ mpc = "txPoll" /\ tx_active_q[0] => Program!mainOp = Program!TxFlush(2)
         /\ mpc = "txWrite" => Program!mainOp = Program!Write(2, rx_packet_buf[mcnt + 1])
         /\ mpc = "txStart" => Program!mainOp = IF mflush THEN Program!FlushStart(2, mlen)
                                                          ELSE Program!Start(2, mlen)
<1>1. [i \in EP |-> Sts(i)][2].tx_busy = tx_active_q[0]
  BY DEF Sts
<1> QED  BY <1>1 DEF Program!mainOp, StartPc, SendingPc

LEMMA NoAccess ==
  ASSUME DeviceOK, Cpu(Program!NoOp), NEW i \in EP
  PROVE  /\ rx_fifo'[i] = rx_fifo[i] /\ rx_len_q'[i] = rx_len_q[i]
         /\ tx_fifo'[i] = tx_fifo[i] /\ tx_active_q'[i] = tx_active_q[i]
         /\ tx_len_q'[i] = tx_len_q[i]
<1>1. Program!NoOp.op = "none"
  BY DEF Program!NoOp
<1> QED  BY <1>1, AccessAt

LEMMA EchoMain ==
  ASSUME SystemInv, PatientInv, Fitting, now.echo # << >>, EchoInv, Main
  PROVE  EchoInv'
<1> DEFINE c == Program!mainOp
<1>1. /\ DeviceOK /\ HostOK /\ MainOK /\ EchoOK /\ {1, 2} \subseteq EP
      /\ Steady /\ Parity /\ PingOK /\ Somewhere /\ EchoFaithful
  BY ScenarioType DEF SystemInv, ProgramOK, EchoInv, HostOK
<1>2. /\ Program!Main /\ Cpu(c) /\ fpc = "idle"
      /\ UNCHANGED <<Program!handlerVars, host, scenario, counts>>
  BY DEF Main, Program!Main
<1>3. /\ fpc' = "idle" /\ func_stat_rst' = func_stat_rst /\ ep_intsts' = ep_intsts
      /\ hsent' = hsent /\ hback' = hback /\ now' = now
  BY <1>2 DEF Program!handlerVars, counts, now
<1>4. ~token.valid /\ token' = token /\ ep_data_bit_q' = ep_data_bit_q
  BY <1>2, WaitsOn DEF PatientInv, TokenOK, Cpu, coreVars
<1>5. /\ intr_ep_rx_ready_r'[1] => intr_ep_rx_ready_r[1]
      /\ ~rx_setup_q'[1] /\ (ep_cfg_stall_ep_r[1] => ep_cfg_stall_ep_r'[1])
      /\ ~intr_reset_r'
  BY <1>1, <1>2, AccessAt DEF Steady
<1>6. mpc' # "flush"
  BY <1>1, <1>2 DEF Steady, Program!Main, Program!MainWrites, Program!MainEnables,
         Program!MainReset, Program!MainEcho, Program!MainCalls, Program!MainPolls,
         Program!MainGivesUp, Program!MainTxByte, Program!MainTxStart, Program!MainForgets
<1>7. Steady' /\ Parity' /\ PingOK' /\ EchoFaithful'
  BY <1>1, <1>2, <1>3, <1>4, <1>5, <1>6 DEF Steady, Parity, PingOK, EchoFaithful, back, Ep1Pc
<1>8. (~Told => ~Told') /\ ~Served /\ fpc # "ep1Read"
  BY <1>2, <1>3, <1>5 DEF Told, Served
<1>9. back' = back /\ packet' = packet /\ (Under => Under') /\ (Stalled => Stalled')
  BY <1>3, <1>5 DEF back, packet, Under, Stalled
<1>10. ASSUME c = Program!NoOp
       PROVE  /\ rx_fifo'[1] = rx_fifo[1] /\ rx_len_q'[1] = rx_len_q[1]
              /\ tx_fifo'[2] = tx_fifo[2] /\ tx_active_q'[2] = tx_active_q[2]
              /\ tx_len_q'[2] = tx_len_q[2]
  <2>1. Cpu(Program!NoOp)
    BY <1>2, <1>10
  <2> QED  BY <1>1, <2>1, NoAccess
<1>11. Under => /\ packet \in Seq(Payload) /\ Len(packet) \in Nat
                /\ Len(packet) <= DEPTH /\ Len(packet) <= Len(Buffer0)
  BY <1>1, PacketType
<1> HIDE DEF c
<1>12. CASE Program!MainWrites
  <2>1. /\ mpc = "startUp" /\ mpc' \in {"startUp", "enable"} /\ UNCHANGED Program!echoVars
    BY <1>1, <1>12 DEF Program!MainWrites, Steady
  <2>2. c \in Writes
    BY <1>1, <2>1, MainOps, TailType DEF MainOK, StartPc, c
  <2>3. c.op \in {"tx_flush", "rx_flush", "stat", "cfg", "ctrl"}
    BY <2>2 DEF Writes, Flushes
  <2>4. ASSUME Empty1, Empty2 PROVE Empty1' /\ Empty2'
    <3>1. CpuRx(c) /\ CpuTx(c)
      BY <1>2 DEF Cpu
    <3>2. Empty1'
      <4>1. CASE c.op = "rx_flush"
        BY <1>1, <2>4, <3>1, <4>1, DeviceTypes DEF CpuRx, Put, Empty1
      <4>2. CASE c.op # "rx_flush"
        BY <1>1, <1>2, <2>3, <2>4, <4>2, AccessAt DEF Empty1
      <4> QED  BY <4>1, <4>2
    <3>3. Empty2'
      <4>1. CASE c.op = "tx_flush"
        BY <1>1, <2>4, <3>1, <4>1, DeviceTypes DEF CpuTx, Put, Empty2
      <4>2. CASE c.op # "tx_flush"
        BY <1>1, <1>2, <2>3, <2>4, <4>2, AccessAt DEF Empty2
      <4> QED  BY <4>1, <4>2
    <3> QED  BY <3>2, <3>3
  <2>5. CASE Nowhere
    <3>1. NoEcho'
      BY <2>1, <2>5 DEF Nowhere, NoEcho, Program!echoVars, SendingPc
    <3> QED  BY <1>1, <1>3, <1>7, <1>8, <2>4, <2>5, <3>1 DEF Nowhere, Somewhere, EchoInv
  <2>6. Nowhere \/ Stalled
    BY <1>1, <1>8, <2>1 DEF Somewhere, Received, Reading, Held, Sending, Loaded, SendingPc
  <2> QED  BY <1>1, <1>3, <1>7, <1>9, <2>5, <2>6 DEF EchoInv, Somewhere
<1>13. ~Program!MainReset
  BY <1>1 DEF Program!MainReset, Steady
<1>14. CASE Program!MainEnables \/ Program!MainForgets
  <2>1. /\ mpc \in {"enable", "txDone"} /\ mpc' = "loop" /\ rx_packet_buf' = rx_packet_buf
        /\ \/ mpc = "enable" /\ UNCHANGED Program!echoVars
           \/ mpc = "txDone" /\ ep1_rx_suc' = FALSE
    BY <1>14 DEF Program!MainEnables, Program!MainForgets, Program!echoVars
  <2>2. c = Program!NoOp
    BY <1>1, <2>1, MainAccess DEF StartPc, SendingPc, c
  <2>3. (Empty1 => Empty1') /\ (Empty2 => Empty2')
    BY <1>10, <2>2 DEF Empty1, Empty2
  <2>4. NoEcho => NoEcho'
    BY <2>1 DEF NoEcho, SendingPc, Program!echoVars
  <2> SUFFICES Somewhere'
    BY <1>1, <1>3, <1>7 DEF EchoInv
  <2>5. CASE Nowhere
    BY <1>8, <2>3, <2>4, <2>5 DEF Nowhere, Somewhere
  <2>6. CASE Received
    BY <1>3, <1>9, <1>10, <2>1, <2>2, <2>3, <2>4, <2>6 DEF Received, Somewhere
  <2>7. CASE Held
    <3>1. CASE mpc = "enable"
      BY <1>8, <1>9, <2>1, <2>3, <2>7, <3>1 DEF Held, Somewhere, Copied, SendingPc, Program!echoVars
    <3>2. CASE mpc = "txDone"
      <4>1. NoEcho'
        BY <2>1, <3>2 DEF NoEcho, SendingPc
      <4> QED  BY <1>8, <2>3, <2>7, <4>1 DEF Held, Nowhere, Somewhere
    <3> QED  BY <2>1, <3>1, <3>2
  <2>8. CASE Loaded
    BY <1>8, <1>9, <1>10, <2>1, <2>2, <2>3, <2>4, <2>8 DEF Loaded, Somewhere
  <2>9. Nowhere \/ Received \/ Held \/ Loaded \/ Stalled
    <3>1. ~Reading /\ ~Sending
      BY <1>8, <2>1 DEF Reading, Sending, SendingPc
    <3> QED  BY <1>1, <3>1 DEF Somewhere
  <2>10. CASE Stalled
    BY <1>9, <2>10 DEF Somewhere
  <2> QED  BY <2>5, <2>6, <2>7, <2>8, <2>9, <2>10
<1>15. CASE Program!MainEcho
  <2>1. mpc = "loop" /\ mpc' = "txCall" /\ UNCHANGED Program!echoVars /\ ep1_rx_suc /\ ep1_rx_len # 0
    BY <1>15 DEF Program!MainEcho
  <2>2. c = Program!NoOp
    BY <1>1, <2>1, MainAccess DEF StartPc, SendingPc, c
  <2>3. Stalled \/ Held
    BY <1>1, <1>8, <2>1 DEF Somewhere, Nowhere, Received, Reading, Sending, Loaded, NoEcho, SendingPc
  <2>4. ASSUME Held PROVE Held'
    <3>1. packet # << >>
      BY <1>11, <2>1, <2>4, EmptyType DEF Held
    <3> QED  BY <1>8, <1>9, <1>10, <2>1, <2>2, <2>4, <3>1
             DEF Held, Copied, Empty1, Empty2, SendingPc, Program!echoVars
  <2> QED  BY <1>1, <1>3, <1>7, <1>9, <2>3, <2>4 DEF EchoInv, Somewhere
<1>16. CASE Program!MainCalls
  <2>1. /\ mpc = "txCall" /\ UNCHANGED Program!echoVars /\ mlen' = ep1_rx_len /\ mcnt' = 0
        /\ mpc' = IF mlen' = 0 THEN "txStart" ELSE "txPoll"
    BY <1>16 DEF Program!MainCalls
  <2>2. c = Program!NoOp
    BY <1>1, <2>1, MainAccess DEF StartPc, SendingPc, c
  <2>3. Stalled \/ Held
    BY <1>1, <1>8, <2>1 DEF Somewhere, Nowhere, Received, Reading, Sending, Loaded, NoEcho, SendingPc
  <2>4. ASSUME Held PROVE Sending'
    <3>1. packet # << >> /\ Len(packet) # 0
      BY <1>11, <2>1, <2>4, EmptySeq DEF Held
    <3>2. mlen' = Len(packet) /\ mpc' = "txPoll"
      BY <2>1, <2>4, <3>1 DEF Held
    <3>3. SubSeq(packet, 1, 0) = << >>
      BY <1>11, <2>4, SubSeqEmpty DEF Held
    <3> QED  BY <1>8, <1>9, <1>10, <2>1, <2>2, <2>4, <3>1, <3>2, <3>3
             DEF Held, Sending, Copied, Empty1, Empty2, SendingPc, Program!echoVars
  <2> QED  BY <1>1, <1>3, <1>7, <1>9, <2>3, <2>4 DEF EchoInv, Somewhere
<1>17. CASE Program!MainPolls \/ Program!MainGivesUp \/ Program!MainTxByte \/ Program!MainTxStart
  <2>1. mpc \in SendingPc /\ UNCHANGED <<mlen, Program!echoVars>>
    BY <1>17 DEF Program!MainPolls, Program!MainGivesUp, Program!MainTxByte, Program!MainTxStart,
                 SendingPc
  <2>2. Stalled \/ Sending
    BY <1>1, <1>8, <2>1 DEF Somewhere, Nowhere, Received, Reading, Held, Loaded, NoEcho, SendingPc
  <2>3. ASSUME Sending PROVE Somewhere'
    <3>0. /\ packet \in Seq(Payload) /\ Len(packet) \in Nat /\ Len(packet) <= DEPTH
          /\ mlen = Len(packet) /\ mlen' = mlen /\ packet # << >> /\ Under' /\ ~Told'
          /\ Empty1 /\ ~tx_active_q[2]
      BY <1>8, <1>9, <1>11, <2>1, <2>3 DEF Sending
    <3>1. Copied(Len(packet))'
      BY <1>9, <2>1, <2>3 DEF Sending, Copied, Program!echoVars
    <3>2. CpuTx(c) /\ (c.op \in {"none", "tx_flush", "write", "start", "flush_start"} => Empty1')
      BY <1>1, <1>2, <3>0, AccessAt DEF Cpu, Empty1
    <3>3. CASE Program!MainPolls
      <4>1. /\ mpc = "txPoll" /\ mpc' = "txWrite" /\ ~tx_active_q[0]
            /\ mcnt' = mcnt /\ mflush' = mflush
        BY <1>1, <3>3 DEF Program!MainPolls, Sts
      <4>2. c = Program!NoOp
        BY <1>1, <4>1, MainAccess DEF c
      <4> QED  BY <1>9, <1>10, <2>3, <3>0, <3>1, <4>1, <4>2
               DEF Sending, Somewhere, SendingPc, Empty1
    <3>4. CASE Program!MainGivesUp
      <4>1. mpc = "txPoll" /\ mpc' = "txWrite" /\ tx_active_q[0] /\ mflush'
        BY <1>1, <3>4 DEF Program!MainGivesUp, Sts
      <4>2. c = Program!TxFlush(2)
        BY <1>1, <4>1, MainAccess DEF c
      <4>3. c.op = "tx_flush" /\ c.ep = 2
        BY <4>2 DEF Program!TxFlush
      <4>4. ~tx_active_q'[2]
        BY <1>1, <3>2, <4>3, DeviceTypes DEF CpuTx, Put
      <4> QED  BY <1>9, <3>0, <3>1, <3>2, <4>1, <4>3, <4>4 DEF Sending, Somewhere, SendingPc
    <3>5. CASE Program!MainTxByte
      <4>1. /\ mpc = "txWrite" /\ mcnt' = mcnt + 1 /\ mflush' = mflush
            /\ mpc' = IF mcnt' = mlen THEN "txStart" ELSE "txPoll"
        BY <3>5 DEF Program!MainTxByte
      <4>2. c = Program!Write(2, rx_packet_buf[mcnt + 1])
        BY <1>1, <4>1, MainAccess DEF c
      <4>3. c.op = "write" /\ c.ep = 2 /\ c.arg = rx_packet_buf[mcnt + 1]
        BY <4>2 DEF Program!Write
      <4>4. mcnt \in Nat /\ mcnt < Len(packet)
        BY <1>1, <3>0, <4>1 DEF MainOK, TxPc
      <4>5. c.arg = packet[mcnt + 1]
        BY <2>3, <3>0, <4>3, <4>4 DEF Sending, Copied
      <4>6. ~tx_active_q'[2]
        <5>1. CASE Len(tx_fifo[2]) < DEPTH
          BY <1>1, <3>0, <3>2, <4>3, <5>1 DEF CpuTx
        <5>2. CASE ~(Len(tx_fifo[2]) < DEPTH)
          BY <1>1, <3>0, <3>2, <4>3, <5>2 DEF CpuTx, txVars
        <5> QED  BY <5>1, <5>2
      <4>7. ASSUME ~mflush PROVE tx_fifo'[2] = SubSeq(packet, 1, mcnt + 1)
        <5>1. tx_fifo[2] = SubSeq(packet, 1, mcnt)
          BY <2>3, <4>7 DEF Sending
        <5>2. Len(tx_fifo[2]) < DEPTH
          <6>1. Len(tx_fifo[2]) = mcnt
            BY <3>0, <4>4, <5>1, Grows
          <6> QED  BY <3>0, <4>4, <6>1, TransactionsAssumption
        <5>3. tx_fifo'[2] = Append(tx_fifo[2], packet[mcnt + 1])
          BY <1>1, <3>2, <4>3, <4>5, <5>2, DeviceTypes DEF CpuTx, Put
        <5> QED  BY <3>0, <4>4, <5>1, <5>3, Grows
      <4> QED  BY <1>9, <3>0, <3>1, <3>2, <4>1, <4>3, <4>6, <4>7 DEF Sending, Somewhere, SendingPc
    <3>6. CASE Program!MainTxStart
      <4>1. mpc = "txStart" /\ mpc' = "txDone"
        BY <3>6 DEF Program!MainTxStart
      <4>2. c = IF mflush THEN Program!FlushStart(2, mlen) ELSE Program!Start(2, mlen)
        BY <1>1, <4>1, MainAccess DEF c
      <4>3. NoEcho'
        BY <4>1 DEF NoEcho, SendingPc
      <4>4. CASE mflush
        <5>1. c.op = "flush_start" /\ c.ep = 2
          BY <4>2, <4>4 DEF Program!FlushStart
        <5>2. Empty2'
          BY <1>1, <3>2, <5>1, DeviceTypes DEF CpuTx, Put, Empty2
        <5> QED  BY <3>0, <3>2, <4>3, <5>1, <5>2 DEF Nowhere, Somewhere
      <4>5. CASE ~mflush
        <5>1. c.op = "start" /\ c.ep = 2 /\ c.arg = mlen
          BY <4>2, <4>5 DEF Program!Start
        <5>2. tx_fifo[2] = packet
          BY <2>3, <3>0, <4>1, <4>5, SubSeqFull DEF Sending
        <5>3. tx_active_q'[2] /\ tx_len_q'[2] = Len(packet) /\ tx_fifo' = tx_fifo
          BY <1>1, <3>0, <3>2, <5>1, DeviceTypes DEF CpuTx, Put
        <5> QED  BY <1>9, <3>0, <3>2, <4>1, <4>3, <5>1, <5>2, <5>3 DEF Loaded, Somewhere
      <4> QED  BY <4>4, <4>5
    <3> QED  BY <1>17, <3>3, <3>4, <3>5, <3>6
  <2> QED  BY <1>1, <1>3, <1>7, <1>9, <2>2, <2>3 DEF EchoInv, Somewhere
<1> QED  BY <1>2, <1>12, <1>13, <1>14, <1>15, <1>16, <1>17 DEF Program!Main

-----------------------------------------------------------------------------
(* my_usb_intr: away from endpoint 1 it leaves alone what is on its way. *)
LEMMA HandlerAway ==
  ASSUME SystemInv, PatientInv, Cpu(Program!handlerOp), 2 \in EP, 1 \in EP,
         fpc \notin {"ep1Read", "reset"}
  PROVE  /\ rx_fifo'[1] = rx_fifo[1] /\ rx_len_q'[1] = rx_len_q[1]
         /\ tx_fifo'[2] = tx_fifo[2] /\ tx_active_q'[2] = tx_active_q[2]
         /\ tx_len_q'[2] = tx_len_q[2]
<1> DEFINE c == Program!handlerOp
<1>0. DeviceOK /\ XferOK /\ HandlerOK
  BY DEF SystemInv, ProgramOK
<1>1. c.ep = 0 \/ c.op \notin {"accept", "read", "rx_flush", "tx_flush", "flush_start", "start", "write"}
  <2>1. CASE fpc \in ReadPc \cup {"sendAccept"}
    <3>1. c \in {Program!Read(0), Program!Accept(0), Program!NoOp}
      BY <1>0, <2>1, HandlerOps DEF ReadPc
    <3> QED  BY <3>1 DEF Program!Read, Program!Accept, Program!NoOp
  <2>2. CASE fpc \in {"clear", "stat", "address", "status", "sendPoll", "sendWrite", "sendStart"}
    <3>1. c \in {Program!Intsts(ep_intsts), Program!Stat(TRUE), Program!TxFlush(0), Program!NoOp,
                 Program!FlushStart(0, send), Program!Start(0, send), Program!Start(0, 0),
                 Program!SetAddr(Program!addressOf(Program!req)), Program!Write(0, Head(fbuf))}
      BY <1>0, <2>2, HandlerOps
    <3> QED  BY <3>1 DEF Program!Intsts, Program!Stat, Program!TxFlush, Program!NoOp,
                         Program!FlushStart, Program!Start, Program!SetAddr, Program!Write
  <2>3. CASE fpc \in {"halt", "stall"}
    <3>1. PICK i, on : c = Program!stalling(i, on)
      BY <1>0, <2>3, HandlerOps
    <3> QED  BY <3>1 DEF Program!stalling, Program!Cfg
  <2>4. CASE fpc \in {"mask", "unmask"}
    <3>1. c = Program!Cfg(0, [EpCfg(0) EXCEPT !.int_rx = (fpc = "unmask")])
      BY <1>0, <2>4, HandlerOps
    <3> QED  BY <3>1 DEF Program!Cfg
  <2>5. CASE fpc \in {"idle", "intsts", "service", "ep1Count", "setupCount", "outCount",
                      "statusSpin", "sendSpin", "sendAck"}
    <3>1. c = Program!NoOp
      BY <1>0, <2>5, HandlerOps
    <3> QED  BY <3>1 DEF Program!NoOp
  <2> QED  BY <1>0, <2>1, <2>2, <2>3, <2>4, <2>5 DEF HandlerOK, FwPc, ReadPc, SendPc, PacketPc
<1> HIDE DEF c
<1> QED  BY <1>0, <1>1, AccessAt DEF c

(* my_usb_intr: where it goes, and what it knows of endpoint 1. *)
LEMMA HandlerSteady ==
  ASSUME SystemInv, PatientInv, Handler, Steady, 1 \in EP
  PROVE  Steady'
<1>1. /\ Program!Handler /\ Cpu(Program!handlerOp) /\ mpc' = mpc /\ DeviceOK
  BY DEF Handler, Program!Handler, Program!mainVars, SystemInv
<1>2. ~intr_reset_r' /\ ~rx_setup_q'[1]
  BY <1>1, AccessAt DEF Steady
<1> SUFFICES /\ ~func_stat_rst' /\ fpc' \notin {"reset", "stat"}
             /\ fpc' \in {"idle", "intsts"} => ep_intsts' = Program!NoInts
             /\ fpc' \in Ep1Pc => 1 \in ep_intsts'.rx
  BY <1>1, <1>2 DEF Steady
<1>3. CASE fpc \in Ep0Pc
  BY <1>1, <1>3, Ep0Goes DEF Steady, Ep0Pc, Masked, Leaves, Ep1Pc
<1>4. CASE Program!FwInterrupt
  BY <1>4 DEF Steady, Program!FwInterrupt, Ep1Pc
<1>5. CASE Program!FwIntsts
  BY <1>5 DEF Steady, Program!FwIntsts, Program!service, Program!afterEp0, Ep1Pc
<1>6. CASE Program!FwClear
  BY <1>6 DEF Steady, Program!FwClear, Ep1Pc
<1>7. CASE Program!FwEp1Count \/ Program!FwEp1Read \/ Program!FwEp1Accept
  BY <1>7 DEF Steady, Program!FwEp1Count, Program!FwEp1Read, Program!FwEp1Accept, Program!Goto,
              Program!handlerVars, Ep1Pc
<1>8. ~Program!FwReset /\ ~Program!FwStat
  BY DEF Steady, Program!FwReset, Program!FwStat
<1> QED
  BY <1>1, <1>3, <1>4, <1>5, <1>6, <1>7, <1>8
     DEF Program!Handler, Program!FwService,
         Program!FwCount, Program!FwRead, Program!FwSetup, Program!FwOut,
         Program!FwAddress, Program!FwStatus, Program!FwStatusSpin, Program!FwHalt,
         Program!FwStall, Program!FwMask, Program!FwSendPoll, Program!FwSendGivesUp,
         Program!FwSendWrite, Program!FwSendStart, Program!FwSendSpin, Program!FwSendAck,
         Program!FwSendAccept, Program!FwUnmask, Ep0Pc, Masked

(* Away from endpoint 1 it does not touch the buffer, and forgets what it  *)
(* was told of endpoint 1 only when that has been served.                  *)
LEMMA HandlerApart ==
  ASSUME SystemInv, PatientInv, Program!Handler, Cpu(Program!handlerOp), Steady,
         fpc \notin Ep1Pc, 1 \in EP
  PROVE  /\ UNCHANGED Program!echoVars /\ fpc' # "ep1Read"
         /\ ~Told => ~Told'
         /\ Served => ~Told'
<1>0. DeviceOK /\ XferOK /\ CpuIntr(Program!handlerOp)
      /\ (intr_ep_rx_ready_r'[1] => intr_ep_rx_ready_r[1])
  BY AccessAt DEF SystemInv, ProgramOK, Cpu
<1>1. UNCHANGED Program!echoVars
  BY DEF Program!Handler, Program!FwInterrupt, Program!echoVars, Ep1Pc,
         Program!FwIntsts, Program!FwReset, Program!FwService, Program!FwClear, Program!FwStat,
         Program!FwEp1Count, Program!FwEp1Read, Program!FwEp1Accept,
         Program!FwCount, Program!FwRead, Program!FwSetup, Program!FwOut,
         Program!FwAddress, Program!FwStatus, Program!FwStatusSpin, Program!FwHalt,
         Program!FwStall, Program!FwMask, Program!FwSendPoll, Program!FwSendGivesUp,
         Program!FwSendWrite, Program!FwSendStart, Program!FwSendSpin, Program!FwSendAck,
         Program!FwSendAccept, Program!FwUnmask
<1>2. CASE fpc \in Ep0Pc
  BY <1>0, <1>1, <1>2, Ep0Goes DEF Told, Served, Ep0Pc, Masked, Leaves
<1>3. CASE Program!FwInterrupt
  BY <1>0, <1>1, <1>3 DEF Program!FwInterrupt, Told, Served
<1>4. CASE Program!FwIntsts
  <2>1. /\ fpc = "intsts" /\ fpc' = Program!service(EpIntsts) /\ ep_intsts' = EpIntsts
    BY <1>4 DEF Steady, Program!FwIntsts
  <2>2. 1 \in ep_intsts'.rx <=> intr_ep_rx_ready_r[1]
    BY <2>1 DEF EpIntsts
  <2>3. fpc' # "ep1Read"
    BY <2>1 DEF Program!service, Program!afterEp0
  <2> QED  BY <1>0, <1>1, <2>1, <2>2, <2>3 DEF Told, Served
<1>5. CASE Program!FwClear
  <2>1. /\ fpc = "clear" /\ fpc' \in {"stat", "idle"} /\ ep_intsts' = Program!NoInts
    BY <1>5 DEF Program!FwClear
  <2>2. Program!handlerOp = Program!Intsts(ep_intsts)
    BY <1>0, <2>1, HandlerOps
  <2>3. 1 \in ep_intsts.rx => ~intr_ep_rx_ready_r'[1]
    <3>1. Program!handlerOp.op = "intsts" /\ Program!handlerOp.arg = ep_intsts
      BY <2>2 DEF Program!Intsts
    <3> QED  BY <1>0, <3>1 DEF CpuIntr
  <2>4. 1 \notin ep_intsts'.rx
    BY <2>1 DEF Program!NoInts
  <2> QED  BY <1>0, <1>1, <2>1, <2>3, <2>4 DEF Told, Served
<1>6. ~Program!FwReset /\ ~Program!FwStat
      /\ ~Program!FwEp1Count /\ ~Program!FwEp1Read /\ ~Program!FwEp1Accept
  BY DEF Steady, Program!FwReset, Program!FwStat, Ep1Pc,
         Program!FwEp1Count, Program!FwEp1Read, Program!FwEp1Accept
<1> QED
  BY <1>2, <1>3, <1>4, <1>5, <1>6
     DEF Program!Handler, Program!FwService,
         Program!FwCount, Program!FwRead, Program!FwSetup, Program!FwOut,
         Program!FwAddress, Program!FwStatus, Program!FwStatusSpin, Program!FwHalt,
         Program!FwStall, Program!FwMask, Program!FwSendPoll, Program!FwSendGivesUp,
         Program!FwSendWrite, Program!FwSendStart, Program!FwSendSpin, Program!FwSendAck,
         Program!FwSendAccept, Program!FwUnmask, Ep0Pc, Masked

LEMMA EchoHandler ==
  ASSUME SystemInv, PatientInv, Fitting, now.echo # << >>, EchoInv, Handler
  PROVE  EchoInv'
<1> DEFINE c == Program!handlerOp
<1>1. /\ DeviceOK /\ HostOK /\ EchoOK /\ HandlerOK /\ XferOK /\ 1 \in EP /\ 2 \in EP
      /\ Steady /\ Parity /\ PingOK /\ Somewhere /\ EchoFaithful
  BY ScenarioType DEF SystemInv, ProgramOK, EchoInv, HostOK
<1>2. /\ Program!Handler /\ Cpu(c) /\ UNCHANGED <<Program!mainVars, host, scenario, counts>>
  BY DEF Handler, Program!Handler
<1>3. /\ UNCHANGED <<mpc, mlen, mcnt, mflush>>
      /\ hsent' = hsent /\ hback' = hback /\ now' = now
  BY <1>2 DEF Program!mainVars, counts, now
<1>4. ~token.valid /\ token' = token /\ ep_data_bit_q' = ep_data_bit_q
  BY <1>2, WaitsOn DEF PatientInv, TokenOK, Cpu, coreVars
<1>5. Steady' /\ Parity' /\ PingOK' /\ EchoFaithful'
  BY <1>1, <1>3, <1>4, HandlerSteady DEF Parity, PingOK, EchoFaithful, back
<1> SUFFICES Somewhere'
  BY <1>3, <1>5 DEF EchoInv
<1>6. ep_cfg_stall_ep_r[1] => ep_cfg_stall_ep_r'[1]
  BY <1>1, <1>2, AccessAt DEF Steady
<1>7. back' = back /\ packet' = packet /\ (Under => Under') /\ (Stalled => Stalled')
  BY <1>3, <1>6 DEF back, packet, Under, Stalled
<1>8. CASE fpc \notin Ep1Pc
  <2>1. /\ rx_fifo'[1] = rx_fifo[1] /\ rx_len_q'[1] = rx_len_q[1]
        /\ tx_fifo'[2] = tx_fifo[2] /\ tx_active_q'[2] = tx_active_q[2]
        /\ tx_len_q'[2] = tx_len_q[2]
    BY <1>1, <1>2, <1>8, HandlerAway DEF Ep1Pc, Steady
  <2>2. /\ UNCHANGED Program!echoVars /\ fpc' # "ep1Read" /\ fpc # "ep1Read"
        /\ ~Told => ~Told'
        /\ Served => ~Told'
    BY <1>1, <1>2, <1>8, HandlerApart DEF Ep1Pc
  <2> QED  BY <1>1, <1>2, <1>3, <1>6, <2>1, <2>2, SamePlaces DEF Program!echoVars
<1>9. CASE fpc \in Ep1Pc
  <2>1. Told /\ ~Served
    BY <1>1, <1>9 DEF Steady, Told, Served, Ep1Pc
  <2>2. Stalled \/ Received \/ Reading
    BY <1>1, <2>1 DEF Somewhere, Nowhere, Held, Sending, Loaded
  <2>7. Program!FwEp1Count \/ Program!FwEp1Read \/ Program!FwEp1Accept
    BY <1>2, <1>9 DEF Ep1Pc, Program!Handler, Program!FwService, Program!FwInterrupt,
         Program!FwIntsts, Program!FwReset, Program!FwClear, Program!FwStat,
         Program!FwCount, Program!FwRead, Program!FwSetup, Program!FwOut,
         Program!FwAddress, Program!FwStatus, Program!FwStatusSpin, Program!FwHalt,
         Program!FwStall, Program!FwMask, Program!FwSendPoll, Program!FwSendGivesUp,
         Program!FwSendWrite, Program!FwSendStart, Program!FwSendSpin, Program!FwSendAck,
         Program!FwSendAccept, Program!FwUnmask
  <2>3. CASE Stalled
    BY <1>7, <2>3 DEF Somewhere
  <2>4. CASE Received
    <3>0. fpc = "ep1Count" /\ Program!FwEp1Count
      BY <1>9, <2>2, <2>4, <2>7 DEF Received, Program!FwEp1Read, Program!FwEp1Accept, Ep1Pc
    <3>1. c = Program!NoOp
      BY <1>1, <3>0, HandlerOps
    <3>2. /\ rx_fifo'[1] = rx_fifo[1]
          /\ tx_fifo'[2] = tx_fifo[2] /\ tx_active_q'[2] = tx_active_q[2]
      BY <1>1, <1>2, <3>1, NoAccess
    <3>3. packet \in Seq(Payload) /\ Len(packet) \in Nat /\ Len(packet) <= Len(Buffer0)
      BY <1>1, <2>4, PacketType DEF Received
    <3>4. fpc' = "ep1Read" /\ fcnt' = 0 /\ ep1_rx_len' = Len(packet)
      <4>1. ([i \in EP |-> Sts(i)])[1].rx_count = Len(packet)
        BY <1>1, <2>4 DEF Sts, Received
      <4>2. ep1_rx_len' = Program!MIN(Len(packet), Len(Buffer0))
        BY <1>1, <3>0, <4>1 DEF Program!FwEp1Count, EchoOK
      <4> QED  BY <3>0, <3>3, <4>2 DEF Program!FwEp1Count, Program!Goto, Program!MIN
    <3>5. SubSeq(packet, 0 + 1, Len(packet)) = packet
      BY <3>3, SubSeqFull
    <3>6. Copied(0)'
      BY DEF Copied
    <3> QED  BY <1>3, <1>7, <2>4, <3>2, <3>3, <3>4, <3>5, <3>6
             DEF Received, Reading, Somewhere, Empty2, NoEcho, SendingPc
  <2>5. ASSUME Reading, Program!FwEp1Read PROVE Somewhere'
    <3>1. /\ fpc = "ep1Read" /\ fpc' = fpc /\ fcnt < ep1_rx_len /\ ep1_rx_len' = ep1_rx_len
          /\ rx_packet_buf' = [rx_packet_buf EXCEPT ![fcnt + 1] = RxByte(1)] /\ fcnt' = fcnt + 1
      BY <1>1, <2>5 DEF Program!FwEp1Read, Program!handlerVars
    <3>2. c = Program!Read(1)
      <4>1. fcnt \in Nat /\ ep1_rx_len \in Nat /\ \A m, n \in Nat : m < n => m # n
        BY <1>1 DEF XferOK, EchoOK
      <4>2. fcnt # ep1_rx_len
        BY <3>1, <4>1
      <4> QED  BY <3>1, <4>2 DEF Program!handlerOp, Program!reading
    <3>3. c.op = "read" /\ c.ep = 1
      BY <3>2 DEF Program!Read
    <3>4. /\ packet \in Seq(Payload) /\ Len(packet) \in Nat /\ Len(packet) <= Len(Buffer0)
          /\ fcnt \in Nat /\ fcnt < Len(packet)
      BY <1>1, <2>5, <3>1, PacketType DEF Reading, XferOK
    <3>5. /\ rx_fifo[1] = SubSeq(packet, fcnt + 1, Len(packet))
          /\ rx_fifo[1] # << >> /\ Head(rx_fifo[1]) = packet[fcnt + 1]
          /\ Tail(rx_fifo[1]) = SubSeq(packet, fcnt + 2, Len(packet))
      BY <2>5, <3>4, Shrinks DEF Reading
    <3>6. rx_fifo'[1] = SubSeq(packet, fcnt + 2, Len(packet))
      BY <1>1, <1>2, <3>3, <3>5, DeviceTypes DEF Cpu, CpuRx, Put
    <3>7. Empty2'
      BY <1>1, <1>2, <2>5, <3>3, AccessAt DEF Reading, Empty2
    <3>8. \A k \in 1 .. fcnt + 1 : rx_packet_buf'[k] = packet[k]
      <4>1. fcnt + 1 \in DOMAIN rx_packet_buf
        BY <1>1, <3>4, LenProperties DEF EchoOK
      <4>2. rx_packet_buf'[fcnt + 1] = packet[fcnt + 1]
        BY <3>1, <3>5, <4>1 DEF RxByte
      <4>3. \A k \in 1 .. fcnt : rx_packet_buf'[k] = packet[k]
        BY <2>5, <3>1, <3>4 DEF Reading, Copied
      <4>4. \A k \in 1 .. fcnt + 1 : k = fcnt + 1 \/ k \in 1 .. fcnt
        BY <3>4
      <4> QED  BY <4>2, <4>3, <4>4
    <3>9. fcnt + 1 <= Len(packet) /\ fcnt + 1 + 1 = fcnt + 2
      BY <3>4
    <3>10. Copied(fcnt)'
      BY <1>7, <3>1, <3>8 DEF Copied
    <3>11. /\ fcnt' <= Len(packet')
           /\ rx_fifo'[1] = SubSeq(packet', fcnt' + 1, Len(packet'))
      BY <1>7, <3>1, <3>6, <3>9
    <3> QED  BY <1>3, <1>7, <2>5, <3>1, <3>7, <3>10, <3>11 DEF Reading, Somewhere
  <2>6. ASSUME Reading, Program!FwEp1Accept PROVE Somewhere'
    <3>1. /\ fpc = "ep1Read" /\ fpc' = "clear" /\ fcnt = ep1_rx_len /\ ep1_rx_len' = ep1_rx_len
          /\ rx_packet_buf' = rx_packet_buf /\ ep_intsts' = ep_intsts
      BY <1>1, <2>6 DEF Program!FwEp1Accept, Program!Goto
    <3>2. /\ packet \in Seq(Payload) /\ Len(packet) \in Nat /\ ep1_rx_len = Len(packet)
      BY <1>1, <2>6, PacketType DEF Reading
    <3>3. c = Program!Accept(1)
      BY <3>1, <3>2 DEF Program!handlerOp, Program!reading
    <3>4. c.op = "accept" /\ c.ep = 1
      BY <3>3 DEF Program!Accept
    <3>5. rx_fifo[1] = << >>
      <4>1. rx_fifo[1] = SubSeq(packet, Len(packet) + 1, Len(packet))
        BY <2>6, <3>1, <3>2 DEF Reading
      <4> QED  BY <3>2, <4>1, SubSeqEmpty
    <3>6. Empty1'
      BY <1>1, <1>2, <3>4, <3>5, DeviceTypes DEF Cpu, CpuRx, Accepted, Put, Empty1
    <3>7. Empty2'
      BY <1>1, <1>2, <2>6, <3>4, AccessAt DEF Reading, Empty2
    <3>8. Copied(Len(packet))'
      BY <1>7, <2>6, <3>1, <3>2 DEF Reading, Copied
    <3>9. Served'
      BY <1>1, <3>1 DEF Steady, Served, Ep1Pc
    <3> QED  BY <1>3, <1>7, <2>6, <3>1, <3>2, <3>6, <3>7, <3>8, <3>9 DEF Reading, Held, Somewhere
  <2> QED  BY <2>2, <2>3, <2>4, <2>5, <2>6, <2>7 DEF Reading, Program!FwEp1Count
<1> QED  BY <1>8, <1>9

-----------------------------------------------------------------------------
(* The host: its transactions with endpoint 0 leave alone what is on its   *)
(* way.                                                                    *)
LEMMA EchoSame ==
  ASSUME now.echo # << >>, EchoInv, UNCHANGED <<program, scenario, hsent, hback, intr_reset_r>>,
         ep_data_bit_q'[1] = ep_data_bit_q[1], ep_data_bit_q'[2] = ep_data_bit_q[2],
         rx_setup_q'[1] = rx_setup_q[1], ep_cfg_stall_ep_r'[1] = ep_cfg_stall_ep_r[1],
         intr_ep_rx_ready_r'[1] <=> intr_ep_rx_ready_r[1],
         rx_fifo'[1] = rx_fifo[1], rx_len_q'[1] = rx_len_q[1],
         tx_fifo'[2] = tx_fifo[2], tx_active_q'[2] = tx_active_q[2], tx_len_q'[2] = tx_len_q[2],
         PingOK'
  PROVE  EchoInv'
<1>1. Steady /\ Parity /\ Somewhere /\ EchoFaithful
  BY DEF EchoInv
<1>2. /\ UNCHANGED <<mpc, mlen, mcnt, mflush, ep1_rx_suc, ep1_rx_len, rx_packet_buf>>
      /\ UNCHANGED <<fpc, fcnt, func_stat_rst, ep_intsts>>
  BY DEF program
<1>3. now' = now
  BY DEF now
<1>4. Steady' /\ Parity' /\ EchoFaithful'
  BY <1>1, <1>2, <1>3 DEF Steady, Parity, back, EchoFaithful
<1>5. (Told' <=> Told) /\ (Served' <=> Served)
  BY <1>2 DEF Told, Served
<1>6. Somewhere'
  BY <1>1, <1>2, <1>5, SamePlaces
<1> QED  BY <1>3, <1>4, <1>6 DEF EchoInv

LEMMA FlipsAt == \A n \in Nat : ((n + 1) % 2 = 1) <=> ~(n % 2 = 1)
OBVIOUS

(* Endpoint 1 takes a packet that finds room, and says so. *)
LEMMA PingTaken ==
  ASSUME SystemInv, now.echo # << >>, EchoInv, HostPingData
  PROVE  /\ token.valid /\ token.ep = 1 /\ Data(outTr) /\ hback' = hback
         /\ hsent = back /\ hsent \in Nat /\ hsent < Len(now.echo)
         /\ (token.open <=> token.room /\ ~ep_cfg_stall_ep_r[1])
         /\ outTr.ep = 1 /\ outTr.data = now.echo[hsent + 1] /\ outTr.data \in Seq(Payload)
         /\ ~mismatch(outTr) /\ (ep_data_bit_r(1) <=> ep_data_bit_q[1])
         /\ hsent' = IF token.open THEN hsent + 1 ELSE hsent
         /\ handshake(outTr) = "ACK" <=> token.open
         /\ UNCHANGED <<rx_setup_q, txVars, ep_cfg_stall_ep_r, intr_reset_r>>
         /\ intr_ep_rx_ready_r'[1] <=> (intr_ep_rx_ready_r[1] \/ token.room)
<1>1. /\ DeviceOK /\ HostOK /\ 1 \in EP /\ Parity /\ PingOK
  BY ScenarioType DEF SystemInv, EchoInv, HostOK
<1>2. /\ token.ep = 1 /\ token.valid /\ Data(outTr) /\ hback' = hback
      /\ hsent' = IF handshake(outTr) = "ACK" THEN hsent + 1 ELSE hsent
  BY DEF HostPingData, Data
<1>3. /\ hsent = back /\ hsent \in Nat /\ hsent < Len(now.echo)
      /\ (token.open <=> token.room /\ ~ep_cfg_stall_ep_r[1])
  BY <1>1, <1>2 DEF PingOK, HostOK
<1>4. outTr.ep = 1 /\ outTr.data = now.echo[hsent + 1] /\ outTr.data \in Seq(Payload)
  BY <1>1, <1>3, OutTrType
<1>5. ~mismatch(outTr) /\ (ep_data_bit_r(1) <=> ep_data_bit_q[1])
  <2>1. outTr.datapid = IF hsent % 2 = 1 THEN "DATA1" ELSE "DATA0"
    BY DEF outTr, EchoTr
  <2>2. ep_data_bit_r(1) <=> ep_data_bit_q[1]
    BY DEF ep_data_bit_r
  <2>3. ep_data_bit_r(outTr.ep) <=> ep_data_bit_q[1]
    BY <1>4, <2>2
  <2>4. (outTr.datapid = "DATA1") <=> (hsent % 2 = 1)
    BY <2>1
  <2>5. (outTr.datapid = "DATA1") <=> ep_data_bit_r(outTr.ep)
    BY <1>1, <2>3, <2>4 DEF Parity
  <2>6. ep_data_bit_r(outTr.ep) \in BOOLEAN
    BY DEF ep_data_bit_r
  <2> QED  BY <2>2, <2>5, <2>6 DEF mismatch
<1>6. handshake(outTr) = "ACK" <=> token.open
  BY <1>3, <1>4, <1>5 DEF handshake
<1>7. /\ UNCHANGED <<rx_setup_q, txVars, ep_cfg_stall_ep_r, intr_reset_r>>
      /\ intr_ep_rx_ready_r'[1] <=> (intr_ep_rx_ready_r[1] \/ token.room)
  BY <1>1, <1>2, <1>4, DeviceTypes DEF Data
<1>8. hsent' = IF token.open THEN hsent + 1 ELSE hsent
  BY <1>2, <1>6
<1> QED  BY <1>2, <1>3, <1>4, <1>5, <1>6, <1>7, <1>8

(* A packet for endpoint 1. *)
LEMMA EchoPingData ==
  ASSUME SystemInv, PatientInv, Fitting, now.echo # << >>, EchoInv, HostPingData,
         UNCHANGED <<scenario, program>>
  PROVE  EchoInv'
<1>1. /\ DeviceOK /\ HostOK /\ 1 \in EP /\ 2 \in EP
      /\ Steady /\ Parity /\ PingOK /\ Somewhere /\ EchoFaithful
  BY ScenarioType DEF SystemInv, EchoInv, HostOK
<1>2. /\ token.ep = 1 /\ token.valid /\ Data(outTr) /\ hback' = hback
      /\ hsent' = IF token.open THEN hsent + 1 ELSE hsent
  BY PingTaken
<1>3. /\ hsent = back /\ hsent \in Nat /\ hsent < Len(now.echo)
      /\ (token.open <=> token.room /\ ~ep_cfg_stall_ep_r[1])
  BY PingTaken
<1>4. /\ UNCHANGED <<mpc, mlen, mcnt, mflush, ep1_rx_suc, ep1_rx_len, rx_packet_buf>>
      /\ UNCHANGED <<fpc, fcnt, func_stat_rst, ep_intsts>> /\ now' = now /\ back' = back
  BY <1>2 DEF program, now, back
<1>5. outTr.ep = 1 /\ outTr.data = now.echo[hsent + 1] /\ outTr.data \in Seq(Payload)
  BY PingTaken
<1>6. ~mismatch(outTr) /\ (ep_data_bit_r(1) <=> ep_data_bit_q[1])
  BY PingTaken
<1>7. ~token'.valid /\ PingOK'
  BY <1>2 DEF Data, NoToken, PingOK
<1>8. /\ UNCHANGED <<rx_setup_q, txVars, ep_cfg_stall_ep_r, intr_reset_r>>
      /\ intr_ep_rx_ready_r'[1] <=> (intr_ep_rx_ready_r[1] \/ token.room)
  BY PingTaken
<1>9. Steady' /\ EchoFaithful'
  BY <1>1, <1>2, <1>4, <1>8 DEF Steady, EchoFaithful
<1>10. Program!waiting /\ fpc # "ep1Read" /\ mpc # "startUp"
  <2>1. Program!waiting
    BY <1>2 DEF PatientInv, TokenOK
  <2>2. fpc # "ep1Read"
    BY <2>1 DEF Program!waiting, Program!resting
  <2> QED  BY <2>1, <2>2, WaitingAt
<1> DEFINE bytes == IF token.open /\ ~mismatch(outTr) THEN outTr.data ELSE << >>
           fits  == DEPTH - Len(rx_fifo[1])
           kept  == IF Len(bytes) <= fits THEN bytes ELSE SubSeq(bytes, 1, fits)
<1>11. /\ rx_fifo'[1] = rx_fifo[1] \o kept
       /\ rx_len_q'[1] = rx_len_q[1] + Len(bytes)
       /\ ep_data_bit_q'[1] = IF handshake(outTr) = "ACK" THEN ~ep_data_bit_q[1] ELSE ep_data_bit_q[1]
       /\ ep_data_bit_q'[2] = ep_data_bit_q[2]
  <2>1. /\ rx_fifo' = [rx_fifo EXCEPT ![1] = @ \o kept]
        /\ rx_len_q' = [rx_len_q EXCEPT ![1] = @ + Len(bytes)]
    BY <1>2, <1>5 DEF Data
  <2>2. ep_data_bit_q' = [ep_data_bit_q EXCEPT ![1] =
              IF handshake(outTr) = "ACK" /\ ~mismatch(outTr) THEN ~ep_data_bit_r(1) ELSE ep_data_bit_r(1)]
    BY <1>2, <1>5 DEF Data
  <2>3. ep_data_bit_r(1) = ep_data_bit_q[1]
    BY <1>1, <1>6, DeviceTypes DEF ep_data_bit_r
  <2>4. 1 \in DOMAIN rx_fifo /\ 1 \in DOMAIN rx_len_q /\ 1 \in DOMAIN ep_data_bit_q
    BY <1>1, DeviceTypes
  <2>5. rx_fifo'[1] = rx_fifo[1] \o kept /\ rx_len_q'[1] = rx_len_q[1] + Len(bytes)
    <3> HIDE DEF bytes
    <3> QED  BY <2>1, <2>4
  <2>6. ep_data_bit_q'[1] = IF handshake(outTr) = "ACK" /\ ~mismatch(outTr)
                              THEN ~ep_data_bit_q[1] ELSE ep_data_bit_q[1]
    BY <2>2, <2>3, <2>4
  <2>7. ep_data_bit_q'[2] = ep_data_bit_q[2]
    BY <1>1, <2>2, DeviceTypes
  <2> QED  BY <1>6, <2>5, <2>6, <2>7
<1>12. handshake(outTr) = "ACK" <=> token.open
  BY PingTaken
<1> HIDE DEF kept
<1>13. CASE token.open
  <2>1. hsent' = hsent + 1 /\ Under'
    BY <1>2, <1>3, <1>4, <1>12, <1>13 DEF Under
  <2>2. Parity'
    BY <1>1, <1>3, <1>4, <1>11, <1>12, <1>13, <2>1, FlipsAt DEF Parity
  <2>3. packet' = outTr.data /\ bytes = outTr.data
    BY <1>4, <1>5, <1>6, <1>13, <2>1 DEF packet
  <2>4. Nowhere
    BY <1>1, <1>3, <1>13
       DEF Somewhere, Stalled, Received, Reading, Held, Sending, Loaded, Under
  <2>5. Len(outTr.data) \in Nat /\ Len(outTr.data) <= DEPTH
    BY <1>3, <1>5, LenProperties DEF Fitting
  <2>6. rx_fifo'[1] = outTr.data /\ rx_len_q'[1] = Len(outTr.data)
    <3>1. rx_fifo[1] = << >> /\ rx_len_q[1] = 0 /\ Len(rx_fifo[1]) = 0
      BY <2>4, EmptyType DEF Nowhere, Empty1
    <3>2. kept = outTr.data
      BY <2>3, <2>5, <3>1, TransactionsAssumption DEF kept
    <3> QED  BY <1>5, <1>11, <2>3, <2>5, <3>1, <3>2
  <2>7. Received'
    BY <1>4, <1>8, <1>10, <2>1, <2>3, <2>4, <2>6
       DEF Received, Nowhere, Empty2, NoEcho, txVars, SendingPc
  <2> QED  BY <1>4, <1>7, <1>9, <2>2, <2>7 DEF EchoInv, Somewhere
<1>14. CASE ~token.open
  <2>1. hsent' = hsent
    BY <1>2, <1>12, <1>14
  <2>2. Parity'
    BY <1>1, <1>4, <1>11, <1>12, <1>14, <2>1 DEF Parity
  <2>3. CASE ep_cfg_stall_ep_r[1]
    <3>1. Stalled'
      BY <1>3, <1>4, <1>8, <2>1, <2>3 DEF Stalled
    <3> QED  BY <1>4, <1>7, <1>9, <2>2, <3>1 DEF EchoInv, Somewhere
  <2>4. CASE ~ep_cfg_stall_ep_r[1]
    <3>1. ~token.room /\ (intr_ep_rx_ready_r'[1] <=> intr_ep_rx_ready_r[1])
      BY <1>1, <1>3, <1>8, <1>14, <2>4
    <3>2. rx_fifo'[1] = rx_fifo[1] /\ rx_len_q'[1] = rx_len_q[1]
      <4>1. bytes = << >> /\ Len(<< >>) = 0
        BY <1>14
      <4>2. Len(rx_fifo[1]) \in Nat /\ Len(rx_fifo[1]) <= DEPTH /\ rx_len_q[1] \in Nat
            /\ rx_fifo[1] \in Seq(Payload)
        BY <1>1, DeviceTypes, LenProperties
      <4> HIDE DEF bytes
      <4>3. kept = << >>
        BY <4>1, <4>2, TransactionsAssumption DEF kept
      <4> QED  BY <1>11, <4>1, <4>2, <4>3
    <3> QED  BY <1>2, <1>7, <1>8, <1>11, <1>12, <1>14, <2>1, <3>1, <3>2, EchoSame DEF txVars
  <2> QED  BY <2>3, <2>4
<1> QED  BY <1>13, <1>14

(* Endpoint 2 answers with the packet that the host expects, or not at all.*)
LEMMA PongAnswer ==
  ASSUME SystemInv, now.echo # << >>, EchoInv, HostPongs
  PROVE  /\ back < hsent /\ In(inTr, TRUE) /\ hsent' = hsent /\ ~token.valid
         /\ hback' = IF inAnswer(inTr) = inTr.datapid THEN Append(hback, inData(inTr)) ELSE hback
         /\ inTr.ep = 2 /\ back \in Nat /\ hback \in Seq(Seq(Payload)) /\ Under /\ hsent \in Nat
         /\ IF ep_cfg_stall_ep_r[2] \/ ~tx_active_q[2]
              THEN hback' = hback /\ UNCHANGED <<txVars, ep_data_bit_q>>
              ELSE inAnswer(inTr) = inTr.datapid /\ inAnswer(inTr) \in {"DATA0", "DATA1"}
<1>1. /\ HostOK /\ Parity
  BY DEF SystemInv, EchoInv
<1>2. /\ back < hsent /\ In(inTr, TRUE) /\ hsent' = hsent /\ ~token.valid
      /\ hback' = IF inAnswer(inTr) = inTr.datapid THEN Append(hback, inData(inTr)) ELSE hback
  BY DEF HostPongs, back, mayAct
<1>3. inTr.ep = 2 /\ back \in Nat /\ hback \in Seq(Seq(Payload)) /\ Under /\ hsent \in Nat
  <2>1. hback \in Seq(Seq(Payload)) /\ hsent \in 0 .. Len(now.echo) /\ Len(now.echo) \in Nat
    BY <1>1, ScenarioType DEF HostOK
  <2>2. back \in Nat
    BY <2>1, LenProperties DEF back
  <2>3. hsent = back + 1
    BY <1>1, <1>2, <2>1, <2>2 DEF Parity
  <2>4. inTr.ep = 2
    BY <1>1, <1>2, InTrType DEF back
  <2> QED  BY <2>1, <2>2, <2>3, <2>4 DEF Under
<1>4. inTr.datapid = IF back % 2 = 1 THEN "DATA1" ELSE "DATA0"
  BY DEF inTr, EchoTr, back
<1>5. ep_data_bit_r(2) <=> ep_data_bit_q[2]
  BY DEF ep_data_bit_r
<1>6. CASE ep_cfg_stall_ep_r[2] \/ ~tx_active_q[2]
  <2>1. inAnswer(inTr) \notin {"DATA0", "DATA1"}
    BY <1>3, <1>6 DEF inAnswer
  <2>2. hback' = hback /\ UNCHANGED <<txVars, ep_data_bit_q>>
    BY <1>2, <1>4, <2>1 DEF In
  <2> QED  BY <1>2, <1>3, <1>6, <2>2
<1>7. CASE ~ep_cfg_stall_ep_r[2] /\ tx_active_q[2]
  <2>1. inAnswer(inTr) = inTr.datapid /\ inAnswer(inTr) \in {"DATA0", "DATA1"}
    BY <1>1, <1>3, <1>4, <1>5, <1>7 DEF inAnswer, Parity
  <2> QED  BY <1>2, <1>3, <1>7, <2>1
<1> QED  BY <1>6, <1>7

(* A packet of endpoint 2. *)
LEMMA EchoPongs ==
  ASSUME SystemInv, PatientInv, Patient, Fitting, now.echo # << >>, EchoInv, HostPongs,
         UNCHANGED <<scenario, program>>
  PROVE  EchoInv'
<1>1. /\ DeviceOK /\ HostOK /\ 1 \in EP /\ 2 \in EP
      /\ Steady /\ Parity /\ PingOK /\ Somewhere /\ EchoFaithful
  BY ScenarioType DEF SystemInv, EchoInv, HostOK
<1>2. /\ back < hsent /\ In(inTr, TRUE) /\ hsent' = hsent /\ ~token.valid
      /\ hback' = IF inAnswer(inTr) = inTr.datapid THEN Append(hback, inData(inTr)) ELSE hback
  BY PongAnswer
<1>3. /\ UNCHANGED <<token, rxVars, ep_cfg_stall_ep_r, intr_ep_rx_ready_r, intr_reset_r>>
      /\ PingOK'
  BY <1>2 DEF In, PingOK
<1>4. inTr.ep = 2 /\ back \in Nat /\ hback \in Seq(Seq(Payload)) /\ Under /\ hsent \in Nat
  BY PongAnswer
<1>5. /\ UNCHANGED <<mpc, mlen, mcnt, mflush, ep1_rx_suc, ep1_rx_len, rx_packet_buf>>
      /\ UNCHANGED <<fpc, fcnt, func_stat_rst, ep_intsts>> /\ now' = now
  BY DEF program, now
<1>8. CASE ep_cfg_stall_ep_r[2] \/ ~tx_active_q[2]
  <2>1. hback' = hback /\ UNCHANGED <<txVars, ep_data_bit_q>>
    BY <1>8, PongAnswer
  <2> QED  BY <1>2, <1>3, <2>1, EchoSame DEF txVars, rxVars
<1>9. CASE ~ep_cfg_stall_ep_r[2] /\ tx_active_q[2]
  <2>1. Loaded
    BY <1>1, <1>4, <1>9
       DEF Somewhere, Stalled, Nowhere, Received, Reading, Held, Sending, Under, Empty2
  <2>2. inAnswer(inTr) = inTr.datapid /\ inAnswer(inTr) \in {"DATA0", "DATA1"}
    BY <1>9, PongAnswer
  <2>3. packet \in Seq(Payload) /\ Len(packet) \in Nat /\ Len(packet) # 0
    BY <1>1, <1>4, <2>1, PacketType, EmptySeq DEF Loaded
  <2>4. inData(inTr) = packet
    <3>1. inData(inTr) = [k \in 1 .. Len(packet) |-> packet[k]]
      BY <1>4, <2>1, <2>3 DEF inData, Loaded
    <3> QED  BY <2>3, <3>1
  <2>5. hback' = Append(hback, packet) /\ back' = back + 1
    BY <1>2, <1>4, <2>2, <2>3, <2>4, AppendType DEF back
  <2>6. /\ tx_active_q'[2] = FALSE
        /\ tx_fifo'[2] = SubSeq(packet, sent(Len(packet)) + 1, Len(packet))
        /\ ep_data_bit_q'[1] = ep_data_bit_q[1] /\ ep_data_bit_q'[2] = ~ep_data_bit_q[2]
    <3>1. /\ tx_active_q' = [tx_active_q EXCEPT ![2] = FALSE]
          /\ tx_fifo' = [tx_fifo EXCEPT ![2] = SubSeq(@, sent(tx_len_q[2]) + 1, Len(@))]
          /\ ep_data_bit_q' = [ep_data_bit_q EXCEPT ![2] =
                 TRUE # (@ \/ (2 = 0 /\ ep0_dir_in_q' /\ ep0_dir_out_q))]
      BY <1>2, <1>4, <2>2 DEF In
    <3>2. ep_data_bit_q[2] \in BOOLEAN
      BY <1>1, DeviceTypes
    <3>3. (TRUE # (ep_data_bit_q[2] \/ (2 = 0 /\ ep0_dir_in_q' /\ ep0_dir_out_q))) = ~ep_data_bit_q[2]
      <4>1. CASE ep_data_bit_q[2] = TRUE
        BY <4>1
      <4>2. CASE ep_data_bit_q[2] = FALSE
        <5>1. ~(2 = 0)
          OBVIOUS
        <5>2. (ep_data_bit_q[2] \/ (2 = 0 /\ ep0_dir_in_q' /\ ep0_dir_out_q)) = FALSE
          BY <4>2, <5>1
        <5> QED  BY <4>2, <5>2
      <4> QED  BY <3>2, <4>1, <4>2
    <3>4. 2 \in DOMAIN tx_active_q /\ 2 \in DOMAIN tx_fifo /\ 2 \in DOMAIN ep_data_bit_q
      BY <1>1, DeviceTypes
    <3>5. ep_data_bit_q'[1] = ep_data_bit_q[1]
      BY <1>1, <3>1, DeviceTypes
    <3>6. ep_data_bit_q'[2] = ~ep_data_bit_q[2]
      BY <3>1, <3>3, <3>4, Zenon
    <3> QED  BY <2>1, <3>1, <3>4, <3>5, <3>6 DEF Loaded
  <2>7. tx_fifo'[2] = << >>
    BY <2>3, <2>6, SubSeqEmpty DEF sent
  <2>8. Steady'
    BY <1>1, <1>3, <1>5 DEF Steady, rxVars
  <2>9. Parity'
    BY <1>1, <1>2, <1>4, <2>5, <2>6, FlipsAt DEF Parity, Under
  <2>10. EchoFaithful'
    <3>1. hsent = back + 1 /\ hback'[back + 1] = now.echo[hsent] /\ Len(hback') = back + 1
      BY <1>4, <2>3, <2>5, AppendProperties DEF Under, packet, back
    <3>2. \A n \in 1 .. back : hback'[n] = hback[n]
      BY <1>4, <2>3, <2>5, AppendProperties DEF back
    <3>3. \A n \in 1 .. back + 1 : n = back + 1 \/ n \in 1 .. back
      BY <1>4
    <3> QED  BY <1>1, <1>5, <3>1, <3>2, <3>3 DEF EchoFaithful, back
  <2>11. Nowhere'
    BY <1>3, <1>5, <2>1, <2>6, <2>7
       DEF Nowhere, Loaded, Told, Empty1, Empty2, NoEcho, SendingPc, rxVars
  <2> QED  BY <1>3, <1>5, <2>8, <2>9, <2>10, <2>11 DEF EchoInv, Somewhere
<1> QED  BY <1>8, <1>9

LEMMA EchoHost ==
  ASSUME SystemInv, PatientInv, Patient, Fitting, now.echo # << >>, EchoInv, Host, hresets \in Nat
  PROVE  EchoInv'
<1>1. /\ DeviceOK /\ HostOK /\ 1 \in EP /\ 2 \in EP /\ Parity /\ PingOK
      /\ scenario' = scenario /\ UNCHANGED program
  BY ScenarioType DEF SystemInv, EchoInv, HostOK, Host
<1>2. CASE HostAsks \/ HostAbandons
  <2>1. UNCHANGED deviceVars /\ hsent' = hsent /\ hback' = hback
    BY <1>2 DEF HostAsks, HostAbandons, KeepsScore, counts
  <2>2. UNCHANGED <<token, ep_data_bit_q, rx_setup_q, ep_cfg_stall_ep_r, intr_ep_rx_ready_r,
                    intr_reset_r, rx_fifo, rx_len_q, tx_fifo, tx_active_q, tx_len_q>>
    BY <2>1 DEF deviceVars, coreVars, rxVars, txVars, intrVars
  <2>3. PingOK'
    BY <1>1, <2>1, <2>2 DEF PingOK, back
  <2> QED  BY <1>1, <2>1, <2>2, <2>3, EchoSame
<1>3. CASE HostToken
  <2>1. /\ inTransfer /\ TokenOut(StageTr) /\ hsent' = hsent /\ hback' = hback
    BY <1>3 DEF HostToken, counts
  <2>2. StageTr.ep = 0
    BY <1>1, <2>1, StageTrType
  <2>3. UNCHANGED <<rx_len_q, rx_fifo, tx_fifo, tx_active_q, tx_len_q, intr_ep_rx_ready_r, intr_reset_r>>
    BY <2>1 DEF TokenOut, txVars, intrVars
  <2>4. /\ rx_setup_q'[1] = rx_setup_q[1] /\ ep_cfg_stall_ep_r'[1] = ep_cfg_stall_ep_r[1]
        /\ ep_data_bit_q'[1] = ep_data_bit_q[1] /\ ep_data_bit_q'[2] = ep_data_bit_q[2]
    BY <1>1, <2>1, DeviceTypes DEF TokenOut
  <2>5. PingOK'
    BY <2>1, <2>2 DEF TokenOut, PingOK
  <2> QED  BY <1>1, <2>1, <2>3, <2>4, <2>5, EchoSame
<1>4. CASE HostData
  <2>1. /\ token.valid /\ token.ep = 0 /\ Data(StageTr) /\ hsent' = hsent /\ hback' = hback
    BY <1>4 DEF HostData, Data, KeepsScore
  <2>2. StageTr.ep = 0
    BY <2>1 DEF Data
  <2>3. /\ UNCHANGED <<rx_setup_q, ep_cfg_stall_ep_r, tx_fifo, tx_active_q, tx_len_q, intr_reset_r>>
        /\ ~token'.valid
    BY <2>1 DEF Data, txVars, NoToken
  <2>4. /\ rx_fifo'[1] = rx_fifo[1] /\ rx_len_q'[1] = rx_len_q[1]
        /\ intr_ep_rx_ready_r'[1] = intr_ep_rx_ready_r[1]
        /\ ep_data_bit_q'[1] = ep_data_bit_q[1] /\ ep_data_bit_q'[2] = ep_data_bit_q[2]
    BY <1>1, <2>1, <2>2, DeviceTypes DEF Data
  <2>5. PingOK'
    BY <2>3 DEF PingOK
  <2> QED  BY <1>1, <2>1, <2>3, <2>4, <2>5, EchoSame
<1>5. CASE HostIn
  <2>1. /\ inTransfer /\ In(StageTr, ~tooLong) /\ hsent' = hsent /\ hback' = hback
        /\ ~token.valid
    BY <1>5 DEF HostIn, KeepsScore, mayAct
  <2>2. StageTr.ep = 0
    BY <1>1, <2>1, StageTrType
  <2>3. UNCHANGED <<token, rx_setup_q, rx_len_q, rx_fifo, ep_cfg_stall_ep_r, intr_ep_rx_ready_r,
                    intr_reset_r>>
    BY <2>1 DEF In, rxVars
  <2>4. /\ tx_fifo'[2] = tx_fifo[2] /\ tx_active_q'[2] = tx_active_q[2]
        /\ tx_len_q'[2] = tx_len_q[2]
        /\ ep_data_bit_q'[1] = ep_data_bit_q[1] /\ ep_data_bit_q'[2] = ep_data_bit_q[2]
    BY <1>1, <2>1, <2>2, DeviceTypes DEF In, txVars
  <2>5. PingOK'
    BY <2>1, <2>3 DEF PingOK
  <2> QED  BY <1>1, <2>1, <2>3, <2>4, <2>5, EchoSame
<1>6. CASE HostResets
  <2>1. hresets < 0
    BY <1>6 DEF HostResets, Fitting
  <2> QED  BY <2>1
<1>7. CASE HostPings
  <2>1. /\ TokenOut(outTr) /\ hsent' = hsent /\ hback' = hback
        /\ hsent < Len(now.echo) /\ hsent = back
    BY <1>7 DEF HostPings, counts, back
  <2>2. outTr.ep = 1 /\ outTr.pid = "OUT"
    BY <1>1, <2>1, OutTrType DEF outTr, EchoTr
  <2>3. UNCHANGED <<rx_len_q, rx_fifo, tx_fifo, tx_active_q, tx_len_q, intr_ep_rx_ready_r,
                    intr_reset_r, rx_setup_q, ep_cfg_stall_ep_r, ep_data_bit_q>>
    BY <2>1, <2>2 DEF TokenOut, txVars, intrVars
  <2>4. PingOK'
    BY <2>1, <2>2, <2>3 DEF TokenOut, PingOK, back
  <2> QED  BY <1>1, <2>1, <2>3, <2>4, EchoSame
<1>8. CASE HostPingData
  BY <1>1, <1>8, EchoPingData
<1>9. CASE HostPongs
  BY <1>1, <1>9, EchoPongs
<1> QED  BY <1>2, <1>3, <1>4, <1>5, <1>6, <1>7, <1>8, <1>9 DEF Host

-----------------------------------------------------------------------------
(* At the start, and always. *)
LEMMA EchoInit == Init => EchoInv
<1> SUFFICES ASSUME Init PROVE EchoInv
  OBVIOUS
<1>1. /\ mpc = "startUp" /\ ep1_rx_suc = FALSE
      /\ fpc = "idle" /\ func_stat_rst = FALSE /\ ep_intsts = Program!NoInts
      /\ hsent = 0 /\ hback = << >> /\ back = 0 /\ scenario \in DOMAIN Scenario
  BY DEF Init, Program!FirmwareInit, back
<1>2. CASE now.echo = << >>
  BY <1>1, <1>2 DEF EchoInv
<1>3. CASE now.echo # << >>
  <2>1. 1 \in EP /\ 2 \in EP
    BY <1>1, <1>3, SystemAssumption DEF now
  <2>2. /\ token = NoToken /\ ~intr_reset_r /\ ~rx_setup_q[1] /\ ~intr_ep_rx_ready_r[1]
        /\ ep_data_bit_q[1] = FALSE /\ ep_data_bit_q[2] = FALSE
        /\ rx_len_q[1] = 0 /\ rx_fifo[1] = << >> /\ tx_fifo[2] = << >> /\ ~tx_active_q[2]
    BY <2>1 DEF Init, DeviceInit
  <2>3. Steady /\ PingOK
    BY <1>1, <2>2 DEF Steady, PingOK, NoToken, Ep1Pc
  <2>4. Parity
    <3>1. (0 % 2 = 1) = FALSE
      OBVIOUS
    <3> QED  BY <1>1, <2>2, <3>1 DEF Parity
  <2>5. Nowhere
    BY <1>1, <2>2 DEF Nowhere, Told, Empty1, Empty2, NoEcho, SendingPc, Program!NoInts
  <2>6. EchoFaithful
    BY <1>1, EmptyType DEF EchoFaithful
  <2> QED  BY <1>3, <2>3, <2>4, <2>5, <2>6 DEF EchoInv, Somewhere
<1> QED  BY <1>2, <1>3

(* Without packets to be echoed none comes back. *)
LEMMA NoEchoNoPong ==
  ASSUME SystemInv, now.echo = << >>, hback = << >>, [Next]_vars
  PROVE  hback' = << >> /\ now' = now
<1>1. scenario' = scenario
  BY DEF Next, Main, Handler, Host, vars
<1>2. HostOK /\ hsent = 0
  BY EmptyType DEF SystemInv, HostOK
<1>3. ~HostPongs
  BY <1>2, EmptyType DEF HostPongs
<1>4. hback' = hback
  BY <1>3 DEF Next, Main, Handler, Host, HostAsks, HostToken, HostData, HostIn, HostAbandons,
              HostResets, HostPings, HostPingData, KeepsScore, counts, vars
<1> QED  BY <1>1, <1>4 DEF now

LEMMA ResetsCounted == Spec => [](hresets \in Nat)
<1>1. Init => hresets \in Nat
  BY DEF Init
<1>2. [Next]_vars => hresets' = hresets \/ hresets' = hresets + 1
  BY DEF Next, Main, Handler, Host, HostAsks, HostToken, HostData, HostIn, HostAbandons,
         HostResets, HostPings, HostPingData, HostPongs, KeepsScore, counts, vars
<1>3. hresets \in Nat /\ [Next]_vars => (hresets \in Nat)'
  BY <1>2
<1> QED  BY <1>1, <1>3, PTL DEF Spec

LEMMA EchoInvariant ==
  ASSUME MAXP <= DEPTH PROVE Spec => [](Patient /\ Fitting => EchoInv)
<1>1. Init => (Patient /\ Fitting => EchoInv)
  BY EchoInit
<1>2. SystemInv /\ (Patient => PatientInv) /\ (Patient /\ Fitting => EchoInv) /\ [Next]_vars
        /\ hresets \in Nat
        => (Patient /\ Fitting => EchoInv)'
  <2> SUFFICES ASSUME SystemInv, Patient => PatientInv, Patient /\ Fitting => EchoInv,
                      hresets \in Nat, [Next]_vars, (Patient /\ Fitting)'
               PROVE  EchoInv'
    OBVIOUS
  <2>1. scenario' = scenario /\ now' = now
    BY DEF Next, Main, Handler, Host, vars, now
  <2>2. Patient /\ Fitting /\ PatientInv /\ EchoInv
    BY <2>1 DEF Patient, Fitting
  <2>3. CASE now.echo = << >>
    <3>1. hback = << >>
      BY <2>2, <2>3 DEF EchoInv
    <3> QED  BY <2>3, <3>1, NoEchoNoPong DEF EchoInv
  <2>4. CASE now.echo # << >>
    <3>1. CASE Main
      BY <2>2, <2>4, <3>1, EchoMain
    <3>2. CASE Handler
      BY <2>2, <2>4, <3>2, EchoHandler
    <3>3. CASE Host
      BY <2>2, <2>4, <3>3, EchoHost
    <3>4. CASE UNCHANGED vars
      <4>1. UNCHANGED <<deviceVars, program, scenario, hsent, hback>>
        BY <3>4 DEF vars, counts
      <4>2. UNCHANGED <<token, ep_data_bit_q, rx_setup_q, ep_cfg_stall_ep_r, intr_ep_rx_ready_r,
                        intr_reset_r, rx_fifo, rx_len_q, tx_fifo, tx_active_q, tx_len_q>>
        BY <4>1 DEF deviceVars, coreVars, rxVars, txVars, intrVars
      <4>3. PingOK'
        BY <2>2, <2>4, <4>1, <4>2 DEF EchoInv, PingOK, back
      <4> QED  BY <2>2, <2>4, <4>1, <4>2, <4>3, EchoSame
    <3> QED  BY <3>1, <3>2, <3>3, <3>4 DEF Next
  <2> QED  BY <2>3, <2>4
<1> QED  BY <1>1, <1>2, SystemInvariant, PatientInvariant, ResetsCounted, PTL DEF Spec

(* What comes back from endpoint 2 is, packet by packet, what went to      *)
(* endpoint 1, whatever is going on at endpoint 0, and whether openusb_-   *)
(* tx_data gives up waiting or not: for a host that waits for the program  *)
(* with each of its steps, and for each packet before it sends the next,   *)
(* does not reset the bus, and sends what fits the FIFO and rx_packet_buf. *)
THEOREM PatientEchoFaithful ==
  ASSUME MAXP <= DEPTH PROVE Spec => [](Patient /\ Fitting => EchoFaithful)
<1>1. (Patient /\ Fitting => EchoInv) => (Patient /\ Fitting => EchoFaithful)
  <2>1. hback = << >> => EchoFaithful
    BY EmptyType DEF EchoFaithful
  <2> QED  BY <2>1 DEF EchoInv
<1> QED  BY <1>1, EchoInvariant, PTL

-----------------------------------------------------------------------------
(* That no packet is lost on its way takes more: a host that does not keep *)
(* openusb_tx_data waiting for longer than it polls, and packets that are  *)
(* not empty, which main does not send back.                               *)
Prompt == /\ ~now.slow
          /\ \A n \in 1 .. Len(now.echo) : now.echo[n] # << >>

(* main is sending back a packet, or about to forget it.                   *)
Busy == mpc \in {"txCall", "txDone"} \cup SendingPc

(* Nobody has heard of a new packet while main has one in hand: the handler*)
(* is done with endpoint 0, and the host has to wait.  So openusb_tx_data  *)
(* waits only for the status of a transfer, which the host fetches, and    *)
(* main forgets a packet before the next one is announced.                 *)
Flowing ==
  \/ Stalled
  \/ Nowhere /\ ~Under /\ ~Busy
  \/ Received /\ Told /\ ~Served /\ ~Busy
  \/ Reading /\ ~Busy
  \/ Held /\ ep1_rx_suc /\ Aside /\ mpc # "txDone"
  \/ Sending /\ ep1_rx_suc /\ ep1_rx_len = Len(packet) /\ ~mflush /\ Aside
  \/ Loaded /\ (Busy => mpc = "txDone" /\ Aside)

(* A packet that is on its way is not empty. *)
LEMMA PacketFull ==
  ASSUME HostOK, Fitting, Prompt, Under
  PROVE  packet # << >> /\ Len(packet) \in Nat /\ Len(packet) # 0
<1>1. back \in Nat /\ hsent \in 0 .. Len(now.echo) /\ Len(now.echo) \in Nat
  BY ScenarioType, LenProperties DEF HostOK, back
<1>2. hsent \in 1 .. Len(now.echo)
  BY <1>1 DEF Under
<1>3. packet # << >>
  BY <1>2 DEF Prompt, packet
<1>4. packet \in Seq(Payload) /\ Len(packet) \in Nat
  BY PacketType
<1> QED  BY <1>3, <1>4, EmptySeq

(* The places exclude each other. *)
PlacesFit ==
  /\ Somewhere /\ ~Under => Stalled \/ Nowhere
  /\ Somewhere /\ Under /\ back \in Nat =>
       /\ Told /\ ~Served /\ fpc # "ep1Read" => Received
       /\ Told /\ fpc = "ep1Read" => Reading
       /\ ep1_rx_suc /\ ep1_rx_len # 0 /\ mpc # "txDone" /\ fpc # "ep1Read" =>
            IF mpc \in SendingPc THEN Sending ELSE Held
       /\ tx_active_q[2] => Loaded

LEMMA FlowPlaces == PlacesFit /\ PlacesFit'
<1>1. \A n \in Nat : n # n + 1
  OBVIOUS
<1>2. PlacesFit
  <2>1. Under /\ back \in Nat => ~Stalled
    BY <1>1 DEF Stalled, Under
  <2> QED  BY <2>1 DEF PlacesFit, Somewhere, Nowhere, Received, Reading, Held, Sending, Loaded,
                       Served, Empty2, NoEcho, SendingPc
<1>3. PlacesFit'
  <2>1. Under' /\ back' \in Nat => ~Stalled'
    BY <1>1 DEF Stalled, Under
  <2> QED  BY <2>1 DEF PlacesFit, Somewhere, Nowhere, Received, Reading, Held, Sending, Loaded,
                       Served, Empty2, NoEcho, SendingPc
<1> QED  BY <1>2, <1>3

(* The handler stays away from endpoint 0 until it is told of it again. *)
LEMMA StaysAside ==
  ASSUME Handling, Steady, Aside PROVE Aside'
<1> USE HandlerFacts
<1>1. fpc \in AsidePc \ {"stat"} /\ (fpc \in {"idle", "intsts"} => ~came)
  BY DEF Aside, Steady
<1>2. CASE fpc = "idle"
  <2>1. Program!FwInterrupt
    BY <1>2 DEF Program!Handler, Program!FwService,
         Program!FwIntsts, Program!FwReset, Program!FwClear, Program!FwStat,
         Program!FwEp1Count, Program!FwEp1Read, Program!FwEp1Accept,
         Program!FwCount, Program!FwRead, Program!FwSetup, Program!FwOut,
         Program!FwAddress, Program!FwStatus, Program!FwStatusSpin, Program!FwHalt,
         Program!FwStall, Program!FwMask, Program!FwSendPoll, Program!FwSendGivesUp,
         Program!FwSendWrite, Program!FwSendStart, Program!FwSendSpin, Program!FwSendAck,
         Program!FwSendAccept, Program!FwUnmask
  <2>2. fpc' = "intsts" /\ came' = came
    BY <1>2, <2>1, HandlerQuiet DEF Program!FwInterrupt, Handling, QuietPc, IntrSame
  <2> QED  BY <1>1, <1>2, <2>2 DEF Aside, AsidePc
<1>3. CASE fpc = "intsts"
  <2>1. Program!FwIntsts
    BY <1>3 DEF Program!Handler, Program!FwService, Program!FwInterrupt,
         Program!FwReset, Program!FwClear, Program!FwStat,
         Program!FwEp1Count, Program!FwEp1Read, Program!FwEp1Accept,
         Program!FwCount, Program!FwRead, Program!FwSetup, Program!FwOut,
         Program!FwAddress, Program!FwStatus, Program!FwStatusSpin, Program!FwHalt,
         Program!FwStall, Program!FwMask, Program!FwSendPoll, Program!FwSendGivesUp,
         Program!FwSendWrite, Program!FwSendStart, Program!FwSendSpin, Program!FwSendAck,
         Program!FwSendAccept, Program!FwUnmask
  <2>2. fpc' = Program!service(EpIntsts)
    BY <2>1 DEF Program!FwIntsts, Steady
  <2>3. 0 \notin EpIntsts.rx
    BY <1>1, <1>3 DEF EpIntsts, came
  <2> QED  BY <2>2, <2>3, AfterEp0 DEF Aside, AsidePc
<1>4. CASE fpc = "clear"
  <2>1. Program!FwClear
    BY <1>4 DEF Program!Handler, Program!FwService, Program!FwInterrupt,
         Program!FwIntsts, Program!FwReset, Program!FwStat,
         Program!FwEp1Count, Program!FwEp1Read, Program!FwEp1Accept,
         Program!FwCount, Program!FwRead, Program!FwSetup, Program!FwOut,
         Program!FwAddress, Program!FwStatus, Program!FwStatusSpin, Program!FwHalt,
         Program!FwStall, Program!FwMask, Program!FwSendPoll, Program!FwSendGivesUp,
         Program!FwSendWrite, Program!FwSendStart, Program!FwSendSpin, Program!FwSendAck,
         Program!FwSendAccept, Program!FwUnmask
  <2>2. fpc' \in {"stat", "idle"}
    BY <2>1 DEF Program!FwClear
  <2>3. came => served
    BY <1>4 DEF Handling, PatientInv, ServedOK, inside
  <2>4. ~came'
    BY <1>4, <2>3, HandlerQuiet DEF Handling
  <2> QED  BY <2>2, <2>4 DEF Aside, AsidePc
<1>5. CASE fpc \in Ep1Pc
  <2>1. Program!FwEp1Count \/ Program!FwEp1Read \/ Program!FwEp1Accept
    BY <1>5 DEF Ep1Pc, Program!Handler, Program!FwService, Program!FwInterrupt,
         Program!FwIntsts, Program!FwReset, Program!FwClear, Program!FwStat,
         Program!FwCount, Program!FwRead, Program!FwSetup, Program!FwOut,
         Program!FwAddress, Program!FwStatus, Program!FwStatusSpin, Program!FwHalt,
         Program!FwStall, Program!FwMask, Program!FwSendPoll, Program!FwSendGivesUp,
         Program!FwSendWrite, Program!FwSendStart, Program!FwSendSpin, Program!FwSendAck,
         Program!FwSendAccept, Program!FwUnmask
  <2>2. fpc' \in {"ep1Read", "clear"}
    BY <1>5, <2>1 DEF Program!FwEp1Count, Program!FwEp1Read, Program!FwEp1Accept, Program!Goto,
                      Program!handlerVars, Ep1Pc
  <2> QED  BY <2>2 DEF Aside, AsidePc
<1> QED  BY <1>1, <1>2, <1>3, <1>4, <1>5 DEF AsidePc, Ep1Pc

(* What a packet that is on its way goes through. *)
Flows == Fitting /\ Prompt /\ now.echo # << >> /\ EchoInv /\ Flowing

LEMMA FlowFacts ==
  ASSUME SystemInv, Flows
  PROVE  /\ DeviceOK /\ HostOK /\ EchoOK /\ 0 \in EP /\ 1 \in EP /\ 2 \in EP /\ back \in Nat
         /\ Steady /\ Parity /\ PingOK /\ Somewhere /\ Flowing /\ Fitting /\ Prompt
         /\ hback \in Seq(Seq(Payload))
<1>1. DeviceOK /\ HostOK /\ EchoOK
  BY DEF SystemInv, ProgramOK
<1>2. Steady /\ Parity /\ PingOK /\ Somewhere /\ Flowing /\ Fitting /\ Prompt /\ now.echo # << >>
  BY DEF Flows, EchoInv
<1>3. 1 \in EP /\ 2 \in EP /\ hback \in Seq(Seq(Payload))
  BY <1>1, <1>2, ScenarioType DEF HostOK
<1>4. back \in Nat
  BY <1>3, LenProperties DEF back
<1> QED  BY <1>1, <1>2, <1>3, <1>4, TransactionsAssumption

(* main: it does not give up waiting for endpoint 0. *)
LEMMA KeepsWaiting ==
  ASSUME Maining, Prompt, Steady, Aside, 2 \in EP PROVE ~Program!MainGivesUp
<1> USE MainFacts
<1> SUFFICES ASSUME Program!MainGivesUp PROVE FALSE
  OBVIOUS
<1>1. tx_active_q[0] /\ (~inTransfer \/ (hstage = "status" /\ now.slow))
  BY DEF Program!MainGivesUp, Sts, now
<1>2. ~inTransfer
  BY <1>1 DEF Prompt
<1>3. ~intr_reset_r /\ ~came
  BY DEF Steady, Aside
<1>4. AtRest \/ Lost \/ Collecting \/ Stated \/ Refusing \/ SetupTaken \/ Taking \/ Refused
  BY <1>3, PlacesAt
<1>5. ~TxEmpty
  BY <1>1 DEF TxEmpty
<1>6. Stated
  BY <1>4, <1>5 DEF AtRest, Lost, Collecting, Collects, Refusing, SetupTaken, Taking, Refused
<1> QED  BY <1>2, <1>6 DEF Stated, inTransfer

(* main: every step of it takes a packet further, or leaves it where it is. *)
LEMMA FlowMain ==
  ASSUME Maining, Flows PROVE Flowing'
<1> DEFINE c == Program!mainOp
<1>1. /\ DeviceOK /\ HostOK /\ 1 \in EP /\ 2 \in EP /\ back \in Nat
      /\ Steady /\ Parity /\ Somewhere /\ Flowing /\ Fitting /\ Prompt
  BY FlowFacts DEF Maining
<1>2. /\ Program!Main /\ Cpu(c) /\ fpc = "idle" /\ fpc' = "idle" /\ ep_intsts' = ep_intsts
      /\ hsent' = hsent /\ hback' = hback /\ now' = now
  BY DEF Maining, Main, Program!Main, Program!handlerVars, counts, now
<1>3. back' = back /\ packet' = packet /\ (Under' <=> Under)
  BY <1>2 DEF back, packet, Under
<1>4. Somewhere'
  BY <1>2, EchoMain DEF Flows, Maining, EchoInv
<1>5. PlacesFit'
  BY FlowPlaces
<1>6. ~Served' /\ mpc # "flush" /\ ~intr_reset_r
  BY <1>1, <1>2 DEF Served, Steady
<1>7. mpc \notin StartPc \cup SendingPc =>
        /\ intr_ep_rx_ready_r'[1] = intr_ep_rx_ready_r[1] /\ tx_active_q'[2] = tx_active_q[2]
  <2>1. ASSUME mpc \notin StartPc \cup SendingPc PROVE Cpu(Program!NoOp)
    BY <1>1, <1>2, <2>1, MainAccess
  <2>2. ASSUME Cpu(Program!NoOp)
        PROVE  intr_ep_rx_ready_r'[1] = intr_ep_rx_ready_r[1] /\ tx_active_q'[2] = tx_active_q[2]
    <3>1. Program!NoOp.op = "none"
      BY DEF Program!NoOp
    <3>2. UNCHANGED intrVars
      BY <2>2, <3>1 DEF Cpu, CpuIntr
    <3> QED  BY <1>1, <2>2, <3>2, NoAccess DEF intrVars
  <2> QED  BY <2>1, <2>2
<1>8. Program!MainEnables => mpc = "enable" /\ mpc' = "loop"
  BY DEF Program!MainEnables
<1>9. ~Program!MainReset
  BY <1>6 DEF Program!MainReset
<1>10. NoEcho => ~Program!MainEcho
  BY DEF NoEcho, Program!MainEcho
<1>11. mpc \notin StartPc /\ Aside => Aside'
  BY <1>2, MainStays DEF Aside, AsidePc
<1>12. CASE Stalled
  BY <1>1, <1>2, <1>3, <1>12, AccessAt DEF Stalled, Flowing, Steady
<1>13. CASE Nowhere /\ ~Under /\ ~Busy
  <2>1. Program!MainWrites \/ Program!MainEnables
    BY <1>2, <1>9, <1>10, <1>13
       DEF Nowhere, Busy, SendingPc, Program!Main, Program!MainCalls, Program!MainPolls,
           Program!MainGivesUp, Program!MainTxByte, Program!MainTxStart, Program!MainForgets
  <2>2. ~Busy'
    BY <1>8, <2>1 DEF Busy, SendingPc, Program!MainWrites
  <2> QED  BY <1>3, <1>4, <1>5, <1>13, <2>2 DEF PlacesFit, Flowing
<1>14. CASE Received /\ Told /\ ~Served /\ ~Busy
  <2>1. Program!MainEnables
    BY <1>2, <1>6, <1>9, <1>10, <1>14
       DEF Received, Busy, SendingPc, Program!Main, Program!MainCalls, Program!MainPolls,
           Program!MainGivesUp, Program!MainTxByte, Program!MainTxStart, Program!MainForgets,
           Program!MainWrites
  <2>2. ~Busy'
    BY <1>8, <2>1 DEF Busy, SendingPc
  <2>3. Told'
    BY <1>2, <1>7, <1>8, <1>14, <2>1 DEF Told, StartPc, SendingPc
  <2>4. Received'
    BY <1>1, <1>2, <1>3, <1>4, <1>5, <1>6, <1>14, <2>3 DEF PlacesFit, Received
  <2> QED  BY <1>6, <2>2, <2>3, <2>4 DEF Flowing
<1>15. CASE Reading /\ ~Busy
  BY <1>2, <1>15 DEF Reading
<1>16. CASE Held /\ ep1_rx_suc /\ Aside /\ mpc # "txDone"
  <2>1. Under /\ ep1_rx_len = Len(packet) /\ Len(packet) # 0 /\ mpc \notin SendingPc \cup {"startUp"}
    BY <1>1, <1>16, PacketFull DEF Held
  <2>2. Program!MainEnables \/ Program!MainEcho \/ Program!MainCalls
    BY <1>2, <1>6, <1>9, <1>16, <2>1
       DEF SendingPc, Program!Main, Program!MainPolls,
           Program!MainGivesUp, Program!MainTxByte, Program!MainTxStart, Program!MainForgets,
           Program!MainWrites
  <2>3. /\ UNCHANGED Program!echoVars /\ mpc' \in {"loop", "txCall", "txPoll"}
        /\ mpc' = "txPoll" => ~mflush'
    BY <2>1, <2>2 DEF Program!MainEnables, Program!MainEcho, Program!MainCalls
  <2>4. ep1_rx_suc' /\ ep1_rx_len' = Len(packet)' /\ ep1_rx_len' # 0 /\ mpc' # "txDone"
    BY <1>3, <1>16, <2>1, <2>3 DEF Program!echoVars
  <2>5. Aside'
    BY <1>6, <1>11, <1>16, <2>1 DEF StartPc
  <2>6. IF mpc' \in SendingPc THEN Sending' ELSE Held'
    BY <1>1, <1>2, <1>3, <1>4, <1>5, <2>1, <2>4 DEF PlacesFit
  <2> QED  BY <2>3, <2>4, <2>5, <2>6 DEF Flowing, SendingPc
<1>17. CASE Sending /\ ep1_rx_suc /\ ep1_rx_len = Len(packet) /\ ~mflush /\ Aside
  <2>1. Under /\ mpc \in SendingPc /\ Len(packet) # 0
    BY <1>1, <1>17, PacketFull DEF Sending
  <2>2. Program!MainPolls \/ Program!MainTxByte \/ Program!MainTxStart
    <3>1. ~Program!MainGivesUp
      BY <1>1, <1>17, KeepsWaiting
    <3> QED  BY <1>2, <2>1, <3>1
       DEF SendingPc, Program!Main, Program!MainEnables, Program!MainReset, Program!MainEcho,
           Program!MainCalls, Program!MainForgets, Program!MainWrites
  <2>3. Aside'
    BY <1>11, <1>17, <2>1 DEF StartPc, SendingPc
  <2>4. CASE Program!MainPolls \/ Program!MainTxByte
    <3>1. UNCHANGED <<Program!echoVars, mflush>> /\ mpc' \in SendingPc
      BY <2>4 DEF Program!MainPolls, Program!MainTxByte, SendingPc
    <3>2. ep1_rx_suc' /\ ep1_rx_len' = Len(packet)' /\ ep1_rx_len' # 0 /\ mpc' # "txDone" /\ ~mflush'
      BY <1>3, <1>17, <2>1, <3>1 DEF Program!echoVars, SendingPc
    <3>3. Sending'
      BY <1>1, <1>2, <1>3, <1>4, <1>5, <2>1, <3>1, <3>2 DEF PlacesFit
    <3> QED  BY <2>3, <3>2, <3>3 DEF Flowing
  <2>5. CASE Program!MainTxStart
    <3>1. mpc = "txStart" /\ mpc' = "txDone"
      BY <2>5 DEF Program!MainTxStart
    <3>2. c = Program!Start(2, mlen)
      BY <1>1, <1>17, <3>1, MainAccess
    <3>3. c.op = "start" /\ c.ep = 2
      BY <3>2 DEF Program!Start
    <3> HIDE DEF c
    <3>4. tx_active_q'[2]
      BY <1>1, <1>2, <3>3, DeviceTypes DEF Cpu, CpuTx, Put
    <3>5. Loaded'
      BY <1>1, <1>3, <1>4, <1>5, <2>1, <3>4 DEF PlacesFit
    <3> QED  BY <2>3, <3>1, <3>5 DEF Flowing
  <2> QED  BY <2>2, <2>4, <2>5
<1>18. CASE Loaded /\ (Busy => mpc = "txDone" /\ Aside)
  <2>1. Under /\ NoEcho /\ mpc \notin {"startUp", "flush", "txCall"} \cup SendingPc
    BY <1>6, <1>18 DEF Loaded, NoEcho
  <2>2. Program!MainEnables \/ Program!MainForgets
    BY <1>2, <1>9, <1>10, <2>1
       DEF SendingPc, Program!Main, Program!MainCalls, Program!MainPolls,
           Program!MainGivesUp, Program!MainTxByte, Program!MainTxStart, Program!MainWrites
  <2>3. ~Busy'
    BY <2>2 DEF Busy, SendingPc, Program!MainEnables, Program!MainForgets
  <2>4. tx_active_q'[2]
    BY <1>7, <1>18, <2>1 DEF Loaded, StartPc
  <2>5. Loaded'
    BY <1>1, <1>3, <1>4, <1>5, <2>1, <2>4 DEF PlacesFit
  <2> QED  BY <2>3, <2>5 DEF Flowing
<1> QED  BY <1>1, <1>12, <1>13, <1>14, <1>15, <1>16, <1>17, <1>18 DEF Flowing

(* my_usb_intr does not lose that it was told of endpoint 1 before it has  *)
(* served it.                                                              *)
LEMMA StaysTold ==
  ASSUME SystemInv, PatientInv, Program!Handler, Cpu(Program!handlerOp), Steady,
         fpc \notin Ep1Pc, 1 \in EP, Told, ~Served
  PROVE  Told' /\ ~Served'
<1>1. CpuIntr(Program!handlerOp) /\ 1 \in EP /\ DeviceOK
  BY DEF Cpu, SystemInv
<1>2. fpc # "clear" => intr_ep_rx_ready_r'[1] = intr_ep_rx_ready_r[1]
  <2>1. ASSUME fpc # "clear" PROVE Program!handlerOp.op # "intsts"
    BY <2>1, HandlerOpNames
  <2> QED  BY <1>1, <2>1 DEF CpuIntr, intrVars
<1>3. CASE fpc \in Ep0Pc
  <2>1. ep_intsts' = ep_intsts /\ (fpc' = "clear" => 1 \notin ep_intsts.rx) /\ fpc # "clear"
    BY <1>3, Ep0Goes DEF Ep0Pc, Masked
  <2> QED  BY <1>2, <2>1 DEF Told, Served
<1>4. CASE Program!FwInterrupt
  BY <1>2, <1>4 DEF Program!FwInterrupt, Told, Served
<1>5. CASE Program!FwIntsts
  <2>1. /\ fpc = "intsts" /\ fpc' = Program!service(EpIntsts) /\ ep_intsts' = EpIntsts
    BY <1>5 DEF Steady, Program!FwIntsts
  <2>2. intr_ep_rx_ready_r[1]
    BY <2>1 DEF Steady, Told, Program!NoInts
  <2>3. 1 \in ep_intsts'.rx
    BY <1>1, <2>1, <2>2 DEF EpIntsts
  <2>4. fpc' # "clear"
    BY <2>1, <2>3 DEF Program!service, Program!afterEp0
  <2> QED  BY <2>3, <2>4 DEF Told, Served
<1>6. CASE Program!FwClear
  <2>1. /\ fpc = "clear" /\ fpc' \in {"stat", "idle"} /\ 1 \notin ep_intsts.rx
    BY <1>6 DEF Program!FwClear, Served
  <2>2. Program!handlerOp = Program!Intsts(ep_intsts)
    BY <2>1, HandlerOps DEF SystemInv, ProgramOK
  <2>3. Program!handlerOp.op = "intsts" /\ Program!handlerOp.arg = ep_intsts
    BY <2>2 DEF Program!Intsts
  <2>4. intr_ep_rx_ready_r'[1] = (intr_ep_rx_ready_r[1] /\ 1 \notin ep_intsts.rx)
    BY <1>1, <2>3 DEF CpuIntr
  <2> QED  BY <2>1, <2>4 DEF Told, Served
<1>7. ~Program!FwReset /\ ~Program!FwStat
      /\ ~Program!FwEp1Count /\ ~Program!FwEp1Read /\ ~Program!FwEp1Accept
  BY DEF Steady, Program!FwReset, Program!FwStat, Ep1Pc,
         Program!FwEp1Count, Program!FwEp1Read, Program!FwEp1Accept
<1> QED
  BY <1>3, <1>4, <1>5, <1>6, <1>7
     DEF Program!Handler, Program!FwService,
         Program!FwCount, Program!FwRead, Program!FwSetup, Program!FwOut,
         Program!FwAddress, Program!FwStatus, Program!FwStatusSpin, Program!FwHalt,
         Program!FwStall, Program!FwMask, Program!FwSendPoll, Program!FwSendGivesUp,
         Program!FwSendWrite, Program!FwSendStart, Program!FwSendSpin, Program!FwSendAck,
         Program!FwSendAccept, Program!FwUnmask, Ep0Pc, Masked

(* my_usb_intr: it takes a packet from endpoint 1 to the buffer. *)
LEMMA FlowHandler ==
  ASSUME Handling, Flows PROVE Flowing'
<1>1. /\ DeviceOK /\ HostOK /\ EchoOK /\ 1 \in EP /\ 2 \in EP /\ back \in Nat
      /\ Steady /\ Parity /\ Somewhere /\ Flowing /\ Fitting /\ Prompt
      /\ SystemInv /\ PatientInv
  BY FlowFacts DEF Handling
<1>2. /\ Program!Handler /\ Cpu(Program!handlerOp)
      /\ UNCHANGED <<mpc, mlen, mcnt, mflush>>
      /\ hsent' = hsent /\ hback' = hback /\ now' = now
  BY DEF Handling, Handler, Program!Handler, Program!mainVars, counts, now
<1>3. back' = back /\ packet' = packet /\ (Under' <=> Under) /\ (Busy' <=> Busy)
  BY <1>2 DEF back, packet, Under, Busy
<1>4. Somewhere'
  BY <1>2, EchoHandler DEF Flows, Handling, EchoInv
<1>5. PlacesFit'
  BY FlowPlaces
<1>6. fpc \in Ep1Pc => Told /\ ~Served
  BY <1>1 DEF Steady, Told, Served, Ep1Pc
<1>7. fpc \notin Ep1Pc =>
        /\ UNCHANGED Program!echoVars /\ fpc' # "ep1Read"
        /\ tx_active_q'[2] = tx_active_q[2]
  BY <1>1, <1>2, HandlerApart, HandlerAway DEF Ep1Pc, Steady
<1>8. Aside => Aside'
  BY <1>1, StaysAside
<1>9. CASE Stalled
  BY <1>1, <1>2, <1>3, <1>9, AccessAt DEF Stalled, Flowing, Steady
<1>10. CASE Nowhere /\ ~Under /\ ~Busy
  BY <1>3, <1>4, <1>5, <1>10 DEF PlacesFit, Flowing
<1>11. CASE Received /\ Told /\ ~Served /\ ~Busy
  <2>1. CASE fpc \notin Ep1Pc
    <3>1. Told' /\ ~Served'
      BY <1>1, <1>2, <1>11, <2>1, StaysTold
    <3>2. Received'
      BY <1>1, <1>3, <1>4, <1>5, <1>7, <1>11, <2>1, <3>1 DEF PlacesFit, Received
    <3> QED  BY <1>3, <1>11, <3>1, <3>2 DEF Flowing
  <2>2. CASE fpc \in Ep1Pc
    <3>1. fpc = "ep1Count" /\ Program!FwEp1Count
      BY <1>2, <1>11, <2>2 DEF Received, Ep1Pc, Program!Handler, Program!FwService, Program!FwInterrupt,
         Program!FwIntsts, Program!FwReset, Program!FwClear, Program!FwStat,
         Program!FwEp1Read, Program!FwEp1Accept,
         Program!FwCount, Program!FwRead, Program!FwSetup, Program!FwOut,
         Program!FwAddress, Program!FwStatus, Program!FwStatusSpin, Program!FwHalt,
         Program!FwStall, Program!FwMask, Program!FwSendPoll, Program!FwSendGivesUp,
         Program!FwSendWrite, Program!FwSendStart, Program!FwSendSpin, Program!FwSendAck,
         Program!FwSendAccept, Program!FwUnmask
    <3>2. fpc' = "ep1Read" /\ Told'
      BY <1>1, <2>2, <3>1 DEF Program!FwEp1Count, Program!Goto, Told, Steady
    <3>3. Reading'
      BY <1>1, <1>3, <1>4, <1>5, <1>11, <3>2 DEF PlacesFit, Received
    <3> QED  BY <1>3, <1>11, <3>3 DEF Flowing
  <2> QED  BY <2>1, <2>2
<1>12. CASE Reading /\ ~Busy
  <2>1. Under /\ fpc = "ep1Read" /\ 1 \in ep_intsts.rx /\ ep1_rx_len = Len(packet) /\ Len(packet) # 0
    BY <1>1, <1>12, PacketFull DEF Reading, Steady, Ep1Pc
  <2>2. CASE Program!FwEp1Read
    <3>1. fpc' = "ep1Read" /\ Told'
      BY <2>1, <2>2 DEF Program!FwEp1Read, Program!handlerVars, Told
    <3>2. Reading'
      BY <1>1, <1>3, <1>4, <1>5, <2>1, <3>1 DEF PlacesFit
    <3> QED  BY <1>3, <1>12, <3>2 DEF Flowing
  <2>3. CASE Program!FwEp1Accept
    <3>1. /\ fpc' = "clear" /\ ep1_rx_suc' /\ ep1_rx_len' # 0
          /\ mpc' # "txDone" /\ mpc' \notin SendingPc
      BY <1>2, <1>12, <2>1, <2>3 DEF Program!FwEp1Accept, Program!Goto, Busy
    <3>2. Held'
      BY <1>1, <1>3, <1>4, <1>5, <2>1, <3>1 DEF PlacesFit
    <3>3. Aside'
      BY <3>1 DEF Aside, AsidePc
    <3> QED  BY <3>1, <3>2, <3>3 DEF Flowing
  <2> QED  BY <1>2, <2>1, <2>2, <2>3
       DEF Program!Handler, Program!FwService, Program!FwInterrupt,
         Program!FwIntsts, Program!FwReset, Program!FwClear, Program!FwStat, Program!FwEp1Count,
         Program!FwCount, Program!FwRead, Program!FwSetup, Program!FwOut,
         Program!FwAddress, Program!FwStatus, Program!FwStatusSpin, Program!FwHalt,
         Program!FwStall, Program!FwMask, Program!FwSendPoll, Program!FwSendGivesUp,
         Program!FwSendWrite, Program!FwSendStart, Program!FwSendSpin, Program!FwSendAck,
         Program!FwSendAccept, Program!FwUnmask
<1>13. CASE Held /\ ep1_rx_suc /\ Aside /\ mpc # "txDone"
  <2>1. fpc \notin Ep1Pc
    BY <1>6, <1>13 DEF Held
  <2>2. Under /\ ep1_rx_len = Len(packet) /\ Len(packet) # 0 /\ mpc \notin SendingPc
    BY <1>1, <1>13, PacketFull DEF Held
  <2>3. ep1_rx_suc' /\ ep1_rx_len' # 0 /\ mpc' # "txDone" /\ mpc' \notin SendingPc /\ fpc' # "ep1Read"
    BY <1>2, <1>7, <1>13, <2>1, <2>2 DEF Program!echoVars
  <2>4. Held'
    BY <1>1, <1>3, <1>4, <1>5, <2>2, <2>3 DEF PlacesFit
  <2> QED  BY <1>8, <1>13, <2>3, <2>4 DEF Flowing
<1>14. CASE Sending /\ ep1_rx_suc /\ ep1_rx_len = Len(packet) /\ ~mflush /\ Aside
  <2>1. fpc \notin Ep1Pc
    BY <1>6, <1>14 DEF Sending
  <2>2. Under /\ Len(packet) # 0 /\ mpc \in SendingPc
    BY <1>1, <1>14, PacketFull DEF Sending
  <2>3. /\ ep1_rx_suc' /\ ep1_rx_len' = Len(packet)' /\ ep1_rx_len' # 0 /\ mpc' # "txDone"
        /\ mpc' \in SendingPc /\ fpc' # "ep1Read" /\ ~mflush'
    BY <1>2, <1>3, <1>7, <1>14, <2>1, <2>2 DEF Program!echoVars, SendingPc
  <2>4. Sending'
    BY <1>1, <1>3, <1>4, <1>5, <2>2, <2>3 DEF PlacesFit
  <2> QED  BY <1>8, <1>14, <2>3, <2>4 DEF Flowing
<1>15. CASE Loaded /\ (Busy => mpc = "txDone" /\ Aside)
  <2>1. fpc \notin Ep1Pc /\ Under
    BY <1>6, <1>15 DEF Loaded
  <2>2. tx_active_q'[2]
    BY <1>7, <1>15, <2>1 DEF Loaded
  <2>3. Loaded'
    BY <1>1, <1>3, <1>4, <1>5, <2>1, <2>2 DEF PlacesFit
  <2> QED  BY <1>2, <1>3, <1>8, <1>15, <2>3 DEF Flowing
<1> QED  BY <1>1, <1>9, <1>10, <1>11, <1>12, <1>13, <1>14, <1>15 DEF Flowing

(* The host: its transactions with endpoint 0. *)
LEMMA HostElsewhere ==
  ASSUME Hosting, Flows, ~HostPingData, ~HostPongs
  PROVE  /\ hsent' = hsent /\ hback' = hback
         /\ tx_active_q'[2] = tx_active_q[2]
         /\ intr_ep_rx_ready_r'[1] = intr_ep_rx_ready_r[1]
         /\ ep_cfg_stall_ep_r'[1] = ep_cfg_stall_ep_r[1]
         /\ HostData \/ came' = came
<1>1. /\ DeviceOK /\ HostOK /\ 0 \in EP /\ 1 \in EP /\ 2 \in EP /\ Fitting
      /\ hresets \in Nat /\ Host
  BY FlowFacts DEF Hosting, TransferInv, AskedOK
<1>2. CASE HostAsks \/ HostAbandons
  BY <1>2 DEF HostAsks, HostAbandons, KeepsScore, counts, deviceVars, txVars, intrVars, came
<1>3. CASE HostToken
  <2>1. TokenOut(StageTr) /\ StageTr.ep = 0 /\ hsent' = hsent /\ hback' = hback
    BY <1>1, <1>3, StageTrType DEF HostToken, counts
  <2> QED  BY <1>1, <2>1, DeviceTypes DEF TokenOut, txVars, intrVars, came
<1>4. CASE HostData
  <2>1. Data(StageTr) /\ StageTr.ep = 0 /\ hsent' = hsent /\ hback' = hback
    BY <1>4 DEF HostData, Data, KeepsScore
  <2> QED  BY <1>1, <1>4, <2>1, DeviceTypes DEF Data, txVars
<1>5. CASE HostIn
  <2>1. /\ In(StageTr, ~tooLong) /\ StageTr.ep = 0 /\ hsent' = hsent /\ hback' = hback
    BY <1>1, <1>5, StageTrType DEF HostIn, KeepsScore
  <2> QED  BY <1>1, <2>1, DeviceTypes DEF In, txVars, came
<1>6. CASE HostResets
  <2>1. hresets < 0
    BY <1>1, <1>6 DEF HostResets, Fitting
  <2> QED  BY <1>1, <2>1
<1>7. CASE HostPings
  <2>1. TokenOut(outTr) /\ hsent' = hsent /\ hback' = hback /\ hsent < Len(now.echo) /\ hsent = back
    BY <1>7 DEF HostPings, counts, back
  <2>2. outTr.ep = 1 /\ outTr.pid = "OUT"
    BY <1>1, <2>1, OutTrType DEF outTr, EchoTr
  <2> QED  BY <2>1, <2>2 DEF TokenOut, txVars, intrVars, came
<1> QED  BY <1>1, <1>2, <1>3, <1>4, <1>5, <1>6, <1>7 DEF Host

(* Where main and the handler are when it is the turn of the host. *)
LEMMA FlowWaits ==
  ASSUME Hosting, Flows
  PROVE  /\ fpc \notin {"ep1Read", "clear"}
         /\ Aside => mpc \notin {"txCall", "txDone", "txWrite", "txStart"}
         /\ Aside /\ ep1_rx_suc /\ ep1_rx_len # 0 => mpc = "txPoll"
         /\ Aside /\ mpc = "txPoll" => ~HostData
<1>1. /\ Program!waiting /\ 2 \in EP /\ Steady /\ SystemInv /\ PatientInv /\ Place
  BY HostWaits, FlowFacts DEF Hosting, TransferInv
<1>2. fpc \in {"idle", "statusSpin", "sendPoll", "sendSpin", "sendAck"}
  BY <1>1 DEF Program!waiting, Program!resting
<1>3. Aside => fpc = "idle"
  BY <1>2 DEF Aside, AsidePc
<1>4. fpc = "idle" => Program!resting \/ (mpc = "txPoll" /\ tx_active_q[0])
  <2>1. [i \in EP |-> Sts(i)][2].tx_busy = tx_active_q[0]
    BY <1>1 DEF Sts
  <2> QED  BY <1>1, <2>1 DEF Program!waiting
<1>5. Program!resting => mpc = "loop" /\ ~(ep1_rx_suc /\ ep1_rx_len # 0)
  BY DEF Program!resting
<1>6. ASSUME Aside, mpc = "txPoll" PROVE ~HostData
  <2>1. fpc = "idle" /\ tx_active_q[0] /\ ~came /\ ~intr_reset_r
    BY <1>1, <1>3, <1>4, <1>5, <1>6 DEF Aside, Steady
  <2>2. AtRest \/ Lost \/ Collecting \/ Stated \/ Refusing \/ SetupTaken \/ Taking \/ Refused
    BY <1>1, <2>1, PlacesAt
  <2>3. Stated
    BY <2>1, <2>2 DEF TxEmpty, AtRest, Lost, Collecting, Collects, Refusing, SetupTaken, Taking, Refused
  <2> QED  BY <2>3 DEF Stated, Token0, HostData, Data
<1> QED  BY <1>2, <1>3, <1>4, <1>5, <1>6

(* A step of the host that has nothing to do with the packet. *)
LEMMA FlowStays ==
  ASSUME Hosting, Flows, UNCHANGED <<hsent, hback>>,
         tx_active_q'[2] = tx_active_q[2], intr_ep_rx_ready_r'[1] = intr_ep_rx_ready_r[1],
         ep_cfg_stall_ep_r[1] => ep_cfg_stall_ep_r'[1], HostData \/ came' = came
  PROVE  Flowing'
<1>1. /\ HostOK /\ back \in Nat /\ Somewhere /\ Flowing /\ Fitting /\ Prompt
      /\ UNCHANGED <<program, scenario>> /\ SystemInv /\ PatientInv /\ Patient /\ hresets \in Nat
      /\ EchoInv /\ now.echo # << >> /\ Host
  BY FlowFacts DEF Hosting, Host, Informed, TransferInv, AskedOK, Flows
<1>2. /\ UNCHANGED <<mpc, mlen, mcnt, mflush, ep1_rx_suc, ep1_rx_len, rx_packet_buf>>
      /\ UNCHANGED <<fpc, fcnt, ep_intsts>> /\ now' = now
  BY <1>1 DEF program, now
<1>3. /\ back' = back /\ packet' = packet /\ (Under' <=> Under) /\ (Busy' <=> Busy)
      /\ (Told' <=> Told)
  BY <1>2 DEF back, packet, Under, Busy, Told
<1>4. Somewhere'
  BY <1>1, <1>2, EchoHost DEF EchoInv
<1>5. PlacesFit'
  BY FlowPlaces
<1>6. ~Served' /\ fpc' # "ep1Read"
  BY <1>2, FlowWaits DEF Served
<1>7. CASE Stalled
  BY <1>3, <1>7 DEF Stalled, Flowing
<1>8. CASE Nowhere /\ ~Under /\ ~Busy
  BY <1>3, <1>4, <1>5, <1>8 DEF PlacesFit, Flowing
<1>9. CASE Received /\ Told /\ ~Served /\ ~Busy
  <2>1. Received'
    BY <1>1, <1>3, <1>4, <1>5, <1>6, <1>9 DEF PlacesFit, Received
  <2> QED  BY <1>3, <1>6, <1>9, <2>1 DEF Flowing
<1>10. CASE Reading /\ ~Busy
  BY <1>10, FlowWaits DEF Reading
<1>11. CASE Held /\ ep1_rx_suc /\ Aside /\ mpc # "txDone"
  <2>1. ep1_rx_len # 0 /\ mpc # "txPoll"
    BY <1>1, <1>11, PacketFull DEF Held, SendingPc
  <2> QED  BY <1>11, <2>1, FlowWaits
<1>12. CASE Sending /\ ep1_rx_suc /\ ep1_rx_len = Len(packet) /\ ~mflush /\ Aside
  <2>1. Under /\ mpc \in SendingPc /\ Len(packet) # 0
    BY <1>1, <1>12, PacketFull DEF Sending
  <2>2. mpc = "txPoll" /\ came' = came
    BY <1>12, <2>1, FlowWaits
  <2>3. Sending'
    BY <1>1, <1>2, <1>3, <1>4, <1>5, <1>6, <1>12, <2>1, <2>2 DEF PlacesFit
  <2>4. Aside'
    BY <1>2, <1>12, <2>2 DEF Aside
  <2> QED  BY <1>2, <1>3, <1>12, <2>3, <2>4 DEF Flowing
<1>13. CASE Loaded /\ (Busy => mpc = "txDone" /\ Aside)
  <2>1. ~Busy
    BY <1>13, FlowWaits
  <2>2. Loaded'
    BY <1>1, <1>3, <1>4, <1>5, <1>13 DEF PlacesFit, Loaded
  <2> QED  BY <1>3, <2>1, <2>2 DEF Flowing
<1> QED  BY <1>1, <1>7, <1>8, <1>9, <1>10, <1>11, <1>12, <1>13 DEF Flowing

(* A packet goes out to endpoint 1 when none is on its way, and is fetched *)
(* from endpoint 2 when one is there.                                      *)
LEMMA FlowHost ==
  ASSUME Hosting, Flows PROVE Flowing'
<1>1. /\ DeviceOK /\ HostOK /\ 0 \in EP /\ 1 \in EP /\ 2 \in EP /\ back \in Nat
      /\ Somewhere /\ Flowing /\ Fitting /\ Prompt /\ Parity
      /\ UNCHANGED <<program, scenario>> /\ SystemInv /\ PatientInv /\ Patient /\ hresets \in Nat
      /\ EchoInv /\ now.echo # << >> /\ Host
  BY FlowFacts DEF Hosting, Host, Informed, TransferInv, AskedOK, Flows
<1>2. UNCHANGED <<mpc, fpc, ep_intsts>> /\ now' = now /\ (Busy' <=> Busy)
  BY <1>1 DEF program, now, Busy
<1>3. Somewhere' /\ PlacesFit'
  BY <1>1, <1>2, EchoHost, FlowPlaces DEF EchoInv
<1>4. ~Served' /\ fpc' # "ep1Read"
  BY <1>2, FlowWaits DEF Served
<1>5. CASE HostPingData
  <2>1. /\ hsent = back /\ hback' = hback /\ back' = back /\ token.valid
        /\ hsent' = IF token.open THEN hsent + 1 ELSE hsent
        /\ (token.open <=> token.room /\ ~ep_cfg_stall_ep_r[1])
        /\ intr_ep_rx_ready_r'[1] <=> (intr_ep_rx_ready_r[1] \/ token.room)
        /\ ep_cfg_stall_ep_r' = ep_cfg_stall_ep_r
    BY <1>1, <1>5, PingTaken DEF back
  <2>2. ~Under
    BY <1>1, <2>1 DEF Under
  <2>3. CASE Stalled
    BY <2>1, <2>3 DEF Stalled, Flowing
  <2>4. CASE Nowhere /\ ~Under /\ ~Busy /\ token.open
    <3>1. Told' /\ Under'
      BY <2>1, <2>4 DEF Told, Under
    <3>2. Received'
      BY <1>1, <1>3, <1>4, <2>1, <3>1 DEF PlacesFit
    <3> QED  BY <1>2, <1>4, <2>4, <3>1, <3>2 DEF Flowing
  <2>5. CASE Nowhere /\ ~Under /\ ~Busy /\ ~token.open
    <3>1. ~Under'
      BY <2>1, <2>5 DEF Under
    <3> QED  BY <1>2, <1>3, <2>5, <3>1 DEF PlacesFit, Flowing
  <2> QED  BY <1>1, <2>2, <2>3, <2>4, <2>5
           DEF Flowing, Received, Reading, Held, Sending, Loaded
<1>6. CASE HostPongs
  <2>1. /\ Under /\ hsent' = hsent /\ hsent \in Nat /\ In(inTr, TRUE) /\ inTr.ep = 2
        /\ hback' = IF inAnswer(inTr) = inTr.datapid THEN Append(hback, inData(inTr)) ELSE hback
        /\ IF ep_cfg_stall_ep_r[2] \/ ~tx_active_q[2]
             THEN hback' = hback /\ UNCHANGED <<txVars, ep_data_bit_q>>
             ELSE inAnswer(inTr) = inTr.datapid
    BY <1>1, <1>6, PongAnswer
  <2>2. UNCHANGED <<intr_ep_rx_ready_r, ep_cfg_stall_ep_r>>
    BY <2>1 DEF In
  <2>3. CASE ep_cfg_stall_ep_r[2] \/ ~tx_active_q[2]
    BY <2>1, <2>2, <2>3, FlowStays DEF txVars, came
  <2>4. CASE ~ep_cfg_stall_ep_r[2] /\ tx_active_q[2]
    <3>1. Loaded /\ ~Busy
      <4>1. Loaded
        BY <1>1, <2>1, <2>4, FlowPlaces DEF PlacesFit
      <4>2. ~Reading /\ ~Sending /\ ~Received /\ ~Held
        BY <2>4 DEF Reading, Sending, Received, Held, Empty2
      <4>3. ~Stalled /\ ~(Nowhere /\ ~Under)
        <5>1. back # back + 1
          BY <1>1
        <5> QED  BY <2>1, <5>1 DEF Stalled, Under
      <4> QED  BY <1>1, <4>1, <4>2, <4>3, FlowWaits DEF Flowing
    <3>2. back' = back + 1
      <4>1. hback \in Seq(Seq(Payload)) /\ inData(inTr) \in Seq(Payload)
        <5>1. packet \in Seq(Payload) /\ Len(packet) \in Nat
          BY <1>1, <2>1, PacketType
        <5>2. inData(inTr) = [k \in 1 .. Len(packet) |-> packet[k]]
          BY <2>1, <3>1, <5>1 DEF inData, Loaded
        <5> QED  BY <1>1, <5>1, <5>2, FlowFacts
      <4> QED  BY <2>1, <2>4, <4>1, AppendType DEF back
    <3>3. ~Under'
      BY <1>1, <2>1, <3>2 DEF Under
    <3> QED  BY <1>2, <1>3, <3>1, <3>3 DEF PlacesFit, Flowing
  <2> QED  BY <2>3, <2>4
<1>7. CASE ~HostPingData /\ ~HostPongs
  BY <1>7, HostElsewhere, FlowStays
<1> QED  BY <1>5, <1>6, <1>7

LEMMA FlowInit == ASSUME Init, now.echo # << >> PROVE Flowing
<1>1. EchoInv
  BY EchoInit
<1>2. Somewhere /\ PlacesFit
  BY <1>1, FlowPlaces DEF EchoInv
<1>3. hsent = 0 /\ back = 0 /\ mpc = "startUp"
  BY EmptyType DEF Init, Program!FirmwareInit, back
<1>4. ~Under /\ ~Busy
  BY <1>3 DEF Under, Busy, SendingPc
<1> QED  BY <1>2, <1>4 DEF PlacesFit, Flowing

LEMMA FlowInvariant ==
  ASSUME MAXP <= DEPTH
  PROVE  Spec => [](Informed /\ Fitting /\ Prompt => (now.echo # << >> => Flowing))
<1> DEFINE Calm == Informed /\ Fitting /\ Prompt
           Flow == Calm => (now.echo # << >> => Flowing)
           All  == /\ SystemInv /\ (Patient => PatientInv) /\ (Informed => TransferInv)
                   /\ (Patient /\ Fitting => EchoInv)
<1>1. Init => Flow
  BY FlowInit
<1>2. All /\ Flow /\ [Next]_vars => Flow'
  <2> SUFFICES ASSUME All, Flow, [Next]_vars, Calm', now'.echo # << >>
               PROVE  Flowing'
    OBVIOUS
  <2>1. now' = now
    BY DEF Next, Main, Handler, Host, vars, now
  <2>2. Calm
    BY <2>1 DEF Informed, Patient, Fitting, Prompt
  <2>3. SystemInv /\ PatientInv /\ Informed /\ TransferInv /\ Flows
    BY <2>1, <2>2 DEF Informed, Flows
  <2>4. CASE Main
    BY <2>3, <2>4, FlowMain DEF Maining
  <2>5. CASE Handler
    BY <2>3, <2>5, FlowHandler DEF Handling
  <2>6. CASE Host
    BY <2>3, <2>6, FlowHost DEF Hosting
  <2>7. CASE UNCHANGED vars
    <3>1. UNCHANGED <<token, ep_data_bit_q, rx_setup_q, ep_cfg_stall_ep_r, intr_ep_rx_ready_r,
                      intr_reset_r, rx_fifo, rx_len_q, tx_fifo, tx_active_q, tx_len_q>>
          /\ UNCHANGED <<program, hsent, hback>>
      BY <2>7 DEF vars, counts, deviceVars, coreVars, rxVars, txVars, intrVars
    <3>2. UNCHANGED <<mpc, mlen, mcnt, mflush, ep1_rx_suc, ep1_rx_len, rx_packet_buf,
                      fpc, fcnt, func_stat_rst, ep_intsts>>
      BY <3>1 DEF program
    <3>3. Flowing
      BY <2>3 DEF Flows
    <3> QED  BY <2>1, <3>1, <3>2, <3>3
             DEF Flowing, Stalled, Nowhere, Received, Reading, Held, Sending, Loaded, Under, back,
                 packet, Told, Served, Busy, Aside, came, Empty1, Empty2, NoEcho, Copied
  <2> QED  BY <2>4, <2>5, <2>6, <2>7 DEF Next
<1>3. Spec => []All
  BY SystemInvariant, PatientInvariant, TransferInvariant, EchoInvariant, PTL
<1> HIDE DEF All, Flow
<1>4. Spec => []Flow
  BY <1>1, <1>2, <1>3, PTL DEF Spec
<1> QED  BY <1>4 DEF Flow

(* A packet that endpoint 1 has taken and that has not come back is on its *)
(* way, with my_usb_intr and main working on it in turns and transfers at  *)
(* endpoint 0 between them: for a host that waits for the program with each*)
(* of its steps, asks for what the program knows, fetches the status of a  *)
(* transfer before openusb_tx_data gives up, does not reset the bus, and   *)
(* sends packets that are not empty and fit the FIFO and rx_packet_buf.    *)
THEOREM EchoStaysUnderWay ==
  ASSUME MAXP <= DEPTH
  PROVE  Spec => [](Informed /\ Fitting /\ Prompt => EchoIsUnderWay)
<1>1. /\ SystemInv /\ (Patient /\ Fitting => EchoInv)
      /\ (Informed /\ Fitting /\ Prompt => (now.echo # << >> => Flowing))
      => (Informed /\ Fitting /\ Prompt => EchoIsUnderWay)
  <2> SUFFICES ASSUME SystemInv, Informed, Fitting, Prompt, Patient /\ Fitting => EchoInv,
                      now.echo # << >> => Flowing, Len(hback) < hsent
               PROVE  \/ intr_ep_rx_ready_r[1] \/ 1 \in ep_intsts.rx
                      \/ ep1_rx_suc /\ ep1_rx_len # 0
                      \/ tx_active_q[2]
    BY DEF EchoIsUnderWay
  <2>1. HostOK /\ back < hsent /\ back \in Nat /\ hsent \in 0 .. Len(now.echo) /\ Len(now.echo) \in Nat
    BY ScenarioType, LenProperties DEF SystemInv, HostOK, back
  <2>2. now.echo # << >>
    BY <2>1, EmptyType
  <2>3. Flowing /\ Steady /\ Parity
    BY <2>2 DEF Informed, EchoInv
  <2>4. Under /\ hsent # back
    BY <2>1, <2>3 DEF Parity, Under
  <2>5. Len(packet) # 0
    BY <2>1, <2>4, PacketFull
  <2> QED
    BY <2>3, <2>4, <2>5
       DEF Flowing, Stalled, Told, Reading, Held, Loaded, Steady, Ep1Pc
<1> QED  BY <1>1, SystemInvariant, EchoInvariant, FlowInvariant, PTL

=============================================================================
