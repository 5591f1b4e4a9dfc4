------------------------- MODULE UsbfCrossingProofs -------------------------
(***************************************************************************)
(* For any bytes and lengths, and any pace of the two clocks, as long as   *)
(* the processor leaves the bus alone for IDLE clocks between accesses:    *)
(* the endpoint is told what the processor has written, once and in order, *)
(* a read gives the byte asked for (IDLE + 1 >= Round), and TX_BUSY can be *)
(* trusted (IDLE >= 2 * Round + 4).                                        *)
(*                                                                         *)
(* An access passes through stages; the invariant says which, and that at  *)
(* most one pulse is on its way in each: none while the processor rests.   *)
(* It needs the time: a strobe leaves when its access is over, and has to  *)
(* have arrived before the next one begins, so that the stage of a strobe  *)
(* also counts the clocks it can still take.  The status adds the ring of  *)
(* UsbfBusSyncProofs: the older the last strobe, the nearer its status.    *)
(***************************************************************************)
EXTENDS UsbfCrossing, UsbfPulseSyncProofs

Ring == INSTANCE UsbfBusSyncProofs WITH Data <- BOOLEAN, Data0 <- FALSE,
                                        din <- tx_active_q, dout <- tx_busy

-----------------------------------------------------------------------------
(* No pulse is on its way, or that of s alone. *)
Channels == Down \cup Up
AllQuiet == \A s \in Channels : Quiet(sync[s])
Under(s) == /\ Sent(sync[s]) \/ Sampled(sync[s]) \/ Seen(sync[s])
            /\ \A t \in Channels \ {s} : Quiet(sync[t])

Kinds    == Down \cup {"sts"}
Answer(r) == IF r = "rd_req" THEN "rd_ready" ELSE "wt_ready"
NoStrobe == \A s \in Strobe : ~strobe_r[s]

CrossingTypeOK ==
  /\ Ring!ClocksOK
  /\ phase \in {"idle", "address", "data"} /\ idle \in 0 .. IDLE
  /\ op.kind \in Kinds
  /\ wt_en_r \in BOOLEAN /\ wt_ready_r \in BOOLEAN /\ rd_ready_r \in BOOLEAN
  /\ strobe_r \in [Strobe -> BOOLEAN] /\ sync \in [Channels -> PulseSync]
  /\ Ring!TypeOK

(* The stages of an access, and where its length or its byte is. *)
Rest == /\ phase = "idle" /\ ~wt_en_r /\ hready /\ NoStrobe
        /\ AllQuiet /\ pending = << >>
        /\ op.kind = "rd_req" => readdata = op.val

Asked == /\ phase = "address" /\ ~wt_en_r /\ hready /\ NoStrobe
         /\ AllQuiet /\ pending = IF op.kind = "sts" THEN << >> ELSE <<op>>
         /\ op.kind = "rd_req" => rx_head = op.val

Written == /\ phase = "data" /\ op.kind \in Strobe \cup {"wt_req"}
           /\ wt_en_r /\ ~wt_ready_r /\ rd_ready_r /\ NoStrobe
           /\ AllQuiet /\ pending = <<op>>

Latched == /\ phase = "data" /\ op.kind \in Strobe
           /\ ~wt_en_r /\ hready /\ \A s \in Strobe : strobe_r[s] <=> s = op.kind
           /\ AllQuiet /\ pending = <<op>>
           /\ op.kind = "tx_start" => tx_len_r = op.val

(* A strobe is told the endpoint while the processor leaves the bus alone: *)
(* in no more edges of hclk than come with three of phy_clk.               *)
Left(s) == IF Sent(sync[s]) THEN Ring!Wait(3)
           ELSE IF Sampled(sync[s]) THEN Ring!Wait(2) ELSE Ring!Wait(1)

Strobing == /\ phase = "idle" /\ op.kind \in Strobe
            /\ ~wt_en_r /\ hready /\ NoStrobe
            /\ Under(op.kind) /\ pending = <<op>>
            /\ op.kind = "tx_start" => tx_len_r = op.val
            /\ idle + Left(op.kind) <= Ring!Round

Held == /\ phase = "data" /\ op.kind \in Request
        /\ ~wt_en_r /\ NoStrobe
        /\ (wt_ready_r <=> op.kind # "wt_req") /\ (rd_ready_r <=> op.kind # "rd_req")

Requested == /\ Held /\ Under(op.kind) /\ pending = <<op>>
             /\ op.kind = "rd_req" => rx_head = op.val

Answered == /\ Held /\ Under(Answer(op.kind)) /\ pending = << >>
            /\ op.kind = "rd_req" => actual_rx_data_r = op.val

Ending == /\ phase = "data" /\ op.kind \notin Strobe
          /\ ~wt_en_r /\ hready /\ NoStrobe
          /\ AllQuiet /\ pending = << >>
          /\ op.kind = "rd_req" => actual_rx_data_r = op.val

Stages == \/ Rest \/ Asked \/ Written \/ Latched \/ Strobing
          \/ Requested \/ Answered \/ Ending

CrossingInv == CrossingTypeOK /\ Stages

(* Between two accesses a strobe has the time to cross. *)
QuietBetween == IDLE + 1 >= Ring!Round

(* The status.  Age is how many edges of hclk there have been since        *)
(* the last strobe, at least.                                              *)
Age == IF phase = "idle" THEN idle
       ELSE IF phase = "address" THEN IDLE + 1
       ELSE IF op.kind = "sts" THEN IDLE + 2 ELSE 0

FreeInv ==
  /\ Ring!RingBits
  /\ ~Ring!inFlight => tx_busy = data_in_r
  /\ tx_active_q /\ ~Ring!Shown => Age + Ring!ToCome <= Ring!Round + Ring!Bound
  /\ FreeIsFree

-----------------------------------------------------------------------------
LEMMA OneEdge ==
  ASSUME Ring!ClocksOK
  PROVE  /\ Hclk => ~PhyClk /\ ~Together /\ ~phyRises
         /\ PhyClk => ~Hclk /\ ~Together /\ phyRises
         /\ Together => ~Hclk /\ ~PhyClk /\ phyRises
<1>1. hedges \in Nat /\ pedges \in Nat
  BY ClocksAssumption DEF Ring!ClocksOK
<1>2. hedges + 1 # 0 /\ pedges + 1 # 0
  BY <1>1
<1>3. Hclk => hedges' = hedges + 1 /\ pedges' = 0
  BY DEF Hclk, HclkRises
<1>4. PhyClk => pedges' = pedges + 1 /\ hedges' = 0
  BY DEF PhyClk, PhyRises
<1>5. Together => hedges' = 0 /\ pedges' = 0
  BY DEF Together, BothRise
<1> QED  BY <1>2, <1>3, <1>4, <1>5, Zenon DEF phyRises

(* How a step moves the pulse in each synchroniser. *)

LEMMA PulseIs ==
  /\ \A s \in Strobe : pulse(s) = strobe_r[s]
  /\ pulse("wt_req") = (wt_en_r /\ op.kind = "wt_req")
  /\ pulse("rd_req") = (rd_en /\ op.kind = "rd_req")
  /\ pulse("wt_ready") = done("wt_req")
  /\ pulse("rd_ready") = done("rd_req")
<1>1. \A s \in Strobe : pulse(s) = strobe_r[s]
  BY DEF pulse, Strobe
<1>2. pulse("wt_req") = (wt_en_r /\ op.kind = "wt_req")
  BY DEF pulse, Strobe
<1>3. pulse("rd_req") = (rd_en /\ op.kind = "rd_req")
  BY DEF pulse, Strobe
<1>4. pulse("wt_ready") = done("wt_req")
  BY DEF pulse, Strobe
<1>5. pulse("rd_ready") = done("rd_req")
  BY DEF pulse, Strobe
<1> QED  BY <1>1, <1>2, <1>3, <1>4, <1>5

LEMMA PulseIsBoolean ==
  ASSUME CrossingTypeOK, NEW s \in Channels
  PROVE  pulse(s) \in BOOLEAN
<1>1. strobe_r \in [Strobe -> BOOLEAN]
  BY DEF CrossingTypeOK
<1>2. CASE s \in Strobe
  BY <1>1, <1>2, PulseIs
<1>3. CASE s \notin Strobe
  <2>1. s \in {"wt_req", "rd_req", "wt_ready", "rd_ready"}
    BY <1>3 DEF Channels, Down, Up, Request
  <2> QED  BY <2>1, PulseIs DEF done, Out, rd_en
<1> QED  BY <1>2, <1>3

LEMMA ChannelStep ==
  ASSUME CrossingTypeOK, NEW s \in Channels
  PROVE  /\ Hclk /\ s \in Down => IF pulse(s) THEN Quiet(sync[s]) => Sent(sync'[s])
                                  ELSE Kept(sync[s], sync'[s])
         /\ Hclk /\ s \in Up => Moved(sync[s], sync'[s])
         /\ PhyClk /\ s \in Up => IF pulse(s) THEN Quiet(sync[s]) => Sent(sync'[s])
                                  ELSE Kept(sync[s], sync'[s])
         /\ PhyClk /\ s \in Down => Moved(sync[s], sync'[s])
         /\ Together => IF pulse(s) THEN Quiet(sync[s]) => Sent(sync'[s]) \/ Sampled(sync'[s])
                        ELSE Moved(sync[s], sync'[s])
<1>1. sync[s] \in PulseSync /\ pulse(s) \in BOOLEAN
  BY PulseIsBoolean DEF CrossingTypeOK
<1>2. s \in Down <=> s \notin Up
  BY DEF Channels, Down, Up, Strobe, Request
<1>3. ASSUME Hclk, s \in Down
      PROVE  IF pulse(s) THEN Quiet(sync[s]) => Sent(sync'[s]) ELSE Kept(sync[s], sync'[s])
  <2>1. sync'[s] = SrcEdge(sync[s], pulse(s))
    BY <1>3 DEF Hclk, Sync, Channels
  <2> QED  BY <1>1, <2>1, SrcMoves
<1>4. ASSUME Hclk, s \in Up PROVE Moved(sync[s], sync'[s])
  <2>1. sync'[s] = DstEdge(sync[s], sync[s].s_pulse2level_r)
    BY <1>2, <1>4 DEF Hclk, Sync, Channels
  <2> QED  BY <1>1, <2>1, DstMoves
<1>5. ASSUME PhyClk, s \in Up
      PROVE  IF pulse(s) THEN Quiet(sync[s]) => Sent(sync'[s]) ELSE Kept(sync[s], sync'[s])
  <2>1. sync'[s] = SrcEdge(sync[s], pulse(s))
    BY <1>2, <1>5 DEF PhyClk, Sync, Channels
  <2> QED  BY <1>1, <2>1, SrcMoves
<1>6. ASSUME PhyClk, s \in Down PROVE Moved(sync[s], sync'[s])
  <2>1. sync'[s] = DstEdge(sync[s], sync[s].s_pulse2level_r)
    BY <1>6 DEF PhyClk, Sync, Channels
  <2> QED  BY <1>1, <2>1, DstMoves
<1>7. ASSUME Together
      PROVE  IF pulse(s) THEN Quiet(sync[s]) => Sent(sync'[s]) \/ Sampled(sync'[s])
             ELSE Moved(sync[s], sync'[s])
  <2>1. PICK fresh : Sync(TRUE, TRUE, fresh)
    BY <1>7 DEF Together
  <2> DEFINE new == SrcEdge(sync[s], pulse(s))
             seen == IF s \in fresh THEN new ELSE sync[s]
  <2>2. sync'[s] = DstEdge(new, seen.s_pulse2level_r)
    BY <2>1 DEF Sync, Channels
  <2>3. \/ seen.s_pulse2level_r = sync[s].s_pulse2level_r
        \/ seen.s_pulse2level_r = new.s_pulse2level_r
    OBVIOUS
  <2> QED  BY <1>1, <2>2, <2>3, BothMove
<1> QED  BY <1>3, <1>4, <1>5, <1>6, <1>7

(* Nothing is sent: then nothing is on its way, or what is goes on. *)
NothingSent == \A s \in Down : ~pulse(s)

LEMMA UpPulses ==
  ASSUME CrossingTypeOK, NEW s \in Up, pulse(s)
  PROVE  \E r \in Request : s = Answer(r) /\ Out(sync[r]) /\ ~Quiet(sync[r])
                            /\ ~Sent(sync[r]) /\ ~Sampled(sync[r])
<1>1. sync["wt_req"] \in PulseSync /\ sync["rd_req"] \in PulseSync
  BY DEF CrossingTypeOK, Channels, Down, Request
<1>2. s = "wt_ready" \/ s = "rd_ready"
  BY DEF Up
<1>3. CASE s = "wt_ready"
  BY <1>1, <1>3, PulseIs, OutOf DEF done, Answer, Request
<1>4. CASE s = "rd_ready"
  BY <1>1, <1>4, PulseIs, OutOf DEF done, Answer, Request
<1> QED  BY <1>2, <1>3, <1>4

LEMMA QuietStays ==
  ASSUME CrossingTypeOK, AllQuiet, Next, PhyClk \/ NothingSent
  PROVE  AllQuiet'
<1> SUFFICES ASSUME NEW s \in Channels PROVE Quiet(sync'[s])
  BY DEF AllQuiet
<1>1. Quiet(sync[s])
  BY DEF AllQuiet
<1>2. s \in Up => ~pulse(s)
  BY UpPulses DEF AllQuiet, Request, Channels, Down
<1>3. s \in Down \/ s \in Up
  BY DEF Channels
<1>4. CASE PhyClk
  BY <1>1, <1>2, <1>3, <1>4, ChannelStep DEF Moved, Kept
<1>5. CASE Hclk /\ NothingSent
  BY <1>1, <1>2, <1>3, <1>5, ChannelStep DEF Moved, Kept, NothingSent
<1>6. CASE Together /\ NothingSent
  BY <1>1, <1>2, <1>3, <1>6, ChannelStep DEF Moved, Kept, NothingSent
<1> QED  BY <1>4, <1>5, <1>6 DEF Next

LEMMA PulseSent ==
  ASSUME CrossingTypeOK, AllQuiet, Hclk \/ Together,
         NEW s \in Down, pulse(s), \A t \in Down \ {s} : ~pulse(t)
  PROVE  /\ Sent(sync'[s]) \/ (Together /\ Sampled(sync'[s]))
         /\ \A t \in Channels \ {s} : Quiet(sync'[t])
<1>1. Sent(sync'[s]) \/ (Together /\ Sampled(sync'[s]))
  BY ChannelStep DEF AllQuiet, Channels
<1>2. ASSUME NEW t \in Channels \ {s} PROVE Quiet(sync'[t])
  <2>1. Quiet(sync[t])
    BY DEF AllQuiet
  <2>2. t \in Up => ~pulse(t)
    BY UpPulses DEF AllQuiet, Request, Channels, Down
  <2>3. ~pulse(t)
    BY <2>2 DEF Channels
  <2> QED  BY <2>1, <2>3, ChannelStep DEF Channels, Moved, Kept
<1> QED  BY <1>1, <1>2

(* The pulse of s goes on by one edge of the clock it crosses to. *)
LEMMA UnderStep ==
  ASSUME CrossingTypeOK, NEW s \in Channels, Under(s), Next, PhyClk \/ NothingSent,
         s \in Request => ~Seen(sync[s])
  PROVE  /\ \A t \in Channels \ {s} : Quiet(sync'[t])
         /\ (IF s \in Down THEN Hclk ELSE PhyClk) => Kept(sync[s], sync'[s])
         /\ (IF s \in Down THEN PhyClk \/ Together ELSE Hclk \/ Together)
              => Moved(sync[s], sync'[s])
<1>1. ASSUME NEW t \in Up PROVE ~pulse(t)
  <2>1. CASE pulse(t)
    <3>1. PICK r \in Request : Out(sync[r]) /\ ~Quiet(sync[r]) /\ ~Sent(sync[r]) /\ ~Sampled(sync[r])
      BY <2>1, UpPulses
    <3>2. r = s
      BY <3>1 DEF Under, Channels, Down
    <3> QED  BY <3>1, <3>2 DEF Under
  <2> QED  BY <2>1
<1>2. s \in Down <=> s \notin Up
  BY DEF Channels, Down, Up, Strobe, Request
<1>3. ASSUME NEW t \in Channels \ {s} PROVE Quiet(sync'[t])
  <2>1. Quiet(sync[t]) /\ t \in Channels /\ (t \in Down \/ t \in Up)
    BY DEF Under, Channels
  <2>2. CASE PhyClk
    BY <1>1, <2>1, <2>2, ChannelStep DEF Moved, Kept
  <2>3. CASE Hclk /\ NothingSent
    BY <2>1, <2>3, ChannelStep DEF Moved, Kept, NothingSent
  <2>4. CASE Together /\ NothingSent
    BY <1>1, <2>1, <2>4, ChannelStep DEF Moved, NothingSent
  <2> QED  BY <2>2, <2>3, <2>4 DEF Next
<1>4. ASSUME PhyClk
      PROVE  (s \notin Down => Kept(sync[s], sync'[s])) /\ (s \in Down => Moved(sync[s], sync'[s]))
  BY <1>1, <1>2, <1>4, ChannelStep DEF Channels
<1>5. ASSUME Hclk, NothingSent
      PROVE  (s \in Down => Kept(sync[s], sync'[s])) /\ (s \notin Down => Moved(sync[s], sync'[s]))
  BY <1>2, <1>5, ChannelStep DEF Channels, NothingSent
<1>6. ASSUME Together, NothingSent
      PROVE  Moved(sync[s], sync'[s])
  BY <1>1, <1>2, <1>6, ChannelStep DEF Channels, NothingSent
<1>7. Hclk \/ Together => NothingSent
  BY OneEdge DEF CrossingTypeOK
<1> QED  BY <1>3, <1>4, <1>5, <1>6, <1>7

(* A request that has been seen is answered. *)
LEMMA AnswerSent ==
  ASSUME CrossingTypeOK, NEW s \in Request, Under(s), Seen(sync[s]), Next, PhyClk \/ NothingSent
  PROVE  /\ Hclk => /\ Seen(sync'[s]) /\ \A t \in Channels \ {s} : Quiet(sync'[t])
         /\ PhyClk \/ Together =>
                     /\ Sent(sync'[Answer(s)]) \/ Sampled(sync'[Answer(s)])
                     /\ \A t \in Channels \ {Answer(s)} : Quiet(sync'[t])
<1>0. s \in Down /\ s \in Channels /\ Answer(s) \in Up /\ Answer(s) \in Channels /\ Answer(s) # s
  BY DEF Channels, Down, Up, Request, Answer
<1>1. pulse(Answer(s))
  <2>1. Out(sync[s])
    BY <1>0, OutOf DEF CrossingTypeOK
  <2> QED  BY <2>1, PulseIs DEF done, Answer, Request
<1>2. ASSUME NEW t \in Up, t # Answer(s) PROVE ~pulse(t)
  <2>1. CASE pulse(t)
    <3>1. PICK r \in Request : t = Answer(r) /\ ~Quiet(sync[r])
      BY <2>1, UpPulses
    <3>2. r # s
      BY <1>2, <3>1
    <3> QED  BY <3>1, <3>2 DEF Under, Channels, Down
  <2> QED  BY <2>1
<1>3. s \in Down <=> s \notin Up
  BY DEF Channels, Down, Up, Strobe, Request
<1>4. \A t \in Channels \ {s} : Quiet(sync[t])
  BY DEF Under
<1>5. ASSUME Hclk, NothingSent
      PROVE  Seen(sync'[s]) /\ \A t \in Channels \ {s} : Quiet(sync'[t])
  <2>1. Seen(sync'[s])
    BY <1>0, <1>5, ChannelStep DEF NothingSent, Kept
  <2>2. ASSUME NEW t \in Channels \ {s} PROVE Quiet(sync'[t])
    BY <1>4, <1>5, ChannelStep DEF NothingSent, Kept, Moved, Channels
  <2> QED  BY <2>1, <2>2
<1>6. ASSUME PhyClk \/ (Together /\ NothingSent)
      PROVE  /\ Sent(sync'[Answer(s)]) \/ Sampled(sync'[Answer(s)])
             /\ \A t \in Channels \ {Answer(s)} : Quiet(sync'[t])
  <2>1. Sent(sync'[Answer(s)]) \/ Sampled(sync'[Answer(s)])
    BY <1>0, <1>1, <1>4, <1>6, ChannelStep
  <2>2. Quiet(sync'[s])
    BY <1>0, <1>6, ChannelStep DEF Moved, NothingSent
  <2>3. ASSUME NEW t \in Channels \ {s, Answer(s)} PROVE Quiet(sync'[t])
    <3>1. Quiet(sync[t]) /\ (t \in Up => ~pulse(t)) /\ (t \in Down \/ t \in Up)
      BY <1>2, <1>4 DEF Channels
    <3> QED  BY <1>6, <3>1, ChannelStep DEF Moved, Kept, NothingSent
  <2> QED  BY <2>1, <2>2, <2>3
<1>7. Hclk \/ Together => NothingSent
  BY OneEdge DEF CrossingTypeOK
<1> QED  BY <1>5, <1>6, <1>7

-----------------------------------------------------------------------------
(* The ring of the status turns as in UsbfBusSyncProofs. *)
LEMMA SameRing ==
  /\ Hclk => Ring!HclkRises /\ Ring!DstAlone /\ tx_active_q' = tx_active_q
  /\ PhyClk => Ring!PhyRises /\ Ring!SrcAlone
  /\ Together => Ring!BothRise /\ Ring!BothEdges
<1>1. Hclk => Ring!HclkRises /\ Ring!DstAlone /\ tx_active_q' = tx_active_q
  BY DEF Hclk, HclkRises, Ring!HclkRises, phyVars,
         Status!DstAlone, Status!DestEdge, Status!d2s_tgl_next, Status!data_out_en, Status!source,
         Ring!DstAlone, Ring!DestEdge, Ring!d2s_tgl_next, Ring!data_out_en, Ring!source
<1>2. PhyClk => Ring!PhyRises /\ Ring!SrcAlone
  BY DEF PhyClk, PhyRises, Ring!PhyRises,
         Status!SrcAlone, Status!SourceEdge, Status!s2d_tgl_next, Status!data_in_next,
         Status!data_in_en, Status!dest,
         Ring!SrcAlone, Ring!SourceEdge, Ring!s2d_tgl_next, Ring!data_in_next,
         Ring!data_in_en, Ring!dest
<1>3. Together => Ring!BothRise /\ Ring!BothEdges
  BY DEF Together, BothRise, Ring!BothRise, Status!BothEdges, Ring!BothEdges,
         Status!DestEdge, Status!d2s_tgl_next, Status!data_out_en,
         Ring!DestEdge, Ring!d2s_tgl_next, Ring!data_out_en,
         Status!SourceEdge, Status!s2d_tgl_next, Status!data_in_next, Status!data_in_en,
         Ring!SourceEdge, Ring!s2d_tgl_next, Ring!data_in_next, Ring!data_in_en
<1> QED  BY <1>1, <1>2, <1>3

LEMMA RingNext ==
  ASSUME CrossingTypeOK, Next
  PROVE  Ring!BusNext
<1>1. tx_active_q' \in BOOLEAN
  <2>1. tx_active_q \in BOOLEAN
    BY DEF CrossingTypeOK, Ring!TypeOK
  <2>2. CASE Hclk
    BY <2>1, <2>2, SameRing
  <2>3. CASE PhyEdge
    <3>1. tx_active_q' = FALSE \/ tx_active_q' = TRUE \/ tx_active_q' = tx_active_q
      BY <2>3 DEF PhyEdge
    <3> QED  BY <2>1, <3>1
  <2> QED  BY <2>2, <2>3 DEF Next, PhyClk, Together
<1> QED  BY <1>1, SameRing DEF Next, Ring!BusNext, Ring!SrcClock, Ring!DstClock, Ring!BothClocks

LEMMA RingTypeStep ==
  ASSUME CrossingTypeOK, Next
  PROVE  Ring!ClocksOK' /\ Ring!TypeOK'
<1>1. Ring!ClocksOK'
  BY SameRing, ClocksAssumption, Ring!ClocksStep DEF Next, CrossingTypeOK
<1>2. Ring!TypeOK'
  BY RingNext, ClocksAssumption, Ring!BusTypeStep DEF CrossingTypeOK
<1> QED  BY <1>1, <1>2

LEMMA SyncTypeStep ==
  ASSUME CrossingTypeOK, Next
  PROVE  sync' \in [Channels -> PulseSync]
<1> SUFFICES \A s \in Channels : sync'[s] \in PulseSync
  BY DEF Next, Hclk, PhyClk, Together, Sync, Channels
<1> TAKE s \in Channels
<1>1. sync[s] \in PulseSync /\ pulse(s) \in BOOLEAN
  BY PulseIsBoolean DEF CrossingTypeOK
<1> DEFINE new == SrcEdge(sync[s], pulse(s))
<1>2. new \in PulseSync
  BY <1>1, SrcEdgeFields
<1>3. ASSUME NEW p \in PulseSync, NEW q \in PulseSync
      PROVE  DstEdge(p, q.s_pulse2level_r) \in PulseSync
  BY DstEdgeFields DEF PulseSync
<1>4. CASE Hclk
  <2>1. sync'[s] = IF s \in Down THEN new ELSE DstEdge(sync[s], sync[s].s_pulse2level_r)
    BY <1>4 DEF Hclk, Sync, Channels
  <2> QED  BY <1>1, <1>2, <1>3, <2>1
<1>5. CASE PhyClk
  <2>1. \/ sync'[s] = new \/ sync'[s] = sync[s]
        \/ sync'[s] = DstEdge(sync[s], sync[s].s_pulse2level_r)
    BY <1>5 DEF PhyClk, Sync, Channels
  <2> QED  BY <1>1, <1>2, <1>3, <2>1
<1>6. CASE Together
  <2>1. PICK fresh : Sync(TRUE, TRUE, fresh)
    BY <1>6 DEF Together
  <2>2. \/ sync'[s] = DstEdge(new, new.s_pulse2level_r)
        \/ sync'[s] = DstEdge(new, sync[s].s_pulse2level_r)
    BY <2>1 DEF Sync, Channels
  <2> QED  BY <1>1, <1>2, <1>3, <2>2
<1> QED  BY <1>4, <1>5, <1>6 DEF Next

-----------------------------------------------------------------------------
(* The processor and its registers, for an edge of hclk. *)
Stays == phase' = phase /\ op' = op /\ readdata' = readdata /\ idle' = idle

(* At rest it begins an access or waits. *)
LEMMA AtRest ==
  ASSUME CrossingTypeOK, phase = "idle", ~wt_en_r, hready, NoStrobe, NEW rest, HclkEdge(rest)
  PROVE  /\ ~wt_en_r' /\ hready' /\ NoStrobe' /\ tx_len_r' = tx_len_r
         /\ \/ /\ idle = IDLE /\ idle' = idle /\ phase' = "address"
               /\ op' \in Ops
               /\ pending' = IF op'.kind = "sts" THEN rest ELSE Append(rest, op')
            \/ /\ phase' = "idle" /\ op' = op /\ readdata' = readdata /\ pending' = rest
               /\ idle' = IF idle < IDLE THEN idle + 1 ELSE IDLE
<1>1. /\ wt_ready_r /\ rd_ready_r
      /\ ~wt_en /\ ~rd_en
  BY DEF hready, wt_en, rd_en
<1>2. ~wt_en_r' /\ hready'
  BY <1>1 DEF HclkEdge, Ahb, hready
<1>3. NoStrobe' /\ tx_len_r' = tx_len_r
  BY DEF HclkEdge, Registers, strobe_next, NoStrobe
<1>4. Begins(rest) \/ Waits(rest)
  BY DEF HclkEdge, Continues
<1> QED  BY <1>2, <1>3, <1>4 DEF Begins, Waits

(* The address of an access. *)
LEMMA AtAddress ==
  ASSUME CrossingTypeOK, phase = "address", ~wt_en_r, hready, NoStrobe, AllQuiet,
         NEW rest, HclkEdge(rest)
  PROVE  /\ phase' = "data" /\ op' = op /\ idle' = idle /\ readdata' = readdata
         /\ pending' = rest /\ NoStrobe' /\ tx_len_r' = tx_len_r
         /\ wt_en_r' <=> op.kind \in Strobe \cup {"wt_req"}
         /\ wt_ready_r' <=> op.kind \notin Strobe \cup {"wt_req"}
         /\ rd_ready_r' <=> op.kind # "rd_req"
<1>1. op.kind \in Strobe \cup {"wt_req"} <=> op.kind \notin {"rd_req", "sts"}
  BY DEF CrossingTypeOK, Kinds, Down, Strobe, Request
<1>2. wt_ready_r /\ rd_ready_r /\ (wt_en <=> ~reads) /\ (rd_en <=> reads)
  BY DEF hready, wt_en, rd_en
<1>3. ~Out(sync["wt_ready"]) /\ ~Out(sync["rd_ready"])
  BY OutOf DEF AllQuiet, CrossingTypeOK, Channels, Up
<1>4. wt_en_r' <=> ~reads
  BY <1>2 DEF HclkEdge, Ahb
<1>5. wt_ready_r' <=> ~wt_en
  BY <1>2, <1>3 DEF HclkEdge, Ahb, wt_ready
<1>6. rd_ready_r' <=> (~rd_en \/ op.kind = "sts")
  BY <1>2, <1>3 DEF HclkEdge, Ahb, rd_ready, mem_access, Request, reads
<1>7. NoStrobe' /\ tx_len_r' = tx_len_r
  BY DEF HclkEdge, Registers, strobe_next, NoStrobe
<1>8. Continues(rest)
  BY DEF HclkEdge, Begins, Waits
<1>9. /\ phase' = "data" /\ op' = op /\ idle' = idle /\ readdata' = readdata
      /\ pending' = rest
  BY <1>8 DEF Continues
<1> QED  BY <1>1, <1>2, <1>4, <1>5, <1>6, <1>7, <1>9 DEF reads

(* The data of a write, in the first clock. *)
LEMMA AtWrite ==
  ASSUME CrossingTypeOK, Written, NEW rest, HclkEdge(rest)
  PROVE  /\ phase' = "data" /\ op' = op /\ idle' = idle /\ readdata' = readdata
         /\ pending' = rest /\ ~wt_en_r'
         /\ \A s \in Strobe : strobe_r'[s] <=> s = op.kind
         /\ op.kind = "tx_start" => tx_len_r' = op.val
         /\ wt_ready_r' <=> op.kind # "wt_req"
         /\ rd_ready_r'
<1>0. /\ phase = "data" /\ op.kind \in Strobe \cup {"wt_req"}
      /\ wt_en_r /\ ~wt_ready_r /\ rd_ready_r /\ AllQuiet
  BY DEF Written
<1>1. ~wt_en /\ ~rd_en /\ ~hready
  BY <1>0 DEF hready, wt_en, rd_en
<1>2. ~Out(sync["wt_ready"])
  BY <1>0, OutOf DEF AllQuiet, CrossingTypeOK, Channels, Up
<1>3. ~wt_en_r' /\ rd_ready_r'
  BY <1>0, <1>1 DEF HclkEdge, Ahb
<1>4. wt_ready_r' <=> op.kind # "wt_req"
  BY <1>0, <1>1, <1>2 DEF HclkEdge, Ahb, wt_ready, mem_access, Request, Strobe
<1>5. \A s \in Strobe : strobe_r'[s] <=> s = op.kind
  BY <1>0 DEF HclkEdge, Registers, strobe_next
<1>6. op.kind = "tx_start" => tx_len_r' = op.val
  BY <1>0 DEF HclkEdge, Registers
<1>7. Continues(rest)
  BY <1>0 DEF HclkEdge, Begins, Waits
<1>8. /\ phase' = "data" /\ op' = op /\ idle' = idle /\ readdata' = readdata
      /\ pending' = rest
  BY <1>0, <1>1, <1>7 DEF Continues
<1> QED  BY <1>3, <1>4, <1>5, <1>6, <1>8

(* The last clock of an access. *)
LEMMA AtReady ==
  ASSUME CrossingTypeOK, phase = "data", ~wt_en_r, hready, NEW rest, HclkEdge(rest)
  PROVE  /\ phase' = "idle" /\ op' = op /\ idle' = 0
         /\ readdata' = (IF reads THEN rdata ELSE readdata)
         /\ pending' = rest /\ ~wt_en_r' /\ hready' /\ NoStrobe' /\ tx_len_r' = tx_len_r
<1>1. wt_ready_r /\ rd_ready_r /\ ~wt_en /\ ~rd_en
  BY DEF hready, wt_en, rd_en
<1>2. ~wt_en_r' /\ hready'
  BY <1>1 DEF HclkEdge, Ahb, hready
<1>3. NoStrobe' /\ tx_len_r' = tx_len_r
  BY DEF HclkEdge, Registers, strobe_next, NoStrobe
<1>4. Continues(rest)
  BY DEF HclkEdge, Begins, Waits
<1> QED  BY <1>2, <1>3, <1>4 DEF Continues

(* Any other, that waits for the endpoint. *)
LEMMA AtHeld ==
  ASSUME CrossingTypeOK, Held, NEW rest, HclkEdge(rest)
  PROVE  /\ phase' = "data" /\ op' = op /\ idle' = idle /\ readdata' = readdata
         /\ pending' = rest /\ ~wt_en_r' /\ NoStrobe' /\ tx_len_r' = tx_len_r
         /\ IF done(Answer(op.kind)) THEN hready'
            ELSE (wt_ready_r' <=> op.kind # "wt_req") /\ (rd_ready_r' <=> op.kind # "rd_req")
<1>0. /\ phase = "data" /\ (op.kind = "rd_req" \/ op.kind = "wt_req") /\ ~wt_en_r
      /\ (wt_ready_r <=> op.kind # "wt_req") /\ (rd_ready_r <=> op.kind # "rd_req")
  BY DEF Held, Request
<1>1. ~wt_en /\ ~rd_en /\ ~hready
  BY <1>0 DEF hready, wt_en, rd_en
<1>2. ~wt_en_r'
  BY <1>1 DEF HclkEdge, Ahb
<1>3. ASSUME op.kind = "rd_req"
      PROVE  wt_ready_r' /\ (rd_ready_r' <=> done(Answer(op.kind)))
  BY <1>0, <1>1, <1>3 DEF HclkEdge, Ahb, rd_ready, mem_access, Request, done, Out, Answer
<1>4. ASSUME op.kind = "wt_req"
      PROVE  rd_ready_r' /\ (wt_ready_r' <=> done(Answer(op.kind)))
  BY <1>0, <1>1, <1>4 DEF HclkEdge, Ahb, wt_ready, mem_access, Request, done, Out, Answer
<1>5. NoStrobe' /\ tx_len_r' = tx_len_r
  BY <1>0 DEF HclkEdge, Registers, strobe_next, NoStrobe
<1>6. Continues(rest)
  BY <1>0 DEF HclkEdge, Begins, Waits
<1>7. /\ phase' = "data" /\ op' = op /\ idle' = idle /\ readdata' = readdata
      /\ pending' = rest
  BY <1>0, <1>1, <1>6 DEF Continues
<1>8. IF done(Answer(op.kind)) THEN hready'
      ELSE (wt_ready_r' <=> op.kind # "wt_req") /\ (rd_ready_r' <=> op.kind # "rd_req")
  BY <1>0, <1>3, <1>4 DEF hready
<1> QED  BY <1>2, <1>5, <1>7, <1>8

-----------------------------------------------------------------------------
(* What has been asked of the endpoint, when phy_clk rises. *)
LEMMA NothingDone ==
  ASSUME CrossingTypeOK, \A s \in Down : Quiet(sync[s]) \/ Sent(sync[s]) \/ Sampled(sync[s])
  PROVE  undone = pending /\ \A s \in Down : ~done(s)
<1>1. ASSUME NEW s \in Down PROVE ~done(s)
  BY OutOf DEF CrossingTypeOK, Channels, done
<1> QED  BY <1>1 DEF undone

LEMMA OneDone ==
  ASSUME CrossingTypeOK, NEW s \in Down, Seen(sync[s]), pending = <<op>>
  PROVE  undone = << >> /\ done(s)
<1>1. done(s)
  BY OutOf DEF CrossingTypeOK, Channels, done
<1>2. pending # << >> /\ Tail(pending) = << >>
  OBVIOUS
<1> QED  BY <1>1, <1>2 DEF undone

(* With nothing on its way phy_clk changes nothing here ... *)
LEMMA QuietPhy ==
  ASSUME CrossingTypeOK, AllQuiet, PhyClk
  PROVE  /\ AllQuiet' /\ UNCHANGED hclkVars /\ pending' = pending
         /\ rx_head' = rx_head /\ actual_rx_data_r' = actual_rx_data_r
<1>1. undone = pending /\ ~done("rd_req")
  BY NothingDone DEF AllQuiet, Channels, Down, Request
<1>2. AllQuiet'
  BY QuietStays DEF Next
<1> QED  BY <1>1, <1>2 DEF PhyClk, PhyEdge

(* ... and hclk what the processor does. *)
LEMMA QuietHclk ==
  ASSUME CrossingTypeOK, AllQuiet, Hclk \/ Together
  PROVE  /\ HclkEdge(pending)
         /\ rx_head' = rx_head /\ actual_rx_data_r' = actual_rx_data_r
<1>1. undone = pending /\ ~done("rd_req")
  BY NothingDone DEF AllQuiet, Channels, Down, Request
<1> QED  BY <1>1 DEF Hclk, Together, PhyEdge, phyVars

LEMMA SendsNothing ==
  ASSUME CrossingTypeOK, NoStrobe, wt_en_r => op.kind # "wt_req", rd_en => op.kind # "rd_req"
  PROVE  NothingSent
BY PulseIs DEF NothingSent, NoStrobe, Down, Request

LEMMA RestStep == CrossingTypeOK /\ Rest /\ Next => Rest' \/ Asked'
<1> SUFFICES ASSUME CrossingTypeOK, Rest, Next PROVE Rest' \/ Asked'
  OBVIOUS
<1>0. /\ phase = "idle" /\ ~wt_en_r /\ hready /\ NoStrobe /\ AllQuiet /\ pending = << >>
      /\ op.kind = "rd_req" => readdata = op.val
  BY DEF Rest
<1>1. AllQuiet'
  BY <1>0, SendsNothing, QuietStays DEF rd_en
<1>2. CASE PhyClk
  BY <1>0, <1>1, <1>2, QuietPhy DEF Rest, hclkVars, access, ahb, hready, NoStrobe
<1>3. CASE Hclk \/ Together
  <2>1. /\ HclkEdge(pending) /\ rx_head' = rx_head
    BY <1>0, <1>3, QuietHclk
  <2>2. ~wt_en_r' /\ hready' /\ NoStrobe'
    BY <1>0, <2>1, AtRest
  <2>3. ASSUME idle = IDLE, idle' = idle, phase' = "address", op' \in Ops,
               pending' = IF op'.kind = "sts" THEN pending ELSE Append(pending, op')
        PROVE  Asked'
    <3>1. op'.kind = "rd_req" => rx_head' = op'.val
      BY <2>1, <2>3 DEF Ops
    <3>2. pending' = IF op'.kind = "sts" THEN << >> ELSE <<op'>>
      BY <1>0, <2>3
    <3> QED  BY <1>1, <2>2, <2>3, <3>1, <3>2 DEF Asked
  <2>4. ASSUME phase' = "idle", op' = op, readdata' = readdata, pending' = pending
        PROVE  Rest'
    BY <1>0, <1>1, <2>2, <2>4 DEF Rest
  <2> QED  BY <1>0, <2>1, <2>3, <2>4, AtRest
<1> QED  BY <1>2, <1>3 DEF Next

LEMMA AskedStep == CrossingTypeOK /\ Asked /\ Next => Asked' \/ Written' \/ Requested' \/ Ending'
<1> SUFFICES ASSUME CrossingTypeOK, Asked, Next
             PROVE  Asked' \/ Written' \/ Requested' \/ Ending'
  OBVIOUS
<1>0. /\ phase = "address" /\ ~wt_en_r /\ hready /\ NoStrobe /\ AllQuiet
      /\ pending = (IF op.kind = "sts" THEN << >> ELSE <<op>>)
      /\ op.kind = "rd_req" => rx_head = op.val
  BY DEF Asked
<1>1. CASE PhyClk
  BY <1>0, <1>1, QuietPhy DEF Asked, hclkVars, access, ahb, hready, NoStrobe
<1>2. CASE Hclk \/ Together
  <2>1. /\ HclkEdge(pending)
        /\ rx_head' = rx_head /\ actual_rx_data_r' = actual_rx_data_r
    BY <1>0, <1>2, QuietHclk
  <2>2. /\ phase' = "data" /\ op' = op /\ pending' = pending /\ NoStrobe'
        /\ wt_en_r' <=> op.kind \in Strobe \cup {"wt_req"}
        /\ wt_ready_r' <=> op.kind \notin Strobe \cup {"wt_req"}
        /\ rd_ready_r' <=> op.kind # "rd_req"
    BY <1>0, <2>1, AtAddress
  <2>3. CASE op.kind \in Strobe \cup {"wt_req"}
    <3>1. ~rd_en /\ op.kind # "sts" /\ op.kind # "rd_req"
      BY <2>3 DEF rd_en, reads, Strobe
    <3>2. AllQuiet'
      BY <1>0, <3>1, SendsNothing, QuietStays
    <3> QED  BY <1>0, <2>2, <2>3, <3>1, <3>2 DEF Written
  <2>4. CASE op.kind = "sts"
    <3>1. AllQuiet'
      BY <1>0, <2>4, SendsNothing, QuietStays
    <3>2. op.kind \notin Strobe \cup {"wt_req"}
      BY <2>4 DEF Strobe
    <3> QED  BY <1>0, <2>2, <2>4, <3>1, <3>2 DEF Ending, hready
  <2>5. CASE op.kind = "rd_req"
    <3>1. pulse("rd_req") /\ \A t \in Down \ {"rd_req"} : ~pulse(t)
      BY <1>0, <2>5, PulseIs DEF rd_en, reads, Down, Request, NoStrobe
    <3>2. "rd_req" \in Down /\ "rd_req" \in Request
      BY DEF Down, Request
    <3>3. Under("rd_req")'
      BY <1>0, <1>2, <3>1, <3>2, PulseSent DEF Under
    <3>4. op.kind \notin Strobe \cup {"wt_req"}
      BY <2>5 DEF Strobe
    <3> QED  BY <1>0, <2>1, <2>2, <2>5, <3>2, <3>3, <3>4 DEF Requested, Held
  <2>6. op.kind \in Strobe \cup {"wt_req"} \/ op.kind = "sts" \/ op.kind = "rd_req"
    BY DEF CrossingTypeOK, Kinds, Down, Request
  <2> QED  BY <2>3, <2>4, <2>5, <2>6
<1> QED  BY <1>1, <1>2 DEF Next

LEMMA WrittenStep == CrossingTypeOK /\ Written /\ Next => Written' \/ Latched' \/ Requested'
<1> SUFFICES ASSUME CrossingTypeOK, Written, Next PROVE Written' \/ Latched' \/ Requested'
  OBVIOUS
<1>0. /\ phase = "data" /\ op.kind \in Strobe \cup {"wt_req"}
      /\ wt_en_r /\ ~wt_ready_r /\ rd_ready_r /\ NoStrobe
      /\ AllQuiet /\ pending = <<op>>
  BY DEF Written
<1>1. CASE PhyClk
  BY <1>0, <1>1, QuietPhy DEF Written, hclkVars, access, ahb, NoStrobe
<1>2. CASE Hclk \/ Together
  <2>1. HclkEdge(pending)
    BY <1>0, <1>2, QuietHclk
  <2>2. /\ phase' = "data" /\ op' = op /\ pending' = pending /\ ~wt_en_r'
        /\ \A s \in Strobe : strobe_r'[s] <=> s = op.kind
        /\ op.kind = "tx_start" => tx_len_r' = op.val
        /\ wt_ready_r' <=> op.kind # "wt_req"
        /\ rd_ready_r'
    BY <2>1, AtWrite
  <2>3. CASE op.kind \in Strobe
    <3>1. op.kind # "wt_req" /\ ~rd_en
      BY <1>0, <2>3 DEF Strobe, rd_en
    <3>2. AllQuiet'
      BY <1>0, <3>1, SendsNothing, QuietStays
    <3> QED  BY <1>0, <2>2, <2>3, <3>1, <3>2 DEF Latched, hready
  <2>4. CASE op.kind = "wt_req"
    <3>1. pulse("wt_req") /\ \A t \in Down \ {"wt_req"} : ~pulse(t)
      BY <1>0, <2>4, PulseIs DEF rd_en, Down, Request, NoStrobe
    <3>2. "wt_req" \in Down /\ "wt_req" \in Request
      BY DEF Down, Request
    <3>3. Under("wt_req")'
      BY <1>0, <1>2, <3>1, <3>2, PulseSent DEF Under
    <3>4. \A s \in Strobe : s # op.kind
      BY <2>4 DEF Strobe
    <3>5. NoStrobe'
      BY <2>2, <3>4 DEF NoStrobe
    <3> QED  BY <1>0, <2>2, <2>4, <3>2, <3>3, <3>5 DEF Requested, Held
  <2> QED  BY <1>0, <2>3, <2>4
<1> QED  BY <1>1, <1>2 DEF Next

LEMMA EndingStep == CrossingTypeOK /\ Ending /\ Next => Ending' \/ Rest'
<1> SUFFICES ASSUME CrossingTypeOK, Ending, Next PROVE Ending' \/ Rest'
  OBVIOUS
<1>0. /\ phase = "data" /\ op.kind \notin Strobe
      /\ ~wt_en_r /\ hready /\ NoStrobe /\ AllQuiet /\ pending = << >>
      /\ op.kind = "rd_req" => actual_rx_data_r = op.val
  BY DEF Ending
<1>1. CASE PhyClk
  BY <1>0, <1>1, QuietPhy DEF Ending, hclkVars, access, ahb, hready, NoStrobe
<1>2. CASE Hclk \/ Together
  <2>1. HclkEdge(pending)
    BY <1>0, <1>2, QuietHclk
  <2>2. /\ phase' = "idle" /\ op' = op
        /\ readdata' = (IF reads THEN rdata ELSE readdata)
        /\ pending' = pending /\ ~wt_en_r' /\ hready' /\ NoStrobe'
    BY <1>0, <2>1, AtReady
  <2>3. AllQuiet'
    BY <1>0, SendsNothing, QuietStays DEF rd_en
  <2>4. op.kind = "rd_req" => readdata' = op.val
    BY <1>0, <2>2 DEF reads, rdata
  <2> QED  BY <1>0, <2>2, <2>3, <2>4 DEF Rest
<1> QED  BY <1>1, <1>2 DEF Next

(* Each edge of hclk is one of those left, each of phy_clk takes one off. *)
LEMMA LeftIs ==
  ASSUME NEW s
  PROVE  /\ Sent(sync[s]) => Left(s) = Ring!Wait(3)
         /\ Sampled(sync[s]) => Left(s) = Ring!Wait(2)
         /\ Seen(sync[s]) => Left(s) = Ring!Wait(1)
         /\ Sent(sync'[s]) => Left(s)' = Ring!Wait(3)'
         /\ Sampled(sync'[s]) => Left(s)' = Ring!Wait(2)'
         /\ Seen(sync'[s]) => Left(s)' = Ring!Wait(1)'
BY DEF Left, Sent, Sampled, Seen

LEMMA WaitIsNat ==
  Ring!ClocksOK => /\ Ring!Wait(1) \in Nat /\ Ring!Wait(2) \in Nat /\ Ring!Wait(3) \in Nat
                   /\ Ring!Wait(1) >= 1 /\ Ring!Wait(2) >= 1 /\ Ring!Wait(3) >= 1
BY ClocksAssumption, Ring!WaitStep

LEMMA WaitIs ==
  ASSUME CrossingTypeOK, Next
  PROVE  /\ Hclk => /\ Ring!Wait(1)' + 1 <= Ring!Wait(1) /\ Ring!Wait(2)' + 1 <= Ring!Wait(2)
                    /\ Ring!Wait(3)' + 1 <= Ring!Wait(3) /\ Ring!Wait(3)' <= Ring!Round
         /\ PhyClk => Ring!Wait(2)' <= Ring!Wait(3) /\ Ring!Wait(1)' <= Ring!Wait(2)
         /\ Together => /\ Ring!Wait(2)' + 1 <= Ring!Wait(3) /\ Ring!Wait(1)' + 1 <= Ring!Wait(2)
                        /\ Ring!Wait(3)' <= Ring!Round
         /\ Ring!Wait(1) \in Nat /\ Ring!Wait(2) \in Nat /\ Ring!Wait(3) \in Nat
         /\ Ring!Wait(1) >= 1 /\ Ring!Wait(2) >= 1 /\ Ring!Wait(3) >= 1
         /\ Ring!Wait(3) <= Ring!Round + 1
         /\ Ring!Wait(1)' \in Nat /\ Ring!Wait(2)' \in Nat /\ Ring!Wait(3)' \in Nat
         /\ Ring!Wait(1)' >= 1 /\ Ring!Wait(2)' >= 1 /\ Ring!Wait(3)' >= 1
         /\ Ring!Round \in Nat
<1>1. Ring!ClocksOK'
  BY RingTypeStep
<1>2. Ring!ClocksOK' => (/\ Ring!Wait(1) \in Nat /\ Ring!Wait(2) \in Nat /\ Ring!Wait(3) \in Nat
                        /\ Ring!Wait(1) >= 1 /\ Ring!Wait(2) >= 1 /\ Ring!Wait(3) >= 1)'
  BY WaitIsNat, PTL
<1>3. Ring!Round \in Nat
  BY ClocksAssumption DEF Ring!Round, Ring!perPhy
<1> QED  BY <1>1, <1>2, <1>3, SameRing, ClocksAssumption, Ring!WaitStep DEF CrossingTypeOK

(* SMT does not calculate with primed variables; it finds these. *)
LEMMA Sums ==
  /\ \A a, b, c \in Nat : a + 1 <= b /\ b <= c + 1 => a <= c
  /\ \A a, b, c, d, e \in Nat : a + b <= e /\ c <= a + 1 /\ d + 1 <= b => c + d <= e
  /\ \A a, b, c, d, e \in Nat : a + b <= e /\ c <= a /\ d <= b => c + d <= e
  /\ \A a, b, e \in Nat : a = 0 /\ b <= e => a + b <= e
OBVIOUS

LEMMA LatchedStep == CrossingTypeOK /\ Latched /\ Next => Latched' \/ Strobing'
<1> SUFFICES ASSUME CrossingTypeOK, Latched, Next PROVE Latched' \/ Strobing'
  OBVIOUS
<1>0. /\ phase = "data" /\ op.kind \in Strobe
      /\ ~wt_en_r /\ hready /\ \A s \in Strobe : strobe_r[s] <=> s = op.kind
      /\ AllQuiet /\ pending = <<op>>
      /\ op.kind = "tx_start" => tx_len_r = op.val
  BY DEF Latched
<1>1. CASE PhyClk
  BY <1>0, <1>1, QuietPhy DEF Latched, hclkVars, access, ahb, hready
<1>2. CASE Hclk \/ Together
  <2>1. HclkEdge(pending)
    BY <1>0, <1>2, QuietHclk
  <2>2. /\ phase' = "idle" /\ op' = op /\ idle' = 0
        /\ pending' = pending /\ ~wt_en_r' /\ hready' /\ NoStrobe' /\ tx_len_r' = tx_len_r
    BY <1>0, <2>1, AtReady
  <2> PICK s : s = op.kind
    OBVIOUS
  <2>3. s \in Down /\ pulse(s) /\ \A t \in Down \ {s} : ~pulse(t)
    <3>1. s \in Down /\ s \notin Request
      BY <1>0 DEF Strobe, Down, Request
    <3>2. pulse(s)
      BY <1>0, PulseIs
    <3>3. ASSUME NEW t \in Down \ {s} PROVE ~pulse(t)
      <4>1. CASE t \in Strobe
        BY <1>0, <4>1, PulseIs
      <4>2. CASE t \in Request
        BY <1>0, <4>2, PulseIs DEF Request, rd_en
      <4> QED  BY <4>1, <4>2 DEF Down
    <3> QED  BY <3>1, <3>2, <3>3
  <2>4. /\ Sent(sync'[s]) \/ (Together /\ Sampled(sync'[s]))
        /\ \A t \in Channels \ {s} : Quiet(sync'[t])
    BY <1>0, <1>2, <2>3, PulseSent
  <2>5. Left(s)' <= Ring!Round
    <3>1. CASE Sent(sync'[s])
      BY <1>2, <3>1, LeftIs, WaitIs
    <3>2. CASE Together /\ Sampled(sync'[s])
      <4>1. Ring!Wait(2)' <= Ring!Round
        BY <3>2, WaitIs, Sums
      <4> QED  BY <3>2, <4>1, LeftIs
    <3> QED  BY <2>4, <3>1, <3>2
  <2>6. (idle + Left(s))' <= Ring!Round
    <3>1. Left(s)' \in Nat
      BY <2>4, LeftIs, WaitIs
    <3> QED  BY <2>2, <2>5, <3>1, WaitIs, Sums
  <2>7. Under(s)'
    BY <2>4 DEF Under
  <2> QED  BY <1>0, <2>2, <2>6, <2>7 DEF Strobing
<1> QED  BY <1>1, <1>2 DEF Next

LEMMA StrobingStep ==
  ASSUME QuietBetween, CrossingTypeOK, Strobing, Next
  PROVE  Strobing' \/ Rest' \/ Asked'
<1> PICK s : s = op.kind
  OBVIOUS
<1>0. /\ phase = "idle" /\ s \in Strobe
      /\ ~wt_en_r /\ hready /\ NoStrobe
      /\ Under(s) /\ pending = <<op>>
      /\ s = "tx_start" => tx_len_r = op.val
      /\ idle + Left(s) <= Ring!Round
  BY DEF Strobing
<1>1. s \in Down /\ s \in Channels /\ s \notin Request /\ s # "rd_req"
  BY <1>0 DEF Down, Channels, Strobe, Request
<1>2. NothingSent
  BY <1>0, SendsNothing DEF rd_en
<1>3. /\ \A t \in Channels \ {s} : Quiet(sync'[t])
      /\ Hclk => Kept(sync[s], sync'[s])
      /\ PhyClk \/ Together => Moved(sync[s], sync'[s])
  BY <1>0, <1>1, <1>2, UnderStep
<1>4. idle \in Nat /\ IDLE \in Nat /\ idle <= IDLE
  BY CrossingAssumption DEF CrossingTypeOK
<1>5. Left(s) \in Nat /\ Left(s) >= 1
  BY <1>0, LeftIs, WaitIs DEF Under
<1>6. ASSUME idle' = idle, Left(s)' <= Left(s), Left(s)' \in Nat
      PROVE  (idle + Left(s))' <= Ring!Round
  BY <1>0, <1>4, <1>5, <1>6, WaitIs, Sums
<1>7. ASSUME idle' = idle + 1, Left(s)' + 1 <= Left(s), Left(s)' \in Nat
      PROVE  (idle + Left(s))' <= Ring!Round
  <2>1. idle' \in Nat /\ idle' <= idle + 1
    BY <1>4, <1>7
  <2> QED  BY <1>0, <1>4, <1>5, <1>7, <2>1, WaitIs, Sums
<1>8. ASSUME Left(s)' + 1 <= Left(s), Left(s)' \in Nat, Left(s)' >= 1, NEW rest, HclkEdge(rest)
      PROVE  /\ ~wt_en_r' /\ hready' /\ NoStrobe' /\ tx_len_r' = tx_len_r
             /\ phase' = "idle" /\ op' = op /\ pending' = rest
             /\ idle' = idle + 1
  <2>1. Left(s) >= 2
    <3>1. \A m, n \in Nat : m >= 1 /\ m + 1 <= n => n >= 2
      OBVIOUS
    <3> QED  BY <1>5, <1>8, <3>1
  <2>2. idle < IDLE
    BY <1>0, <1>4, <1>5, <2>1, WaitIs DEF QuietBetween
  <2> QED  BY <1>0, <1>4, <1>8, <2>2, AtRest
<1>9. CASE Hclk
  <2>1. HclkEdge(pending)
    BY <1>9 DEF Hclk
  <2>2. Under(s)'
    BY <1>0, <1>3, <1>9 DEF Under, Kept
  <2>3. Left(s)' + 1 <= Left(s) /\ Left(s)' \in Nat /\ Left(s)' >= 1
    BY <1>0, <1>3, <1>9, LeftIs, WaitIs DEF Under, Kept
  <2> QED  BY <1>0, <1>7, <1>8, <1>9, <2>1, <2>2, <2>3 DEF Strobing
<1>10. CASE ~Seen(sync[s]) /\ (PhyClk \/ Together)
  <2>1. undone = pending
    <3>1. \A t \in Down : Quiet(sync[t]) \/ Sent(sync[t]) \/ Sampled(sync[t])
      BY <1>0, <1>10 DEF Under, Channels
    <3> QED  BY <3>1, NothingDone
  <2>2. Under(s)'
    BY <1>0, <1>3, <1>10 DEF Under, Moved
  <2>3. CASE PhyClk
    <3>1. Left(s)' <= Left(s) /\ Left(s)' \in Nat
      BY <1>0, <1>3, <1>10, <2>3, LeftIs, WaitIs DEF Under, Moved
    <3>2. UNCHANGED hclkVars /\ pending' = pending
      BY <2>1, <2>3 DEF PhyClk
    <3> QED
      BY <1>0, <1>6, <2>2, <3>1, <3>2 DEF Strobing, hclkVars, access, ahb, hready, NoStrobe
  <2>4. CASE Together
    <3>1. Left(s)' + 1 <= Left(s) /\ Left(s)' \in Nat /\ Left(s)' >= 1
      BY <1>0, <1>3, <1>10, <2>4, LeftIs, WaitIs DEF Under, Moved
    <3>2. HclkEdge(pending)
      BY <2>1, <2>4 DEF Together
    <3> QED  BY <1>0, <1>7, <1>8, <2>2, <2>4, <3>1, <3>2 DEF Strobing
  <2> QED  BY <1>10, <2>3, <2>4
<1>11. CASE Seen(sync[s]) /\ (PhyClk \/ Together)
  <2>1. undone = << >>
    BY <1>0, <1>1, <1>11, OneDone
  <2>2. AllQuiet'
    BY <1>3, <1>11 DEF AllQuiet, Moved
  <2>3. CASE PhyClk
    <3>1. UNCHANGED hclkVars /\ pending' = << >>
      BY <2>1, <2>3 DEF PhyClk
    <3> QED  BY <1>0, <1>1, <2>2, <3>1 DEF Rest, hclkVars, access, ahb, hready, NoStrobe
  <2>4. CASE Together
    <3>1. HclkEdge(<< >>) /\ rx_head' = rx_head
      <4>1. ~done("rd_req")
        BY <1>0, <1>1, OutOf DEF Under, done, CrossingTypeOK, Channels, Down, Request
      <4> QED  BY <2>1, <2>4, <4>1 DEF Together, PhyEdge
    <3>2. ~wt_en_r' /\ hready' /\ NoStrobe'
      BY <1>0, <3>1, AtRest
    <3>3. ASSUME phase' = "address", op' \in Ops,
                 pending' = IF op'.kind = "sts" THEN << >> ELSE Append(<< >>, op')
          PROVE  Asked'
      <4>1. op'.kind = "rd_req" => rx_head' = op'.val
        BY <3>1, <3>3 DEF Ops
      <4>2. pending' = IF op'.kind = "sts" THEN << >> ELSE <<op'>>
        BY <3>3
      <4> QED  BY <2>2, <3>2, <3>3, <4>1, <4>2 DEF Asked
    <3>4. ASSUME phase' = "idle", op' = op, pending' = << >> PROVE Rest'
      BY <1>0, <1>1, <2>2, <3>2, <3>4 DEF Rest
    <3> QED  BY <1>0, <3>1, <3>3, <3>4, AtRest
  <2> QED  BY <1>11, <2>3, <2>4
<1> QED  BY <1>9, <1>10, <1>11 DEF Next

LEMMA RequestedStep == CrossingTypeOK /\ Requested /\ Next => Requested' \/ Answered'
<1> SUFFICES ASSUME CrossingTypeOK, Requested, Next PROVE Requested' \/ Answered'
  OBVIOUS
<1> PICK r : r = op.kind
  OBVIOUS
<1>0. /\ Held /\ phase = "data" /\ r \in Request /\ ~wt_en_r /\ NoStrobe
      /\ Under(r) /\ pending = <<op>>
      /\ r = "rd_req" => rx_head = op.val
  BY DEF Requested, Held
<1>1. /\ r \in Down /\ r \in Channels /\ Answer(r) \in Up /\ Answer(r) \in Channels
      /\ Answer(r) # r
  BY <1>0 DEF Down, Channels, Up, Request, Answer
<1>2. NothingSent
  BY <1>0, SendsNothing DEF rd_en
<1>3. ~done(Answer(r))
  BY <1>0, <1>1, OutOf DEF Under, done, CrossingTypeOK
<1>4. ASSUME NEW rest, HclkEdge(rest)
      PROVE  Held' /\ op' = op /\ pending' = rest
  <2>1. /\ phase' = "data" /\ op' = op /\ pending' = rest /\ ~wt_en_r' /\ NoStrobe'
        /\ (wt_ready_r' <=> op.kind # "wt_req") /\ (rd_ready_r' <=> op.kind # "rd_req")
    BY <1>0, <1>3, <1>4, AtHeld
  <2> QED  BY <1>0, <2>1 DEF Held
<1>5. UNCHANGED hclkVars => Held' /\ op' = op
  BY <1>0 DEF Held, hclkVars, access, ahb, NoStrobe
<1>6. CASE ~Seen(sync[r])
  <2>1. undone = pending /\ \A s \in Down : ~done(s)
    <3>1. \A t \in Down : Quiet(sync[t]) \/ Sent(sync[t]) \/ Sampled(sync[t])
      BY <1>0, <1>6 DEF Under, Channels
    <3> QED  BY <3>1, NothingDone
  <2>2. ~done("rd_req")
    BY <2>1 DEF Down, Request
  <2>3. rx_head' = rx_head
    BY <2>2 DEF Next, Hclk, PhyClk, Together, PhyEdge, phyVars
  <2>4. Under(r)'
    <3>1. /\ \A t \in Channels \ {r} : Quiet(sync'[t])
          /\ Hclk => Kept(sync[r], sync'[r])
          /\ PhyClk \/ Together => Moved(sync[r], sync'[r])
      BY <1>0, <1>1, <1>2, <1>6, UnderStep
    <3> QED  BY <1>0, <1>6, <3>1 DEF Under, Kept, Moved, Next
  <2>5. Held' /\ op' = op /\ pending' = <<op>>
    BY <1>0, <1>4, <1>5, <2>1 DEF Next, Hclk, PhyClk, Together
  <2> QED  BY <1>0, <2>3, <2>4, <2>5 DEF Requested
<1>7. CASE Seen(sync[r])
  <2>1. undone = << >> /\ done(r)
    BY <1>0, <1>1, <1>7, OneDone
  <2>2. /\ Hclk => Seen(sync'[r]) /\ \A t \in Channels \ {r} : Quiet(sync'[t])
        /\ PhyClk \/ Together =>
              /\ Sent(sync'[Answer(r)]) \/ Sampled(sync'[Answer(r)])
              /\ \A t \in Channels \ {Answer(r)} : Quiet(sync'[t])
    BY <1>0, <1>2, <1>7, AnswerSent
  <2>3. CASE Hclk
    <3>1. Held' /\ op' = op /\ pending' = <<op>> /\ rx_head' = rx_head
      BY <1>0, <1>4, <2>3 DEF Hclk, phyVars
    <3> QED  BY <1>0, <2>2, <2>3, <3>1 DEF Requested, Under
  <2>4. CASE PhyClk \/ Together
    <3>1. Held' /\ op' = op /\ pending' = << >>
      BY <1>4, <1>5, <2>1, <2>4 DEF PhyClk, Together
    <3>2. r = "rd_req" => actual_rx_data_r' = op.val
      BY <1>0, <2>1, <2>4 DEF PhyClk, Together, PhyEdge
    <3>3. Under(Answer(r))'
      BY <2>2, <2>4 DEF Under
    <3> QED  BY <3>1, <3>2, <3>3 DEF Answered
  <2> QED  BY <2>3, <2>4 DEF Next
<1> QED  BY <1>6, <1>7

LEMMA AnsweredStep == CrossingTypeOK /\ Answered /\ Next => Answered' \/ Ending'
<1> SUFFICES ASSUME CrossingTypeOK, Answered, Next PROVE Answered' \/ Ending'
  OBVIOUS
<1> PICK r, a : r = op.kind /\ a = Answer(r)
  OBVIOUS
<1>0. /\ Held /\ phase = "data" /\ r \in Request /\ ~wt_en_r /\ NoStrobe
      /\ Under(a) /\ pending = << >>
      /\ r = "rd_req" => actual_rx_data_r = op.val
  BY DEF Answered, Held
<1>1. a \in Channels /\ a \notin Down /\ a \notin Request
  BY <1>0 DEF Down, Channels, Up, Request, Strobe, Answer
<1>2. NothingSent
  BY <1>0, SendsNothing DEF rd_en
<1>3. undone = pending /\ ~done("rd_req")
  <2>1. \A t \in Down : Quiet(sync[t])
    BY <1>0, <1>1 DEF Under, Channels
  <2> QED  BY <2>1, NothingDone DEF Down, Request
<1>4. actual_rx_data_r' = actual_rx_data_r
  BY <1>3 DEF Next, Hclk, PhyClk, Together, PhyEdge, phyVars
<1>5. /\ \A t \in Channels \ {a} : Quiet(sync'[t])
      /\ PhyClk => Kept(sync[a], sync'[a])
      /\ Hclk \/ Together => Moved(sync[a], sync'[a])
  BY <1>0, <1>1, <1>2, UnderStep
<1>6. CASE PhyClk
  <2>1. UNCHANGED hclkVars /\ pending' = << >>
    BY <1>0, <1>3, <1>6 DEF PhyClk
  <2>2. Held' /\ op' = op
    BY <1>0, <2>1 DEF Held, hclkVars, access, ahb, NoStrobe
  <2>3. Under(a)'
    BY <1>0, <1>5, <1>6 DEF Under, Kept
  <2> QED  BY <1>0, <1>4, <2>1, <2>2, <2>3 DEF Answered
<1>7. CASE Hclk \/ Together
  <2>1. HclkEdge(pending)
    BY <1>3, <1>7 DEF Hclk, Together
  <2>2. /\ phase' = "data" /\ op' = op /\ pending' = << >> /\ ~wt_en_r' /\ NoStrobe'
        /\ IF done(a) THEN hready'
           ELSE (wt_ready_r' <=> op.kind # "wt_req") /\ (rd_ready_r' <=> op.kind # "rd_req")
    BY <1>0, <2>1, AtHeld
  <2>3. CASE Seen(sync[a])
    <3>1. done(a)
      BY <1>1, <2>3, OutOf DEF done, CrossingTypeOK
    <3>2. AllQuiet'
      BY <1>5, <1>7, <2>3 DEF AllQuiet, Moved
    <3>3. r \notin Strobe
      BY <1>0 DEF Request, Strobe
    <3> QED  BY <1>0, <1>4, <2>2, <3>1, <3>2, <3>3 DEF Ending
  <2>4. CASE ~Seen(sync[a])
    <3>1. ~done(a)
      BY <1>0, <1>1, <2>4, OutOf DEF done, CrossingTypeOK, Under
    <3>2. Under(a)'
      BY <1>0, <1>5, <1>7, <2>4 DEF Under, Moved
    <3>3. Held'
      BY <1>0, <2>2, <3>1 DEF Held
    <3> QED  BY <1>0, <1>4, <2>2, <3>2, <3>3 DEF Answered
  <2> QED  BY <2>3, <2>4
<1> QED  BY <1>6, <1>7 DEF Next

-----------------------------------------------------------------------------
(* The registers keep their types, and an access goes from stage to stage. *)
LEMMA CrossingTypeStep == CrossingTypeOK /\ Next => CrossingTypeOK'
<1> SUFFICES ASSUME CrossingTypeOK, Next PROVE CrossingTypeOK'
  OBVIOUS
<1>0. /\ phase \in {"idle", "address", "data"} /\ idle \in 0 .. IDLE /\ op.kind \in Kinds
      /\ wt_en_r \in BOOLEAN /\ wt_ready_r \in BOOLEAN /\ rd_ready_r \in BOOLEAN
      /\ strobe_r \in [Strobe -> BOOLEAN] /\ IDLE \in Nat
  BY CrossingAssumption DEF CrossingTypeOK
<1>1. Ring!ClocksOK' /\ Ring!TypeOK' /\ sync' \in [Channels -> PulseSync]
  BY RingTypeStep, SyncTypeStep
<1>2. ASSUME NEW rest, HclkEdge(rest)
      PROVE  /\ phase' \in {"idle", "address", "data"} /\ idle' \in 0 .. IDLE
             /\ op'.kind \in Kinds
             /\ wt_en_r' \in BOOLEAN /\ wt_ready_r' \in BOOLEAN /\ rd_ready_r' \in BOOLEAN
             /\ strobe_r' \in [Strobe -> BOOLEAN]
  <2>1. \A o \in Ops : o.kind \in Kinds
    BY DEF Ops, Kinds, Down, Strobe, Request
  <2>2. Begins(rest) \/ Waits(rest) \/ Continues(rest)
    BY <1>2 DEF HclkEdge
  <2>3. phase' \in {"idle", "address", "data"} /\ op'.kind \in Kinds
    BY <1>0, <2>1, <2>2 DEF Begins, Waits, Continues
  <2>4. idle' \in 0 .. IDLE
    BY <1>0, <2>2 DEF Begins, Waits, Continues
  <2>5. wt_en_r' \in BOOLEAN /\ wt_ready_r' \in BOOLEAN /\ rd_ready_r' \in BOOLEAN
    BY <1>2 DEF HclkEdge, Ahb, wt_en
  <2>6. strobe_r' \in [Strobe -> BOOLEAN]
    BY <1>2 DEF HclkEdge, Registers, strobe_next
  <2> QED  BY <2>3, <2>4, <2>5, <2>6
<1>3. CASE Hclk \/ Together
  <2>1. PICK rest : HclkEdge(rest)
    BY <1>3 DEF Hclk, Together
  <2> QED  BY <1>1, <1>2, <2>1 DEF CrossingTypeOK
<1>4. CASE PhyClk
  BY <1>0, <1>1, <1>4 DEF CrossingTypeOK, PhyClk, hclkVars, access, ahb
<1> QED  BY <1>3, <1>4 DEF Next

LEMMA StagesStep ==
  ASSUME QuietBetween PROVE CrossingInv /\ Next => Stages'
BY RestStep, AskedStep, WrittenStep, LatchedStep, StrobingStep, RequestedStep, AnsweredStep,
   EndingStep DEF CrossingInv, Stages

LEMMA CrossingStutters == CrossingInv /\ UNCHANGED vars => CrossingInv'
<1> SUFFICES ASSUME CrossingInv, UNCHANGED vars PROVE CrossingInv'
  OBVIOUS
<1>1. /\ UNCHANGED clocks /\ UNCHANGED hclkVars /\ sync' = sync /\ UNCHANGED phyVars
      /\ UNCHANGED Status!source /\ UNCHANGED Status!dest /\ pending' = pending
  BY DEF vars
<1>2. CrossingTypeOK'
  BY <1>1 DEF CrossingInv, CrossingTypeOK, Ring!ClocksOK, Ring!TypeOK, clocks, hclkVars,
              access, ahb, phyVars, Status!source, Status!dest
<1>3. Stages'
  BY <1>1 DEF CrossingInv, Stages, Rest, Asked, Written, Latched, Strobing, Requested, Answered,
              Ending, Held, Left, Under, AllQuiet, hready, NoStrobe, Ring!Wait,
              clocks, hclkVars, access, ahb, phyVars
<1> QED  BY <1>2, <1>3 DEF CrossingInv

LEMMA CrossingInit == Init => CrossingInv
<1> SUFFICES ASSUME Init PROVE CrossingInv
  OBVIOUS
<1>1. Ring!ClocksOK
  BY ClocksAssumption DEF Init, ClocksInit, Ring!ClocksOK
<1>2. Ring!TypeOK
  BY DEF Init, Status!BusInit, Ring!TypeOK
<1>3. PulseSync0 \in PulseSync /\ Quiet(PulseSync0)
  BY DEF PulseSync0, PulseSync, Quiet
<1>4. sync \in [Channels -> PulseSync] /\ AllQuiet
  BY <1>3 DEF Init, Channels, AllQuiet
<1>5. CrossingTypeOK
  <2>1. phase = "idle" /\ op.kind = "sts" /\ idle = IDLE /\ IDLE \in Nat
    BY CrossingAssumption DEF Init
  <2>2. /\ wt_en_r \in BOOLEAN /\ wt_ready_r \in BOOLEAN /\ rd_ready_r \in BOOLEAN
        /\ strobe_r \in [Strobe -> BOOLEAN]
    BY DEF Init
  <2>3. idle \in 0 .. IDLE /\ op.kind \in Kinds
    BY <2>1 DEF Kinds
  <2> QED  BY <1>1, <1>2, <1>4, <2>1, <2>2, <2>3 DEF CrossingTypeOK
<1>6. Rest
  BY <1>4 DEF Init, Rest, hready, NoStrobe
<1> QED  BY <1>5, <1>6 DEF CrossingInv, Stages

LEMMA CrossingInvariant == ASSUME QuietBetween PROVE Spec => []CrossingInv
<1>1. CrossingInv /\ [Next]_vars => CrossingInv'
  BY CrossingTypeStep, StagesStep, CrossingStutters DEF CrossingInv
<1> QED  BY <1>1, CrossingInit, PTL DEF Spec

-----------------------------------------------------------------------------
(* What an edge of phy_clk tells the endpoint is the access under way.     *)
LEMMA OnlyTheAccess ==
  ASSUME CrossingInv, NEW s \in Down, done(s)
  PROVE  s = op.kind /\ Seen(sync[s]) /\ (Strobing \/ Requested)
<1>1. CrossingTypeOK /\ s \in Channels
  BY DEF CrossingInv, Channels
<1>2. ~Quiet(sync[s]) /\ ~Sent(sync[s]) /\ ~Sampled(sync[s])
  BY <1>1, OutOf DEF CrossingTypeOK, done
<1>3. ~AllQuiet
  BY <1>1, <1>2 DEF AllQuiet
<1>4. Strobing \/ Requested \/ Answered
  BY <1>3 DEF CrossingInv, Stages, Rest, Asked, Written, Latched, Ending
<1>5. ~Answered
  <2>1. ASSUME Answered PROVE Answer(op.kind) # s
    BY DEF Down, Strobe, Request, Answer
  <2> QED  BY <1>1, <1>2, <2>1 DEF Answered, Under
<1>6. Under(op.kind)
  BY <1>4, <1>5 DEF Strobing, Requested
<1> QED  BY <1>1, <1>2, <1>4, <1>5, <1>6 DEF Under

(* The endpoint is told each thing once, one at a time and in the order of *)
(* the accesses; the length and the byte, which cross without a            *)
(* synchroniser, are then those of the access and do not change            *)
(* (usbf_csr.v, usbf_biu.v, usbf_sync.v 218, 285).                         *)
THEOREM CrossingDoneInOrder == ASSUME QuietBetween PROVE Spec => DoneInOrder
<1> DEFINE Told(s) ==
       /\ pending # << >> /\ Head(pending).kind = s
       /\ s = "tx_start" => tx_len_r = Head(pending).val /\ tx_len_r' = tx_len_r
       /\ s = "wt_req"   => /\ phase = "data" /\ op = Head(pending)
                            /\ phase' = "data" /\ op' = op
<1>1. ASSUME CrossingInv, Next, phyRises, NEW s \in Down, done(s) PROVE Told(s)
  <2>1. s = op.kind /\ (Strobing \/ Requested)
    BY <1>1, OnlyTheAccess
  <2>2. CrossingTypeOK /\ (PhyClk \/ Together)
    BY <1>1, OneEdge DEF CrossingInv, CrossingTypeOK, Next
  <2>3. pending = <<op>>
    BY <2>1 DEF Strobing, Requested
  <2>4. pending # << >> /\ Head(pending) = op
    BY <2>3
  <2>5. CASE Strobing
    <3>1. tx_len_r' = tx_len_r
      <4>1. CASE PhyClk
        BY <4>1 DEF PhyClk, hclkVars
      <4>2. CASE Together
        BY <2>2, <2>5, <4>2, AtRest DEF Strobing, Together
      <4> QED  BY <2>2, <4>1, <4>2
    <3>2. s # "wt_req"
      BY <2>1, <2>5 DEF Strobing, Strobe
    <3> QED  BY <2>1, <2>4, <2>5, <3>1, <3>2 DEF Strobing
  <2>6. CASE Requested
    <3>1. phase = "data" /\ phase' = "data" /\ op' = op
      <4>1. Held /\ phase = "data"
        BY <2>6 DEF Requested, Held
      <4>2. CASE PhyClk
        BY <4>1, <4>2 DEF PhyClk, hclkVars, access
      <4>3. CASE Together
        BY <2>2, <4>1, <4>3, AtHeld DEF Together
      <4> QED  BY <2>2, <4>1, <4>2, <4>3
    <3>2. s # "tx_start"
      BY <2>1, <2>6 DEF Requested, Held, Request
    <3> QED  BY <2>1, <2>4, <3>1, <3>2
  <2> QED  BY <2>1, <2>5, <2>6
<1>2. CrossingInv /\ [Next]_vars
        => (phyRises => \A s \in Down : done(s) => Told(s)) \/ UNCHANGED vars
  BY <1>1
<1>3. CrossingInv /\ [Next]_vars => [phyRises => \A s \in Down : done(s) => Told(s)]_vars
  BY <1>2
<1> QED  BY <1>3, CrossingInvariant, PTL DEF Spec, DoneInOrder

(* A read or a write of the FIFO ends after it has been done               *)
(* (usbf_biu.v, usbf_sync.v).                                              *)
THEOREM CrossingDataIsDone == ASSUME QuietBetween PROVE Spec => []DataIsDone
<1>1. ASSUME CrossingInv, phase = "idle", NEW k \in DOMAIN pending
      PROVE  pending[k].kind \notin Request
  <2>1. Rest \/ Strobing
    BY <1>1 DEF CrossingInv, Stages, Asked, Written, Latched, Requested, Answered, Ending, Held
  <2>2. CASE Rest
    BY <1>1, <2>2 DEF Rest
  <2>3. CASE Strobing
    <3>1. pending[k] = op
      BY <1>1, <2>3 DEF Strobing
    <3> QED  BY <2>3, <3>1 DEF Strobing, Strobe, Request
  <2> QED  BY <2>1, <2>2, <2>3
<1>2. CrossingInv => DataIsDone
  BY <1>1 DEF DataIsDone
<1> QED  BY <1>2, CrossingInvariant, PTL

(* A read of the FIFO gives the byte that was the first when it began      *)
(* (usbf_sync.v 289-306, usbf_biu.v).                                      *)
THEOREM CrossingReadsHead == ASSUME QuietBetween PROVE Spec => []ReadsHead
<1>1. CrossingInv => ReadsHead
  BY DEF CrossingInv, Stages, Rest, Asked, Written, Latched, Strobing, Strobe, Requested,
         Answered, Ending, Held, ReadsHead
<1> QED  BY <1>1, CrossingInvariant, PTL

-----------------------------------------------------------------------------
(* The status.  An edge of hclk adds one to the age, no other adds to it;  *)
(* a strobe that is told the endpoint is young.                            *)
LEMMA AgeIs ==
  CrossingTypeOK => Age \in Nat /\ Ring!ToCome \in Nat /\ Ring!ToCome >= 1
                    /\ Ring!ToCome <= Ring!Bound /\ Ring!Round \in Nat /\ Ring!Bound \in Nat
<1> SUFFICES ASSUME CrossingTypeOK
             PROVE  Age \in Nat /\ Ring!ToCome \in Nat /\ Ring!ToCome >= 1
                    /\ Ring!ToCome <= Ring!Bound /\ Ring!Round \in Nat /\ Ring!Bound \in Nat
  OBVIOUS
<1>1. Age \in Nat
  BY CrossingAssumption DEF CrossingTypeOK, Age
<1>2. Ring!ToCome \in Nat /\ Ring!ToCome >= 1 /\ Ring!ToCome <= Ring!Bound
  BY ClocksAssumption, Ring!ToComeIsBounded DEF CrossingTypeOK
<1>3. Ring!Round \in Nat /\ Ring!Bound \in Nat
  BY ClocksAssumption DEF Ring!Round, Ring!perPhy, Ring!Bound
<1> QED  BY <1>1, <1>2, <1>3

LEMMA AgeGrows ==
  ASSUME CrossingTypeOK, Next
  PROVE  /\ Hclk \/ Together => Age' <= Age + 1
         /\ PhyClk => Age' = Age
<1>0. idle \in Nat /\ IDLE \in Nat /\ idle <= IDLE
  BY CrossingAssumption DEF CrossingTypeOK
<1>1. ASSUME NEW rest, HclkEdge(rest) PROVE Age' <= Age + 1
  <2>1. CASE Begins(rest)
    BY <1>0, <2>1 DEF Begins, Age
  <2>2. CASE Waits(rest)
    BY <1>0, <2>2 DEF Waits, Age
  <2>3. CASE Continues(rest)
    <3>1. op' = op /\ ((phase' = "idle" /\ idle' = 0) \/ (phase' = "data" /\ idle' = idle))
      BY <2>3 DEF Continues
    <3>2. phase # "idle"
      BY <2>3 DEF Continues
    <3>3. phase = "address" \/ phase = "data"
      BY <3>2 DEF CrossingTypeOK
    <3> QED  BY <1>0, <3>1, <3>3 DEF Age
  <2> QED  BY <1>1, <2>1, <2>2, <2>3 DEF HclkEdge
<1>2. PhyClk => Age' = Age
  BY DEF PhyClk, hclkVars, access, Age
<1> QED  BY <1>1, <1>2 DEF Hclk, Together

LEMMA StartIsYoung ==
  ASSUME CrossingInv, Next, tx_active_q', ~tx_active_q
  PROVE  (PhyClk \/ Together) /\ Age' <= Ring!Round
<1>1. CrossingTypeOK
  BY DEF CrossingInv
<1>2. PhyClk \/ Together
  BY SameRing DEF Next
<1>3. done("tx_start")
  BY <1>2 DEF PhyClk, Together, PhyEdge
<1>4. op.kind = "tx_start" /\ Strobing /\ Seen(sync["tx_start"])
  <2>1. "tx_start" \in Down /\ "tx_start" \notin Request
    BY DEF Down, Strobe, Request
  <2> QED  BY <1>3, <2>1, OnlyTheAccess DEF Requested, Held
<1>5. phase = "idle" /\ idle + Left("tx_start") <= Ring!Round
  BY <1>4 DEF Strobing
<1>6. idle \in Nat /\ Left("tx_start") \in Nat /\ Left("tx_start") >= 1 /\ Ring!Round \in Nat
  BY <1>1, <1>4, LeftIs, WaitIs, CrossingAssumption DEF CrossingTypeOK
<1>7. Age = idle /\ idle + 1 <= Ring!Round
  BY <1>5, <1>6 DEF Age
<1>8. CASE PhyClk
  BY <1>1, <1>6, <1>7, <1>8, AgeGrows
<1>9. CASE Together
  <2>1. Age' <= idle + 1
    BY <1>1, <1>7, <1>9, AgeGrows
  <2>2. Age' \in Nat
    <3>1. CrossingTypeOK' => (Age \in Nat)'
      BY AgeIs, PTL
    <3> QED  BY <1>1, <3>1, CrossingTypeStep
  <2>3. \A a, b, c \in Nat : a <= b + 1 /\ b + 1 <= c => a <= c
    OBVIOUS
  <2> QED  BY <1>2, <1>6, <1>7, <2>1, <2>2, <2>3
<1> QED  BY <1>2, <1>8, <1>9

(* While a packet is under way and the processor has still to see it.      *)
Nears == tx_active_q /\ ~Ring!Shown => Age + Ring!ToCome <= Ring!Round + Ring!Bound

RingAgrees == ~Ring!inFlight => tx_busy = data_in_r

LEMMA NearsStep ==
  ASSUME CrossingInv, CrossingInv', FreeInv, Next
  PROVE  RingAgrees' /\ Nears'
<1>0. /\ CrossingTypeOK /\ Ring!ClocksOK /\ Ring!TypeOK /\ Ring!RingBits /\ RingAgrees /\ Nears
  BY DEF CrossingInv, CrossingTypeOK, FreeInv, RingAgrees, Nears
<1>1. /\ Age \in Nat /\ Ring!ToCome \in Nat /\ Ring!Round \in Nat /\ Ring!Bound \in Nat
      /\ Ring!Round + Ring!Bound \in Nat
  BY <1>0, AgeIs
<1>2. Age' \in Nat /\ Ring!ToCome' \in Nat /\ Ring!ToCome' <= Ring!Bound
  <2>1. CrossingTypeOK' => (Age \in Nat /\ Ring!ToCome \in Nat /\ Ring!ToCome <= Ring!Bound)'
    BY AgeIs, PTL
  <2> QED  BY <2>1 DEF CrossingInv, Ring!Bound, Ring!Round, Ring!perPhy
<1>3. (Ring!Round + Ring!Bound)' = Ring!Round + Ring!Bound
  BY DEF Ring!Bound, Ring!Round, Ring!perPhy
<1>4. ASSUME tx_active_q', ~tx_active_q PROVE (Age + Ring!ToCome <= Ring!Round + Ring!Bound)'
  <2>1. Age' <= Ring!Round
    BY <1>4, StartIsYoung
  <2>2. \A a, b, c, d \in Nat : a <= c /\ b <= d => a + b <= c + d
    OBVIOUS
  <2> QED  BY <1>1, <1>2, <1>3, <2>1, <2>2
<1> DEFINE L == Ring!Round + Ring!Bound
<1>5. L \in Nat
  BY <1>1
<1>6. ASSUME tx_active_q, ~Ring!Shown, Age' <= Age + 1, Ring!ToCome' + 1 <= Ring!ToCome
      PROVE  Age' + Ring!ToCome' <= L
  <2>1. Age + Ring!ToCome <= L
    BY <1>0, <1>6 DEF Nears
  <2> HIDE DEF L
  <2> QED  BY <1>1, <1>2, <1>5, <1>6, <2>1, Sums
<1>7. ASSUME tx_active_q, ~Ring!Shown, Age' <= Age, Ring!ToCome' <= Ring!ToCome
      PROVE  Age' + Ring!ToCome' <= L
  <2>1. Age + Ring!ToCome <= L
    BY <1>0, <1>7 DEF Nears
  <2> HIDE DEF L
  <2>2. \A c, d \in Nat : c <= Age /\ d <= Ring!ToCome => c + d <= L
    BY <1>1, <1>5, <2>1
  <2> QED  BY <1>2, <1>7, <2>2
<1>8. Age' + Ring!ToCome' <= L => (Age + Ring!ToCome <= Ring!Round + Ring!Bound)'
  BY <1>3
<1> HIDE DEF L
<1>9. CASE Hclk
  <2>1. /\ RingAgrees'
        /\ Ring!Shown => Ring!Shown'
        /\ Ring!Shown' \/ Ring!ToCome' + 1 <= Ring!ToCome
    BY <1>0, <1>9, SameRing, ClocksAssumption, Ring!RingHclk DEF RingAgrees
  <2>2. Age' <= Age + 1 /\ tx_active_q' = tx_active_q
    BY <1>0, <1>9, AgeGrows, SameRing
  <2> QED  BY <1>6, <1>8, <2>1, <2>2 DEF Nears
<1>10. CASE PhyClk
  <2>1. /\ RingAgrees'
        /\ Ring!Shown /\ tx_active_q => Ring!Shown'
        /\ tx_active_q => Ring!Shown' \/ Ring!ToCome' <= Ring!ToCome
    BY <1>0, <1>10, SameRing, ClocksAssumption, Ring!RingPhy DEF RingAgrees
  <2>2. Age' <= Age
    BY <1>0, <1>1, <1>10, AgeGrows
  <2> QED  BY <1>4, <1>7, <1>8, <2>1, <2>2 DEF Nears
<1>11. CASE Together
  <2>1. /\ RingAgrees'
        /\ Ring!Shown /\ tx_active_q => Ring!Shown'
        /\ tx_active_q => Ring!Shown' \/ Ring!ToCome' + 1 <= Ring!ToCome
    BY <1>0, <1>11, SameRing, ClocksAssumption, Ring!RingBoth DEF RingAgrees
  <2>2. Age' <= Age + 1
    BY <1>0, <1>11, AgeGrows
  <2> QED  BY <1>4, <1>6, <1>8, <2>1, <2>2 DEF Nears
<1> QED  BY <1>9, <1>10, <1>11 DEF Next

(* From the strobe of the last packet to the access that reads the status  *)
(* there is the time for both to cross.                                    *)
FreeBetween == IDLE >= 2 * Ring!Round + 4

LEMMA FreeStep ==
  ASSUME FreeBetween, CrossingInv, CrossingInv', FreeInv, Next
  PROVE  FreeIsFree'
<1> SUFFICES ASSUME phase' = "idle", op'.kind = "sts", readdata' = FALSE
             PROVE  ~tx_active_q' /\ \A k \in DOMAIN pending' : pending'[k].kind # "tx_start"
  BY DEF FreeIsFree
<1>0. CrossingTypeOK /\ Nears
  BY DEF CrossingInv, FreeInv, Nears
<1>1. Rest'
  <2>1. op'.kind \notin Strobe
    BY DEF Strobe
  <2> QED  BY <2>1 DEF CrossingInv, Stages, Rest, Asked, Written, Latched, Strobing, Requested,
                       Answered, Ending, Held
<1>2. \A k \in DOMAIN pending' : pending'[k].kind # "tx_start"
  BY <1>1 DEF Rest
<1>3. op' = op /\ (phase = "idle" \/ phase = "data")
  <2>1. CASE PhyClk
    BY <2>1 DEF PhyClk, hclkVars, access
  <2>2. CASE Hclk \/ Together
    <3>1. PICK rest : Waits(rest) \/ Continues(rest)
      BY <2>2 DEF Hclk, Together, HclkEdge, Begins
    <3> QED  BY <3>1 DEF Waits, Continues
  <2> QED  BY <2>1, <2>2 DEF Next
<1>4. tx_active_q' => tx_active_q
  <2>1. ASSUME tx_active_q', ~tx_active_q PROVE FALSE
    <3>1. done("tx_start") /\ "tx_start" \in Down
      BY <2>1, SameRing DEF Next, PhyClk, Together, PhyEdge, Down, Strobe
    <3>2. op.kind = "tx_start"
      BY <3>1, OnlyTheAccess
    <3> QED  BY <1>3, <3>2
  <2> QED  BY <2>1
<1>5. CASE phase = "idle"
  <2>1. readdata' = readdata
    <3>1. CASE PhyClk
      BY <3>1 DEF PhyClk, hclkVars, access
    <3>2. CASE Hclk \/ Together
      BY <1>5, <3>2 DEF Hclk, Together, HclkEdge, Begins, Waits, Continues
    <3> QED  BY <3>1, <3>2 DEF Next
  <2>2. ~tx_active_q
    BY <1>3, <1>5, <2>1 DEF FreeInv, FreeIsFree
  <2> QED  BY <1>2, <1>4, <2>2
<1>6. CASE phase = "data"
  <2>1. readdata' = tx_busy
    <3>1. ~PhyClk
      BY <1>6 DEF PhyClk, hclkVars, access
    <3>2. PICK rest : Continues(rest)
      BY <1>6, <3>1 DEF Next, Hclk, Together, HclkEdge, Begins, Waits
    <3> QED  BY <1>3, <3>2 DEF Continues, reads, rdata
  <2>2. ~Ring!Shown
    BY <2>1 DEF Ring!Shown
  <2>3. ~(Age + Ring!ToCome <= Ring!Round + Ring!Bound)
    <3>1. Age = IDLE + 2 /\ IDLE \in Nat
      BY <1>3, <1>6, CrossingAssumption DEF Age
    <3> QED  BY <1>0, <3>1, AgeIs DEF FreeBetween, Ring!Bound
  <2> QED  BY <1>0, <1>2, <1>4, <2>2, <2>3 DEF Nears
<1> QED  BY <1>3, <1>5, <1>6

(* What reads as not busy is not: neither is a packet under way nor the    *)
(* start of one (usbf_sync.v 222-242, usbf_csr.v, openusb_common.c         *)
(* 181-203), if the processor leaves the two the time to cross.            *)
THEOREM CrossingFreeIsFree == ASSUME FreeBetween PROVE Spec => []FreeIsFree
<1>1. QuietBetween
  BY ClocksAssumption, CrossingAssumption
     DEF FreeBetween, QuietBetween, Ring!Round, Ring!perPhy
<1>2. Init => FreeInv
  <2>1. Init => Ring!RingBits /\ RingAgrees /\ ~tx_active_q
    BY DEF Init, Status!BusInit, Ring!RingBits, Ring!Bits, RingAgrees
  <2>2. Init => FreeIsFree
    BY DEF Init, FreeIsFree
  <2> QED  BY <2>1, <2>2 DEF FreeInv, RingAgrees
<1>3. CrossingInv /\ CrossingInv' /\ FreeInv /\ Next => FreeInv'
  <2> SUFFICES ASSUME CrossingInv, CrossingInv', FreeInv, Next PROVE FreeInv'
    OBVIOUS
  <2>1. Ring!RingBits'
    BY RingNext, ClocksAssumption, Ring!BusRingStep DEF CrossingInv, CrossingTypeOK, FreeInv
  <2>2. RingAgrees' /\ Nears' /\ FreeIsFree'
    BY NearsStep, FreeStep
  <2> QED  BY <2>1, <2>2 DEF FreeInv, RingAgrees, Nears
<1>4. FreeInv /\ UNCHANGED vars => FreeInv'
  BY DEF FreeInv, vars, clocks, hclkVars, access, phyVars, Status!source, Status!dest,
         FreeIsFree, Age, Ring!RingBits, Ring!inFlight, Ring!Shown, Ring!ToCome, Ring!Wait
<1>5. FreeInv => FreeIsFree
  BY DEF FreeInv
<1> QED  BY <1>1, <1>2, <1>3, <1>4, <1>5, CrossingInvariant, PTL DEF Spec
=============================================================================
