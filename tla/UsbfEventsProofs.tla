-------------------------- MODULE UsbfEventsProofs --------------------------
(***************************************************************************)
(* An event and its status reach the processor at any pace of the two      *)
(* clocks, under two hypotheses that a reader can hold against the chip:   *)
(*   - between two events there are more than three times as many edges of *)
(*     phy_clk as there may be in one period of hclk (SpacedOut);          *)
(*   - an event is set for an odd number of clocks (OddWidths), as most of *)
(*     the core are: one, or three for rx_ready of a packet with data.  Two*)
(*     are not: rx_ready of an empty packet is set for two clocks, and the *)
(*     reset of the bus for as long as it lasts, which may be even.  These *)
(*     the theorems about OddWidths do not cover: an even one may be lost. *)
(* The first is exact.  Then EventsInv is inductive, and says how old a    *)
(* level may be that has not crossed and how many changes of level are     *)
(* still to come.  StatusInv, on top of it, weighs the way that the status *)
(* still has against the time since the event began.                       *)
(***************************************************************************)
EXTENDS UsbfEvents, UsbfBusSyncProofs, UsbfPulseSyncProofs

-----------------------------------------------------------------------------
(* The status crosses as UsbfBusSync says: that there is an event beside   *)
(* it changes nothing.                                                     *)
LEMMA EventsImplementBus == Spec => BusSpec
<1>1. Init => BusInit
  BY DEF Init
<1>2. TypeOK /\ [Next]_vars => [BusNext]_busVars
  <2> SUFFICES ASSUME TypeOK, [Next]_vars PROVE [BusNext]_busVars
    OBVIOUS
  <2>1. CASE Hclk
    BY <2>1 DEF Hclk, BusNext, DstClock
  <2>2. ASSUME Core PROVE din' \in Data
    <3>1. din' \in {TRUE, FALSE, din}
      BY <2>2 DEF Core
    <3> QED  BY <3>1, EventsAssumption DEF TypeOK
  <2>3. CASE PhyClk
    BY <2>2, <2>3 DEF PhyClk, BusNext, SrcClock
  <2>4. CASE Together
    BY <2>2, <2>4 DEF Together, BusNext, BothClocks
  <2>5. CASE UNCHANGED vars
    BY <2>5 DEF vars
  <2> QED  BY <2>1, <2>3, <2>4, <2>5 DEF Next
<1>3. BusInit => TypeOK
  BY BusInvInit DEF BusInv
<1>4. TypeOK /\ [BusNext]_busVars => TypeOK'
  BY BusTypeStep
<1> QED  BY <1>1, <1>2, <1>3, <1>4, PTL DEF Spec, BusSpec

(* Request and acknowledgement are never both under way. *)
THEOREM EventsOneChange == Spec => []OneChange
BY EventsImplementBus, BusOneChange

(* The processor reads whole values of the status, in their order. *)
THEOREM EventsImplementSnapshot == Spec => ImplementsSnapshot
BY EventsImplementBus, BusImplementsSnapshot

-----------------------------------------------------------------------------
(* The synchroniser of the event, in an invariant of three parts.  The     *)
(* types; the ages: after an event its levels are equal from `sync' on as  *)
(* far as hclk has had time to take them over; and the count: of the level *)
(* changes that an event makes, in each clock one, those that are still    *)
(* under way and those the register file was told of are no more, and      *)
(* while it was told of none the end of the synchroniser has the level     *)
(* from before the event.                                                  *)
made   == sync.s_pulse2level_r
first  == sync.d_sample_r
second == sync.d_sync2_r
third  == sync.d_sync3_r

Settled == made = first /\ first = second /\ second = third

EventsTypeOK ==
  /\ ClocksOK
  /\ lasts \in Nat /\ since \in 0 .. GAP /\ width \in {0} \cup WIDTH
  /\ lasts <= width /\ (lasts > 0 => since = 0)
  /\ sync \in PulseSync /\ told \in Nat /\ late \in 0 .. LATE
  /\ din \in BOOLEAN

Ages ==
  /\ width = 0 => Settled /\ told = 0
  /\ lasts = 0 /\ width > 0 =>
       /\ first # made => since <= pedges + 1
       /\ second # made => since <= pedges + 1 + PMAX
       /\ third # made => since <= pedges + 1 + 2 * PMAX

Counted ==
  told + bit(made # first) + bit(first # second) + bit(second # third) + lasts <= width

Untold == told = 0 => (made # third <=> width % 2 # lasts % 2)

EventsInv == EventsTypeOK /\ Ages /\ Counted /\ Untold

(* An edge of hclk or of phy_clk, or both, for the four levels. *)
LEMMA LevelsStep ==
  ASSUME EventsTypeOK
  PROVE  /\ Hclk => /\ sync' \in PulseSync /\ made' = made
                    /\ first' = made /\ second' = first /\ third' = second
         /\ PhyClk => /\ sync' \in PulseSync /\ made' = (IF intr_set THEN ~made ELSE made)
                      /\ first' = first /\ second' = second /\ third' = third
         /\ Together => /\ sync' \in PulseSync /\ made' = (IF intr_set THEN ~made ELSE made)
                        /\ first' = made \/ first' = made'
                        /\ second' = first /\ third' = second
<1>1. /\ sync \in PulseSync
      /\ made \in BOOLEAN /\ first \in BOOLEAN /\ second \in BOOLEAN /\ third \in BOOLEAN
  BY DEF EventsTypeOK, PulseSync, made, first, second, third
<1>2. intr_set \in BOOLEAN
  BY DEF intr_set
<1> USE DEF made, first, second, third
<1>3. ASSUME Hclk
      PROVE  /\ sync' \in PulseSync /\ made' = made
             /\ first' = made /\ second' = first /\ third' = second
  BY <1>1, <1>3, DstEdgeFields DEF Hclk
<1>4. ASSUME PhyClk
      PROVE  /\ sync' \in PulseSync /\ made' = (IF intr_set THEN ~made ELSE made)
             /\ first' = first /\ second' = second /\ third' = third
  BY <1>1, <1>2, <1>4, SrcEdgeFields DEF PhyClk
<1>5. ASSUME Together
      PROVE  /\ sync' \in PulseSync /\ made' = (IF intr_set THEN ~made ELSE made)
             /\ first' = made \/ first' = made'
             /\ second' = first /\ third' = second
  <2> DEFINE new == SrcEdge(sync, intr_set)
  <2>1. /\ new \in PulseSync
        /\ new.s_pulse2level_r = (IF intr_set THEN ~made ELSE made)
        /\ new.d_sample_r = first /\ new.d_sync2_r = second /\ new.d_sync3_r = third
    BY <1>1, <1>2, SrcEdgeFields
  <2>2. PICK p \in {sync, new} : sync' = DstEdge(new, p.s_pulse2level_r)
    BY <1>5 DEF Together
  <2> HIDE DEF new
  <2>3. /\ p.s_pulse2level_r = made \/ p.s_pulse2level_r = new.s_pulse2level_r
        /\ p.s_pulse2level_r \in BOOLEAN
    BY <1>1, <2>1, <2>2 DEF PulseSync
  <2>4. /\ sync' \in PulseSync /\ sync'.s_pulse2level_r = new.s_pulse2level_r
        /\ sync'.d_sample_r = p.s_pulse2level_r
        /\ sync'.d_sync2_r = new.d_sample_r /\ sync'.d_sync3_r = new.d_sync2_r
    BY <2>1, <2>2, <2>3, DstEdgeFields
  <2> QED  BY <2>1, <2>3, <2>4
<1> QED  BY <1>3, <1>4, <1>5, Zenon

LEMMA EventsTypeInit == Init => EventsTypeOK
<1> SUFFICES ASSUME Init PROVE EventsTypeOK
  OBVIOUS
<1>1. ClocksOK
  BY ClocksInitOK DEF Init
<1>2. sync \in PulseSync
  BY DEF Init, PulseSync, PulseSync0
<1>3. since \in 0 .. GAP /\ late \in 0 .. LATE
  BY EventsAssumption DEF Init
<1>4. din \in BOOLEAN
  BY DEF Init
<1>5. /\ lasts \in Nat /\ width \in {0} \cup WIDTH /\ lasts <= width
      /\ (lasts > 0 => since = 0) /\ told \in Nat
  BY DEF Init
<1> QED  BY <1>1, <1>2, <1>3, <1>4, <1>5 DEF EventsTypeOK

(* In the core an event begins, goes on, or there is none. *)
LEMMA CoreStep ==
  ASSUME EventsTypeOK, Core
  PROVE  /\ lasts' \in Nat /\ since' \in 0 .. GAP /\ width' \in {0} \cup WIDTH
         /\ lasts' <= width' /\ (lasts' > 0 => since' = 0)
         /\ din' \in BOOLEAN
         /\ begins => /\ lasts = 0 /\ lasts' \in WIDTH /\ width' = lasts'
                      /\ since = GAP /\ ~din /\ din'
         /\ ~begins /\ lasts > 0 => /\ width' = width /\ lasts' = lasts - 1
                                   /\ since' \in {0, 1} /\ din' = din
         /\ ~begins /\ lasts = 0 => /\ width' = width /\ lasts' = 0
                                   /\ since' <= since + 1 /\ (din' => din)
<1>0. width \in Nat
  BY EventsAssumption DEF EventsTypeOK
<1>d. din \in BOOLEAN
  BY DEF EventsTypeOK
<1>t. lasts \in Nat /\ since \in 0 .. GAP /\ width \in {0} \cup WIDTH /\ lasts <= width
      /\ (lasts > 0 => since = 0) /\ GAP \in Nat \ {0} /\ WIDTH \subseteq Nat \ {0}
  BY EventsAssumption DEF EventsTypeOK
<1> USE <1>t
<1>1. CASE lasts > 0
  <2>1. lasts' = lasts - 1 /\ width' = width /\ din' = din /\ ~begins
    BY <1>1 DEF Core, begins, intr_set
  <2>2. since' \in {0, 1} /\ (lasts' > 0 => since' = 0)
    BY <1>1 DEF Core
  <2> QED  BY <1>0, <1>d, <1>1, <2>1, <2>2
<1>2. CASE lasts = 0 /\ lasts' > 0
  <2>1. lasts' \in WIDTH /\ since = GAP /\ ~din
    BY <1>2 DEF Core, intr_set
  <2>2. begins /\ width' = lasts' /\ since' = 0
    BY <1>2 DEF Core, begins, intr_set
  <2>3. din' = TRUE
    BY <2>2 DEF Core
  <2> QED  BY <1>2, <2>1, <2>2, <2>3
<1>3. CASE lasts = 0 /\ ~(lasts' > 0)
  <2>1. ~begins /\ lasts' = 0
    BY <1>3 DEF Core, begins, intr_set
  <2>2. width' = width /\ since' = IF since < GAP THEN since + 1 ELSE GAP
    BY <1>3, <2>1 DEF Core
  <2>3. din' = din \/ din' = FALSE
    BY <1>3, <2>1 DEF Core, intr_set
  <2>4. din' \in BOOLEAN /\ (din' => din)
    <3>1. CASE din' = din
      BY <1>d, <3>1
    <3>2. CASE din' = FALSE
      BY <3>2
    <3> QED  BY <2>3, <3>1, <3>2
  <2>5. since' \in 0 .. GAP /\ since' <= since + 1
    BY <2>2
  <2>6. lasts = 0 /\ lasts' <= width' /\ width' \in {0} \cup WIDTH
    BY <1>0, <1>3, <2>1, <2>2
  <2>7. lasts' \in Nat /\ ~(lasts' > 0)
    BY <1>3, <2>1
  <2> QED  BY <2>1, <2>2, <2>4, <2>5, <2>6, <2>7, Zenon
<1>4. lasts > 0 \/ (lasts = 0 /\ lasts' > 0) \/ (lasts = 0 /\ ~(lasts' > 0))
  OBVIOUS
<1> QED  BY <1>1, <1>2, <1>3, <1>4, Zenon

(* The register file takes what comes out of the synchroniser. *)
LEMMA RegisterStep ==
  ASSUME EventsTypeOK, Register
  PROVE  /\ told' \in Nat /\ late' \in 0 .. LATE
         /\ begins => told' = 0 /\ late' = 0
         /\ ~begins => /\ told' = told + bit(second # third)
                       /\ late' = IF told = 0 THEN 0 ELSE IF late < LATE THEN late + 1 ELSE LATE
BY EventsAssumption DEF EventsTypeOK, Register, bit, Out, second, third

LEMMA EventsTypeStep == EventsTypeOK /\ [Next]_vars => EventsTypeOK'
<1> SUFFICES ASSUME EventsTypeOK, [Next]_vars PROVE EventsTypeOK'
  OBVIOUS
<1>0. sync' \in PulseSync
  <2>1. CASE UNCHANGED vars
    BY <2>1 DEF vars, EventsTypeOK
  <2> QED  BY <2>1, LevelsStep DEF Next
<1>1. CASE Hclk
  <2>1. lasts' = lasts /\ since' = since /\ width' = width /\ din' = din
    BY <1>1 DEF Hclk, event
  <2>2. ClocksOK'
    BY <1>1, ClocksStep DEF Hclk, EventsTypeOK
  <2> QED  BY <1>0, <1>1, <2>1, <2>2, RegisterStep DEF Hclk, EventsTypeOK
<1>2. CASE PhyClk
  <2>1. ClocksOK'
    BY <1>2, ClocksStep DEF PhyClk, EventsTypeOK
  <2>2. told' \in Nat /\ late' \in 0 .. LATE
    BY <1>2, EventsAssumption DEF PhyClk, Forgotten, register, EventsTypeOK
  <2>3. lasts' <= width' /\ (lasts' > 0 => since' = 0)
    BY <1>2, CoreStep DEF PhyClk
  <2> QED  BY <1>0, <1>2, <2>1, <2>2, <2>3, CoreStep DEF PhyClk, EventsTypeOK
<1>3. CASE Together
  <2>1. ClocksOK'
    BY <1>3, ClocksStep DEF Together, EventsTypeOK
  <2>2. lasts' <= width' /\ (lasts' > 0 => since' = 0)
    BY <1>3, CoreStep DEF Together
  <2>3. told' \in Nat /\ late' \in 0 .. LATE
    BY <1>3, RegisterStep DEF Together
  <2> QED  BY <1>0, <1>3, <2>1, <2>2, <2>3, CoreStep DEF Together, EventsTypeOK
<1>4. CASE UNCHANGED vars
  BY <1>4 DEF vars, clocks, event, register, busVars, EventsTypeOK, ClocksOK
<1> QED  BY <1>1, <1>2, <1>3, <1>4 DEF Next

(* Before the next event may begin the levels are equal. *)
SpacedOut == GAP > 3 * PMAX

LEMMA QuietBefore ==
  ASSUME SpacedOut, EventsTypeOK, Ages, lasts = 0, since = GAP, pedges < PMAX
  PROVE  Settled
<1>1. /\ since \in Nat /\ pedges \in Nat /\ PMAX \in Nat /\ GAP \in Nat /\ width \in Nat
  BY ClocksAssumption, EventsAssumption DEF EventsTypeOK, ClocksOK
<1>2. since > pedges + 1 + 2 * PMAX
  BY <1>1 DEF SpacedOut
<1>3. since > pedges + 1 + PMAX /\ since > pedges + 1
  BY <1>1, <1>2
<1> QED  BY <1>1, <1>2, <1>3 DEF Ages, Settled

LEMMA LevelsAreBits ==
  ASSUME EventsTypeOK
  PROVE  /\ made \in BOOLEAN /\ first \in BOOLEAN /\ second \in BOOLEAN /\ third \in BOOLEAN
         /\ told \in Nat /\ width \in Nat /\ lasts \in Nat /\ lasts <= width
         /\ since \in Nat /\ pedges \in Nat /\ pedges <= PMAX
BY ClocksAssumption, EventsAssumption
   DEF EventsTypeOK, ClocksOK, PulseSync, made, first, second, third

LEMMA EventsStep ==
  ASSUME SpacedOut, EventsInv, [Next]_vars
  PROVE  Ages' /\ Counted' /\ Untold'
<1>0. EventsTypeOK /\ Ages /\ Counted /\ Untold
  BY DEF EventsInv
<1>1. EventsTypeOK'
  BY <1>0, EventsTypeStep
<1>2. /\ made \in BOOLEAN /\ first \in BOOLEAN /\ second \in BOOLEAN /\ third \in BOOLEAN
      /\ told \in Nat /\ width \in Nat /\ lasts \in Nat /\ lasts <= width
      /\ since \in Nat /\ pedges \in Nat /\ pedges <= PMAX
      /\ PMAX \in Nat \ {0} /\ GAP \in Nat /\ WIDTH \subseteq Nat \ {0}
  BY <1>0, LevelsAreBits, ClocksAssumption, EventsAssumption
<1> HIDE DEF EventsInv
<1>3. CASE Hclk
  <2>1. /\ made' = made /\ first' = made /\ second' = first /\ third' = second
        /\ lasts' = lasts /\ since' = since /\ width' = width /\ pedges' = 0
    BY <1>0, <1>3, LevelsStep DEF Hclk, HclkRises, event
  <2>2. told' = told + bit(second # third)
    BY <1>0, <1>3, <2>1, RegisterStep DEF Hclk, begins, intr_set
  <2>3. Ages'
    BY <1>0, <1>2, <2>1, <2>2 DEF Ages, Settled, bit
  <2>4. Counted'
    BY <1>0, <1>2, <2>1, <2>2 DEF Counted, bit
  <2>5. Untold'
    BY <1>0, <1>2, <2>1, <2>2 DEF Untold, bit
  <2> QED  BY <2>3, <2>4, <2>5
<1>4. ASSUME Core, begins, pedges < PMAX, made' = (IF intr_set THEN ~made ELSE made),
             first' = made \/ first' = made' \/ first' = first,
             second' = first \/ second' = second, third' = second \/ third' = third, told' = 0
      PROVE  Ages' /\ Counted' /\ Untold'
  <2>1. /\ lasts = 0 /\ lasts' \in WIDTH /\ width' = lasts' /\ since = GAP /\ ~intr_set
    BY <1>0, <1>4, CoreStep DEF begins
  <2>2. made = first /\ first = second /\ second = third
    BY <1>0, <1>4, <2>1, QuietBefore DEF Settled
  <2>3. made' = made
    BY <1>4, <2>1
  <2>4. made' = first' /\ first' = second' /\ second' = third'
    BY <1>4, <2>2, <2>3
  <2>5. lasts' \in Nat /\ lasts' > 0 /\ width' = lasts'
    BY <1>2, <2>1
  <2>6. Ages'
    BY <2>5 DEF Ages
  <2>7. Counted'
    <3>1. bit(made # first)' = 0 /\ bit(first # second)' = 0 /\ bit(second # third)' = 0
      BY <2>4 DEF bit
    <3>2. lasts' <= width'
      BY <2>5
    <3> QED  BY <1>4, <2>5, <3>1, <3>2 DEF Counted
  <2>8. Untold'
    <3>1. ~(made # third)' /\ ~(width % 2 # lasts % 2)'
      BY <2>4, <2>5
    <3> QED  BY <3>1 DEF Untold
  <2> QED  BY <2>6, <2>7, <2>8
<1>5. CASE PhyClk /\ begins
  BY <1>0, <1>4, <1>5, LevelsStep DEF PhyClk, PhyRises, Forgotten
<1>6. CASE Together /\ begins
  BY <1>0, <1>4, <1>6, LevelsStep, RegisterStep DEF Together, BothRise
<1>7. CASE PhyClk /\ ~begins
  <2>1. /\ made' = (IF intr_set THEN ~made ELSE made)
        /\ first' = first /\ second' = second /\ third' = third
        /\ told' = told /\ pedges' = pedges + 1 /\ pedges < PMAX
    BY <1>0, <1>7, LevelsStep DEF PhyClk, PhyRises, Forgotten, register
  <2>2. CASE lasts > 0
    <3>1. made' = ~made /\ lasts' = lasts - 1 /\ width' = width /\ since' <= 1 /\ since' \in Nat
      BY <1>0, <1>1, <1>2, <1>7, <2>1, <2>2, CoreStep DEF PhyClk, intr_set
    <3>2. Ages'
      BY <1>0, <1>2, <2>1, <2>2, <3>1 DEF Ages
    <3>3. Counted'
      BY <1>0, <1>2, <2>1, <3>1 DEF Counted, bit
    <3>4. Untold'
      BY <1>0, <1>2, <2>1, <2>2, <3>1 DEF Untold
    <3> QED  BY <3>2, <3>3, <3>4
  <2>3. CASE lasts = 0
    <3>1. made' = made /\ lasts' = 0 /\ width' = width /\ since' <= since + 1 /\ since' \in Nat
      BY <1>0, <1>1, <1>2, <1>7, <2>1, <2>3, CoreStep DEF PhyClk, intr_set
    <3>2. Ages'
      BY <1>0, <1>2, <2>1, <2>3, <3>1 DEF Ages, Settled
    <3>3. Counted' /\ Untold'
      BY <1>0, <1>2, <2>1, <2>3, <3>1 DEF Counted, Untold, bit
    <3> QED  BY <3>2, <3>3
  <2> QED  BY <1>2, <2>2, <2>3
<1>8. CASE Together /\ ~begins
  <2>1. /\ made' = (IF intr_set THEN ~made ELSE made)
        /\ first' = made \/ first' = made'
        /\ second' = first /\ third' = second
        /\ told' = told + bit(second # third) /\ pedges' = 0 /\ pedges < PMAX
    BY <1>0, <1>8, LevelsStep, RegisterStep DEF Together, BothRise
  <2>2. CASE lasts > 0
    <3>1. made' = ~made /\ lasts' = lasts - 1 /\ width' = width /\ since' <= 1 /\ since' \in Nat
      BY <1>0, <1>1, <1>2, <1>8, <2>1, <2>2, CoreStep DEF Together, intr_set
    <3>2. Ages'
      BY <1>0, <1>2, <2>1, <2>2, <3>1 DEF Ages
    <3>3. Counted'
      BY <1>0, <1>2, <2>1, <3>1 DEF Counted, bit
    <3>4. Untold'
      BY <1>0, <1>2, <2>1, <2>2, <3>1 DEF Untold, bit
    <3> QED  BY <3>2, <3>3, <3>4
  <2>3. CASE lasts = 0
    <3>1. /\ made' = made /\ first' = made /\ lasts' = 0 /\ width' = width
          /\ since' <= since + 1 /\ since' \in Nat
      BY <1>0, <1>1, <1>2, <1>8, <2>1, <2>3, CoreStep DEF Together, intr_set
    <3>2. Ages'
      BY <1>0, <1>2, <2>1, <2>3, <3>1 DEF Ages, Settled, bit
    <3>3. Counted'
      BY <1>0, <1>2, <2>1, <2>3, <3>1 DEF Counted, bit
    <3>4. Untold'
      BY <1>0, <1>2, <2>1, <2>3, <3>1 DEF Untold, bit
    <3> QED  BY <3>2, <3>3, <3>4
  <2> QED  BY <1>2, <2>2, <2>3
<1>9. CASE UNCHANGED vars
  <2>1. /\ made' = made /\ first' = first /\ second' = second /\ third' = third
        /\ lasts' = lasts /\ since' = since /\ width' = width /\ pedges' = pedges /\ told' = told
    BY <1>9 DEF vars, clocks, event, register, made, first, second, third
  <2> QED  BY <1>0, <2>1 DEF Ages, Settled, Counted, Untold
<1> QED  BY <1>3, <1>5, <1>6, <1>7, <1>8, <1>9 DEF Next

LEMMA EventsInvInit == Init => EventsInv
<1> SUFFICES ASSUME Init PROVE EventsInv
  OBVIOUS
<1>1. made = first /\ first = second /\ second = third
  BY DEF Init, PulseSync0, made, first, second, third
<1>2. width = 0 /\ lasts = 0 /\ told = 0
  BY DEF Init
<1>3. Ages
  BY <1>1, <1>2 DEF Ages, Settled
<1>4. Counted
  <2>1. bit(made # first) = 0 /\ bit(first # second) = 0 /\ bit(second # third) = 0
    BY <1>1 DEF bit
  <2> QED  BY <1>2, <2>1 DEF Counted
<1>5. Untold
  <2>1. ~(made # third) /\ ~(width % 2 # lasts % 2)
    BY <1>1, <1>2
  <2> QED  BY <2>1 DEF Untold
<1> QED  BY <1>3, <1>4, <1>5, EventsTypeInit DEF EventsInv

LEMMA EventsInductive == SpacedOut /\ EventsInv /\ [Next]_vars => EventsInv'
BY EventsStep, EventsTypeStep DEF EventsInv

LEMMA EventsInvariant == ASSUME SpacedOut PROVE Spec => []EventsInv
<1>1. EventsInv /\ [Next]_vars => EventsInv'
  BY EventsInductive
<1> QED  BY <1>1, EventsInvInit, PTL DEF Spec

(* When an event begins the one before is over. *)
LEMMA BeginsQuietly ==
  ASSUME SpacedOut, EventsInv, Next, begins
  PROVE  Core /\ lasts = 0 /\ Settled
<1>0. EventsTypeOK /\ Ages
  BY DEF EventsInv
<1>1. (PhyClk \/ Together) /\ Core /\ pedges < PMAX
  BY DEF Next, Hclk, event, begins, intr_set, PhyClk, PhyRises, Together, BothRise
<1> QED  BY <1>0, <1>1, CoreStep, QuietBefore

OddWidths == \A w \in WIDTH : w % 2 = 1

(* Neither lost nor made up: if an event is set for an odd number of       *)
(* clocks, and there are three times as many clocks of phy_clk between two *)
(* as there may be in one of hclk, then the register file is told of each  *)
(* before the next (usbf_sync.v 161-191).                                  *)
THEOREM EventsDoCross == ASSUME SpacedOut, OddWidths PROVE Spec => EventsCross
<1>1. ASSUME EventsInv, Next, begins
      PROVE  (width > 0 => told > 0) /\ told <= width
  <2>1. lasts = 0 /\ Settled
    BY <1>1, BeginsQuietly
  <2>2. told \in Nat /\ width \in {0} \cup WIDTH /\ width \in Nat
    BY <1>1, EventsAssumption DEF EventsInv, EventsTypeOK
  <2>3. told <= width
    BY <1>1, <2>1, <2>2 DEF EventsInv, Counted, Settled, bit
  <2>4. ASSUME width > 0 PROVE told > 0
    <3>1. width % 2 = 1
      BY <2>2, <2>4 DEF OddWidths
    <3>2. told # 0
      BY <1>1, <2>1, <3>1 DEF EventsInv, Untold, Settled
    <3> QED  BY <2>2, <3>2
  <2> QED  BY <2>3, <2>4
<1>2. EventsInv /\ [Next]_vars => [begins => (width > 0 => told > 0) /\ told <= width]_vars
  BY <1>1
<1> QED  BY <1>2, EventsInvariant, PTL DEF Spec, EventsCross

-----------------------------------------------------------------------------
(* The status.  Age is how many edges of hclk there have been at least     *)
(* since the event began, and ToCome of UsbfBusSyncProofs how many it takes*)
(* at most until the processor sees that din is TRUE.                      *)
Age == IF told > 0 THEN late + 3
       ELSE IF second # third THEN 2 ELSE IF first # second THEN 1 ELSE 0

StatusInv == /\ late > 0 => told > 0
             /\ ~inFlight => dout = data_in_r
             /\ din /\ ~Shown => Age + ToCome <= Bound

LEMMA AgeIsNat == EventsTypeOK => Age \in Nat
<1> SUFFICES ASSUME EventsTypeOK PROVE Age \in Nat
  OBVIOUS
<1>1. late \in Nat
  BY EventsAssumption DEF EventsTypeOK
<1> QED  BY <1>1 DEF Age

(* SMT does not calculate with primed variables; it finds this. *)
LEMMA OneMore ==
  \A a, b, l, m : l \in Nat /\ m \in Nat /\ m <= l + 1 /\ a = l + 3 /\ b = m + 3
                  => b <= a + 1
OBVIOUS

(* Each edge of hclk ages the event by one at most, and nothing else does. *)
LEMMA AgeStep ==
  ASSUME EventsTypeOK, Next, ~begins
  PROVE  /\ PhyClk => Age' <= Age
         /\ Hclk \/ Together => Age' <= Age + 1
<1>0. /\ told \in Nat /\ late \in 0 .. LATE /\ LATE \in Nat /\ EventsTypeOK'
      /\ first \in BOOLEAN /\ second \in BOOLEAN /\ third \in BOOLEAN
  BY LevelsAreBits, EventsTypeStep, EventsAssumption DEF EventsTypeOK
<1>1. told' \in Nat /\ late' \in Nat
  BY <1>0, EventsAssumption DEF EventsTypeOK
<1>2. ASSUME PhyClk PROVE Age' <= Age
  <2>1. told' = told /\ late' = late /\ first' = first /\ second' = second /\ third' = third
    BY <1>2, LevelsStep DEF PhyClk, Forgotten, register
  <2> QED  BY <1>0, <1>2, <2>1 DEF Age
<1>3. ASSUME Hclk \/ Together PROVE Age' <= Age + 1
  <2>1. /\ second' = first /\ third' = second /\ told' = told + bit(second # third)
        /\ late' = IF told = 0 THEN 0 ELSE IF late < LATE THEN late + 1 ELSE LATE
    BY <1>3, LevelsStep, RegisterStep DEF Hclk, Together
  <2>2. ASSUME told > 0
        PROVE  Age' <= Age + 1
    <3>1. told' > 0 /\ late' <= late + 1
      BY <1>0, <1>1, <2>1, <2>2 DEF bit
    <3>2. Age = late + 3 /\ Age' = late' + 3
      BY <2>2, <3>1, Zenon DEF Age
    <3>3. late \in Nat /\ late' \in Nat
      BY <1>0, <1>1
    <3> QED  BY <3>1, <3>2, <3>3, OneMore
  <2>3. ASSUME told = 0, second # third
        PROVE  Age' <= Age + 1
    <3>1. told' > 0 /\ late' = 0
      BY <1>0, <1>1, <2>1, <2>3 DEF bit
    <3>2. Age = 2 /\ Age' = 3
      <4>1. ~(told > 0)
        BY <2>3
      <4>2. Age' = 0 + 3
        BY <3>1, Zenon DEF Age
      <4> QED  BY <2>3, <4>1, <4>2 DEF Age
    <3> QED  BY <3>2
  <2>4. ASSUME told = 0, second = third
        PROVE  Age' <= Age + 1
    <3>1. told' = 0
      BY <1>0, <1>1, <2>1, <2>4 DEF bit
    <3>2. second' = third' \/ first # second
      BY <2>1
    <3>3. Age \in {0, 1} /\ (first # second => Age = 1)
      BY <2>4 DEF Age
    <3>4. Age' \in {0, 1, 2} /\ (second' = third' => Age' \in {0, 1})
      BY <3>1 DEF Age
    <3> QED  BY <3>2, <3>3, <3>4
  <2>5. Age' <= Age + 1
    BY <1>0, <2>2, <2>3, <2>4
  <2> QED  BY <2>5
<1> QED  BY <1>2, <1>3, Zenon

LEMMA Nearer ==
  \A a, b, t, u : /\ a \in Nat /\ b \in Nat /\ t \in Nat /\ u \in Nat
                  /\ b <= a + 1 /\ u + 1 <= t /\ a + t <= Bound
                  => b + u <= Bound
BY ClocksAssumption DEF Bound, Round, perPhy

LEMMA NotFarther ==
  \A a, b, t, u : /\ a \in Nat /\ b \in Nat /\ t \in Nat /\ u \in Nat
                  /\ b <= a /\ u <= t /\ a + t <= Bound
                  => b + u <= Bound
BY ClocksAssumption DEF Bound, Round, perPhy

LEMMA FromStart == \A b, u : b = 0 /\ u \in Nat /\ u <= Bound => b + u <= Bound
OBVIOUS

LEMMA StatusFalls == ASSUME EventsTypeOK, Core, ~begins PROVE din' => din
<1>1. lasts > 0 \/ lasts = 0
  BY DEF EventsTypeOK
<1>2. CASE lasts > 0
  BY <1>2, CoreStep
<1>3. CASE lasts = 0
  BY <1>3, CoreStep
<1> QED  BY <1>1, <1>2, <1>3

LEMMA StatusStep ==
  ASSUME SpacedOut, EventsInv, TypeOK, RingBits, StatusInv, [Next]_vars
  PROVE  StatusInv'
<1>0. EventsTypeOK /\ EventsTypeOK' /\ ClocksOK /\ ClocksOK' /\ Data = BOOLEAN
  BY EventsTypeStep, EventsAssumption DEF EventsInv, EventsTypeOK
<1>1. Age \in Nat /\ ToCome \in Nat
  BY <1>0, AgeIsNat, ToComeIsBounded
<1>2. Age' \in Nat /\ ToCome' \in Nat /\ ToCome' <= Bound
  <2>1. EventsTypeOK' /\ ClocksOK' => (Age \in Nat)' /\ (ToCome \in Nat /\ ToCome <= Bound)'
    BY AgeIsNat, ToComeIsBounded, PTL
  <2> QED  BY <1>0, <2>1 DEF Bound, Round, perPhy
<1>3. ~inFlight => dout = data_in_r
  BY DEF StatusInv
<1>4. (late > 0 => told > 0)'
  <2>1. told \in Nat /\ (late > 0 => told > 0)
    BY <1>0 DEF EventsTypeOK, StatusInv
  <2>2. ASSUME Register PROVE (late > 0 => told > 0)'
    <3>1. CASE begins \/ told = 0
      <4>1. late' = 0
        BY <2>2, <3>1 DEF Register
      <4> QED  BY <4>1
    <3>2. CASE ~begins /\ told > 0
      <4>1. told' > 0
        BY <1>0, <2>1, <2>2, <3>2, RegisterStep DEF bit
      <4> QED  BY <4>1
    <3> QED  BY <2>1, <3>1, <3>2
  <2>3. ASSUME Forgotten PROVE (late > 0 => told > 0)'
    BY <2>1, <2>3 DEF Forgotten, register
  <2>4. CASE UNCHANGED vars
    BY <2>1, <2>4 DEF vars, register
  <2> QED  BY <2>2, <2>3, <2>4 DEF Next, Hclk, PhyClk, Together
<1>5. ASSUME begins, Next PROVE Age' = 0
  <2>1. Core /\ lasts = 0 /\ Settled
    BY <1>5, BeginsQuietly
  <2>2. PhyClk \/ Together
    BY <1>5 DEF Next, Hclk, event, begins, intr_set
  <2>3. made' = made
    BY <1>0, <2>1, <2>2, LevelsStep DEF intr_set
  <2>4. first' = second' /\ second' = third'
    BY <1>0, <2>1, <2>2, <2>3, LevelsStep DEF Settled
  <2>5. told' = 0
    BY <1>0, <1>5, <2>2, RegisterStep DEF PhyClk, Forgotten, Together
  <2> QED  BY <2>4, <2>5 DEF Age
<1>6. ASSUME begins, Next PROVE (din /\ ~Shown => Age + ToCome <= Bound)'
  BY <1>2, <1>5, <1>6, FromStart
<1>7. ASSUME (~inFlight => dout = data_in_r)', (din /\ ~Shown => Age + ToCome <= Bound)'
      PROVE  StatusInv'
  BY <1>4, <1>7 DEF StatusInv
<1>8. CASE Hclk
  <2>1. ~begins /\ din' = din
    BY <1>8 DEF Hclk, event, begins, intr_set
  <2>3. Age' <= Age + 1
    BY <1>0, <1>8, <2>1, AgeStep DEF Next
  <2>4. /\ (~inFlight => dout = data_in_r)'
        /\ Shown => Shown'
        /\ Shown' \/ ToCome' + 1 <= ToCome
    BY <1>0, <1>3, <1>8, RingHclk DEF Hclk
  <2>5. (din /\ ~Shown => Age + ToCome <= Bound)'
    BY <1>1, <1>2, <2>1, <2>3, <2>4, Nearer DEF StatusInv
  <2> QED  BY <1>7, <2>4, <2>5
<1>9. CASE PhyClk
  <2>1. /\ (~inFlight => dout = data_in_r)'
        /\ Shown /\ din => Shown'
        /\ din => Shown' \/ ToCome' <= ToCome
    BY <1>0, <1>3, <1>9, RingPhy DEF PhyClk
  <2>2. ASSUME ~begins PROVE (din /\ ~Shown => Age + ToCome <= Bound)'
    <3>1. din' => din
      BY <1>0, <1>9, <2>2, StatusFalls DEF PhyClk
    <3>2. Age' <= Age
      BY <1>0, <1>9, <2>2, AgeStep DEF Next
    <3> QED  BY <1>1, <1>2, <2>1, <3>1, <3>2, NotFarther DEF StatusInv
  <2> QED  BY <1>6, <1>7, <1>9, <2>1, <2>2 DEF Next
<1>10. CASE Together
  <2>1. /\ (~inFlight => dout = data_in_r)'
        /\ Shown /\ din => Shown'
        /\ din => Shown' \/ ToCome' + 1 <= ToCome
    BY <1>0, <1>3, <1>10, RingBoth DEF Together
  <2>2. ASSUME ~begins PROVE (din /\ ~Shown => Age + ToCome <= Bound)'
    <3>1. din' => din
      BY <1>0, <1>10, <2>2, StatusFalls DEF Together
    <3>3. Age' <= Age + 1
      BY <1>0, <1>10, <2>2, AgeStep DEF Next
    <3> QED  BY <1>1, <1>2, <2>1, <3>1, <3>3, Nearer DEF StatusInv
  <2> QED  BY <1>6, <1>7, <1>10, <2>1, <2>2 DEF Next
<1>11. CASE UNCHANGED vars
  BY <1>11 DEF vars, clocks, event, register, busVars, source, dest,
               StatusInv, inFlight, Shown, Age, ToCome, Wait, first, second, third
<1> QED  BY <1>8, <1>9, <1>10, <1>11 DEF Next

LEMMA StatusInit == Init => StatusInv
BY DEF Init, BusInit, StatusInv

LEMMA StatusInvariant == ASSUME SpacedOut PROVE Spec => []StatusInv
<1>1. BusInv => TypeOK /\ RingBits
  BY RingIsBits DEF BusInv
<1>2. EventsInv /\ BusInv /\ StatusInv /\ [Next]_vars => StatusInv'
  BY <1>1, StatusStep
<1> QED  BY <1>2, StatusInit, EventsInvariant, EventsImplementBus, BusInvariant, PTL DEF Spec

LookedAtLate == LATE >= Round + 3

(* What the interrupt says the status says too, when the handler looks a   *)
(* round of the ring later (openusb_common.c 413, usbf_sync.v 222-242).    *)
THEOREM EventsStatusIsThere ==
  ASSUME SpacedOut, LookedAtLate PROVE Spec => []StatusIsThere
<1>1. ASSUME EventsInv, StatusInv PROVE StatusIsThere
  <2>1. /\ told \in Nat /\ late \in Nat /\ LATE \in Nat /\ Round \in Nat /\ Round >= 1
        /\ ToCome \in Nat /\ ToCome >= 1
    BY <1>1, ToComeIsBounded, EventsAssumption, ClocksAssumption
       DEF EventsInv, EventsTypeOK, Round, perPhy
  <2>2. ASSUME late = LATE, din PROVE dout
    <3>1. told > 0 /\ Age = LATE + 3
      BY <1>1, <2>1, <2>2 DEF StatusInv, Age, LookedAtLate
    <3>2. ~(Age + ToCome <= Bound)
      BY <2>1, <3>1 DEF Bound, LookedAtLate
    <3> QED  BY <1>1, <2>2, <3>2 DEF StatusInv, Shown
  <2> QED  BY <2>2 DEF StatusIsThere
<1> QED  BY <1>1, EventsInvariant, StatusInvariant, PTL
=============================================================================
