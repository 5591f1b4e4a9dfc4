------------------------- MODULE UsbfBusSyncProofs -------------------------
(***************************************************************************)
(* For any set of values and any pace of the two clocks: bus_sync hands    *)
(* over whole values, one after the other.                                 *)
(*                                                                         *)
(* The invariant is that of the ring: request and acknowledgement cannot   *)
(* both be under way.  From it follows that no end acts while the other    *)
(* does: the source loads data_in_r only when nothing is on its way, and   *)
(* then the destination does not read it.                                  *)
(*                                                                         *)
(* The second part says how long that takes; the components whose bus this *)
(* is cite its lemmas.                                                     *)
(***************************************************************************)
EXTENDS UsbfClocks, UsbfBusSync, TLAPS

BusInv == TypeOK /\ OneChange

(* The ring without its indices: where the one change may be. *)
Bits(a, b, c, d, e, f) ==
  \/ a = b /\ b = c /\ c = d /\ d = e
  \/ a = b /\ b = c /\ c = d /\ e = f
  \/ a = b /\ b = c /\ d = e /\ e = f
  \/ a = b /\ c = d /\ d = e /\ e = f
  \/ b = c /\ c = d /\ d = e /\ e = f

RingBits == Bits(s2d_tgl_r, d_sample_r, s_s2d_tgl, d2s_tgl_r, s_sample_r, s_d2s_tgl)

(* One change at most is one of five cases. *)
LEMMA RingIsBits == ASSUME TypeOK PROVE OneChange <=> RingBits
<1> DEFINE a == s2d_tgl_r  b == d_sample_r  c == s_s2d_tgl
           d == d2s_tgl_r  e == s_sample_r  f == s_d2s_tgl
<1>1. OneChange <=>
        /\ ~(a # b /\ b # c) /\ ~(a # b /\ c # d) /\ ~(a # b /\ d # e) /\ ~(a # b /\ e # f)
        /\ ~(b # c /\ c # d) /\ ~(b # c /\ d # e) /\ ~(b # c /\ e # f)
        /\ ~(c # d /\ d # e) /\ ~(c # d /\ e # f)
        /\ ~(d # e /\ e # f)
  <2>1. /\ ring[1] = a /\ ring[2] = b /\ ring[3] = c
        /\ ring[4] = d /\ ring[5] = e /\ ring[6] = f
    BY DEF ring
  <2>2. 1 .. 5 = {1, 2, 3, 4, 5}
    OBVIOUS
  <2> QED  BY <2>1, <2>2 DEF OneChange
<1>2. QED  BY <1>1 DEF RingBits, Bits

(* At the start every bit is zero. *)
LEMMA BusInvInit == BusInit => BusInv
<1> SUFFICES ASSUME BusInit PROVE BusInv
  OBVIOUS
<1>1. TypeOK
  BY BusAssumption DEF BusInit, TypeOK
<1>2. RingBits
  BY DEF BusInit, RingBits, Bits
<1> QED  BY <1>1, <1>2, RingIsBits DEF BusInv

(* Every edge keeps the types ... *)
LEMMA BusTypeStep == TypeOK /\ [BusNext]_busVars => TypeOK'
<1> SUFFICES ASSUME TypeOK, [BusNext]_busVars PROVE TypeOK'
  OBVIOUS
<1> USE DEF TypeOK
<1>1. CASE SrcClock
  BY <1>1 DEF SrcClock, SrcAlone, SourceEdge, dest, s2d_tgl_next, data_in_next
<1>2. CASE DstClock
  BY <1>2 DEF DstClock, DstAlone, DestEdge, source, d2s_tgl_next
<1>3. CASE BothClocks
  <2>1. PICK d2s \in {d2s_tgl_r, d2s_tgl_next} : SourceEdge(d2s)
    BY <1>3 DEF BothClocks, BothEdges
  <2>2. PICK s2d \in {s2d_tgl_r, s2d_tgl_next},
             data \in IF data_in_next = data_in_r THEN {data_in_r} ELSE Data :
               DestEdge(s2d, data)
    BY <1>3 DEF BothClocks, BothEdges
  <2>3. data \in Data /\ din' \in Data
    BY <1>3, <2>2 DEF BothClocks, BothEdges
  <2> QED
    BY <2>1, <2>2, <2>3 DEF SourceEdge, DestEdge, s2d_tgl_next, d2s_tgl_next, data_in_next
<1>4. CASE UNCHANGED busVars
  BY <1>4 DEF busVars, source, dest
<1> QED  BY <1>1, <1>2, <1>3, <1>4 DEF BusNext

(* ... and the ring. *)
LEMMA BusRingStep == TypeOK /\ RingBits /\ [BusNext]_busVars => RingBits'
<1> SUFFICES ASSUME TypeOK, RingBits, [BusNext]_busVars PROVE RingBits'
  OBVIOUS
<1> USE DEF TypeOK, RingBits, Bits
<1>1. CASE SrcClock
  BY <1>1 DEF SrcClock, SrcAlone, SourceEdge, dest, s2d_tgl_next, data_in_en
<1>2. CASE DstClock
  BY <1>2 DEF DstClock, DstAlone, DestEdge, source, d2s_tgl_next, data_out_en
<1>3. CASE BothClocks
  <2>1. PICK d2s \in {d2s_tgl_r, d2s_tgl_next} : SourceEdge(d2s)
    BY <1>3 DEF BothClocks, BothEdges
  <2>2. PICK s2d \in {s2d_tgl_r, s2d_tgl_next},
             data \in IF data_in_next = data_in_r THEN {data_in_r} ELSE Data :
               DestEdge(s2d, data)
    BY <1>3 DEF BothClocks, BothEdges
  <2> QED
    BY <2>1, <2>2 DEF SourceEdge, DestEdge, s2d_tgl_next, d2s_tgl_next, data_in_en, data_out_en
<1>4. CASE UNCHANGED busVars
  BY <1>4 DEF busVars, source, dest
<1> QED  BY <1>1, <1>2, <1>3, <1>4 DEF BusNext

LEMMA BusInductive == BusInv /\ [BusNext]_busVars => BusInv'
<1> SUFFICES ASSUME BusInv, [BusNext]_busVars PROVE BusInv'
  OBVIOUS
<1>1. TypeOK /\ RingBits
  BY RingIsBits DEF BusInv
<1>2. TypeOK' /\ RingBits'
  BY <1>1, BusTypeStep, BusRingStep
<1>3. OneChange'
  <2>1. TypeOK' => (OneChange' <=> RingBits')
    BY RingIsBits, PTL
  <2> QED  BY <1>2, <2>1
<1> QED  BY <1>2, <1>3 DEF BusInv

(* The invariant holds in every state, at any pace of the clocks. *)
THEOREM BusInvariant == BusSpec => []BusInv
BY BusInvInit, BusInductive, PTL DEF BusSpec

(* The registers stay in their types. *)
THEOREM BusTypeOK == BusSpec => []TypeOK
<1>1. BusInv => TypeOK
  BY DEF BusInv
<1> QED  BY <1>1, BusInvariant, PTL

(* Request and acknowledgement are never both under way in the ring of the *)
(* synchroniser (usbf_sync_utilities.v 208-262).                           *)
THEOREM BusOneChange == BusSpec => []OneChange
<1>1. BusInv => OneChange
  BY DEF BusInv
<1> QED  BY <1>1, BusInvariant, PTL

-----------------------------------------------------------------------------
(* A clock of the source takes a value or changes nothing the other side   *)
(* can see.                                                                *)
LEMMA SourceStep ==
  ASSUME TypeOK, RingBits, NEW d2s, SourceEdge(d2s), din' \in Data,
         d2s_tgl_r' = d2s_tgl_r, dout' = dout
  PROVE  Snapshot!Next
<1> USE DEF TypeOK, RingBits, Bits, SourceEdge, s2d_tgl_next, data_in_next, data_in_en
<1>1. CASE data_in_en
  BY <1>1 DEF Snapshot!Next, Snapshot!Take
<1>2. CASE ~data_in_en
  BY <1>2 DEF Snapshot!Next, Snapshot!Change
<1> QED  BY <1>1, <1>2

(* A clock of the destination gives the value that has been taken, if it   *)
(* has not changed in the same moment.                                     *)
LEMMA DestStep ==
  ASSUME TypeOK, RingBits, NEW s2d, DestEdge(s2d, data_in_r), din' \in Data,
         s2d_tgl_r' = s2d_tgl_r, data_in_r' = data_in_r
  PROVE  Snapshot!Next
<1> USE DEF TypeOK, RingBits, Bits, DestEdge, d2s_tgl_next, data_out_en
<1>1. CASE data_out_en
  BY <1>1 DEF Snapshot!Next, Snapshot!Give
<1>2. CASE ~data_out_en
  BY <1>2 DEF Snapshot!Next, Snapshot!Change
<1> QED  BY <1>1, <1>2

(* The two ends do not act together. *)
LEMMA OneEndActs == TypeOK /\ RingBits => ~(data_in_en /\ data_out_en)
BY DEF TypeOK, RingBits, Bits, data_in_en, data_out_en

LEMMA SnapshotStep == BusInv /\ [BusNext]_busVars => [Snapshot!Next]_Snapshot!vars
<1> SUFFICES ASSUME BusInv, [BusNext]_busVars PROVE [Snapshot!Next]_Snapshot!vars
  OBVIOUS
<1>0. TypeOK /\ RingBits
  BY RingIsBits DEF BusInv
<1>1. CASE SrcClock
  BY <1>0, <1>1, SourceStep DEF SrcClock, SrcAlone, dest
<1>2. CASE DstClock
  <2>1. din' \in Data
    BY <1>0, <1>2 DEF DstClock, DstAlone, TypeOK
  <2> QED  BY <1>0, <1>2, <2>1, DestStep DEF DstClock, DstAlone, source
<1>3. CASE BothClocks
  <2>1. PICK d2s : SourceEdge(d2s)
    BY <1>3 DEF BothClocks, BothEdges
  <2>2. PICK s2d \in {s2d_tgl_r, s2d_tgl_next},
             data \in IF data_in_next = data_in_r THEN {data_in_r} ELSE Data :
               DestEdge(s2d, data)
    BY <1>3 DEF BothClocks, BothEdges
  <2>3. din' \in Data
    BY <1>3 DEF BothClocks, BothEdges
  <2>4. CASE data_out_en
    <3>1. ~data_in_en
      BY <1>0, <2>4, OneEndActs
    <3>2. s2d_tgl_r' = s2d_tgl_r /\ data_in_r' = data_in_r /\ data = data_in_r
      BY <2>1, <2>2, <3>1 DEF SourceEdge, s2d_tgl_next, data_in_next
    <3> QED  BY <1>0, <2>2, <2>3, <3>2, DestStep
  <2>5. CASE ~data_out_en
    <3>1. d2s_tgl_r' = d2s_tgl_r /\ dout' = dout
      BY <2>2, <2>5 DEF DestEdge, d2s_tgl_next
    <3> QED  BY <1>0, <2>1, <2>3, <3>1, SourceStep
  <2> QED  BY <2>4, <2>5
<1>4. CASE UNCHANGED busVars
  BY <1>4 DEF busVars, source, dest, Snapshot!vars
<1> QED  BY <1>1, <1>2, <1>3, <1>4 DEF BusNext

LEMMA SnapshotInit == BusInit => Snapshot!Init
BY DEF BusInit, Snapshot!Init

(* What the processor reads of the status, all its bits, is what the       *)
(* status was at one moment, and the moments are in order.                 *)
THEOREM BusImplementsSnapshot == BusSpec => ImplementsSnapshot
BY BusInvariant, SnapshotInit, SnapshotStep, PTL
   DEF BusSpec, ImplementsSnapshot, Snapshot!Spec

-----------------------------------------------------------------------------
(* How long bus_sync takes, counted in edges of the clock of the           *)
(* destination, hclk, for a bit of the bus that the source, in phy_clk,    *)
(* has set and leaves set.  A value that is under way takes three edges of *)
(* hclk; a stale one has to be acknowledged first and the next one be      *)
(* loaded, in three edges of phy_clk.  How many edges of hclk come with an *)
(* edge of phy_clk depends on the pace of the clocks: HMAX + 1, or one if  *)
(* phy_clk has an edge in each period of hclk (PMIN > 0).                  *)

ClocksOK == hedges \in 0 .. HMAX /\ pedges \in 0 .. PMAX

perPhy == IF PMIN > 0 THEN 1 ELSE HMAX + 1
Round  == 3 * perPhy

(* How many edges of hclk there are at most until the n-th of phy_clk, the *)
(* one together with it included.                                          *)
Wait(n) == IF PMIN > 0 THEN n + (IF pedges > 0 THEN 1 ELSE 0) ELSE n * (HMAX + 1) - hedges

inFlight == s2d_tgl_r # d2s_tgl_r

(* How many until the processor sees that din is TRUE, if it stays so.     *)
ToCome ==
  IF inFlight
    THEN (IF data_in_r THEN 0 ELSE Round + 3)
       + (IF d_sample_r # s2d_tgl_r THEN 3 ELSE IF s_s2d_tgl # s2d_tgl_r THEN 2 ELSE 1)
    ELSE 3 + (IF s_sample_r # d2s_tgl_r THEN Wait(3)
              ELSE IF s_d2s_tgl # d2s_tgl_r THEN Wait(2) ELSE Wait(1))

(* Or it sees it already, and will not see anything older. *)
Shown == dout /\ (inFlight => data_in_r)

Bound == Round + 6

LEMMA ClocksInitOK == ClocksInit => ClocksOK
BY ClocksAssumption DEF ClocksInit, ClocksOK

LEMMA ClocksStep == ClocksOK /\ (HclkRises \/ PhyRises \/ BothRise) => ClocksOK'
BY ClocksAssumption DEF ClocksOK, HclkRises, PhyRises, BothRise

(* Each edge of hclk is one of those to wait for, each of phy_clk one of   *)
(* those waited for.                                                       *)
LEMMA WaitStep ==
  ASSUME ClocksOK
  PROVE  /\ HclkRises => /\ Wait(1)' + 1 <= Wait(1) /\ Wait(2)' + 1 <= Wait(2)
                         /\ Wait(3)' + 1 <= Wait(3) /\ Wait(3)' <= Round
         /\ PhyRises => /\ Wait(2)' <= Wait(3) /\ Wait(1)' <= Wait(2)
         /\ BothRise => /\ Wait(2)' + 1 <= Wait(3) /\ Wait(1)' + 1 <= Wait(2)
                        /\ Wait(3)' <= Round
         /\ Wait(1) \in Nat /\ Wait(2) \in Nat /\ Wait(3) \in Nat
         /\ Wait(1) >= 1 /\ Wait(2) >= 1 /\ Wait(3) >= 1 /\ Wait(3) <= Round + 1
BY ClocksAssumption DEF ClocksOK, HclkRises, PhyRises, BothRise, Wait, Round, perPhy

(* No stage of the ring is more than a full round away. *)
LEMMA ToComeIsBounded ==
  ASSUME ClocksOK PROVE ToCome \in Nat /\ 1 <= ToCome /\ ToCome <= Bound
<1>1. HMAX \in Nat /\ hedges \in Nat /\ hedges <= HMAX
  BY ClocksAssumption DEF ClocksOK
<1> QED  BY <1>1 DEF ToCome, Bound, Wait, Round, perPhy

(* The ring in each of its edges, for an event whose status is still to    *)
(* be seen: an edge of hclk brings it nearer, no other takes it back.      *)
LEMMA RingHclk ==
  ASSUME Data = BOOLEAN, ClocksOK, TypeOK, RingBits, HclkRises, DstAlone, ~inFlight => dout = data_in_r
  PROVE  /\ (~inFlight => dout = data_in_r)'
         /\ Shown => Shown'
         /\ Shown' \/ ToCome' + 1 <= ToCome
<1>1. /\ s2d_tgl_r \in BOOLEAN /\ d_sample_r \in BOOLEAN /\ s_s2d_tgl \in BOOLEAN
      /\ d2s_tgl_r \in BOOLEAN /\ s_sample_r \in BOOLEAN /\ s_d2s_tgl \in BOOLEAN
      /\ dout \in BOOLEAN /\ data_in_r \in BOOLEAN
  BY DEF TypeOK
<1>2. HMAX \in Nat /\ PMIN \in Nat /\ hedges \in Nat /\ hedges < HMAX /\ hedges' = hedges + 1
      /\ pedges \in Nat /\ pedges >= PMIN /\ pedges' = 0
  BY ClocksAssumption DEF ClocksOK, HclkRises
<1>3. /\ s2d_tgl_r' = s2d_tgl_r /\ data_in_r' = data_in_r
      /\ s_sample_r' = s_sample_r /\ s_d2s_tgl' = s_d2s_tgl
      /\ d_sample_r' = s2d_tgl_r /\ s_s2d_tgl' = d_sample_r
  BY DEF DstAlone, DestEdge, source
<1>4. CASE d2s_tgl_r # s_s2d_tgl
  <2>1. /\ d2s_tgl_r' = ~d2s_tgl_r /\ dout' = data_in_r
    BY <1>4 DEF DstAlone, DestEdge, d2s_tgl_next, data_out_en
  <2>2. inFlight /\ ~inFlight' /\ d_sample_r = s2d_tgl_r /\ s_s2d_tgl = s2d_tgl_r
        /\ s_sample_r = d2s_tgl_r /\ s_d2s_tgl = d2s_tgl_r
    BY <1>1, <1>3, <1>4, <2>1 DEF RingBits, Bits, inFlight
  <2>3. (~inFlight => dout = data_in_r)' /\ ~Shown' => ~data_in_r
    BY <1>1, <1>3, <2>1, <2>2 DEF Shown
  <2>4. ASSUME ~data_in_r PROVE ToCome' + 1 <= ToCome
    BY <1>1, <1>2, <1>3, <2>1, <2>2, <2>4 DEF ToCome, Wait, Round, perPhy
  <2>5. (~inFlight => dout = data_in_r)'
    BY <1>3, <2>1
  <2>6. ASSUME Shown PROVE Shown'
    BY <1>1, <1>3, <2>1, <2>2, <2>6 DEF Shown
  <2> QED  BY <2>3, <2>4, <2>5, <2>6
<1>5. CASE d2s_tgl_r = s_s2d_tgl
  <2>1. /\ d2s_tgl_r' = d2s_tgl_r /\ dout' = dout
    BY <1>5 DEF DstAlone, DestEdge, d2s_tgl_next, data_out_en
  <2> QED  BY <1>1, <1>2, <1>3, <1>5, <2>1 DEF ToCome, Shown, inFlight, RingBits, Bits, Wait, Round, perPhy
<1> QED  BY <1>4, <1>5

LEMMA RingPhy ==
  ASSUME Data = BOOLEAN, ClocksOK, TypeOK, RingBits, PhyRises, SrcAlone, ~inFlight => dout = data_in_r
  PROVE  /\ (~inFlight => dout = data_in_r)'
         /\ Shown /\ din => Shown'
         /\ din => Shown' \/ ToCome' <= ToCome
<1>1. /\ s2d_tgl_r \in BOOLEAN /\ d_sample_r \in BOOLEAN /\ s_s2d_tgl \in BOOLEAN
      /\ d2s_tgl_r \in BOOLEAN /\ s_sample_r \in BOOLEAN /\ s_d2s_tgl \in BOOLEAN
      /\ dout \in BOOLEAN /\ data_in_r \in BOOLEAN /\ din \in BOOLEAN
  BY DEF TypeOK
<1>2. HMAX \in Nat /\ PMIN \in Nat /\ hedges \in Nat /\ hedges <= HMAX /\ hedges' = 0
  BY ClocksAssumption DEF ClocksOK, PhyRises
<1>3. /\ d2s_tgl_r' = d2s_tgl_r /\ dout' = dout /\ d_sample_r' = d_sample_r
      /\ s_s2d_tgl' = s_s2d_tgl
      /\ s_sample_r' = d2s_tgl_r /\ s_d2s_tgl' = s_sample_r
  BY DEF SrcAlone, SourceEdge, dest
<1>4. CASE s2d_tgl_r = s_d2s_tgl
  <2>1. /\ s2d_tgl_r' = ~s2d_tgl_r /\ data_in_r' = din
    BY <1>4 DEF SrcAlone, SourceEdge, s2d_tgl_next, data_in_next, data_in_en
  <2>2. ~inFlight /\ inFlight' /\ d_sample_r = s2d_tgl_r /\ s_s2d_tgl = s2d_tgl_r
        /\ s_sample_r = d2s_tgl_r /\ s_d2s_tgl = d2s_tgl_r
    BY <1>1, <1>3, <1>4, <2>1 DEF RingBits, Bits, inFlight
  <2>3. ASSUME din PROVE ToCome' <= ToCome
    <3>1. ToCome = 3 + Wait(1) /\ ToCome >= 3
      BY <1>2, <2>2 DEF ToCome, Wait, Round, perPhy
    <3>2. inFlight' /\ data_in_r' /\ d_sample_r' # s2d_tgl_r'
      BY <1>1, <1>3, <2>1, <2>2, <2>3
    <3>3. ToCome' = 3
      BY <3>2 DEF ToCome
    <3> QED  BY <3>1, <3>3
  <2> QED  BY <1>1, <1>3, <2>1, <2>2, <2>3 DEF Shown
<1>5. CASE s2d_tgl_r # s_d2s_tgl
  <2>1. /\ s2d_tgl_r' = s2d_tgl_r /\ data_in_r' = data_in_r
    BY <1>5 DEF SrcAlone, SourceEdge, s2d_tgl_next, data_in_next, data_in_en
  <2> QED  BY <1>1, <1>2, <1>3, <1>5, <2>1 DEF ToCome, Shown, inFlight, RingBits, Bits, Wait, Round, perPhy
<1> QED  BY <1>4, <1>5

LEMMA RingBoth ==
  ASSUME Data = BOOLEAN, ClocksOK, TypeOK, RingBits, BothRise, BothEdges, ~inFlight => dout = data_in_r
  PROVE  /\ (~inFlight => dout = data_in_r)'
         /\ Shown /\ din => Shown'
         /\ din => Shown' \/ ToCome' + 1 <= ToCome
<1>1. /\ s2d_tgl_r \in BOOLEAN /\ d_sample_r \in BOOLEAN /\ s_s2d_tgl \in BOOLEAN
      /\ d2s_tgl_r \in BOOLEAN /\ s_sample_r \in BOOLEAN /\ s_d2s_tgl \in BOOLEAN
      /\ dout \in BOOLEAN /\ data_in_r \in BOOLEAN /\ din \in BOOLEAN
  BY DEF TypeOK
<1>2. HMAX \in Nat /\ PMIN \in Nat /\ hedges \in Nat /\ hedges <= HMAX /\ hedges' = 0
      /\ pedges \in Nat /\ pedges' = 0 /\ (PMIN > 0 => HMAX = 1)
  BY ClocksAssumption DEF ClocksOK, BothRise
<1>3. /\ s_d2s_tgl' = s_sample_r /\ s_s2d_tgl' = d_sample_r
      /\ s2d_tgl_r' = s2d_tgl_next /\ data_in_r' = data_in_next /\ d2s_tgl_r' = d2s_tgl_next
      /\ s_sample_r' = d2s_tgl_r \/ s_sample_r' = d2s_tgl_r'
      /\ d_sample_r' = s2d_tgl_r \/ d_sample_r' = s2d_tgl_r'
      /\ data_in_r' = data_in_r => dout' = IF data_out_en THEN data_in_r ELSE dout
      /\ ~data_out_en => dout' = dout
  <2>1. PICK d2s \in {d2s_tgl_r, d2s_tgl_next} : SourceEdge(d2s)
    BY DEF BothEdges
  <2>2. PICK s2d \in {s2d_tgl_r, s2d_tgl_next},
             data \in IF data_in_next = data_in_r THEN {data_in_r} ELSE Data :
               DestEdge(s2d, data)
    BY DEF BothEdges
  <2>3. data_in_next = data_in_r => data = data_in_r
    BY <2>2
  <2> QED  BY <2>1, <2>2, <2>3 DEF SourceEdge, DestEdge
<1>4. ~(data_in_en /\ data_out_en)
  BY OneEndActs
<1>5. CASE data_in_en
  <2>1. /\ s2d_tgl_r' = ~s2d_tgl_r /\ data_in_r' = din /\ d2s_tgl_r' = d2s_tgl_r
        /\ dout' = dout
    BY <1>3, <1>4, <1>5 DEF s2d_tgl_next, data_in_next, d2s_tgl_next
  <2>2. ~inFlight /\ inFlight' /\ d_sample_r = s2d_tgl_r /\ s_s2d_tgl = s2d_tgl_r
        /\ s_sample_r = d2s_tgl_r /\ s_d2s_tgl = d2s_tgl_r
    BY <1>1, <1>3, <1>5, <2>1 DEF RingBits, Bits, inFlight, data_in_en
  <2>3. ASSUME din PROVE ToCome' + 1 <= ToCome
    <3>1. ToCome \in Nat /\ ToCome >= 4
      BY <1>2, <2>2 DEF ToCome, Wait, Round, perPhy
    <3>2. inFlight' /\ data_in_r' /\ s_s2d_tgl' # s2d_tgl_r'
      BY <1>1, <1>3, <2>1, <2>2, <2>3
    <3>3. ToCome' = 3 \/ ToCome' = 2
      BY <3>2 DEF ToCome
    <3> QED  BY <3>1, <3>3
  <2> QED  BY <1>1, <1>3, <2>1, <2>2, <2>3 DEF Shown
<1>6. CASE data_out_en
  <2>1. /\ s2d_tgl_r' = s2d_tgl_r /\ data_in_r' = data_in_r /\ d2s_tgl_r' = ~d2s_tgl_r
        /\ dout' = data_in_r
    BY <1>3, <1>4, <1>6 DEF s2d_tgl_next, data_in_next, d2s_tgl_next
  <2>2. inFlight /\ ~inFlight' /\ d_sample_r = s2d_tgl_r /\ s_s2d_tgl = s2d_tgl_r
        /\ s_sample_r = d2s_tgl_r /\ s_d2s_tgl = d2s_tgl_r
    BY <1>1, <1>3, <1>6, <2>1 DEF RingBits, Bits, inFlight, data_out_en
  <2>3. ~Shown' => ~data_in_r
    BY <1>1, <2>1, <2>2 DEF Shown
  <2>4. ASSUME ~data_in_r PROVE ToCome' + 1 <= ToCome
    <3>1. ToCome = Round + 4
      BY <1>1, <1>2, <2>2, <2>4 DEF ToCome, Round, perPhy
    <3>2. ToCome' = 3 + Wait(3)' \/ ToCome' = 3 + Wait(2)'
      BY <1>1, <1>2, <1>3, <2>1, <2>2 DEF ToCome
    <3>3. Wait(3)' = Round /\ Wait(2)' = 2 * perPhy
      BY <1>2 DEF Wait, Round, perPhy
    <3> QED  BY <1>2, <3>1, <3>2, <3>3 DEF Round, perPhy
  <2> QED  BY <1>1, <1>3, <2>1, <2>2, <2>3, <2>4 DEF Shown
<1>7. CASE ~data_in_en /\ ~data_out_en
  <2>1. /\ s2d_tgl_r' = s2d_tgl_r /\ data_in_r' = data_in_r /\ d2s_tgl_r' = d2s_tgl_r
        /\ dout' = dout /\ s_sample_r' = d2s_tgl_r /\ d_sample_r' = s2d_tgl_r
    BY <1>3, <1>7 DEF s2d_tgl_next, data_in_next, d2s_tgl_next
  <2> QED
    BY <1>1, <1>2, <1>3, <1>7, <2>1
    DEF ToCome, Shown, inFlight, RingBits, Bits, Wait, Round, perPhy, data_in_en, data_out_en
<1> QED  BY <1>5, <1>6, <1>7

=============================================================================
