------------------------ MODULE UsbfPulseSyncProofs ------------------------
(***************************************************************************)
(* What the edges of its two clocks do to a pulse_sync: lemmas for the     *)
(* components that have one.                                               *)
(***************************************************************************)
EXTENDS UsbfPulseSync, TLAPS

(* A pulse on its way has been sent, sampled or seen, or there is none. *)
Quiet(p)   == /\ p.s_pulse2level_r = p.d_sample_r /\ p.d_sample_r = p.d_sync2_r
              /\ p.d_sync2_r = p.d_sync3_r
Sent(p)    == /\ p.s_pulse2level_r # p.d_sample_r /\ p.d_sample_r = p.d_sync2_r
              /\ p.d_sync2_r = p.d_sync3_r
Sampled(p) == /\ p.s_pulse2level_r = p.d_sample_r /\ p.d_sample_r # p.d_sync2_r
              /\ p.d_sync2_r = p.d_sync3_r
Seen(p)    == /\ p.s_pulse2level_r = p.d_sample_r /\ p.d_sample_r = p.d_sync2_r
              /\ p.d_sync2_r # p.d_sync3_r

(* From p to q it stays where it is, or goes on by one flip-flop. *)
Kept(p, q) == /\ Quiet(p) => Quiet(q)
              /\ Sent(p) => Sent(q)
              /\ Sampled(p) => Sampled(q)
              /\ Seen(p) => Seen(q)

Moved(p, q) == /\ Quiet(p) => Quiet(q)
               /\ Sent(p) => Sampled(q)
               /\ Sampled(p) => Seen(q)
               /\ Seen(p) => Quiet(q)

(* What an edge does to the registers of a synchroniser. *)
LEMMA SrcEdgeFields ==
  ASSUME NEW p \in PulseSync, NEW b \in BOOLEAN
  PROVE  /\ SrcEdge(p, b) \in PulseSync
         /\ SrcEdge(p, b).s_pulse2level_r = (p.s_pulse2level_r # b)
         /\ SrcEdge(p, b).d_sample_r = p.d_sample_r
         /\ SrcEdge(p, b).d_sync2_r = p.d_sync2_r
         /\ SrcEdge(p, b).d_sync3_r = p.d_sync3_r
BY DEF PulseSync, SrcEdge

LEMMA DstEdgeFields ==
  ASSUME NEW p \in PulseSync, NEW b \in BOOLEAN
  PROVE  /\ DstEdge(p, b) \in PulseSync
         /\ DstEdge(p, b).s_pulse2level_r = p.s_pulse2level_r
         /\ DstEdge(p, b).d_sample_r = b
         /\ DstEdge(p, b).d_sync2_r = p.d_sample_r
         /\ DstEdge(p, b).d_sync3_r = p.d_sync2_r
BY DEF PulseSync, DstEdge

(* The clock of the source sends a pulse or nothing. *)
LEMMA SrcMoves ==
  ASSUME NEW p \in PulseSync
  PROVE  /\ Kept(p, SrcEdge(p, FALSE))
         /\ Quiet(p) => Sent(SrcEdge(p, TRUE))
<1>1. Kept(p, SrcEdge(p, FALSE))
  BY SrcEdgeFields DEF PulseSync, Kept, Quiet, Sent, Sampled, Seen
<1>2. Quiet(p) => Sent(SrcEdge(p, TRUE))
  BY SrcEdgeFields DEF PulseSync, Quiet, Sent
<1> QED  BY <1>1, <1>2

(* That of the destination takes it on. *)
LEMMA DstMoves ==
  ASSUME NEW p \in PulseSync
  PROVE  Moved(p, DstEdge(p, p.s_pulse2level_r))
BY DstEdgeFields DEF PulseSync, Moved, Quiet, Sent, Sampled, Seen

(* Both together: of a pulse just sent, the destination sees the new level *)
(* or the old one.                                                         *)
LEMMA BothMove ==
  ASSUME NEW p \in PulseSync, NEW b \in BOOLEAN, NEW q, NEW level,
         q = DstEdge(SrcEdge(p, b), level),
         level = p.s_pulse2level_r \/ level = SrcEdge(p, b).s_pulse2level_r
  PROVE  /\ q \in PulseSync
         /\ ~b => Moved(p, q)
         /\ b /\ Quiet(p) => Sent(q) \/ Sampled(q)
<1> DEFINE r == SrcEdge(p, b)
<1>1. /\ r \in PulseSync /\ r.s_pulse2level_r = (p.s_pulse2level_r # b)
      /\ r.d_sample_r = p.d_sample_r
      /\ r.d_sync2_r = p.d_sync2_r /\ r.d_sync3_r = p.d_sync3_r
  BY SrcEdgeFields
<1>2. level \in BOOLEAN /\ q = DstEdge(r, level)
  BY <1>1 DEF PulseSync
<1> HIDE DEF r
<1>3. /\ q \in PulseSync /\ q.s_pulse2level_r = r.s_pulse2level_r
      /\ q.d_sample_r = level /\ q.d_sync2_r = r.d_sample_r /\ q.d_sync3_r = r.d_sync2_r
  BY <1>1, <1>2, DstEdgeFields
<1>4. ~b => Moved(p, q)
  BY <1>1, <1>3 DEF PulseSync, r, Moved, Quiet, Sent, Sampled, Seen
<1>5. b /\ Quiet(p) => Sent(q) \/ Sampled(q)
  BY <1>1, <1>3 DEF PulseSync, r, Quiet, Sent, Sampled
<1> QED  BY <1>3, <1>4, <1>5

(* What comes out. *)
LEMMA OutOf ==
  ASSUME NEW p \in PulseSync
  PROVE  /\ Seen(p) => Out(p)
         /\ Quiet(p) \/ Sent(p) \/ Sampled(p) => ~Out(p)
BY DEF PulseSync, Out, Quiet, Sent, Sampled, Seen
=============================================================================
