---------------------------- MODULE UsbfBusSync ----------------------------
(***************************************************************************)
(* bus_sync (usbf_sync_utilities.v): all bits of a bus cross together, with*)
(* a request and an acknowledgement that cross through two flip-flops each.*)
(* A step is a rising edge of the clock of the source, of the destination, *)
(* or of both.  When both rise, a flip-flop that takes a bit of the other  *)
(* clock takes its old or its new value, and one that takes several bits   *)
(* that change may take anything.                                          *)
(*                                                                         *)
(* The definitions called Bug_... are mistakes, each of the definition that*)
(* follows it: the properties must notice them (README).                   *)
(***************************************************************************)
EXTENDS Naturals

CONSTANTS Data,    \* what the bus carries
          Data0    \* zero

ASSUME BusAssumption == Data0 \in Data

VARIABLES
  din,
  s2d_tgl_r, data_in_r, s_sample_r, s_d2s_tgl,     \* in the clock of the source
  d2s_tgl_r, d_sample_r, s_s2d_tgl, dout           \* in that of the destination

source == <<s2d_tgl_r, data_in_r, s_sample_r, s_d2s_tgl>>
dest   == <<d2s_tgl_r, d_sample_r, s_s2d_tgl, dout>>
busVars   == <<din, source, dest>>

Bug_AlwaysIn == TRUE

data_in_en  == s2d_tgl_r = s_d2s_tgl
data_out_en == d2s_tgl_r # s_s2d_tgl

s2d_tgl_next == IF data_in_en THEN ~s2d_tgl_r ELSE s2d_tgl_r
d2s_tgl_next == IF data_out_en THEN ~d2s_tgl_r ELSE d2s_tgl_r
data_in_next == IF data_in_en THEN din ELSE data_in_r

(* One edge of each; `d2s', `s2d' and `data' are what is seen of the other. *)
SourceEdge(d2s) ==
  /\ s2d_tgl_r' = s2d_tgl_next /\ data_in_r' = data_in_next
  /\ s_sample_r' = d2s /\ s_d2s_tgl' = s_sample_r

DestEdge(s2d, data) ==
  /\ d2s_tgl_r' = d2s_tgl_next /\ dout' = IF data_out_en THEN data ELSE dout
  /\ d_sample_r' = s2d /\ s_s2d_tgl' = d_sample_r

SrcAlone == SourceEdge(d2s_tgl_r) /\ UNCHANGED dest

DstAlone == DestEdge(s2d_tgl_r, data_in_r) /\ UNCHANGED source

BothEdges ==
  /\ \E d2s \in {d2s_tgl_r, d2s_tgl_next} : SourceEdge(d2s)
  /\ \E s2d \in {s2d_tgl_r, s2d_tgl_next},
        data \in IF data_in_next = data_in_r THEN {data_in_r} ELSE Data : DestEdge(s2d, data)

SrcClock   == SrcAlone /\ din' \in Data
DstClock   == DstAlone /\ UNCHANGED din
BothClocks == BothEdges /\ din' \in Data

BusInit == /\ din \in Data /\ data_in_r = Data0 /\ dout = Data0
           /\ s2d_tgl_r = FALSE /\ s_sample_r = FALSE /\ s_d2s_tgl = FALSE
           /\ d2s_tgl_r = FALSE /\ d_sample_r = FALSE /\ s_s2d_tgl = FALSE

BusNext == SrcClock \/ DstClock \/ BothClocks

BusSpec == BusInit /\ [][BusNext]_busVars

-----------------------------------------------------------------------------
TypeOK == /\ din \in Data /\ data_in_r \in Data /\ dout \in Data
          /\ <<s2d_tgl_r, s_sample_r, s_d2s_tgl>> \in BOOLEAN \X BOOLEAN \X BOOLEAN
          /\ <<d2s_tgl_r, d_sample_r, s_s2d_tgl>> \in BOOLEAN \X BOOLEAN \X BOOLEAN

(* Request and acknowledgement follow each other around the ring of six    *)
(* flip-flops: one change of level at most is on its way, so that no end   *)
(* can act before the other has.                                           *)
ring == <<s2d_tgl_r, d_sample_r, s_s2d_tgl, d2s_tgl_r, s_sample_r, s_d2s_tgl>>

OneChange ==
  \A i, j \in 1 .. 5 : ring[i] # ring[i + 1] /\ ring[j] # ring[j + 1] => i = j

Snapshot == INSTANCE UsbSnapshot WITH full <- s2d_tgl_r # d2s_tgl_r, held <- data_in_r

(* The registers that the processor reads, all of them, are ones that the  *)
(* endpoints had, together and in that order: bus_sync implements          *)
(* UsbSnapshot.                                                            *)
ImplementsSnapshot == Snapshot!Spec
=============================================================================
