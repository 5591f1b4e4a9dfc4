--------------------------- MODULE UsbfFifoProofs ---------------------------
(***************************************************************************)
(* For every size of the FIFO and every set of bytes: its registers keep   *)
(* their ranges, its pointers stay `count' slots apart, and it implements  *)
(* a bounded queue.                                                        *)
(***************************************************************************)
EXTENDS UsbfFifo, SequenceTheorems, TLAPS

LEMMA DepthPositive == DEPTH \in Nat /\ DEPTH > 0
  BY FifoAssumption

(* usbf_fifo.v 59-99: no input sequence takes a register out of its range. *)
THEOREM FifoTypeOK == Spec => []TypeOK
<1> USE DepthPositive
<1>1. Init => TypeOK
  <2>1. 0 \in Ptr /\ 0 \in 0 .. DEPTH
    BY DEF Ptr
  <2>2. QED
    BY <2>1 DEF Init, RegsInit, PinsInit, TypeOK
<1>2. TypeOK /\ [Next]_vars => TypeOK'
  <2> SUFFICES ASSUME TypeOK, [Next]_vars PROVE TypeOK'
    OBVIOUS
  <2>1. CASE Next
    <3>1. ram' \in [Ptr -> Data]
      BY <2>1 DEF Next, Clock, TypeOK
    <3>2. rd_ptr' \in Ptr /\ wr_ptr' \in Ptr
      BY <2>1 DEF Next, Clock, TypeOK, Ptr, Succ
    <3>3. count' \in 0 .. DEPTH
      BY <2>1 DEF Next, Clock, TypeOK, push, pop, full_o, empty_o
    <3>4. QED
      BY <2>1, <3>1, <3>2, <3>3 DEF Next, Drive, TypeOK
  <2>2. CASE UNCHANGED vars
    BY <2>2 DEF vars, TypeOK
  <2>3. QED
    BY <2>1, <2>2
<1>3. QED
  BY <1>1, <1>2, PTL DEF Spec

(***************************************************************************)
(* The inductive invariant of the FIFO whose flushes come alone.  The pins *)
(* belong to it: they were chosen before the edge that takes them.         *)
(***************************************************************************)
FifoInv == TypeOK /\ PointersAgree /\ FlushAlone

LEMMA FifoInvInit == Init => FifoInv
<1> SUFFICES ASSUME Init PROVE FifoInv
  OBVIOUS
<1>1. 0 \in Ptr /\ 0 \in 0 .. DEPTH
  BY DepthPositive DEF Ptr
<1>2. TypeOK
  BY <1>1 DEF Init, RegsInit, PinsInit, TypeOK
<1>3. PointersAgree /\ FlushAlone
  BY DepthPositive
     DEF Init, RegsInit, PinsInit, PointersAgree, Slot, FlushAlone
<1>4. QED
  BY <1>2, <1>3 DEF FifoInv

LEMMA FifoInvNext == FifoInv /\ [CarefulNext]_vars => FifoInv'
<1> USE DepthPositive
<1> SUFFICES ASSUME FifoInv, [CarefulNext]_vars PROVE FifoInv'
  OBVIOUS
<1>1. CASE CarefulNext
  <2>1. TypeOK'
    <3>1. ram' \in [Ptr -> Data]
      BY <1>1 DEF CarefulNext, Clock, FifoInv, TypeOK
    <3>2. rd_ptr' \in Ptr /\ wr_ptr' \in Ptr
      BY <1>1 DEF CarefulNext, Clock, FifoInv, TypeOK, Ptr, Succ
    <3>3. count' \in 0 .. DEPTH
      BY <1>1 DEF CarefulNext, Clock, FifoInv, TypeOK, push, pop, full_o, empty_o
    <3>4. QED
      BY <1>1, <3>1, <3>2, <3>3 DEF CarefulNext, Drive, TypeOK
  <2>2. PointersAgree'
    BY <1>1 DEF CarefulNext, Clock, FifoInv, TypeOK, Ptr, PointersAgree, Slot,
                Succ, FlushAlone, push, pop, full_o, empty_o
  <2>3. QED
    BY <1>1, <2>1, <2>2 DEF CarefulNext, FifoInv
<1>2. CASE UNCHANGED vars
  BY <1>2 DEF vars, FifoInv, TypeOK, PointersAgree, Slot, FlushAlone
<1>3. QED
  BY <1>1, <1>2

(* What is counted is what lies between the pointers, as long as no flush  *)
(* meets a push or a pop.                                                  *)
THEOREM FifoPointersAgree == CarefulSpec => []PointersAgree
<1>1. FifoInv => PointersAgree
  BY DEF FifoInv
<1>2. QED
  BY <1>1, FifoInvInit, FifoInvNext, PTL DEF CarefulSpec

-----------------------------------------------------------------------------
(***************************************************************************)
(* The refinement.  Each edge of the careful FIFO is a step of the queue.  *)
(***************************************************************************)
ContentsIsSeq == /\ contents \in Seq(Data)
                 /\ Len(contents) = count
                 /\ \A i \in 1 .. count : contents[i] = ram[Slot(i)]

LEMMA ContentsLemma == TypeOK => ContentsIsSeq
<1> SUFFICES ASSUME TypeOK PROVE ContentsIsSeq
  OBVIOUS
<1>1. \A i \in 1 .. count : Slot(i) \in Ptr
  BY DepthPositive DEF TypeOK, Ptr, Slot
<1>2. \A i \in 1 .. count : ram[Slot(i)] \in Data
  BY <1>1 DEF TypeOK
<1>3. count \in Nat
  BY DepthPositive DEF TypeOK
<1>4. QED
  BY <1>2, <1>3 DEF contents, ContentsIsSeq

LEMMA ContentsLemmaNext == TypeOK' => ContentsIsSeq'
  BY ContentsLemma, PTL

(* Distinct positions of the queue lie in distinct slots. *)
LEMMA SlotsDistinct ==
  ASSUME TypeOK, PointersAgree, count < DEPTH
  PROVE  \A i \in 1 .. count : Slot(i) # wr_ptr
  BY DepthPositive DEF TypeOK, Ptr, PointersAgree, Slot

(* What an edge that pushes does to the contents, with or without a pop. *)
LEMMA PushedByte ==
  ASSUME FifoInv, CarefulNext, push
  PROVE  /\ count < DEPTH
         /\ \A i \in 1 .. count : ram'[Slot(i)] = ram[Slot(i)]
         /\ ram'[Slot(count + 1)] = data_i
<1>1. /\ TypeOK /\ PointersAgree /\ count < DEPTH
      /\ ram' = [ram EXCEPT ![wr_ptr] = data_i]
  BY DepthPositive DEF FifoInv, CarefulNext, Clock, push, full_o, TypeOK
<1>2. \A i \in 1 .. count : Slot(i) # wr_ptr
  BY <1>1, SlotsDistinct
<1>3. QED
  BY <1>1, <1>2 DEF TypeOK, PointersAgree

(* A pop moves every byte one position forward. *)
LEMMA PoppedSlots ==
  ASSUME FifoInv, CarefulNext, pop
  PROVE  /\ count > 0
         /\ \A i \in 1 .. DEPTH - 1 : Slot(i)' = Slot(i + 1)
  BY DepthPositive
     DEF FifoInv, CarefulNext, Clock, pop, empty_o, TypeOK, Ptr, Slot, Succ

LEMMA PushStep ==
  ASSUME FifoInv, CarefulNext, push, ~pop
  PROVE  Queue!Put(data_i)
<1> USE DepthPositive
<1>1. TypeOK /\ ~flush_i /\ count \in Nat
  BY DEF FifoInv, FlushAlone, push, TypeOK
<1>2. ContentsIsSeq /\ ContentsIsSeq'
  BY <1>1, FifoInvNext, ContentsLemma, ContentsLemmaNext DEF FifoInv
<1>3. count < DEPTH /\ count' = count + 1 /\ rd_ptr' = rd_ptr
  BY <1>1, PushedByte DEF CarefulNext, Clock
<1>4. \A i \in 1 .. count + 1 : Slot(i)' = Slot(i)
  BY <1>3 DEF Slot
<1>5. contents' = Append(contents, data_i)
  BY <1>1, <1>2, <1>3, <1>4, PushedByte DEF ContentsIsSeq, TypeOK
<1>6. QED
  BY <1>2, <1>3, <1>5 DEF Queue!Put, ContentsIsSeq

LEMMA PopStep ==
  ASSUME FifoInv, CarefulNext, pop, ~push
  PROVE  Queue!Get
<1> USE DepthPositive
<1>1. TypeOK /\ ~flush_i /\ count \in Nat /\ count <= DEPTH
  BY DEF FifoInv, FlushAlone, pop, TypeOK
<1>2. ContentsIsSeq /\ ContentsIsSeq'
  BY <1>1, FifoInvNext, ContentsLemma, ContentsLemmaNext DEF FifoInv
<1>3. count > 0 /\ count' = count - 1 /\ ram' = ram
  BY <1>1, PoppedSlots DEF CarefulNext, Clock
<1>4. \A i \in 1 .. count - 1 : Slot(i)' = Slot(i + 1)
  BY <1>1, <1>3, PoppedSlots
<1>5. contents' = Tail(contents)
  BY <1>1, <1>2, <1>3, <1>4 DEF ContentsIsSeq
<1>6. QED
  BY <1>2, <1>3, <1>5 DEF Queue!Get, ContentsIsSeq

LEMMA PushPopStep ==
  ASSUME FifoInv, CarefulNext, push, pop
  PROVE  Queue!PutGet(data_i)
<1> USE DepthPositive
<1>1. TypeOK /\ ~flush_i /\ count \in Nat
  BY DEF FifoInv, FlushAlone, pop, TypeOK
<1>2. ContentsIsSeq /\ ContentsIsSeq'
  BY <1>1, FifoInvNext, ContentsLemma, ContentsLemmaNext DEF FifoInv
<1>3. count > 0 /\ count < DEPTH /\ count' = count
  BY <1>1, PoppedSlots, PushedByte DEF CarefulNext, Clock
<1>4. \A i \in 1 .. count : Slot(i)' = Slot(i + 1)
  BY <1>1, <1>3, PoppedSlots
<1>5. contents' = Append(Tail(contents), data_i)
  <2>1. \A i \in 1 .. count - 1 : contents'[i] = contents[i + 1]
    BY <1>1, <1>2, <1>3, <1>4, PushedByte DEF ContentsIsSeq
  <2>2. contents'[count] = data_i
    BY <1>1, <1>2, <1>3, <1>4, PushedByte DEF ContentsIsSeq
  <2>3. QED
    BY <1>1, <1>2, <1>3, <2>1, <2>2 DEF ContentsIsSeq, TypeOK
<1>6. QED
  BY <1>2, <1>3, <1>5 DEF Queue!PutGet, ContentsIsSeq

LEMMA IdleStep ==
  ASSUME FifoInv, CarefulNext, ~push, ~pop
  PROVE  Queue!Clear \/ UNCHANGED contents
<1>1. CASE flush_i
  <2>1. count' = 0
    BY <1>1 DEF CarefulNext, Clock
  <2>2. ContentsIsSeq'
    BY FifoInvNext, ContentsLemmaNext DEF FifoInv
  <2>3. contents' = << >>
    BY <2>1, <2>2 DEF ContentsIsSeq
  <2>4. QED
    BY <2>3 DEF Queue!Clear
<1>2. CASE ~flush_i
  BY <1>2 DEF CarefulNext, Clock, contents, Slot
<1>3. QED
  BY <1>1, <1>2

(* The FIFO of usbf_fifo.v, of any depth, is a bounded queue towards the   *)
(* endpoint and the processor as long as no flush meets a push or a pop.   *)
THEOREM FifoImplementsQueue == CarefulSpec => IsAQueue
<1>1. Init => Queue!Init
  <2> SUFFICES ASSUME Init PROVE contents = << >>
    BY DEF Queue!Init
  <2>1. ContentsIsSeq /\ count = 0
    BY FifoInvInit, ContentsLemma DEF FifoInv, Init, RegsInit
  <2>2. QED
    BY <2>1 DEF ContentsIsSeq
<1>2. FifoInv /\ [CarefulNext]_vars => [Queue!Next]_contents
  <2> SUFFICES ASSUME FifoInv, [CarefulNext]_vars
               PROVE  Queue!Next \/ UNCHANGED contents
    OBVIOUS
  <2>1. CASE UNCHANGED vars
    BY <2>1 DEF vars, contents, Slot
  <2>2. CASE CarefulNext
    <3>1. data_i \in Data
      BY DEF FifoInv, TypeOK
    <3>2. CASE push /\ ~pop
      BY <2>2, <3>1, <3>2, PushStep DEF Queue!Next
    <3>3. CASE pop /\ ~push
      BY <2>2, <3>3, PopStep DEF Queue!Next
    <3>4. CASE push /\ pop
      BY <2>2, <3>1, <3>4, PushPopStep DEF Queue!Next
    <3>5. CASE ~push /\ ~pop
      BY <2>2, <3>5, IdleStep DEF Queue!Next
    <3>6. QED
      BY <3>2, <3>3, <3>4, <3>5
  <2>3. QED
    BY <2>1, <2>2
<1>3. QED
  BY <1>1, <1>2, FifoInvInit, FifoInvNext, PTL
     DEF CarefulSpec, IsAQueue, Queue!Spec
=============================================================================
