----------------------- MODULE PixelBufferDMA_proofs -----------------------
(***************************************************************************)
(* Theorems about the pixel buffer DMA, for images, FIFOs and thresholds   *)
(* of every size DMAAssumption allows, and about the driver and the DMA    *)
(* together, for every set of buffers.                                     *)
(***************************************************************************)
EXTENDS DoubleBuffering, SequenceTheorems, TLAPS

-----------------------------------------------------------------------------
(* Queues. *)

Bit(b) == IF b THEN 1 ELSE 0


\* What one edge does to a queue: its elements, its length, and which element
\* ends up where.
LEMMA ShiftedProperties ==
  ASSUME NEW S, NEW q \in Seq(S),
         NEW pop \in BOOLEAN, NEW push \in BOOLEAN, NEW e,
         pop => q # <<>>, push => e \in S
  PROVE  /\ Shifted(q, pop, push, e) \in Seq(S)
         /\ Len(Shifted(q, pop, push, e)) = Len(q) - Bit(pop) + Bit(push)
         /\ \A i \in 1..Len(q) - Bit(pop) :
              Shifted(q, pop, push, e)[i] = q[i + Bit(pop)]
         /\ push => Shifted(q, pop, push, e)[Len(q) - Bit(pop) + 1] = e
<1> DEFINE t == IF pop THEN Tail(q) ELSE q
           u == IF push THEN <<e>> ELSE <<>>
<1>1. /\ t \in Seq(S)
      /\ Len(t) = Len(q) - Bit(pop)
      /\ \A i \in 1..Len(t) : t[i] = q[i + Bit(pop)]
  <2>1. CASE pop
    BY <2>1, HeadTailProperties DEF Bit
  <2>2. CASE ~pop
    BY <2>2, LenProperties DEF Bit
  <2> QED BY <2>1, <2>2
<1>2. u \in Seq(S) /\ Len(u) = Bit(push) /\ (push => u[1] = e)
  BY EmptySeq DEF Bit
<1> HIDE DEF t, u
<1>3. /\ t \o u \in Seq(S)
      /\ Len(t \o u) = Len(t) + Len(u)
      /\ \A i \in 1..Len(t) + Len(u) :
           (t \o u)[i] = IF i <= Len(t) THEN t[i] ELSE u[i - Len(t)]
  BY <1>1, <1>2, ConcatProperties
<1>4. Len(t) \in Nat /\ Len(u) \in Nat
  BY <1>1, <1>2, LenProperties
<1>5. Shifted(q, pop, push, e) = t \o u
  BY DEF Shifted, t, u
<1> QED
  BY <1>1, <1>2, <1>3, <1>4, <1>5 DEF Bit

-----------------------------------------------------------------------------
(* Types. *)

\* What the proofs use of the constants.
LEMMA Sizes ==
  /\ PIXELS \in Nat \ {0} /\ LINES \in Nat \ {0}
  /\ Depth \in Nat /\ AlmostEmpty \in Nat /\ AlmostFull \in Nat
  /\ StallAt \in Nat /\ ResumeAt \in Nat /\ PendingMod \in Nat
  /\ AlmostEmpty < AlmostFull
  /\ AlmostFull + StallAt + 1 <= Depth
  /\ ResumeAt < StallAt
  /\ StallAt + 1 < PendingMod
BY DMAAssumption DEF DMAAssumption

\* The address the DMA puts out is that of a pixel.
LEMMA MasterAddressType ==
  ASSUME TypeOK
  PROVE  master_address \in Addresses
BY DEF TypeOK, master_address, Addresses

\* What the FIFO is offered when memory answers is a beat.
LEMMA DataInType ==
  ASSUME TypeOK, inflight # <<>>
  PROVE  fifo_data_in \in Beats
<1>1. Head(inflight) \in Addresses
  BY HeadTailProperties DEF TypeOK
<1> QED
  BY <1>1 DEF TypeOK, fifo_data_in, Beats

\* The registers that do not belong to the FSM keep their types.
LEMMA RegistersType ==
  ASSUME TypeOK,
         NEW accept \in BOOLEAN, NEW valid \in BOOLEAN, NEW take \in BOOLEAN,
         NEW write \in SlaveWrites,
         Registers(accept, valid, take, write)
  PROVE  /\ buffer_start_address' \in Buffers
         /\ back_buf_start_address' \in Buffers
         /\ buffer_swap' \in BOOLEAN
         /\ pending_reads' \in 0..PendingMod-1
         /\ reading_first_pixel_in_image' \in BOOLEAN
         /\ pixel_address' \in 0..PIXELS-1
         /\ line_address' \in 0..LINES-1
         /\ Image_Buffer' \in Seq(Beats)
         /\ inflight' \in Seq(Addresses)
         /\ stream' \in Beats \cup {NoBeat}
<1> USE DEF Registers
<1>1. buffer_start_address' \in Buffers /\ back_buf_start_address' \in Buffers
  <2>1. write.register = "BackBuffer" => write.address \in Buffers
    BY DEF SlaveWrites, NoWrite, RequestSwap, SetBackBuffer
  <2> QED
    BY <2>1 DEF TypeOK, BufferAddresses, buffers
<1>2. buffer_swap' \in BOOLEAN
  BY DEF BufferSwap
<1>3. pending_reads' \in 0..PendingMod-1
  BY Sizes DEF TypeOK, PendingReads
<1>4. reading_first_pixel_in_image' \in BOOLEAN
  BY DEF FirstPixel
<1>5. pixel_address' \in 0..PIXELS-1 /\ line_address' \in 0..LINES-1
  BY Sizes DEF TypeOK, PixelAddress
<1>6. Image_Buffer' \in Seq(Beats)
  <2>1. valid /\ ~fifo_full => fifo_data_in \in Beats
    BY DataInType
  <2>2. (valid /\ ~fifo_full) \in BOOLEAN
    OBVIOUS
  <2> QED
    BY <2>1, <2>2, ShiftedProperties DEF TypeOK, Fifo, stream_valid
<1>7. stream' \in Beats \cup {NoBeat}
  BY HeadTailProperties DEF TypeOK, Fifo, stream_valid
<1>8. inflight' \in Seq(Addresses)
  BY MasterAddressType, ShiftedProperties DEF TypeOK, Memory
<1> QED
  BY <1>1, <1>2, <1>3, <1>4, <1>5, <1>6, <1>7, <1>8

\* TypeOK holds in every state the DMA reaches.
THEOREM TypeCorrect == DMASpec => []TypeOK
<1>1. Init => TypeOK
  <2> SUFFICES ASSUME Init PROVE TypeOK
    OBVIOUS
  <2>1. DefaultBuffer \in Buffers /\ DefaultBackBuffer \in Buffers
    BY DMAAssumption DEF DMAAssumption
  <2>2. Image_Buffer \in Seq(Beats) /\ inflight \in Seq(Addresses)
    BY EmptySeq DEF Init
  <2>3. 0 \in 0..PendingMod-1 /\ 0 \in 0..PIXELS-1 /\ 0 \in 0..LINES-1
    BY Sizes
  <2> QED
    BY <2>1, <2>2, <2>3 DEF Init, TypeOK
<1>2. TypeOK /\ [DMANext]_dmaVars => TypeOK'
  <2> SUFFICES ASSUME TypeOK, [DMANext]_dmaVars PROVE TypeOK'
    OBVIOUS
  <2>1. CASE UNCHANGED dmaVars
    BY <2>1 DEF TypeOK, dmaVars, control, buffers, datapath
  <2>2. CASE \E valid, take \in BOOLEAN, write \in SlaveWrites :
               Edge(valid, take, write)
    <3>1. PICK valid \in BOOLEAN, take \in BOOLEAN, write \in SlaveWrites :
            Edge(valid, take, write)
      BY <2>2
    <3>2. \E accept \in BOOLEAN : Registers(accept, valid, take, write)
      BY <3>1 DEF Edge, Idle, WaitForLastPixel, ReadHeld, ReadAccepted,
                  MaxPendingReadsStall
    <3>3. s_pixel_buffer' \in {"IDLE", "WAIT_FOR_LAST_PIXEL", "READ_BUFFER",
                               "MAX_PENDING_READS_STALL"}
      BY <3>1 DEF Edge, Idle, WaitForLastPixel, ReadHeld, ReadAccepted,
                  MaxPendingReadsStall, TypeOK
    <3> QED
      BY <3>2, <3>3, RegistersType DEF TypeOK
  <2> QED
    BY <2>1, <2>2 DEF DMANext
<1> QED
  BY <1>1, <1>2, PTL DEF DMASpec

-----------------------------------------------------------------------------
(* Flow control: no read is miscounted and no pixel is dropped. *)

\* The same for a queue of beats to which a beat is added only when valid.
LEMMA FifoShifted ==
  ASSUME NEW q \in Seq(Beats), NEW take \in BOOLEAN, NEW valid \in BOOLEAN,
         NEW e, take => q # <<>>, valid => e \in Beats
  PROVE  /\ Len(Shifted(q, take, valid, e)) = Len(q) - Bit(take) + Bit(valid)
         /\ \A i \in 1..Len(q) - Bit(take) :
              Shifted(q, take, valid, e)[i] = q[i + Bit(take)]
         /\ valid => Shifted(q, take, valid, e)[Len(q) - Bit(take) + 1] = e
BY ShiftedProperties, SMTT(30)

\* What an edge at which the FIFO is not full does to the two queues.
LEMMA QueuesStep ==
  ASSUME TypeOK,
         NEW accept \in BOOLEAN, NEW valid \in BOOLEAN, NEW take \in BOOLEAN,
         NEW write \in SlaveWrites,
         Registers(accept, valid, take, write),
         valid => ~fifo_full
  PROVE  /\ Len(Image_Buffer) \in Nat /\ Len(inflight) \in Nat
         /\ Bit(take) <= Len(Image_Buffer) /\ Bit(valid) <= Len(inflight)
         /\ Len(Image_Buffer') = Len(Image_Buffer) - Bit(take) + Bit(valid)
         /\ \A i \in 1..Len(Image_Buffer) - Bit(take) :
              Image_Buffer'[i] = Image_Buffer[i + Bit(take)]
         /\ valid => Image_Buffer'[Len(Image_Buffer) - Bit(take) + 1]
                       = fifo_data_in
         /\ Len(inflight') = Len(inflight) - Bit(valid) + Bit(accept)
         /\ \A i \in 1..Len(inflight) - Bit(valid) :
              inflight'[i] = inflight[i + Bit(valid)]
         /\ accept => inflight'[Len(inflight) - Bit(valid) + 1]
                        = master_address
<1>1. Image_Buffer \in Seq(Beats) /\ inflight \in Seq(Addresses)
  BY DEF TypeOK
<1>2. (take => Image_Buffer # <<>>) /\ (valid => inflight # <<>>)
  BY DEF Registers, stream_valid
<1>3. /\ Len(Image_Buffer) \in Nat /\ Len(inflight) \in Nat
      /\ Bit(take) <= Len(Image_Buffer) /\ Bit(valid) <= Len(inflight)
  BY <1>1, <1>2, EmptySeq, LenProperties DEF Bit
<1>4. Image_Buffer' = Shifted(Image_Buffer, take, valid, fifo_data_in)
  BY DEF Registers, Fifo, Shifted
<1>5. inflight' = Shifted(inflight, valid, accept, master_address)
  BY DEF Registers, Memory
<1>6. valid => fifo_data_in \in Beats
  BY <1>2, DataInType
<1>7. master_address \in Addresses
  BY MasterAddressType
<1>8. LET q == Shifted(Image_Buffer, take, valid, fifo_data_in)
      IN  /\ Len(q) = Len(Image_Buffer) - Bit(take) + Bit(valid)
          /\ \A i \in 1..Len(Image_Buffer) - Bit(take) :
               q[i] = Image_Buffer[i + Bit(take)]
          /\ valid => q[Len(Image_Buffer) - Bit(take) + 1] = fifo_data_in
  BY <1>1, <1>2, <1>6, FifoShifted
<1>9. LET q == Shifted(inflight, valid, accept, master_address)
      IN  /\ Len(q) = Len(inflight) - Bit(valid) + Bit(accept)
          /\ \A i \in 1..Len(inflight) - Bit(valid) :
               q[i] = inflight[i + Bit(valid)]
          /\ accept => q[Len(inflight) - Bit(valid) + 1] = master_address
  BY <1>1, <1>2, <1>7, ShiftedProperties
<1> QED
  BY <1>3, <1>4, <1>5, <1>8, <1>9

\* Memory never answers into a full FIFO, so fifo_full drops nothing.
LEMMA RoomWhenValid ==
  ASSUME TypeOK, FlowControl, inflight # <<>>
  PROVE  ~fifo_full
<1>1. Len(Image_Buffer) \in Nat /\ Len(inflight) \in Nat \ {0}
  BY EmptySeq, LenProperties DEF TypeOK
<1> QED
  BY <1>1, Sizes DEF FlowControl, fifo_full

\* What FlowControl says of the queues in state s of the FSM.
Bounds(s, used, owed) ==
  /\ owed <= StallAt + 1
  /\ used + owed <= AlmostFull + StallAt + 1
  /\ s = "IDLE" => owed <= StallAt
  /\ s = "READ_BUFFER" =>
       /\ owed <= StallAt
       /\ owed = StallAt => used < AlmostFull
       /\ used + owed <= AlmostFull + StallAt
  /\ s = "MAX_PENDING_READS_STALL" => used + owed <= AlmostFull + StallAt

\* FlowControl holds after reset: nothing is pending and the FIFO is empty.
LEMMA FlowControlInit == Init => FlowControl
BY Sizes, EmptySeq DEF Init, FlowControl

\* What an edge does to the lengths of the queues and to the counter.
LEMMA LengthsStep ==
  ASSUME TypeOK, FlowControl,
         NEW accept \in BOOLEAN, NEW valid \in BOOLEAN, NEW take \in BOOLEAN,
         NEW write \in SlaveWrites,
         Registers(accept, valid, take, write),
         accept => s_pixel_buffer = "READ_BUFFER"
  PROVE  LET used == Len(Image_Buffer)
             owed == Len(inflight)
             t == Bit(take)
             v == Bit(valid)
         IN  /\ used \in Nat /\ owed \in Nat /\ t \in {0, 1} /\ v \in {0, 1}
             /\ t <= used /\ v <= owed
             /\ used' = used - t + v
             /\ owed' = owed - v + Bit(accept)
             /\ pending_reads = owed
             /\ pending_reads' = owed'
<1> DEFINE used == Len(Image_Buffer)
           owed == Len(inflight)
           t == Bit(take)
           v == Bit(valid)
<1>1. valid => ~fifo_full
  BY RoomWhenValid DEF Registers
<1>2. /\ used \in Nat /\ owed \in Nat
      /\ t <= used /\ v <= owed
      /\ used' = used - t + v
      /\ owed' = owed - v + Bit(accept)
  BY <1>1, QueuesStep
<1>3. t \in {0, 1} /\ v \in {0, 1}
  BY DEF Bit
<1>4. pending_reads = owed /\ (accept => owed <= StallAt)
  BY DEF FlowControl
<1> HIDE DEF used, owed
<1>5. accept => (owed + 1) % PendingMod = owed + 1
  BY Sizes, <1>2, <1>4
<1>6. pending_reads' = owed - v + Bit(accept)
  BY <1>2, <1>4, <1>5 DEF Registers, PendingReads, Bit
<1> QED
  BY <1>2, <1>3, <1>4, <1>6 DEF used, owed

\* Every edge preserves FlowControl, whatever the state of the FSM.
LEMMA FlowControlStep ==
  ASSUME TypeOK, FlowControl, [DMANext]_dmaVars
  PROVE  FlowControl'
<1>1. CASE UNCHANGED dmaVars
  BY <1>1 DEF FlowControl, dmaVars, control, buffers, datapath
<1>2. ASSUME NEW valid \in BOOLEAN, NEW take \in BOOLEAN,
             NEW write \in SlaveWrites, Edge(valid, take, write)
      PROVE  FlowControl'
  <2> DEFINE used == Len(Image_Buffer)
             owed == Len(inflight)
             t == Bit(take)
             v == Bit(valid)
             s == s_pixel_buffer
             Step(a) == /\ used \in Nat /\ owed \in Nat
                        /\ t \in {0, 1} /\ v \in {0, 1}
                        /\ t <= used /\ v <= owed
                        /\ used' = used - t + v
                        /\ owed' = owed - v + a
                        /\ pending_reads = owed
                        /\ pending_reads' = owed'
  <2>1. Bounds(s, used, owed)
    BY DEF FlowControl, Bounds
  <2>2. pending_reads' = owed' /\ Bounds(s', used', owed') => FlowControl'
    BY DEF FlowControl, Bounds
  <2>3. ASSUME NEW accept \in BOOLEAN, Registers(accept, valid, take, write),
               accept => s_pixel_buffer = "READ_BUFFER"
        PROVE  Step(Bit(accept))
    BY <2>3, LengthsStep
  <2>4. Bit(FALSE) = 0 /\ Bit(TRUE) = 1
    BY DEF Bit
  <2> HIDE DEF used, owed, t, v, s
  <2>5. CASE Idle(valid, take, write)
    <3>1. /\ Registers(FALSE, valid, take, write) /\ FALSE \in BOOLEAN
          /\ FALSE => s_pixel_buffer = "READ_BUFFER"
      BY <2>5 DEF Idle
    <3>2. Step(0)
      BY <2>3, <2>4, <3>1, Zenon
    <3>3. s = "IDLE" /\ s' \in {"IDLE", "READ_BUFFER"}
          /\ (s' = "READ_BUFFER" => used < AlmostEmpty)
      BY <2>5, <3>2, Sizes DEF Idle, fifo_almost_empty, used, s
    <3>4. Bounds(s', used', owed')
      BY <2>1, <3>2, <3>3, Sizes DEF Bounds
    <3> QED
      BY <2>2, <3>2, <3>4
  <2>6. CASE WaitForLastPixel(valid, take, write)
    <3>1. /\ Registers(FALSE, valid, take, write) /\ FALSE \in BOOLEAN
          /\ FALSE => s_pixel_buffer = "READ_BUFFER"
      BY <2>6 DEF WaitForLastPixel
    <3>2. Step(0)
      BY <2>3, <2>4, <3>1, Zenon
    <3>3. s = "WAIT_FOR_LAST_PIXEL"
          /\ s' \in {"IDLE", "WAIT_FOR_LAST_PIXEL"}
          /\ (s' = "IDLE" => pending_reads = 0)
      BY <2>6, <3>2, Sizes DEF WaitForLastPixel, used, s
    <3>4. Bounds(s', used', owed')
      BY <2>1, <3>2, <3>3, Sizes DEF Bounds
    <3> QED
      BY <2>2, <3>2, <3>4
  <2>7. CASE ReadHeld(valid, take, write)
    <3>1. /\ Registers(FALSE, valid, take, write) /\ FALSE \in BOOLEAN
          /\ FALSE => s_pixel_buffer = "READ_BUFFER"
      BY <2>7 DEF ReadHeld
    <3>2. Step(0)
      BY <2>3, <2>4, <3>1, Zenon
    <3>3. s = "READ_BUFFER" /\ s' = "READ_BUFFER"
      BY <2>7, <3>2, Sizes DEF ReadHeld, used, s
    <3>4. Bounds(s', used', owed')
      BY <2>1, <3>2, <3>3, Sizes DEF Bounds
    <3> QED
      BY <2>2, <3>2, <3>4
  <2>8. CASE ReadAccepted(valid, take, write)
    <3>1. /\ Registers(TRUE, valid, take, write) /\ TRUE \in BOOLEAN
          /\ TRUE => s_pixel_buffer = "READ_BUFFER"
      BY <2>8 DEF ReadAccepted
    <3>2. Step(1)
      BY <2>3, <2>4, <3>1, Zenon
    <3>3. s = "READ_BUFFER"
          /\ \/ s' = "WAIT_FOR_LAST_PIXEL"
             \/ s' = "IDLE" /\ used >= AlmostFull
             \/ s' = "MAX_PENDING_READS_STALL" /\ used < AlmostFull
             \/ /\ s' = "READ_BUFFER" /\ used < AlmostFull
                /\ pending_reads < StallAt
      BY <2>8, <3>2, Sizes DEF ReadAccepted, fifo_almost_full, used, s
    <3>4. Bounds(s', used', owed')
      BY <2>1, <3>2, <3>3, Sizes DEF Bounds
    <3> QED
      BY <2>2, <3>2, <3>4
  <2>9. CASE MaxPendingReadsStall(valid, take, write)
    <3>1. /\ Registers(FALSE, valid, take, write) /\ FALSE \in BOOLEAN
          /\ FALSE => s_pixel_buffer = "READ_BUFFER"
      BY <2>9 DEF MaxPendingReadsStall
    <3>2. Step(0)
      BY <2>3, <2>4, <3>1, Zenon
    <3>3. s = "MAX_PENDING_READS_STALL"
          /\ s' \in {"READ_BUFFER", "MAX_PENDING_READS_STALL"}
          /\ (s' = "READ_BUFFER" => pending_reads <= ResumeAt)
      BY <2>9, <3>2, Sizes DEF MaxPendingReadsStall, used, s
    <3>4. Bounds(s', used', owed')
      BY <2>1, <3>2, <3>3, Sizes DEF Bounds
    <3> QED
      BY <2>2, <3>2, <3>4
  <2> QED
    BY <1>2, <2>5, <2>6, <2>7, <2>8, <2>9 DEF Edge
<1> QED
  BY <1>1, <1>2 DEF DMANext

-----------------------------------------------------------------------------
(* Frames: order, marks, and the buffer they are read from. *)

\* Only the last pixel of a frame is followed by a first one.
LEMMA FollowsFirst ==
  ASSUME NEW a \in Addresses, NEW b \in Addresses, Follows(b, a), First(b)
  PROVE  Final(a)
BY Sizes DEF Addresses, Follows, First, Final

\* Accepting a read moves the address to the next pixel; the buffer may change
\* only with the last pixel of a frame.  Nothing else moves it.
LEMMA AddressStep ==
  ASSUME TypeOK,
         NEW accept \in BOOLEAN, NEW valid \in BOOLEAN, NEW take \in BOOLEAN,
         NEW write \in SlaveWrites,
         Registers(accept, valid, take, write)
  PROVE  /\ ~accept => master_address' = master_address /\ (AtOrigin' <=> AtOrigin)
         /\ accept => Follows(master_address', master_address)
         /\ accept => (AtOrigin' <=> AtLastPixel)
<1>1. CASE ~accept
  BY <1>1 DEF Registers, PixelAddress, BufferAddresses, buffers,
              master_address, AtOrigin
<1>2. CASE accept
  <2>1. ~AtLastPixel => buffer_start_address' = buffer_start_address
    BY <1>2 DEF Registers, BufferAddresses, buffers
  <2> QED
    BY <1>2, <2>1, Sizes
    DEF Registers, PixelAddress, master_address, AtOrigin, AtLastPixel,
        Follows, TypeOK
<1> QED
  BY <1>1, <1>2

\* An edge moves the pixels on their way up by as many places as the sink
\* takes, and disturbs them in no other way.
LEMMA OnTheWayStep ==
  ASSUME TypeOK, FlowControl,
         NEW accept \in BOOLEAN, NEW valid \in BOOLEAN, NEW take \in BOOLEAN,
         NEW write \in SlaveWrites,
         Registers(accept, valid, take, write),
         NEW k \in Nat \ {0},
         k + Bit(take) <= Len(Image_Buffer) + Len(inflight) + 1
  PROVE  OnTheWay(k)' = OnTheWay(k + Bit(take))
<1> DEFINE used == Len(Image_Buffer)
           owed == Len(inflight)
           t == Bit(take)
           v == Bit(valid)
           a == Bit(accept)
<1>1. valid => ~fifo_full
  BY RoomWhenValid DEF Registers
<1>2. /\ used \in Nat /\ owed \in Nat /\ t <= used /\ v <= owed
      /\ used' = used - t + v
      /\ owed' = owed - v + a
  BY <1>1, QueuesStep
<1>3. /\ \A i \in 1..used - t : Image_Buffer'[i] = Image_Buffer[i + t]
      /\ valid => Image_Buffer'[used - t + 1] = fifo_data_in
      /\ \A i \in 1..owed - v : inflight'[i] = inflight[i + v]
      /\ accept => inflight'[owed - v + 1] = master_address
  BY <1>1, QueuesStep
<1>4. /\ t \in {0, 1} /\ v \in {0, 1} /\ a \in {0, 1}
      /\ v = 1 => valid
      /\ a = 1 => accept
      /\ a = 0 => ~accept
  BY DEF Bit
<1>5. valid => fifo_data_in.data = inflight[1]
  BY DEF fifo_data_in
<1>6. a = 0 => master_address' = master_address
  BY <1>4, AddressStep
<1>7. OnTheWay(k)' = IF k <= used' THEN Image_Buffer'[k].data
                     ELSE IF k <= used' + owed' THEN inflight'[k - used']
                     ELSE master_address'
  BY DEF OnTheWay
<1>8. \A j : OnTheWay(j) = IF j <= used THEN Image_Buffer[j].data
                           ELSE IF j <= used + owed THEN inflight[j - used]
                           ELSE master_address
  BY DEF OnTheWay
<1>9. k + t <= used + owed + 1
  OBVIOUS
<1> SUFFICES OnTheWay(k)' = OnTheWay(k + t)
  OBVIOUS
<1> HIDE DEF used, owed, t, v, a
<1>10. CASE k \in 1..used - t /\ k <= used' /\ k + t <= used
  <2>1. Image_Buffer'[k] = Image_Buffer[k + t]
    BY <1>3, <1>10
  <2> QED
    BY <1>7, <1>8, <1>10, <2>1
<1>11. CASE /\ v = 1 /\ k = used - t + 1 /\ k <= used'
            /\ ~(k + t <= used) /\ k + t <= used + owed /\ (k + t) - used = 1
  <2>1. OnTheWay(k)' = fifo_data_in.data
    BY <1>3, <1>4, <1>7, <1>11
  <2>2. OnTheWay(k + t) = inflight[(k + t) - used]
    BY <1>8, <1>11
  <2> QED
    BY <1>4, <1>5, <1>11, <2>1, <2>2
<1>12. CASE /\ \E j \in 1..owed - v : j = k - used' /\ j + v = (k + t) - used
            /\ ~(k <= used') /\ k <= used' + owed'
            /\ ~(k + t <= used) /\ k + t <= used + owed
  <2>1. PICK j \in 1..owed - v : j = k - used' /\ j + v = (k + t) - used
    BY <1>12
  <2>2. inflight'[j] = inflight[j + v]
    BY <1>3, <2>1
  <2>3. OnTheWay(k)' = inflight'[j]
    BY <1>7, <1>12, <2>1
  <2>4. OnTheWay(k + t) = inflight[(k + t) - used]
    BY <1>8, <1>12
  <2> QED
    BY <2>1, <2>2, <2>3, <2>4
<1>13. CASE /\ a = 1 /\ k - used' = owed - v + 1
            /\ ~(k <= used') /\ k <= used' + owed'
            /\ ~(k + t <= used) /\ ~(k + t <= used + owed)
  <2>1. OnTheWay(k)' = inflight'[owed - v + 1]
    BY <1>7, <1>13
  <2>2. OnTheWay(k + t) = master_address
    BY <1>8, <1>13
  <2> QED
    BY <1>3, <1>4, <1>13, <2>1, <2>2
<1>14. CASE /\ a = 0 /\ ~(k <= used') /\ ~(k <= used' + owed')
            /\ ~(k + t <= used) /\ ~(k + t <= used + owed)
  BY <1>6, <1>7, <1>8, <1>14
<1>15. \/ k \in 1..used - t /\ k <= used' /\ k + t <= used
       \/ /\ v = 1 /\ k = used - t + 1 /\ k <= used'
          /\ ~(k + t <= used) /\ k + t <= used + owed /\ (k + t) - used = 1
       \/ /\ \E j \in 1..owed - v : j = k - used' /\ j + v = (k + t) - used
          /\ ~(k <= used') /\ k <= used' + owed'
          /\ ~(k + t <= used) /\ k + t <= used + owed
       \/ /\ a = 1 /\ k - used' = owed - v + 1
          /\ ~(k <= used') /\ k <= used' + owed'
          /\ ~(k + t <= used) /\ ~(k + t <= used + owed)
       \/ /\ a = 0 /\ ~(k <= used') /\ ~(k <= used' + owed')
          /\ ~(k + t <= used) /\ ~(k + t <= used + owed)
  BY <1>2, <1>4, <1>9
<1> QED
  BY <1>10, <1>11, <1>12, <1>13, <1>14, <1>15

\* Every pixel on its way is an address.
LEMMA OnTheWayType ==
  ASSUME TypeOK, NEW k \in 1..Len(Image_Buffer) + Len(inflight) + 1
  PROVE  OnTheWay(k) \in Addresses
<1> DEFINE used == Len(Image_Buffer)
           owed == Len(inflight)
<1>1. used \in Nat /\ owed \in Nat
  BY LenProperties DEF TypeOK
<1>2. \A i \in 1..used : Image_Buffer[i].data \in Addresses
  <2>1. \A i \in 1..used : Image_Buffer[i] \in Beats
    BY ElementOfSeq DEF TypeOK
  <2> QED
    BY <2>1 DEF Beats
<1>3. \A i \in 1..owed : inflight[i] \in Addresses
  BY ElementOfSeq DEF TypeOK
<1>4. master_address \in Addresses
  BY MasterAddressType
<1>5. OnTheWay(k) = IF k <= used THEN Image_Buffer[k].data
                    ELSE IF k <= used + owed THEN inflight[k - used]
                    ELSE master_address
  BY DEF OnTheWay
<1> HIDE DEF used, owed
<1>6. k \in 1..used + owed + 1
  BY DEF used, owed
<1> QED
  BY <1>1, <1>2, <1>3, <1>4, <1>5, <1>6

\* The pixels after an edge: the old ones moved up, and behind them, when a
\* read was accepted, the next address.
LEMMA RasterStep ==
  ASSUME TypeOK, FlowControl, PipelineInRasterOrder,
         NEW accept \in BOOLEAN, NEW valid \in BOOLEAN, NEW take \in BOOLEAN,
         NEW write \in SlaveWrites,
         Registers(accept, valid, take, write)
  PROVE  PipelineInRasterOrder'
<1> DEFINE n == Len(Image_Buffer) + Len(inflight)
           t == Bit(take)
<1>1. /\ n \in Nat /\ t \in {0, 1} /\ t <= n
      /\ n' = IF accept THEN n - t + 1 ELSE n - t
  <2>1. valid => ~fifo_full
    BY RoomWhenValid DEF Registers
  <2>2. /\ Len(Image_Buffer) \in Nat /\ Len(inflight) \in Nat
        /\ Bit(take) <= Len(Image_Buffer)
        /\ Len(Image_Buffer') = Len(Image_Buffer) - Bit(take) + Bit(valid)
        /\ Len(inflight') = Len(inflight) - Bit(valid) + Bit(accept)
    BY <2>1, QueuesStep
  <2>3. /\ Bit(take) \in {0, 1} /\ Bit(valid) \in {0, 1}
        /\ Bit(accept) = IF accept THEN 1 ELSE 0
    BY DEF Bit
  <2> QED
    BY <2>2, <2>3, SMTT(30)
<1>2. \A k \in Nat \ {0} : k + t <= n + 1 => OnTheWay(k)' = OnTheWay(k + t)
  BY OnTheWayStep
<1>3. \A k \in 1..n : Follows(OnTheWay(k + 1), OnTheWay(k))
  BY DEF PipelineInRasterOrder
<1>4. \A k : k = n + 1 => OnTheWay(k) = master_address
  BY <1>1 DEF OnTheWay
<1>5. \A k : k = n' + 1 => OnTheWay(k)' = master_address'
  BY DEF OnTheWay
<1>6. accept => Follows(master_address', master_address)
  BY AddressStep
<1> SUFFICES ASSUME NEW k \in 1..n'
             PROVE  Follows(OnTheWay(k + 1)', OnTheWay(k)')
  BY DEF PipelineInRasterOrder, Follows
<1> HIDE DEF n, t
<1>7. CASE k <= n - t
  <2>1. OnTheWay(k)' = OnTheWay(k + t) /\ OnTheWay(k + 1)' = OnTheWay((k + t) + 1)
    <3>1. (k + 1) + t = (k + t) + 1 /\ k + 1 \in Nat \ {0} /\ (k + 1) + t <= n + 1
      BY <1>1, <1>7
    <3> QED
      BY <1>1, <1>2, <1>7, <3>1
  <2>2. k + t \in 1..n
    BY <1>1, <1>7
  <2> QED
    BY <1>3, <2>1, <2>2
<1>8. CASE k > n - t
  <2>1. accept /\ k = n' /\ k + t = n + 1 /\ k \in Nat \ {0}
    BY <1>1, <1>8
  <2>2. OnTheWay(k)' = master_address
    BY <1>1, <1>2, <1>4, <2>1
  <2>3. OnTheWay(k + 1)' = master_address'
    BY <1>5, <2>1
  <2> QED
    BY <1>6, <2>1, <2>2, <2>3
<1> QED
  BY <1>1, <1>7, <1>8

\* The reads memory owes, after an edge and among themselves.
LEMMA InflightStep ==
  ASSUME TypeOK, FlowControl, PipelineInRasterOrder,
         NEW accept \in BOOLEAN, NEW valid \in BOOLEAN, NEW take \in BOOLEAN,
         NEW write \in SlaveWrites,
         Registers(accept, valid, take, write)
  PROVE  LET owed == Len(inflight)
             v == Bit(valid)
         IN  /\ owed \in Nat /\ v <= owed
             /\ owed' = owed - v + Bit(accept)
             /\ inflight = <<>> <=> owed = 0
             /\ inflight' = <<>> <=> owed' = 0
             /\ \A i \in 1..owed' :
                  inflight'[i] = IF i + v <= owed THEN inflight[i + v]
                                                  ELSE master_address
             /\ \A i \in 1..owed : inflight[i] \in Addresses
             /\ \A i \in 1..owed-1 : Follows(inflight[i + 1], inflight[i])
             /\ owed > 0 => Follows(master_address, inflight[owed])
<1> DEFINE used == Len(Image_Buffer)
           owed == Len(inflight)
           v == Bit(valid)
<1>1. valid => ~fifo_full
  BY RoomWhenValid DEF Registers
<1>2. /\ used \in Nat /\ owed \in Nat /\ v <= owed
      /\ owed' = owed - v + Bit(accept)
      /\ \A i \in 1..owed - v : inflight'[i] = inflight[i + v]
      /\ accept => inflight'[owed - v + 1] = master_address
  BY <1>1, QueuesStep
<1>3. inflight = <<>> <=> owed = 0
  BY EmptySeq DEF TypeOK
<1>4. inflight' = <<>> <=> owed' = 0
  BY RegistersType, EmptySeq
<1>5. \A i \in 1..owed : inflight[i] \in Addresses
  BY ElementOfSeq DEF TypeOK
<1>6. \A k \in 1..used + owed : Follows(OnTheWay(k + 1), OnTheWay(k))
  BY DEF PipelineInRasterOrder
<1>7. \A j : OnTheWay(j) = IF j <= used THEN Image_Buffer[j].data
                           ELSE IF j <= used + owed THEN inflight[j - used]
                           ELSE master_address
  BY DEF OnTheWay
<1>8. v \in {0, 1} /\ Bit(accept) = IF accept THEN 1 ELSE 0
  BY DEF Bit
<1> HIDE DEF used, owed, v
<1>9. \A i \in 1..owed' :
        inflight'[i] = IF i + v <= owed THEN inflight[i + v] ELSE master_address
  <2> SUFFICES ASSUME NEW i \in 1..owed'
               PROVE  inflight'[i] = IF i + v <= owed THEN inflight[i + v]
                                                      ELSE master_address
    OBVIOUS
  <2>1. CASE i + v <= owed
    <3>1. i \in 1..owed - v
      BY <1>2, <1>8, <2>1
    <3> QED
      BY <1>2, <2>1, <3>1
  <2>2. CASE ~(i + v <= owed)
    <3>1. accept /\ i = owed - v + 1
      BY <1>2, <1>8, <2>2
    <3> QED
      BY <1>2, <2>2, <3>1
  <2> QED
    BY <2>1, <2>2
<1>10. \A i \in 1..owed : OnTheWay(used + i) = inflight[i]
  <2> SUFFICES ASSUME NEW i \in 1..owed PROVE OnTheWay(used + i) = inflight[i]
    OBVIOUS
  <2>1. ~(used + i <= used) /\ used + i <= used + owed /\ (used + i) - used = i
    BY <1>2
  <2> QED
    BY <1>7, <2>1
<1>11. OnTheWay((used + owed) + 1) = master_address
  <2>1. ~((used + owed) + 1 <= used) /\ ~((used + owed) + 1 <= used + owed)
    BY <1>2
  <2> QED
    BY <1>7, <2>1
<1>12. \A i \in 1..owed-1 : Follows(inflight[i + 1], inflight[i])
  <2> SUFFICES ASSUME NEW i \in 1..owed-1
               PROVE  Follows(inflight[i + 1], inflight[i])
    OBVIOUS
  <2>1. /\ used + i \in 1..used + owed /\ (used + i) + 1 = used + (i + 1)
        /\ i \in 1..owed /\ i + 1 \in 1..owed
    BY <1>2
  <2>2. OnTheWay(used + i) = inflight[i] /\ OnTheWay(used + (i + 1)) = inflight[i + 1]
    BY <1>10, <2>1
  <2>3. Follows(OnTheWay((used + i) + 1), OnTheWay(used + i))
    BY <1>6, <2>1
  <2> QED
    BY <2>1, <2>2, <2>3
<1>13. owed > 0 => Follows(master_address, inflight[owed])
  <2> SUFFICES ASSUME owed > 0 PROVE Follows(master_address, inflight[owed])
    OBVIOUS
  <2>1. used + owed \in 1..used + owed /\ owed \in 1..owed
    BY <1>2
  <2>2. Follows(OnTheWay((used + owed) + 1), OnTheWay(used + owed))
    BY <1>6, <2>1
  <2> QED
    BY <1>10, <1>11, <2>1, <2>2
<1> QED
  BY <1>2, <1>3, <1>4, <1>5, <1>9, <1>12, <1>13 DEF used, owed, v

\* reading_first_pixel_in_image belongs to the pixel that comes back next.
LEMMA FirstPixelStep ==
  ASSUME TypeOK, FlowControl, PipelineInRasterOrder, FrameControl,
         NEW accept \in BOOLEAN, NEW valid \in BOOLEAN, NEW take \in BOOLEAN,
         NEW write \in SlaveWrites,
         Registers(accept, valid, take, write),
         accept => s_pixel_buffer = "READ_BUFFER"
  PROVE  IF inflight' # <<>>
         THEN reading_first_pixel_in_image' = First(inflight'[1])
         ELSE reading_first_pixel_in_image' => AtOrigin'
<1> DEFINE owed == Len(inflight)
           v == Bit(valid)
           first == reading_first_pixel_in_image
<1>1. /\ owed \in Nat /\ v <= owed
      /\ owed' = owed - v + Bit(accept)
      /\ inflight = <<>> <=> owed = 0
      /\ inflight' = <<>> <=> owed' = 0
      /\ \A i \in 1..owed' :
           inflight'[i] = IF i + v <= owed THEN inflight[i + v]
                                           ELSE master_address
      /\ \A i \in 1..owed : inflight[i] \in Addresses
      /\ \A i \in 1..owed-1 : Follows(inflight[i + 1], inflight[i])
      /\ owed > 0 => Follows(master_address, inflight[owed])
  BY InflightStep
<1>2. /\ v = IF valid THEN 1 ELSE 0
      /\ Bit(accept) = IF accept THEN 1 ELSE 0
  BY DEF Bit
<1>3. first' = (\/ s_pixel_buffer = "IDLE" /\ AtOrigin
                \/ first /\ ~valid)
  BY DEF Registers, FirstPixel
<1>4. ~accept => (AtOrigin' <=> AtOrigin)
  BY AddressStep
<1>5. /\ s_pixel_buffer # "WAIT_FOR_LAST_PIXEL" /\ AtOrigin => owed = 0
      /\ s_pixel_buffer = "READ_BUFFER" /\ AtOrigin => first
      /\ owed # 0 => first = First(inflight[1])
      /\ owed = 0 => (first => AtOrigin)
      /\ \A i \in 1..owed :
           Final(inflight[i]) => /\ s_pixel_buffer = "WAIT_FOR_LAST_PIXEL"
                                 /\ i = owed
  BY <1>1 DEF FrameControl
<1>6. first \in BOOLEAN /\ first' \in BOOLEAN
  BY <1>3 DEF TypeOK
<1>7. First(master_address) <=> AtOrigin
  BY DEF First, master_address, AtOrigin
<1>8. master_address \in Addresses
  BY MasterAddressType
<1>9. s_pixel_buffer = "IDLE" => ~accept
  OBVIOUS
<1> HIDE DEF owed, v, first
<1>10. CASE owed' = 0
  <2>1. ~accept /\ (~valid => owed = 0)
    BY <1>1, <1>2, <1>10
  <2>2. first' => AtOrigin'
    BY <1>3, <1>4, <1>5, <2>1
  <2> QED
    BY <1>1, <1>10, <2>2 DEF first
<1>11. CASE owed' # 0 /\ owed = 0
  <2>1. accept /\ ~valid /\ v = 0 /\ 1 \in 1..owed' /\ ~(1 + v <= owed)
    BY <1>1, <1>2, <1>11
  <2>2. inflight'[1] = master_address
    BY <1>1, <2>1
  <2>3. first' <=> first
    BY <1>3, <1>9, <2>1
  <2>4. first <=> AtOrigin
    BY <1>5, <1>11, <2>1
  <2>5. First(master_address) \in BOOLEAN
    BY DEF First
  <2>6. first' = First(master_address)
    BY <1>6, <1>7, <2>3, <2>4, <2>5
  <2> QED
    BY <1>1, <1>11, <2>2, <2>6 DEF first
<1>12. CASE owed' # 0 /\ owed # 0 /\ ~valid
  <2>1. v = 0 /\ 1 \in 1..owed' /\ 1 + v <= owed /\ 1 + v = 1
    BY <1>1, <1>2, <1>12
  <2>2. inflight'[1] = inflight[1]
    BY <1>1, <2>1
  <2>3. first' = first
    BY <1>3, <1>5, <1>6, <1>12
  <2> QED
    BY <1>1, <1>5, <1>12, <2>2, <2>3 DEF first
<1>13. CASE owed' # 0 /\ owed # 0 /\ valid
  <2>1. v = 1 /\ 1 \in 1..owed' /\ 1 \in 1..owed
    BY <1>1, <1>2, <1>13
  <2>2. first' = FALSE
    BY <1>3, <1>5, <1>6, <1>13
  <2>3. inflight'[1] \in Addresses /\ Follows(inflight'[1], inflight[1])
        /\ ~Final(inflight[1])
    <3>1. CASE owed >= 2
      <4>1. 1 + v <= owed /\ 1 + v = 1 + 1 /\ 1 \in 1..owed-1 /\ 2 \in 1..owed
            /\ 1 # owed
        BY <1>1, <2>1, <3>1
      <4>2. inflight'[1] = inflight[2]
        BY <1>1, <2>1, <4>1
      <4> QED
        BY <1>1, <1>5, <2>1, <4>1, <4>2
    <3>2. CASE owed = 1
      <4>1. accept /\ ~(1 + v <= owed)
        BY <1>1, <1>2, <1>13, <2>1, <3>2
      <4>2. inflight'[1] = master_address
        BY <1>1, <2>1, <4>1
      <4> QED
        BY <1>1, <1>5, <1>8, <2>1, <3>2, <4>1, <4>2
    <3> QED
      BY <1>1, <2>1, <3>1, <3>2
  <2>4. ~First(inflight'[1])
    BY <1>1, <2>1, <2>3, FollowsFirst
  <2>5. First(inflight'[1]) \in BOOLEAN
    BY DEF First
  <2> QED
    BY <1>1, <1>13, <2>2, <2>4, <2>5 DEF first
<1> QED
  BY <1>10, <1>11, <1>12, <1>13

\* The youngest read memory owes, and where the last pixel of a frame can be.
LEMMA OwedStep ==
  ASSUME TypeOK, FlowControl, PipelineInRasterOrder, FrameControl,
         NEW accept \in BOOLEAN, NEW valid \in BOOLEAN, NEW take \in BOOLEAN,
         NEW write \in SlaveWrites,
         Registers(accept, valid, take, write),
         accept => s_pixel_buffer = "READ_BUFFER"
  PROVE  LET owed == Len(inflight)
         IN  /\ inflight = <<>> /\ ~accept => inflight' = <<>>
             /\ inflight' # <<>> /\ ~accept =>
                  /\ inflight # <<>>
                  /\ inflight'[owed'] = inflight[owed]
             /\ accept => inflight' # <<>> /\ inflight'[owed'] = master_address
             /\ \A i \in 1..owed' :
                  Final(inflight'[i]) =>
                    /\ i = owed'
                    /\ \/ s_pixel_buffer = "WAIT_FOR_LAST_PIXEL"
                       \/ accept /\ AtLastPixel
<1> DEFINE owed == Len(inflight)
           v == Bit(valid)
<1>1. /\ owed \in Nat /\ v <= owed
      /\ owed' = owed - v + Bit(accept)
      /\ inflight = <<>> <=> owed = 0
      /\ inflight' = <<>> <=> owed' = 0
      /\ \A i \in 1..owed' :
           inflight'[i] = IF i + v <= owed THEN inflight[i + v]
                                           ELSE master_address
  BY InflightStep
<1>2. v \in {0, 1} /\ Bit(accept) = IF accept THEN 1 ELSE 0
  BY DEF Bit
<1>3. \A i \in 1..owed :
        Final(inflight[i]) => /\ s_pixel_buffer = "WAIT_FOR_LAST_PIXEL"
                              /\ i = owed
  BY DEF FrameControl
<1>4. Final(master_address) => AtLastPixel
  BY DEF Final, master_address, AtLastPixel
<1> HIDE DEF owed, v
<1>5. ~accept /\ owed = 0 => owed' = 0
  BY <1>1, <1>2
<1>6. owed' # 0 /\ ~accept => owed # 0 /\ inflight'[owed'] = inflight[owed]
  <2> SUFFICES ASSUME owed' # 0, ~accept
               PROVE  owed # 0 /\ inflight'[owed'] = inflight[owed]
    OBVIOUS
  <2>1. owed # 0 /\ owed' \in 1..owed' /\ owed' + v = owed /\ owed' + v <= owed
    BY <1>1, <1>2
  <2> QED
    BY <1>1, <2>1
<1>7. accept => owed' # 0 /\ inflight'[owed'] = master_address
  <2> SUFFICES ASSUME accept
               PROVE  owed' # 0 /\ inflight'[owed'] = master_address
    OBVIOUS
  <2>1. owed' = (owed - v) + 1 /\ owed \in Nat /\ v \in {0, 1} /\ v <= owed
    BY <1>1, <1>2
  <2>2. owed' # 0 /\ owed' \in 1..owed' /\ ~(owed' + v <= owed)
    BY <2>1
  <2> QED
    BY <1>1, <2>2
<1>8. ASSUME NEW i \in 1..owed', Final(inflight'[i])
      PROVE  /\ i = owed'
             /\ \/ s_pixel_buffer = "WAIT_FOR_LAST_PIXEL"
                \/ accept /\ AtLastPixel
  <2>1. CASE i + v <= owed
    <3>1. i + v \in 1..owed /\ inflight'[i] = inflight[i + v]
      BY <1>1, <1>2, <2>1
    <3>2. s_pixel_buffer = "WAIT_FOR_LAST_PIXEL" /\ i + v = owed
      BY <1>3, <1>8, <3>1
    <3>3. ~accept
      BY <3>2
    <3> QED
      BY <1>1, <1>2, <3>2, <3>3
  <2>2. CASE ~(i + v <= owed)
    <3>1. accept /\ i = owed'
      BY <1>1, <1>2, <1>8, <2>2
    <3>2. inflight'[i] = master_address
      BY <1>1, <2>2
    <3> QED
      BY <1>4, <1>8, <3>1, <3>2
  <2> QED
    BY <2>1, <2>2
<1> QED
  BY <1>1, <1>5, <1>6, <1>7, <1>8 DEF owed

\* FrameControl holds after reset: no read is owed.
LEMMA FrameControlInit == Init => FrameControl
BY EmptySeq DEF Init, FrameControl, AtOrigin

\* Every edge preserves FrameControl, given raster order and an exact count.
LEMMA FrameControlStep ==
  ASSUME TypeOK, FlowControl, PipelineInRasterOrder, FrameControl,
         NEW valid \in BOOLEAN, NEW take \in BOOLEAN,
         NEW write \in SlaveWrites, Edge(valid, take, write)
  PROVE  FrameControl'
<1> DEFINE owed == Len(inflight)
           last == inflight[owed]
           s == s_pixel_buffer
<1>1. PICK accept \in BOOLEAN :
        /\ Registers(accept, valid, take, write)
        /\ accept => s = "READ_BUFFER"
        /\ accept = FALSE =>
             \/ s = "IDLE" /\ s' \in {"IDLE", "READ_BUFFER"}
             \/ /\ s = "WAIT_FOR_LAST_PIXEL"
                /\ s' = IF pending_reads = 0 THEN "IDLE"
                                             ELSE "WAIT_FOR_LAST_PIXEL"
             \/ s = "READ_BUFFER" /\ s' = "READ_BUFFER"
             \/ /\ s = "MAX_PENDING_READS_STALL"
                /\ s' \in {"READ_BUFFER", "MAX_PENDING_READS_STALL"}
        /\ accept = TRUE =>
             IF AtLastPixel
             THEN s' = "WAIT_FOR_LAST_PIXEL"
             ELSE s' \in {"IDLE", "READ_BUFFER", "MAX_PENDING_READS_STALL"}
  <2>1. CASE Idle(valid, take, write)
    <3> WITNESS FALSE \in BOOLEAN
    <3> QED BY <2>1 DEF Idle
  <2>2. CASE WaitForLastPixel(valid, take, write)
    <3> WITNESS FALSE \in BOOLEAN
    <3> QED BY <2>2 DEF WaitForLastPixel
  <2>3. CASE ReadHeld(valid, take, write)
    <3> WITNESS FALSE \in BOOLEAN
    <3> QED BY <2>3 DEF ReadHeld
  <2>4. CASE ReadAccepted(valid, take, write)
    <3> WITNESS TRUE \in BOOLEAN
    <3> QED BY <2>4 DEF ReadAccepted
  <2>5. CASE MaxPendingReadsStall(valid, take, write)
    <3> WITNESS FALSE \in BOOLEAN
    <3> QED BY <2>5 DEF MaxPendingReadsStall
  <2> QED
    BY <2>1, <2>2, <2>3, <2>4, <2>5 DEF Edge
<1>2. /\ inflight = <<>> /\ ~accept => inflight' = <<>>
      /\ inflight' # <<>> /\ ~accept => inflight # <<>> /\ last' = last
      /\ accept => inflight' # <<>> /\ last' = master_address
      /\ \A i \in 1..owed' :
           Final(inflight'[i]) => /\ i = owed'
                                  /\ \/ s = "WAIT_FOR_LAST_PIXEL"
                                     \/ accept /\ AtLastPixel
  BY <1>1, OwedStep
<1>3. /\ ~accept => (AtOrigin' <=> AtOrigin)
      /\ accept => (AtOrigin' <=> AtLastPixel)
  BY <1>1, AddressStep
<1>4. IF inflight' # <<>>
      THEN reading_first_pixel_in_image' = First(inflight'[1])
      ELSE reading_first_pixel_in_image' => AtOrigin'
  BY <1>1, FirstPixelStep
<1>5. /\ s = "WAIT_FOR_LAST_PIXEL" =>
           AtOrigin /\ (inflight # <<>> => Final(last))
      /\ s # "WAIT_FOR_LAST_PIXEL" /\ AtOrigin => inflight = <<>>
      /\ s = "READ_BUFFER" /\ AtOrigin => reading_first_pixel_in_image
      /\ s = "MAX_PENDING_READS_STALL" => ~AtOrigin
  BY DEF FrameControl
<1>6. AtLastPixel => Final(master_address)
  BY DEF Final, master_address, AtLastPixel
<1>7. pending_reads = 0 => inflight = <<>>
  BY EmptySeq DEF TypeOK, FlowControl
<1>8. /\ s = "IDLE" /\ AtOrigin => reading_first_pixel_in_image'
      /\ reading_first_pixel_in_image /\ ~valid => reading_first_pixel_in_image'
      /\ valid => inflight # <<>>
  BY <1>1 DEF Registers, FirstPixel
<1> HIDE DEF owed, last, s
<1>9. s' = "WAIT_FOR_LAST_PIXEL" =>
        AtOrigin' /\ (inflight' # <<>> => Final(last'))
  BY <1>1, <1>2, <1>3, <1>5, <1>6
<1>10. \A i \in 1..owed' :
         Final(inflight'[i]) => s' = "WAIT_FOR_LAST_PIXEL" /\ i = owed'
  <2> SUFFICES ASSUME NEW i \in 1..owed', Final(inflight'[i])
               PROVE  s' = "WAIT_FOR_LAST_PIXEL" /\ i = owed'
    OBVIOUS
  <2>1. inflight' # <<>>
    BY RegistersType, <1>1, EmptySeq DEF owed
  <2> QED
    BY <1>1, <1>2, <1>7, <2>1
<1>11. s' # "WAIT_FOR_LAST_PIXEL" /\ AtOrigin' => inflight' = <<>>
  BY <1>1, <1>2, <1>3, <1>5, <1>7
<1>12. s' = "READ_BUFFER" /\ AtOrigin' => reading_first_pixel_in_image'
  BY <1>1, <1>3, <1>5, <1>8
<1>13. s' = "MAX_PENDING_READS_STALL" => ~AtOrigin'
  BY <1>1, <1>3, <1>5
<1> QED
  BY <1>4, <1>9, <1>10, <1>11, <1>12, <1>13 DEF FrameControl, owed, last, s, Final, First

\* What memory returns is marked by its place in the frame.
LEMMA PacketsStep ==
  ASSUME TypeOK, FlowControl, FrameControl, PacketsAreFrames,
         NEW accept \in BOOLEAN, NEW valid \in BOOLEAN, NEW take \in BOOLEAN,
         NEW write \in SlaveWrites,
         Registers(accept, valid, take, write)
  PROVE  PacketsAreFrames'
<1> DEFINE used == Len(Image_Buffer)
           owed == Len(inflight)
           t == Bit(take)
           v == Bit(valid)
<1>1. valid => ~fifo_full
  BY RoomWhenValid DEF Registers
<1>2. /\ used \in Nat /\ owed \in Nat /\ t <= used /\ v <= owed
      /\ used' = used - t + v
      /\ \A i \in 1..used - t : Image_Buffer'[i] = Image_Buffer[i + t]
      /\ valid => Image_Buffer'[used - t + 1] = fifo_data_in
  BY <1>1, QueuesStep
<1>3. t \in {0, 1} /\ v = IF valid THEN 1 ELSE 0
  BY DEF Bit
<1>4. ASSUME valid
      PROVE  /\ fifo_data_in.startofpacket = First(fifo_data_in.data)
             /\ fifo_data_in.endofpacket = Final(fifo_data_in.data)
  <2>1. inflight # <<>> /\ pending_reads = owed /\ 1 \in 1..owed
    BY <1>2, <1>3, <1>4 DEF Registers, FlowControl
  <2>2. /\ fifo_data_in.data = inflight[1]
        /\ fifo_data_in.startofpacket = reading_first_pixel_in_image
        /\ fifo_data_in.endofpacket =
             (s_pixel_buffer = "WAIT_FOR_LAST_PIXEL" /\ owed = 1)
    BY <2>1 DEF fifo_data_in
  <2>3. reading_first_pixel_in_image = First(inflight[1])
    BY <2>1 DEF FrameControl
  <2>4. Final(inflight[1]) <=> s_pixel_buffer = "WAIT_FOR_LAST_PIXEL" /\ owed = 1
    BY <2>1 DEF FrameControl
  <2>5. Final(inflight[1]) \in BOOLEAN
    BY DEF Final
  <2> HIDE DEF owed
  <2> QED
    BY <2>2, <2>3, <2>4, <2>5
<1>5. \A i \in 1..used :
        /\ Image_Buffer[i].startofpacket = First(Image_Buffer[i].data)
        /\ Image_Buffer[i].endofpacket = Final(Image_Buffer[i].data)
  BY DEF PacketsAreFrames
<1> SUFFICES ASSUME NEW i \in 1..used'
             PROVE  LET b == Image_Buffer'[i]
                    IN  /\ b.startofpacket = First(b.data)
                        /\ b.endofpacket = Final(b.data)
  BY DEF PacketsAreFrames, First, Final
<1> HIDE DEF used, owed, t, v
<1>6. CASE i <= used - t
  <2>1. i \in 1..used - t /\ i + t \in 1..used
    BY <1>2, <1>3, <1>6
  <2> QED
    BY <1>2, <1>5, <2>1
<1>7. CASE i > used - t
  <2>1. valid /\ i = used - t + 1
    BY <1>2, <1>3, <1>7
  <2> QED
    BY <1>2, <1>4, <2>1
<1> QED
  BY <1>2, <1>3, <1>6, <1>7

\* The sink's initial value is not a beat of the stream.
LEMMA NoBeatIsNone == NoBeat \notin Beats
BY DEF NoBeat, Beats

\* The beat the sink takes is the oldest pixel on its way.
LEMMA StreamStep ==
  ASSUME TypeOK, FlowControl, PipelineInRasterOrder, PacketsAreFrames,
         StreamInStep,
         NEW accept \in BOOLEAN, NEW valid \in BOOLEAN, NEW take \in BOOLEAN,
         NEW write \in SlaveWrites,
         Registers(accept, valid, take, write)
  PROVE  /\ StreamInStep'
         /\ ~take => stream' = stream
         /\ take => /\ stream' \in Beats
                    /\ stream'.data = OnTheWay(1)
                    /\ stream'.startofpacket = First(stream'.data)
                    /\ stream'.endofpacket = Final(stream'.data)
<1> DEFINE used == Len(Image_Buffer)
           owed == Len(inflight)
           t == Bit(take)
<1>1. used \in Nat /\ owed \in Nat /\ (take => 1 \in 1..used)
  BY EmptySeq, LenProperties DEF TypeOK, Registers, stream_valid
<1>2. t = IF take THEN 1 ELSE 0
  BY DEF Bit
<1>3. OnTheWay(1)' = OnTheWay(1 + t)
  <2>1. 1 + t <= used + owed + 1
    BY <1>1, <1>2
  <2> QED
    BY <2>1, OnTheWayStep
<1>4. CASE ~take
  <2>1. stream' = stream
    BY <1>4 DEF Registers, Fifo
  <2>2. OnTheWay(1)' = OnTheWay(1)
    BY <1>2, <1>3, <1>4
  <2>3. StreamInStep'
    BY <2>1, <2>2 DEF StreamInStep, NoBeat, First, Final, Follows
  <2> QED
    BY <1>4, <2>1, <2>3
<1>5. CASE take
  <2>1. stream' = Image_Buffer[1]
    BY <1>5 DEF Registers, Fifo
  <2>2. Image_Buffer[1] \in Beats
    BY <1>1, <1>5, ElementOfSeq DEF TypeOK
  <2>3. OnTheWay(1) = Image_Buffer[1].data
    BY <1>1, <1>5 DEF OnTheWay
  <2>4. /\ Image_Buffer[1].startofpacket = First(Image_Buffer[1].data)
        /\ Image_Buffer[1].endofpacket = Final(Image_Buffer[1].data)
    BY <1>1, <1>5 DEF PacketsAreFrames
  <2>5. Follows(OnTheWay(1)', OnTheWay(1))
    <3>1. 1 \in 1..used + owed /\ 1 + t = 1 + 1
      BY <1>1, <1>2, <1>5
    <3> QED
      BY <1>3, <3>1 DEF PipelineInRasterOrder
  <2>6. stream' # NoBeat
    BY <2>1, <2>2, NoBeatIsNone
  <2>7. StreamInStep'
    BY <2>1, <2>3, <2>4, <2>5, <2>6
    DEF StreamInStep, NoBeat, First, Final, Follows
  <2> QED
    BY <1>5, <2>1, <2>2, <2>3, <2>4, <2>7
<1> QED
  BY <1>4, <1>5

-----------------------------------------------------------------------------
(* The inductive invariant and what follows from it. *)

\* The inductive invariant holds after reset.
LEMMA FramesInvInit == Init => FramesInv
<1> SUFFICES ASSUME Init PROVE FramesInv
  OBVIOUS
<1>1. Len(Image_Buffer) = 0 /\ Len(inflight) = 0
  BY EmptySeq DEF Init
<1>2. FlowControl /\ FrameControl
  BY FlowControlInit, FrameControlInit
<1>3. PipelineInRasterOrder /\ PacketsAreFrames
  BY <1>1 DEF PipelineInRasterOrder, PacketsAreFrames
<1>4. OnTheWay(1) = master_address
  BY <1>1 DEF OnTheWay
<1>5. First(master_address)
  BY DEF Init, First, master_address
<1>6. StreamInStep
  BY <1>4, <1>5 DEF Init, StreamInStep
<1> QED
  BY <1>2, <1>3, <1>6 DEF FramesInv

\* Whatever the state of the FSM, an edge moves the other registers as Registers
\* says.
LEMMA EdgeRegisters ==
  ASSUME NEW valid \in BOOLEAN, NEW take \in BOOLEAN,
         NEW write \in SlaveWrites, Edge(valid, take, write)
  PROVE  \E accept \in BOOLEAN : Registers(accept, valid, take, write)
BY DEF Edge, Idle, WaitForLastPixel, ReadHeld, ReadAccepted,
       MaxPendingReadsStall

\* Every edge preserves the inductive invariant, one conjunct after the other.
LEMMA FramesInvStep ==
  ASSUME TypeOK, FramesInv, [DMANext]_dmaVars
  PROVE  FramesInv'
<1>1. CASE UNCHANGED dmaVars
  <2> USE <1>1 DEF FramesInv, dmaVars, control, buffers, datapath
  <2>1. FlowControl'
    BY DEF FlowControl
  <2>2. \A k : OnTheWay(k)' = OnTheWay(k)
    BY DEF OnTheWay, master_address
  <2>3. PipelineInRasterOrder'
    BY <2>2 DEF PipelineInRasterOrder, Follows
  <2>4. FrameControl'
    BY DEF FrameControl, AtOrigin, First, Final
  <2>5. PacketsAreFrames'
    BY DEF PacketsAreFrames, First, Final
  <2>6. StreamInStep'
    BY <2>2 DEF StreamInStep, NoBeat, Follows, First, Final
  <2> QED
    BY <2>1, <2>3, <2>4, <2>5, <2>6
<1>2. ASSUME NEW valid \in BOOLEAN, NEW take \in BOOLEAN,
             NEW write \in SlaveWrites, Edge(valid, take, write)
      PROVE  FramesInv'
  <2>1. /\ FlowControl /\ PipelineInRasterOrder /\ FrameControl
        /\ PacketsAreFrames /\ StreamInStep
    BY DEF FramesInv
  <2>2. FlowControl'
    BY <2>1, FlowControlStep
  <2>3. FrameControl'
    BY <1>2, <2>1, FrameControlStep
  <2>4. PICK accept \in BOOLEAN : Registers(accept, valid, take, write)
    BY <1>2, EdgeRegisters
  <2>5. PipelineInRasterOrder'
    BY <2>1, <2>4, RasterStep
  <2>6. PacketsAreFrames'
    BY <2>1, <2>4, PacketsStep
  <2>7. StreamInStep'
    BY <2>1, <2>4, StreamStep
  <2> QED
    BY <2>2, <2>3, <2>5, <2>6, <2>7 DEF FramesInv
<1> QED
  BY <1>1, <1>2 DEF DMANext

\* FramesInv holds in every state the DMA reaches.
LEMMA FramesInvHolds == DMASpec => []FramesInv
<1>1. DMASpec => []TypeOK
  BY TypeCorrect
<1> QED
  BY <1>1, FramesInvInit, FramesInvStep, PTL DEF DMASpec

\* Types, FlowControl, PipelineInRasterOrder, FrameControl, PacketsAreFrames and
\* StreamInStep hold together in every state the DMA reaches: none of them is
\* inductive without the others.
THEOREM InvariantHolds == DMASpec => []DMAInv
<1>1. TypeOK /\ FramesInv => DMAInv
  BY DEF DMAInv
<1> QED
  BY <1>1, TypeCorrect, FramesInvHolds, PTL

\* The four-bit counter of pending reads never wraps and never miscounts, and
\* the FIFO has room for every read memory owes: no pixel is dropped.
THEOREM NothingIsLost == DMASpec => [](PendingReadsCounts /\ RoomForEveryRead)
<1>1. TypeOK /\ FramesInv => PendingReadsCounts /\ RoomForEveryRead
  <2> SUFFICES ASSUME TypeOK, FramesInv
               PROVE  PendingReadsCounts /\ RoomForEveryRead
    OBVIOUS
  <2>1. Len(Image_Buffer) \in Nat /\ Len(inflight) \in Nat
    BY LenProperties DEF TypeOK
  <2> QED
    BY <2>1, Sizes DEF FramesInv, FlowControl, PendingReadsCounts, RoomForEveryRead
<1> QED
  BY <1>1, TypeCorrect, FramesInvHolds, PTL

\* Pixels travel in raster order, from one buffer within a frame, whatever the
\* processor writes to the slave port and whenever it does.
THEOREM NeverTorn == DMASpec => []PipelineInRasterOrder
<1>1. FramesInv => PipelineInRasterOrder
  BY DEF FramesInv
<1> QED
  BY <1>1, FramesInvHolds, PTL

\* Start-of-packet and end-of-packet mark the first and the last pixel of every
\* frame, and reads of two frames are never outstanding together.
THEOREM FramesAreMarked == DMASpec => [](PacketsAreFrames /\ OneFrameOutstanding)
<1>1. FramesInv => PacketsAreFrames /\ OneFrameOutstanding
  BY DEF FramesInv, FrameControl, OneFrameOutstanding
<1> QED
  BY <1>1, FramesInvHolds, PTL

-----------------------------------------------------------------------------
(* The DMA implements the stream of frames. *)

\* A correctly marked beat is one of the beats FrameStream describes.
LEMMA BeatOfFrame ==
  ASSUME NEW b \in Beats, b.startofpacket = First(b.data),
         b.endofpacket = Final(b.data)
  PROVE  b = Frames!Beat(b.data.buffer, b.data.line, b.data.pixel)
<1>1. b = [data |-> b.data, startofpacket |-> b.startofpacket,
           endofpacket |-> b.endofpacket]
  BY DEF Beats
<1>2. b.data = [buffer |-> b.data.buffer, line |-> b.data.line,
                pixel |-> b.data.pixel]
  BY DEF Beats, Addresses
<1>3. /\ First(b.data) = (b.data.line = 0 /\ b.data.pixel = 0)
      /\ Final(b.data) = (b.data.line = LINES - 1 /\ b.data.pixel = PIXELS - 1)
  BY DEF First, Final
<1> QED
  BY <1>1, <1>2, <1>3 DEF Frames!Beat

\* Every edge hands over the next beat of the stream of frames, or none.
LEMMA EdgeStreams ==
  ASSUME TypeOK, FramesInv, [DMANext]_dmaVars
  PROVE  [Frames!Next]_stream
<1>1. CASE UNCHANGED dmaVars
  BY <1>1 DEF dmaVars, datapath
<1>2. ASSUME NEW valid \in BOOLEAN, NEW take \in BOOLEAN,
             NEW write \in SlaveWrites, Edge(valid, take, write)
      PROVE  [Frames!Next]_stream
  <2>1. PICK accept \in BOOLEAN : Registers(accept, valid, take, write)
    BY <1>2, EdgeRegisters
  <2>2. /\ ~take => stream' = stream
        /\ take => /\ stream' \in Beats
                   /\ stream'.data = OnTheWay(1)
                   /\ stream'.startofpacket = First(stream'.data)
                   /\ stream'.endofpacket = Final(stream'.data)
    BY <2>1, StreamStep DEF FramesInv
  <2>3. CASE take
    <3> DEFINE old == stream.data
               new == stream'.data
    <3>1. stream' = Frames!Beat(new.buffer, new.line, new.pixel)
      BY <2>2, <2>3, BeatOfFrame
    <3>2. new \in Addresses
      BY <2>2, <2>3 DEF Beats
    <3>3. new.buffer \in Buffers
      BY <3>2 DEF Addresses
    <3>4. CASE stream = NoBeat
      <4>1. new.pixel = 0 /\ new.line = 0
        BY <2>2, <2>3, <3>4 DEF FramesInv, StreamInStep, First
      <4>2. Frames!StartFrame
        BY <3>1, <3>3, <3>4, <4>1 DEF Frames!StartFrame, Frames!Nothing, NoBeat
      <4> QED
        BY <4>2 DEF Frames!Next
    <3>5. CASE stream # NoBeat
      <4>1. /\ Follows(new, old)
            /\ stream.endofpacket = Final(old)
        BY <2>2, <2>3, <3>5 DEF FramesInv, StreamInStep
      <4>2. old \in Addresses
        BY <3>5 DEF TypeOK, Beats
      <4>3. /\ old.pixel \in 0..PIXELS-1 /\ old.line \in 0..LINES-1
        BY <4>2 DEF Addresses
      <4>4. stream # Frames!Nothing
        BY <3>5 DEF Frames!Nothing, NoBeat
      <4>5. CASE old.pixel # PIXELS - 1
        <5>1. old.pixel < PIXELS - 1
          BY <4>3, <4>5, Sizes
        <5>2. stream' = Frames!Beat(old.buffer, old.line, old.pixel + 1)
          BY <3>1, <4>1, <4>5 DEF Follows
        <5> QED
          BY <4>4, <5>1, <5>2 DEF Frames!Next, Frames!NextPixel
      <4>6. CASE old.pixel = PIXELS - 1 /\ old.line # LINES - 1
        <5>1. old.line < LINES - 1
          BY <4>3, <4>6, Sizes
        <5>2. stream' = Frames!Beat(old.buffer, old.line + 1, 0)
          BY <3>1, <4>1, <4>6 DEF Follows
        <5> QED
          BY <4>4, <4>6, <5>1, <5>2 DEF Frames!Next, Frames!NextLine
      <4>7. CASE old.pixel = PIXELS - 1 /\ old.line = LINES - 1
        <5>1. stream.endofpacket
          BY <4>1, <4>7 DEF Final
        <5>2. stream' = Frames!Beat(new.buffer, 0, 0)
          BY <3>1, <4>1, <4>7 DEF Follows
        <5> QED
          BY <3>3, <4>4, <5>1, <5>2 DEF Frames!Next, Frames!StartFrame
      <4> QED
        BY <4>5, <4>6, <4>7
    <3> QED
      BY <3>4, <3>5
  <2> QED
    BY <2>2, <2>3
<1> QED
  BY <1>1, <1>2 DEF DMANext

\* The DMA implements the safety part of FrameStream: whatever memory, sink and
\* processor do, the sink sees whole frames of one buffer each in raster order.
THEOREM Refinement == DMASpec => Frames!SafeSpec
<1>1. Init => Frames!Init
  BY DEF Init, Frames!Init, Frames!Nothing, NoBeat
<1>2. TypeOK /\ FramesInv /\ [DMANext]_dmaVars => [Frames!Next]_stream
  BY EdgeStreams
<1> QED
  BY <1>1, <1>2, TypeCorrect, FramesInvHolds, PTL DEF DMASpec, Frames!SafeSpec

-----------------------------------------------------------------------------
(* The driver and the DMA. *)

\* A request the DMA will serve: it is forgotten where a frame begins.
Outstanding == buffer_swap /\ ~AtOrigin

Same == /\ front_start_address = buffer_start_address
        /\ back_buffer_start_address = back_buf_start_address

Exchanged == /\ front_start_address = back_buf_start_address
             /\ back_buffer_start_address = buffer_start_address

\* What relates the driver's addresses to the DMA's at every point of the
\* program, and what the program has asked for.  It is DriverMirrorsHardware
\* with the points where the driver knows one of the addresses only, and with
\* the two facts the exchange rests on: there is no request but while the
\* program is between asking and having polled, and the two buffers differ.
SwapInv ==
  /\ pc \notin {"exchange", "poll"} => ~buffer_swap
  /\ WellTimed =>
       /\ buffer_start_address # back_buf_start_address
       /\ pc \in {"init_back", "read_back"} =>
            front_start_address = buffer_start_address
       /\ pc \in {"clear_front", "clear_back", "draw"} => Same
       /\ pc = "exchange" => IF Outstanding THEN Same ELSE Exchanged
       /\ pc = "poll" => IF Outstanding THEN Exchanged ELSE Same

-----------------------------------------------------------------------------
\* Whatever the software does, the DMA goes on as before, so every theorem of
\* it holds of the whole.
LEMMA SystemIsDMA == SystemSpec => DMASpec
<1>1. SystemInit => Init
  BY DEF SystemInit
<1>2. [SystemNext]_allVars => [DMANext]_dmaVars
  BY DEF SystemNext, SystemEdge, DMANext, allVars
<1> QED
  BY <1>1, <1>2, PTL DEF SystemSpec, DMASpec

\* The first pixel of a frame is not the last.
LEMMA OriginIsNotLast == ~(AtOrigin /\ AtLastPixel)
<1>1. PIXELS \in Nat \ {0} /\ LINES \in Nat \ {0} /\ PIXELS * LINES > 1
  BY DMAAssumption DEF DMAAssumption
<1> SUFFICES ASSUME AtOrigin, AtLastPixel PROVE FALSE
  OBVIOUS
<1>2. PIXELS = 1 /\ LINES = 1
  BY <1>1 DEF AtOrigin, AtLastPixel
<1> QED
  BY <1>1, <1>2

\* What an edge at which the processor does not write does to the buffers and
\* to the request: nothing, or a request that is outstanding is served.
LEMMA QuietEdge ==
  ASSUME TypeOK, NEW accept \in BOOLEAN, NEW valid \in BOOLEAN,
         NEW take \in BOOLEAN, Registers(accept, valid, take, NoWrite)
  PROVE  /\ buffer_swap' => buffer_swap
         /\ \/ UNCHANGED buffers /\ Outstanding' = Outstanding
            \/ /\ Outstanding /\ ~Outstanding'
               /\ buffer_start_address' = back_buf_start_address
               /\ back_buf_start_address' = buffer_start_address
<1>1. buffer_swap' = (buffer_swap /\ ~AtOrigin)
  BY DEF Registers, BufferSwap, NoWrite
<1>2. NoWrite.register # "BackBuffer"
  BY DEF NoWrite
<1>3. CASE buffer_swap /\ accept /\ AtLastPixel
  <2>1. /\ buffer_start_address' = back_buf_start_address
        /\ back_buf_start_address' = buffer_start_address
    BY <1>2, <1>3 DEF Registers, BufferAddresses
  <2>2. AtOrigin'
    BY <1>3 DEF Registers, PixelAddress, AtLastPixel, AtOrigin
  <2>3. Outstanding
    BY <1>3, OriginIsNotLast DEF Outstanding
  <2> QED
    BY <1>1, <2>1, <2>2, <2>3 DEF Outstanding
<1>4. CASE ~(buffer_swap /\ accept /\ AtLastPixel)
  <2>1. UNCHANGED buffers
    BY <1>2, <1>4 DEF Registers, BufferAddresses
  <2>2. Outstanding => ~AtOrigin'
    <3> SUFFICES ASSUME Outstanding PROVE ~AtOrigin'
      OBVIOUS
    <3>1. CASE accept
      <4>1. ~AtLastPixel /\ ~AtOrigin
        BY <1>4, <3>1 DEF Outstanding
      <4> QED
        BY <3>1, <4>1, Sizes
           DEF Registers, PixelAddress, AtLastPixel, AtOrigin, TypeOK
    <3>2. CASE ~accept
      BY <3>2 DEF Registers, PixelAddress, AtOrigin, Outstanding
    <3> QED
      BY <3>1, <3>2
  <2>3. Outstanding' = Outstanding
    BY <1>1, <2>2 DEF Outstanding
  <2> QED
    BY <1>1, <2>1, <2>3
<1> QED
  BY <1>3, <1>4

\* Once a badly timed request has been made, it stays recorded.
LEMMA TimingIsKept ==
  ASSUME NEW write, Remember(write), SystemTypeOK, WellTimed'
  PROVE  /\ WellTimed
         /\ write = RequestSwap => ~AtOrigin'
BY DEF Remember, SystemTypeOK, WellTimed, AtOrigin

\* Driver and program keep their types.
LEMMA SoftwareType ==
  ASSUME SystemTypeOK, TypeOK', NEW write, Software(write), Remember(write)
  PROVE  SystemTypeOK'
<1>1. asked_between_frames' \in BOOLEAN
  BY DEF Remember
<1>2. CASE Elsewhere(write)
  BY <1>1, <1>2 DEF Elsewhere, softwareVars, SystemTypeOK
<1>3. CASE Program(write)
  BY <1>1, <1>3
     DEF Program, InitFront, InitBack, EndClear, Request, Exchange, Poll,
         ChangeBack, ReadBack, SystemTypeOK, TypeOK
<1> QED
  BY <1>2, <1>3 DEF Software

\* The DMA, the driver and the program keep their types together.
THEOREM SystemTypeCorrect == SystemSpec => []SystemTypeOK
<1>1. TypeOK /\ SystemInit => SystemTypeOK
  BY DEF SystemInit, SystemTypeOK
<1>2. TypeOK' /\ SystemTypeOK /\ [SystemNext]_allVars => SystemTypeOK'
  <2> SUFFICES ASSUME TypeOK', SystemTypeOK, [SystemNext]_allVars
               PROVE  SystemTypeOK'
    OBVIOUS
  <2>1. CASE SystemNext
    BY <2>1, SoftwareType DEF SystemNext, SystemEdge
  <2>2. CASE UNCHANGED allVars
    BY <2>2 DEF allVars, softwareVars, SystemTypeOK
  <2> QED
    BY <2>1, <2>2
<1> QED
  BY <1>1, <1>2, SystemIsDMA, TypeCorrect, PTL DEF SystemSpec

-----------------------------------------------------------------------------
\* The invariant is kept by an edge at which the processor does not write.
LEMMA QuietStep ==
  ASSUME SystemTypeOK, SwapInv, NEW accept \in BOOLEAN, NEW valid \in BOOLEAN,
         NEW take \in BOOLEAN, Registers(accept, valid, take, NoWrite),
         Software(NoWrite), Remember(NoWrite)
  PROVE  SwapInv'
<1>1. /\ buffer_swap' => buffer_swap
      /\ \/ UNCHANGED buffers /\ Outstanding' = Outstanding
         \/ /\ Outstanding /\ ~Outstanding'
            /\ buffer_start_address' = back_buf_start_address
            /\ back_buf_start_address' = buffer_start_address
  BY QuietEdge DEF SystemTypeOK
<1>2. Outstanding => buffer_swap
  BY DEF Outstanding
<1>3. WellTimed' => WellTimed
  BY TimingIsKept
<1>4. CASE Elsewhere(NoWrite)
  BY <1>1, <1>2, <1>3, <1>4
     DEF Elsewhere, softwareVars, SwapInv, Same, Exchanged, buffers
<1>5. CASE Exchange(NoWrite)
  BY <1>1, <1>2, <1>3, <1>5
     DEF Exchange, SwapInv, Same, Exchanged, buffers
<1>6. CASE Poll(NoWrite)
  BY <1>1, <1>2, <1>3, <1>6 DEF Poll, SwapInv, Same, Exchanged, buffers
<1>7. CASE InitFront(NoWrite) \/ InitBack(NoWrite) \/ EndClear(NoWrite)
             \/ ReadBack(NoWrite)
  BY <1>1, <1>2, <1>3, <1>7
     DEF InitFront, InitBack, EndClear, ReadBack, SwapInv, Same, Exchanged,
         buffers
<1>8. ~Request(NoWrite) /\ ~ChangeBack(NoWrite)
  BY DEF Request, ChangeBack, NoWrite, RequestSwap, SetBackBuffer
<1> QED
  BY <1>4, <1>5, <1>6, <1>7, <1>8 DEF Software, Program

\* It is kept when the program asks for an exchange: the request is in the
\* register before the frame ends.
LEMMA RequestStep ==
  ASSUME SystemTypeOK, SwapInv, NEW accept \in BOOLEAN, NEW valid \in BOOLEAN,
         NEW take \in BOOLEAN, Registers(accept, valid, take, RequestSwap),
         Request(RequestSwap), Remember(RequestSwap)
  PROVE  SwapInv'
<1>1. buffer_swap' /\ UNCHANGED buffers
  <2>1. /\ RequestSwap.register = "Buffer" /\ "Buffer" # "BackBuffer"
        /\ ~buffer_swap
    BY DEF RequestSwap, Request, SwapInv
  <2> QED
    BY <2>1 DEF Registers, BufferSwap, BufferAddresses
<1>2. WellTimed' => WellTimed /\ ~AtOrigin'
  BY TimingIsKept
<1> QED
  BY <1>1, <1>2 DEF Request, SwapInv, Same, Outstanding, buffers

\* It is kept when the program gives the DMA another back buffer.
LEMMA ChangeStep ==
  ASSUME SystemTypeOK, SwapInv, NEW accept \in BOOLEAN, NEW valid \in BOOLEAN,
         NEW take \in BOOLEAN, NEW b \in Buffers \ {front_start_address},
         Registers(accept, valid, take, SetBackBuffer(b)),
         ChangeBack(SetBackBuffer(b)), Remember(SetBackBuffer(b))
  PROVE  SwapInv'
<1>1. /\ SetBackBuffer(b).register = "BackBuffer"
      /\ SetBackBuffer(b).address = b
      /\ "Buffer" # "BackBuffer"
  BY DEF SetBackBuffer
<1>2. /\ buffer_start_address' = buffer_start_address
      /\ back_buf_start_address' = b
  BY <1>1 DEF Registers, BufferAddresses
<1>3. pc = "draw" /\ ~buffer_swap
  BY DEF ChangeBack, SwapInv
<1>4. ~buffer_swap'
  BY <1>1, <1>3 DEF Registers, BufferSwap
<1>5. WellTimed' => WellTimed
  BY TimingIsKept
<1> QED
  BY <1>2, <1>3, <1>4, <1>5 DEF ChangeBack, SwapInv, Same

\* SwapInv holds in every state of the system.
LEMMA SwapInvHolds == SystemSpec => []SwapInv
<1>1. SystemInit => SwapInv
  BY BuffersAssumption DEF BuffersAssumption, SystemInit, Init, SwapInv
<1>2. SystemTypeOK /\ SwapInv /\ [SystemNext]_allVars => SwapInv'
  <2> SUFFICES ASSUME SystemTypeOK, SwapInv, [SystemNext]_allVars
               PROVE  SwapInv'
    OBVIOUS
  <2>1. CASE SystemNext
    <3>1. PICK valid \in BOOLEAN, take \in BOOLEAN, write \in SlaveWrites :
            SystemEdge(valid, take, write)
      BY <2>1 DEF SystemNext
    <3>2. PICK accept \in BOOLEAN : Registers(accept, valid, take, write)
      BY <3>1, EdgeRegisters DEF SystemEdge
    <3>3. Software(write) /\ Remember(write)
      BY <3>1 DEF SystemEdge
    <3>4. CASE write = NoWrite
      BY <3>2, <3>3, <3>4, QuietStep
    <3>5. CASE write = RequestSwap
      <4>1. Request(write)
        BY <3>3, <3>5
           DEF Software, Program, Elsewhere, InitFront, InitBack, EndClear,
               Exchange, Poll, ChangeBack, ReadBack, NoWrite, RequestSwap,
               SetBackBuffer
      <4> QED
        BY <3>2, <3>3, <3>5, <4>1, RequestStep
    <3>6. CASE write \notin {NoWrite, RequestSwap}
      <4>1. ChangeBack(write)
        BY <3>3, <3>6
           DEF Software, Program, Elsewhere, InitFront, InitBack, EndClear,
               Exchange, Poll, Request, ReadBack
      <4>2. PICK b \in Buffers \ {front_start_address} :
              write = SetBackBuffer(b)
        BY <4>1 DEF ChangeBack
      <4> QED
        BY <3>2, <3>3, <4>1, <4>2, ChangeStep
    <3> QED
      BY <3>4, <3>5, <3>6
  <2>2. CASE UNCHANGED allVars
    BY <2>2 DEF allVars, softwareVars, dmaVars, control, buffers, SwapInv,
                Same, Exchanged, Outstanding, AtOrigin, WellTimed
  <2> QED
    BY <2>1, <2>2
<1> QED
  BY <1>1, <1>2, SystemTypeCorrect, PTL DEF SystemSpec

\* The driver's two addresses are the DMA's, or the DMA's exchanged while a
\* request is outstanding, at every point of the program and of the frame, if
\* no request was made between two frames.
THEOREM DriverInStep == SystemSpec => []DriverMirrorsHardware
<1>1. SwapInv => DriverMirrorsHardware
  BY DEF SwapInv, DriverMirrorsHardware, Same, Exchanged, Outstanding
<1> QED
  BY <1>1, SwapInvHolds, PTL

\* The buffer the program draws into is not the one that is being displayed,
\* under the same condition.
THEOREM NeverDrawsOnScreen == SystemSpec => []DrawsOffScreen
<1>1. SwapInv => DrawsOffScreen
  BY DEF SwapInv, DrawsOffScreen, Same
<1> QED
  BY <1>1, SwapInvHolds, PTL
=============================================================================
