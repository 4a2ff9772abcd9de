--------------------------- MODULE PixelBufferDMA ---------------------------
(***************************************************************************)
(* The pixel buffer DMA controller (sopc_video_pixel_buffer_dma_0.v): an   *)
(* Avalon master that reads the front buffer pixel by pixel, a FIFO of the *)
(* pixels that came back, an Avalon-ST source that drains it towards the   *)
(* display, and an Avalon slave through which the processor asks for the   *)
(* two buffers to be exchanged at the end of the frame.                    *)
(*                                                                         *)
(* One step is one rising edge of clk.  All registers change together, so  *)
(* an action is one state of the FSM together with everything the other    *)
(* always blocks do at that edge.  The inputs of an edge are               *)
(*   valid  master_readdatavalid: memory answers its oldest read           *)
(*   take   stream_ready & stream_valid: the sink takes the FIFO's head    *)
(*   write  what the processor writes to the slave port, if anything       *)
(* A pixel is represented by the address it was read from.                 *)
(***************************************************************************)
EXTENDS Integers, Sequences

CONSTANTS
  PIXELS, LINES,        \* size of the image (400 and 300 as instantiated)
  Depth,                \* lpm_numwords of the FIFO (128)
  AlmostEmpty,          \* almost_empty_value (32)
  AlmostFull,           \* almost_full_value (96)
  StallAt,              \* pending reads at which reading stalls (4'hC)
  ResumeAt,             \* pending reads at which it resumes (4'h7)
  PendingMod,           \* number of values of pending_reads (2^4)
  Buffers,              \* start addresses the processor may use
  DefaultBuffer,        \* DEFAULT_BUFFER_ADDRESS
  DefaultBackBuffer     \* DEFAULT_BACK_BUF_ADDRESS

ASSUME DMAAssumption ==
  /\ PIXELS \in Nat \ {0}
  /\ LINES \in Nat \ {0}
  /\ PIXELS * LINES > 1
  /\ Depth \in Nat /\ AlmostEmpty \in Nat /\ AlmostFull \in Nat
  /\ StallAt \in Nat /\ ResumeAt \in Nat /\ PendingMod \in Nat
  /\ AlmostEmpty < AlmostFull
  /\ AlmostFull + StallAt + 1 <= Depth
  /\ ResumeAt < StallAt
  /\ StallAt + 1 < PendingMod
  /\ DefaultBuffer \in Buffers
  /\ DefaultBackBuffer \in Buffers

VARIABLES
  s_pixel_buffer,                \* state of the FSM
  buffer_start_address,          \* the buffer being read: the front buffer
  back_buf_start_address,
  buffer_swap,                   \* an exchange has been asked for
  pending_reads,
  reading_first_pixel_in_image,
  pixel_address, line_address,   \* the pixel to read next
  Image_Buffer,                  \* the FIFO
  inflight,                      \* reads memory has accepted and not answered
  stream                         \* the last beat the sink took

control  == <<s_pixel_buffer, pixel_address, line_address>>
buffers  == <<buffer_start_address, back_buf_start_address>>
datapath == <<reading_first_pixel_in_image, pending_reads, Image_Buffer,
              inflight, stream>>
dmaVars  == <<control, buffers, buffer_swap, datapath>>

-----------------------------------------------------------------------------
(* Values. *)

Addresses == [buffer : Buffers, line : 0..LINES-1, pixel : 0..PIXELS-1]

Beats == [data : Addresses, startofpacket : BOOLEAN, endofpacket : BOOLEAN]

NoBeat == [data |-> "none"]

NoWrite      == [register |-> "none"]
RequestSwap  == [register |-> "Buffer"]
SetBackBuffer(b) == [register |-> "BackBuffer", address |-> b]

SlaveWrites == {NoWrite, RequestSwap} \cup {SetBackBuffer(b) : b \in Buffers}

-----------------------------------------------------------------------------
(* Combinational signals. *)

AtOrigin == pixel_address = 0 /\ line_address = 0

AtLastPixel == pixel_address = PIXELS - 1 /\ line_address = LINES - 1

fifo_almost_empty == Len(Image_Buffer) < AlmostEmpty

fifo_almost_full == Len(Image_Buffer) >= AlmostFull

fifo_full == Len(Image_Buffer) = Depth

stream_valid == Image_Buffer # <<>>

master_address == [buffer |-> buffer_start_address,
                   line |-> line_address, pixel |-> pixel_address]

fifo_data_in ==
  [data |-> Head(inflight),
   startofpacket |-> reading_first_pixel_in_image,
   endofpacket |-> s_pixel_buffer = "WAIT_FOR_LAST_PIXEL" /\ pending_reads = 1]

-----------------------------------------------------------------------------
Init ==
  /\ s_pixel_buffer = "IDLE"
  /\ buffer_start_address = DefaultBuffer
  /\ back_buf_start_address = DefaultBackBuffer
  /\ buffer_swap = FALSE
  /\ pending_reads = 0
  /\ reading_first_pixel_in_image = FALSE
  /\ pixel_address = 0
  /\ line_address = 0
  /\ Image_Buffer = <<>>
  /\ inflight = <<>>
  /\ stream = NoBeat

(***************************************************************************)
(* The registers other than the FSM's, at one edge.  accept says that      *)
(* memory accepts a read at this edge: master_read & ~master_waitrequest.  *)
(***************************************************************************)

\* Mutant: an exchange does not wait for the end of the frame.
BufferAddresses_Anytime(accept, write) ==
  IF write.register = "BackBuffer"
  THEN /\ back_buf_start_address' = write.address
       /\ UNCHANGED buffer_start_address
  ELSE IF buffer_swap /\ accept
  THEN /\ buffer_start_address' = back_buf_start_address
       /\ back_buf_start_address' = buffer_start_address
  ELSE UNCHANGED buffers

\* A write to the back buffer register wins over an exchange due now.
BufferAddresses(accept, write) ==
  IF write.register = "BackBuffer"
  THEN /\ back_buf_start_address' = write.address
       /\ UNCHANGED buffer_start_address
  ELSE IF buffer_swap /\ accept /\ AtLastPixel
  THEN /\ buffer_start_address' = back_buf_start_address
       /\ back_buf_start_address' = buffer_start_address
  ELSE UNCHANGED buffers

\* Mutant: the request is not forgotten at (0,0).
BufferSwap_Sticky(write) ==
  buffer_swap' = (write.register = "Buffer" \/ buffer_swap)

\* The request is forgotten at (0,0), whether or not it has been served.
BufferSwap(write) ==
  buffer_swap' = (\/ write.register = "Buffer"
                  \/ buffer_swap /\ ~AtOrigin)

\* Mutant: an answer that arrives with the acceptance of a read is not counted.
PendingReads_Uncounted(accept, valid) ==
  pending_reads' =
    IF accept
    THEN (pending_reads + 1) % PendingMod
    ELSE IF valid /\ pending_reads # 0 THEN pending_reads - 1
                                       ELSE pending_reads

PendingReads(accept, valid) ==
  pending_reads' =
    IF accept
    THEN IF valid THEN pending_reads ELSE (pending_reads + 1) % PendingMod
    ELSE IF valid /\ pending_reads # 0 THEN pending_reads - 1
                                       ELSE pending_reads

\* Mutant: the mark of the first pixel is set whenever the address is (0,0).
FirstPixel_AnyState(valid) ==
  reading_first_pixel_in_image' =
    (AtOrigin \/ (reading_first_pixel_in_image /\ ~valid))

FirstPixel(valid) ==
  reading_first_pixel_in_image' =
    (\/ s_pixel_buffer = "IDLE" /\ AtOrigin
     \/ reading_first_pixel_in_image /\ ~valid)

PixelAddress(accept) ==
  IF ~accept
  THEN UNCHANGED <<pixel_address, line_address>>
  ELSE IF pixel_address # PIXELS - 1
  THEN /\ pixel_address' = pixel_address + 1
       /\ UNCHANGED line_address
  ELSE /\ pixel_address' = 0
       /\ line_address' = IF line_address = LINES - 1 THEN 0
                                                      ELSE line_address + 1

\* A queue after one edge: pop takes its head away, push adds e to its end.
Shifted(queue, pop, push, e) ==
  (IF pop THEN Tail(queue) ELSE queue) \o (IF push THEN <<e>> ELSE <<>>)

\* A full FIFO drops what memory returns.
Fifo(valid, take) ==
  /\ Image_Buffer' =
       Shifted(Image_Buffer, take, valid /\ ~fifo_full, fifo_data_in)
  /\ stream' = IF take THEN Head(Image_Buffer) ELSE stream

\* Memory answers in the order in which it accepted, one edge later at least.
Memory(accept, valid) ==
  inflight' = Shifted(inflight, valid, accept, master_address)

Registers(accept, valid, take, write) ==
  /\ valid => inflight # <<>>
  /\ take => stream_valid
  /\ BufferAddresses(accept, write)
  /\ BufferSwap(write)
  /\ PendingReads(accept, valid)
  /\ FirstPixel(valid)
  /\ PixelAddress(accept)
  /\ Fifo(valid, take)
  /\ Memory(accept, valid)

-----------------------------------------------------------------------------
(* One action per state of the FSM. *)

Idle(valid, take, write) ==
  /\ s_pixel_buffer = "IDLE"
  /\ s_pixel_buffer' = IF fifo_almost_empty THEN "READ_BUFFER" ELSE "IDLE"
  /\ Registers(FALSE, valid, take, write)

\* Mutant: the next frame starts without waiting for the last pixels.
WaitForLastPixel_Early(valid, take, write) ==
  /\ s_pixel_buffer = "WAIT_FOR_LAST_PIXEL"
  /\ s_pixel_buffer' = "IDLE"
  /\ Registers(FALSE, valid, take, write)

WaitForLastPixel(valid, take, write) ==
  /\ s_pixel_buffer = "WAIT_FOR_LAST_PIXEL"
  /\ s_pixel_buffer' = IF pending_reads = 0 THEN "IDLE"
                                            ELSE "WAIT_FOR_LAST_PIXEL"
  /\ Registers(FALSE, valid, take, write)

\* READ_BUFFER while memory holds master_waitrequest.
ReadHeld(valid, take, write) ==
  /\ s_pixel_buffer = "READ_BUFFER"
  /\ UNCHANGED s_pixel_buffer
  /\ Registers(FALSE, valid, take, write)

\* Mutant: reading goes on when the FIFO is almost full.
ReadAccepted_IgnoreAlmostFull(valid, take, write) ==
  /\ s_pixel_buffer = "READ_BUFFER"
  /\ s_pixel_buffer' = IF AtLastPixel THEN "WAIT_FOR_LAST_PIXEL"
                       ELSE IF pending_reads >= StallAt
                            THEN "MAX_PENDING_READS_STALL"
                            ELSE "READ_BUFFER"
  /\ Registers(TRUE, valid, take, write)

\* READ_BUFFER at the edge where memory accepts the read.
ReadAccepted(valid, take, write) ==
  /\ s_pixel_buffer = "READ_BUFFER"
  /\ s_pixel_buffer' = IF AtLastPixel THEN "WAIT_FOR_LAST_PIXEL"
                       ELSE IF fifo_almost_full THEN "IDLE"
                       ELSE IF pending_reads >= StallAt
                            THEN "MAX_PENDING_READS_STALL"
                            ELSE "READ_BUFFER"
  /\ Registers(TRUE, valid, take, write)

MaxPendingReadsStall(valid, take, write) ==
  /\ s_pixel_buffer = "MAX_PENDING_READS_STALL"
  /\ s_pixel_buffer' = IF pending_reads <= ResumeAt
                       THEN "READ_BUFFER" ELSE "MAX_PENDING_READS_STALL"
  /\ Registers(FALSE, valid, take, write)

Edge(valid, take, write) ==
  \/ Idle(valid, take, write)
  \/ WaitForLastPixel(valid, take, write)
  \/ ReadHeld(valid, take, write)
  \/ ReadAccepted(valid, take, write)
  \/ MaxPendingReadsStall(valid, take, write)

DMANext == \E valid, take \in BOOLEAN, write \in SlaveWrites :
             Edge(valid, take, write)

(***************************************************************************)
(* The clock runs.  Memory does not hold a read off forever and answers    *)
(* every read it accepted; the sink, which ends in the pixel clock of the  *)
(* monitor, takes pixels as long as there are any.                         *)
(***************************************************************************)
ClockTicks == \E valid, take \in BOOLEAN, write \in SlaveWrites :
                \/ Idle(valid, take, write)
                \/ WaitForLastPixel(valid, take, write)
                \/ MaxPendingReadsStall(valid, take, write)

MemoryAccepts == \E valid, take \in BOOLEAN, write \in SlaveWrites :
                   ReadAccepted(valid, take, write)

MemoryAnswers == \E take \in BOOLEAN, write \in SlaveWrites :
                   Edge(TRUE, take, write)

SinkTakes == \E valid \in BOOLEAN, write \in SlaveWrites :
               Edge(valid, TRUE, write)

DMAFairness ==
  /\ WF_dmaVars(ClockTicks)
  /\ WF_dmaVars(MemoryAccepts)
  /\ WF_dmaVars(MemoryAnswers)
  /\ WF_dmaVars(SinkTakes)

DMASpec == Init /\ [][DMANext]_dmaVars

FairDMASpec == DMASpec /\ DMAFairness

-----------------------------------------------------------------------------
(* Properties. *)

\* Every register holds a value of its width, and every queue holds
\* addresses or beats.
TypeOK ==
  /\ s_pixel_buffer \in {"IDLE", "WAIT_FOR_LAST_PIXEL", "READ_BUFFER",
                         "MAX_PENDING_READS_STALL"}
  /\ buffer_start_address \in Buffers
  /\ back_buf_start_address \in Buffers
  /\ buffer_swap \in BOOLEAN
  /\ pending_reads \in 0..PendingMod-1
  /\ reading_first_pixel_in_image \in BOOLEAN
  /\ pixel_address \in 0..PIXELS-1
  /\ line_address \in 0..LINES-1
  /\ Image_Buffer \in Seq(Beats)
  /\ inflight \in Seq(Addresses)
  /\ stream \in Beats \cup {NoBeat}

\* pending_reads, which has PendingMod values and stops counting at zero,
\* is the number of reads memory owes: it never wraps, although a read is
\* still issued after the threshold has been reached.
PendingReadsCounts == pending_reads = Len(inflight)

\* There is room in the FIFO for every read memory owes, so no pixel is ever
\* dropped (fifo_write is masked by fifo_full and a lost pixel would shift
\* the rest of the picture).
RoomForEveryRead == Len(Image_Buffer) + Len(inflight) <= Depth

\* A pixel's place in its frame, and in which order frames are scanned.
First(a) == a.pixel = 0 /\ a.line = 0

Final(a) == a.pixel = PIXELS - 1 /\ a.line = LINES - 1

Follows(b, a) ==
  IF a.pixel # PIXELS - 1
  THEN b.buffer = a.buffer /\ b.line = a.line /\ b.pixel = a.pixel + 1
  ELSE /\ b.pixel = 0
       /\ IF a.line # LINES - 1 THEN b.buffer = a.buffer /\ b.line = a.line + 1
                                ELSE b.line = 0

\* The pixels on their way, oldest first: first those in the FIFO, then those
\* memory owes, and last the one to be read next.
OnTheWay(k) ==
  LET used == Len(Image_Buffer)
  IN  IF k <= used THEN Image_Buffer[k].data
      ELSE IF k <= used + Len(inflight) THEN inflight[k - used]
      ELSE master_address

\* The pixels on their way are consecutive in raster order without a gap or
\* a repetition, and two neighbours come from different buffers only across
\* the end of a frame: an exchange never tears a frame, and nothing that
\* happens on the slave port during the frame can.
PipelineInRasterOrder ==
  \A k \in 1..Len(Image_Buffer) + Len(inflight) :
    Follows(OnTheWay(k + 1), OnTheWay(k))

\* Start-of-packet marks exactly the first pixel of a frame and end-of-packet
\* exactly the last, whatever the number of reads outstanding when they are
\* computed: the scaler and the sync generator find the frame by them.
PacketsAreFrames ==
  \A i \in 1..Len(Image_Buffer) :
    /\ Image_Buffer[i].startofpacket = First(Image_Buffer[i].data)
    /\ Image_Buffer[i].endofpacket = Final(Image_Buffer[i].data)

\* Reads of two frames are never outstanding together (WAIT_FOR_LAST_PIXEL
\* waits for the last pixel before the next frame starts).
OneFrameOutstanding ==
  \A i \in 1..Len(inflight) : Final(inflight[i]) => i = Len(inflight)

\* Why there is always room, state by state: how many reads may be pending in
\* each state of the FSM, and how many pixels may be on their way.  Reading is
\* entered with a nearly empty FIFO or after a stall, and the threshold of
\* pending reads cannot be met again with an almost full FIFO.
FlowControl ==
  LET used == Len(Image_Buffer)
  IN  /\ pending_reads = Len(inflight)
      /\ pending_reads <= StallAt + 1
      /\ used + pending_reads <= AlmostFull + StallAt + 1
      /\ s_pixel_buffer = "IDLE" => pending_reads <= StallAt
      /\ s_pixel_buffer = "READ_BUFFER" =>
           /\ pending_reads <= StallAt
           /\ pending_reads = StallAt => used < AlmostFull
           /\ used + pending_reads <= AlmostFull + StallAt
      /\ s_pixel_buffer = "MAX_PENDING_READS_STALL" =>
           used + pending_reads <= AlmostFull + StallAt

\* Where the FSM stands in the frame: the last pixel of a frame is owed only
\* in WAIT_FOR_LAST_PIXEL, nothing is owed when a frame is about to begin, and
\* reading_first_pixel_in_image belongs to the pixel that comes back next.
FrameControl ==
  /\ s_pixel_buffer = "WAIT_FOR_LAST_PIXEL" =>
       /\ AtOrigin
       /\ inflight # <<>> => Final(inflight[Len(inflight)])
  /\ \A i \in 1..Len(inflight) :
       Final(inflight[i]) => /\ s_pixel_buffer = "WAIT_FOR_LAST_PIXEL"
                             /\ i = Len(inflight)
  /\ s_pixel_buffer # "WAIT_FOR_LAST_PIXEL" /\ AtOrigin => inflight = <<>>
  /\ s_pixel_buffer = "READ_BUFFER" /\ AtOrigin => reading_first_pixel_in_image
  /\ s_pixel_buffer = "MAX_PENDING_READS_STALL" => ~AtOrigin
  /\ IF inflight # <<>>
     THEN reading_first_pixel_in_image = First(inflight[1])
     ELSE reading_first_pixel_in_image => AtOrigin

\* The sink has seen everything before the pixels on their way, correctly
\* marked.
StreamInStep ==
  IF stream = NoBeat THEN First(OnTheWay(1))
  ELSE /\ Follows(OnTheWay(1), stream.data)
       /\ stream.startofpacket = First(stream.data)
       /\ stream.endofpacket = Final(stream.data)

\* Why the properties above hold: flow control, the order of the pixels on their
\* way, the place of the FSM in the frame, the packet marks and the beat the sink
\* took last belong together, and none of them would last without the others.
FramesInv ==
  /\ FlowControl
  /\ PipelineInRasterOrder
  /\ FrameControl
  /\ PacketsAreFrames
  /\ StreamInStep

\* With the types of the registers, what every edge preserves.
DMAInv == TypeOK /\ FramesInv

\* What the sink sees is a stream of whole frames that never dries up.
Frames == INSTANCE FrameStream WITH beat <- stream

\* The DMA of altera_up_avalon_pixel_buffer_dma, whatever the memory's delays,
\* implements the frame stream.
StreamsFrames == Frames!Spec
=============================================================================
