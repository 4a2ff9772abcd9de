-------------------------- MODULE VideoSyncGenerator --------------------------
(***************************************************************************)
(* The video sync generator (altera_avalon_video_sync_generator.v, one     *)
(* beat per pixel) at the read side of the dual clock buffer.  Two         *)
(* counters run for ever; the generator fits the stream to them by not     *)
(* taking pixels while nothing is displayed, nor a start-of-packet before  *)
(* the first position of a frame.  The adapter between the two passes      *)
(* everything through.                                                     *)
(*                                                                         *)
(* Nothing tells the buffer when to be filled, so it may run dry, and the  *)
(* picture is then displaced; what can be promised is that it comes back.  *)
(***************************************************************************)
EXTENDS DualClockBuffer

CONSTANTS
  H_BLANK_PIXELS, H_SYNC_PULSE_PIXELS, TOTAL_HSCAN_PIXELS,
  V_BLANK_LINES, V_SYNC_PULSE_LINES, TOTAL_VSCAN_LINES,
  NoFrame               \* not one of Buffers

NUM_COLUMNS == PIXELS
NUM_ROWS    == LINES

ASSUME SyncAssumption ==
  /\ H_BLANK_PIXELS \in Nat /\ V_BLANK_LINES \in Nat
  /\ H_SYNC_PULSE_PIXELS \in Nat /\ V_SYNC_PULSE_LINES \in Nat
  /\ TOTAL_HSCAN_PIXELS \in Nat /\ TOTAL_VSCAN_LINES \in Nat
  /\ H_BLANK_PIXELS + NUM_COLUMNS <= TOTAL_HSCAN_PIXELS
  /\ V_BLANK_LINES + NUM_ROWS <= TOTAL_VSCAN_LINES

VARIABLES
  column_counter, row_counter,
  RGB_OUT, DEN, HD, VD,     \* the registered outputs; HD and VD active low
  at,                       \* history: the position RGB_OUT was put out for,
  frame,                    \* history: the buffer the frame's first pixel
                            \* came from
  ended,                    \* history: the word taken last ended its frame
  starts                    \* history: frames started since the picture was
                            \* last disturbed, counted up to Settled

syncVars    == <<column_counter, row_counter, RGB_OUT, DEN, HD, VD>>
historyVars == <<at, frame, ended, starts>>
displayVars == <<bufferVars, syncVars, historyVars>>

Stale   == [unknown |-> "whatever the empty fifo puts out"]

Settled == 2

-----------------------------------------------------------------------------
pHD == column_counter <= H_SYNC_PULSE_PIXELS - 1
pVD == row_counter <= V_SYNC_PULSE_LINES - 1

h_active == column_counter \in H_BLANK_PIXELS..H_BLANK_PIXELS+NUM_COLUMNS-1
v_active == row_counter \in V_BLANK_LINES..V_BLANK_LINES+NUM_ROWS-1
pDEN == h_active /\ v_active

\* Mutant: a start-of-packet may come at the beginning of any line.
first_pixel_OfAnyLine == column_counter = H_BLANK_PIXELS

first_pixel == column_counter = H_BLANK_PIXELS /\ row_counter = V_BLANK_LINES

sop == stream_out_valid /\ Head(Data_FIFO).startofpacket

\* Mutant: a start-of-packet is held even at the first position.
ready_AlwaysHeld == pDEN /\ ~sop

ready == pDEN /\ ~(sop /\ ~first_pixel)

taken == ready /\ stream_out_valid

\* The picture is disturbed when the generator needs a pixel and there is
\* none, and when the next frame has begun before the last one was complete.
Dry == pDEN /\ ~stream_out_valid

CutShort == sop /\ ~ended /\ ~first_pixel

Init ==
  /\ BufferInit
  /\ column_counter = 0
  /\ row_counter = 0
  /\ RGB_OUT = Stale
  /\ DEN = FALSE
  /\ HD = 1
  /\ VD = 1
  /\ at = [line |-> 0, pixel |-> 0]
  /\ frame = NoFrame
  /\ ended = TRUE
  /\ starts = 0

Counters ==
  /\ column_counter' = (column_counter + 1) % TOTAL_HSCAN_PIXELS
  /\ row_counter' = IF column_counter = TOTAL_HSCAN_PIXELS - 1
                    THEN (row_counter + 1) % TOTAL_VSCAN_LINES
                    ELSE row_counter

Outputs ==
  /\ RGB_OUT' = IF stream_out_valid THEN Head(Data_FIFO).data ELSE Stale
  /\ DEN' = pDEN
  /\ HD' = IF pHD THEN 0 ELSE 1
  /\ VD' = IF pVD THEN 0 ELSE 1

Remember ==
  /\ at' = [line |-> row_counter - V_BLANK_LINES,
            pixel |-> column_counter - H_BLANK_PIXELS]
  /\ frame' = IF ~first_pixel THEN frame
              ELSE IF stream_out_valid THEN Head(Data_FIFO).data.buffer
              ELSE NoFrame
  /\ ended' = IF taken THEN Head(Data_FIFO).endofpacket ELSE ended
  /\ starts' = IF Dry \/ CutShort THEN 0
               ELSE IF first_pixel /\ starts < Settled THEN starts + 1
               ELSE starts

\* An edge of the pixel clock.
PixelEdge ==
  /\ ReadEdge(taken)
  /\ Counters
  /\ Outputs
  /\ Remember

\* An edge of the system clock.
SystemEdge ==
  /\ \E give \in BOOLEAN : WriteEdge(give)
  /\ UNCHANGED <<syncVars, historyVars>>

\* A reset request (the board's key or the debugger) restarts the pipeline,
\* which begins a new frame, and the generator, each in its own clock.  The
\* dcfifo has no clear: its words stay.
ResetPipeline ==
  /\ source' = NoBeat
  /\ UNCHANGED <<Data_FIFO, arrived, freed, uncounted, syncVars, historyVars>>

ResetGenerator ==
  /\ column_counter' = 0
  /\ row_counter' = 0
  /\ RGB_OUT' = Stale
  /\ DEN' = FALSE
  /\ HD' = 1
  /\ VD' = 1
  /\ starts' = 0
  /\ UNCHANGED <<bufferVars, at, frame, ended>>

ClockEdge == PixelEdge \/ SystemEdge

DisplayNext == ClockEdge \/ ResetPipeline \/ ResetGenerator

(***************************************************************************)
(* Both clocks run, the source always has another word in the end, and     *)
(* each side of the buffer learns of the other.                            *)
(***************************************************************************)
DisplayFairness ==
  /\ WF_displayVars(PixelEdge)
  /\ WF_displayVars(PixelEdge /\ arrived' = Len(Data_FIFO'))
  /\ WF_displayVars(SystemEdge /\ freed' = 0)
  /\ WF_displayVars(WriteEdge(TRUE) /\ UNCHANGED <<syncVars, historyVars>>)

DisplaySpec == Init /\ [][DisplayNext]_displayVars

FairDisplaySpec == DisplaySpec /\ DisplayFairness

-----------------------------------------------------------------------------
(* Properties. *)

\* The clock-crossing buffer, the timing counters and the colour held for the
\* screen keep their types.
TypeOK ==
  /\ BufferTypeOK
  /\ column_counter \in 0..TOTAL_HSCAN_PIXELS-1
  /\ row_counter \in 0..TOTAL_VSCAN_LINES-1
  /\ RGB_OUT \in {b.data : b \in Beats} \cup {Stale}
  /\ DEN \in BOOLEAN /\ HD \in {0, 1} /\ VD \in {0, 1}
  /\ frame \in Buffers \cup {NoFrame}
  /\ ended \in BOOLEAN
  /\ starts \in 0..Settled

\* However the picture was disturbed, because the buffer ran dry, because a
\* reset of the pipeline cut a frame short and left its pixels in the buffer or
\* because the generator itself was reset anywhere in a frame, it is back in
\* place from the second frame after that on: every position shows its pixel,
\* and the whole frame comes from the buffer its first pixel came from.
\* (The pixels left over are shown in the first frame, and then the next
\* start-of-packet is held until its place comes.)
Recovers ==
  starts = Settled /\ DEN =>
    RGB_OUT = [buffer |-> frame, line |-> at.line, pixel |-> at.pixel]

\* Frames keep coming, each begun in its place and taken: neither the buffer's
\* threshold nor the generator's holding of a start-of-packet stops the
\* picture for good, once no more resets are made.
KeepsShowing ==
  <>[][ClockEdge]_displayVars =>
    []<>(/\ DEN /\ RGB_OUT # Stale /\ ~ended
         /\ at = [line |-> 0, pixel |-> 0]
         /\ RGB_OUT.line = 0 /\ RGB_OUT.pixel = 0)
=============================================================================
