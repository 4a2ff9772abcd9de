----------------------------- MODULE VideoScaler -----------------------------
(***************************************************************************)
(* The pixel pipeline between the DMA and the dual clock buffer: the RGB   *)
(* resampler (sopc_video_rgb_resampler_0.v, one register on the way) and   *)
(* the video scaler (sopc_video_scaler_0.v), which is Multiply_Height, a   *)
(* FIFO of one line that is sent HeightCopies times, followed by           *)
(* Multiply_Width, a register that is sent WidthCopies times.              *)
(*                                                                         *)
(* One step is one rising edge of clk, and an action is one state of       *)
(* Multiply_Height's FSM.  The inputs of an edge are                       *)
(*   give  the DMA hands over the next pixel (valid and ready)             *)
(*   take  the sink takes the pixel in stream_out (valid and ready)        *)
(* A register that holds nothing valid holds NoBeat.  Colours are a        *)
(* matter of ColourPath; here a pixel is the address it was read from.     *)
(***************************************************************************)
EXTENDS Integers, Sequences

CONSTANTS
  PIXELS, LINES,        \* size of the image; WIDTH is PIXELS (400 by 300)
  HeightCopies,         \* 2^(MH_CW + 1): how often a line is sent (2)
  WidthCopies,          \* 2^(MW_CW + 1): how often a pixel is sent (2)
  Buffers

ASSUME ScalerAssumption ==
  /\ PIXELS \in Nat \ {0} /\ LINES \in Nat \ {0}
  /\ HeightCopies \in Nat /\ WidthCopies \in Nat
  /\ HeightCopies > 1 /\ WidthCopies > 1
  /\ Buffers # {}

VARIABLES
  source,                   \* the beat the DMA handed over last
  resampled,                \* the resampler's output register
  s_multiply_height,        \* Multiply_Height: state of the FSM,
  width_in, width_out,      \* pixels of the line received and sent,
  enlarge_height_counter,   \* which copy of the line is being sent,
  Multiply_Height_FIFO,     \* the line and the start of the next one,
  line_out,                 \* and its output register
  held,                     \* Multiply_Width: the pixel being repeated,
  enlarge_width_counter,    \* which copy of it is next,
  stream_out,               \* and its output register
  shown,                    \* the beat the sink took last,
  row, column               \* history: and where in the scaled frame it goes

heightVars == <<s_multiply_height, width_in, width_out,
                enlarge_height_counter, Multiply_Height_FIFO, line_out>>
widthVars  == <<held, enlarge_width_counter, stream_out>>
sinkVars   == <<shown, row, column>>
scalerVars == <<source, resampled, heightVars, widthVars, sinkVars>>

Source == INSTANCE FrameStream WITH beat <- source

NoBeat == Source!Nothing

Beats == {Source!Beat(b, l, p) : b \in Buffers, l \in 0..LINES-1,
                                 p \in 0..PIXELS-1}

Unmarked(b, startofpacket, endofpacket) ==
  [data |-> b.data, startofpacket |-> startofpacket,
                    endofpacket |-> endofpacket]

-----------------------------------------------------------------------------
(* Combinational signals.  A register is loaded when it is empty or being  *)
(* emptied; "open" says so.                                                *)

fifo_full == Len(Multiply_Height_FIFO) = PIXELS + 1

stream_out_open(take) == take \/ stream_out = NoBeat

LastPixelCopy == enlarge_width_counter = WidthCopies - 1

width_ready(take) ==
  held = NoBeat \/ (LastPixelCopy /\ stream_out_open(take))

line_out_open(take) == width_ready(take) \/ line_out = NoBeat

\* Mutant: the next line is let in while the current one is looped.
height_ready_WhileLooping == ~fifo_full /\ width_in # PIXELS

height_ready ==
  s_multiply_height # "LOOP_FIFO" /\ ~fifo_full /\ width_in # PIXELS

resampler_ready == height_ready \/ resampled = NoBeat

fifo_read(take) ==
  IF s_multiply_height = "GET_CURRENT_LINE"
  THEN fifo_full /\ width_in # PIXELS
  ELSE line_out_open(take) /\ Multiply_Height_FIFO # <<>>

received == height_ready /\ resampled # NoBeat

EndOfLine(take) == fifo_read(take) /\ width_out = PIXELS - 1

-----------------------------------------------------------------------------
Init ==
  /\ Source!Init
  /\ resampled = NoBeat
  /\ s_multiply_height = "GET_CURRENT_LINE"
  /\ width_in = 0
  /\ width_out = 0
  /\ enlarge_height_counter = 0
  /\ Multiply_Height_FIFO = <<>>
  /\ line_out = NoBeat
  /\ held = NoBeat
  /\ enlarge_width_counter = 0
  /\ stream_out = NoBeat
  /\ shown = NoBeat
  /\ row = 0
  /\ column = 0

Resampler(give) ==
  IF give
  THEN /\ resampler_ready
       /\ Source!Next
       /\ resampled' = source'
  ELSE /\ UNCHANGED source
       /\ resampled' = IF resampler_ready THEN NoBeat ELSE resampled

WidthIn ==
  width_in' = IF s_multiply_height = "LOOP_FIFO" THEN 0
              ELSE IF received /\ resampled.startofpacket THEN 1
              ELSE IF received THEN width_in + 1
              ELSE width_in

WidthOut(take) ==
  width_out' = IF s_multiply_height = "GET_CURRENT_LINE" THEN 0
               ELSE IF EndOfLine(take) THEN 0
               ELSE IF fifo_read(take) /\ Head(Multiply_Height_FIFO).startofpacket
                    THEN 1
               ELSE IF fifo_read(take) THEN width_out + 1
               ELSE width_out

EnlargeHeightCounter(take) ==
  enlarge_height_counter' =
    IF s_multiply_height = "GET_CURRENT_LINE" THEN 0
    ELSE IF EndOfLine(take) THEN (enlarge_height_counter + 1) % HeightCopies
    ELSE enlarge_height_counter

\* A line that is looped is written back as it is read.
Fifo(take) ==
  LET rest == IF fifo_read(take) THEN Tail(Multiply_Height_FIFO)
                                 ELSE Multiply_Height_FIFO
  IN  Multiply_Height_FIFO' =
        IF s_multiply_height = "LOOP_FIFO" /\ fifo_read(take)
        THEN Append(rest, Head(Multiply_Height_FIFO))
        ELSE IF received THEN Append(rest, resampled)
        ELSE rest

\* Mutant: end-of-packet is passed on with every copy of the line.
LineOut_EveryEnd(take) ==
  line_out' =
    IF ~line_out_open(take) THEN line_out
    ELSE IF \/ s_multiply_height = "GET_CURRENT_LINE"
            \/ Multiply_Height_FIFO = <<>>
         THEN NoBeat
    ELSE LET head == Head(Multiply_Height_FIFO)
         IN  Unmarked(head,
               enlarge_height_counter = 0 /\ head.startofpacket,
               head.endofpacket)

\* Only the first copy of a line may start a frame and only the last end it.
LineOut(take) ==
  line_out' =
    IF ~line_out_open(take) THEN line_out
    ELSE IF \/ s_multiply_height = "GET_CURRENT_LINE"
            \/ Multiply_Height_FIFO = <<>>
         THEN NoBeat
    ELSE LET head == Head(Multiply_Height_FIFO)
         IN  Unmarked(head,
               enlarge_height_counter = 0 /\ head.startofpacket,
               enlarge_height_counter = HeightCopies - 1 /\ head.endofpacket)

MultiplyWidth(take) ==
  /\ held' = IF width_ready(take) THEN line_out ELSE held
  /\ enlarge_width_counter' =
       IF stream_out_open(take) /\ held # NoBeat
       THEN (enlarge_width_counter + 1) % WidthCopies
       ELSE enlarge_width_counter
  /\ stream_out' =
       IF ~stream_out_open(take) THEN stream_out
       ELSE IF held = NoBeat THEN NoBeat
       ELSE Unmarked(held, enlarge_width_counter = 0 /\ held.startofpacket,
                           LastPixelCopy /\ held.endofpacket)

\* What the sink takes, and the raster position it is counted at.
Sink(take) ==
  IF ~take
  THEN UNCHANGED sinkVars
  ELSE /\ stream_out # NoBeat
       /\ shown' = stream_out
       /\ IF shown = NoBeat
          THEN UNCHANGED <<row, column>>
          ELSE /\ column' = (column + 1) % (PIXELS * WidthCopies)
               /\ row' = IF column' # 0 THEN row
                         ELSE (row + 1) % (LINES * HeightCopies)

Registers(give, take) ==
  /\ Resampler(give)
  /\ WidthIn
  /\ WidthOut(take)
  /\ EnlargeHeightCounter(take)
  /\ Fifo(take)
  /\ LineOut(take)
  /\ MultiplyWidth(take)
  /\ Sink(take)

-----------------------------------------------------------------------------
(* One action per state of Multiply_Height's FSM. *)

GetCurrentLine(give, take) ==
  /\ s_multiply_height = "GET_CURRENT_LINE"
  /\ s_multiply_height' = IF width_in = PIXELS THEN "LOOP_FIFO"
                                               ELSE "GET_CURRENT_LINE"
  /\ Registers(give, take)

\* Mutant: the last copy is looped as well.
LoopFifo_OnceMore(give, take) ==
  /\ s_multiply_height = "LOOP_FIFO"
  /\ s_multiply_height' =
       IF EndOfLine(take) /\ enlarge_height_counter = HeightCopies - 1
       THEN "OUTPUT_LAST_LINE" ELSE "LOOP_FIFO"
  /\ Registers(give, take)

\* All copies but the last, which is sent while the next line comes in.
LoopFifo(give, take) ==
  /\ s_multiply_height = "LOOP_FIFO"
  /\ s_multiply_height' =
       IF EndOfLine(take) /\ enlarge_height_counter >= HeightCopies - 2
       THEN "OUTPUT_LAST_LINE" ELSE "LOOP_FIFO"
  /\ Registers(give, take)

OutputLastLine(give, take) ==
  /\ s_multiply_height = "OUTPUT_LAST_LINE"
  /\ s_multiply_height' = IF EndOfLine(take) THEN "GET_CURRENT_LINE"
                                             ELSE "OUTPUT_LAST_LINE"
  /\ Registers(give, take)

Edge(give, take) ==
  \/ GetCurrentLine(give, take)
  \/ LoopFifo(give, take)
  \/ OutputLastLine(give, take)

ScalerNext == \E give, take \in BOOLEAN : Edge(give, take)

(***************************************************************************)
(* The clock runs; the DMA always has another pixel in the end             *)
(* (PixelBufferDMA!StreamsFrames) and the sink always takes another.       *)
(***************************************************************************)
ScalerFairness ==
  /\ WF_scalerVars(Edge(FALSE, FALSE))
  /\ WF_scalerVars(\E take \in BOOLEAN : Edge(TRUE, take))
  /\ WF_scalerVars(\E give \in BOOLEAN : Edge(give, TRUE))

ScalerSpec == Init /\ [][ScalerNext]_scalerVars

FairScalerSpec == ScalerSpec /\ ScalerFairness

-----------------------------------------------------------------------------
(* Properties. *)

\* Counters keep their ranges (width_in never passes WIDTH, so it cannot miss
\* the comparison that closes the line) and registers hold beats.
TypeOK ==
  /\ source \in Beats \cup {NoBeat}
  /\ resampled \in Beats \cup {NoBeat}
  /\ s_multiply_height \in {"GET_CURRENT_LINE", "LOOP_FIFO",
                            "OUTPUT_LAST_LINE"}
  /\ width_in \in 0..PIXELS
  /\ width_out \in 0..PIXELS-1
  /\ enlarge_height_counter \in 0..HeightCopies-1
  /\ enlarge_width_counter \in 0..WidthCopies-1
  /\ \A i \in 1..Len(Multiply_Height_FIFO) : Multiply_Height_FIFO[i] \in Beats
  /\ \A reg \in {line_out, held, stream_out, shown} :
       reg # NoBeat => reg.data \in {b.data : b \in Beats}
  /\ row \in 0..LINES*HeightCopies-1
  /\ column \in 0..PIXELS*WidthCopies-1

\* The FIFO holds one line while that line is repeated and at most one word
\* more, and the three counters account for every word in it.  In particular
\* it is never full while a line is being received, when a word would be read
\* and thrown away.
WordsAccountedFor ==
  Len(Multiply_Height_FIFO) =
    CASE s_multiply_height = "GET_CURRENT_LINE" -> width_in
      [] s_multiply_height = "LOOP_FIFO"        -> PIXELS
      [] s_multiply_height = "OUTPUT_LAST_LINE" -> PIXELS - width_out + width_in

\* The FIFO's word i in its line: the line is rotated while it is looped, and
\* followed by the next line while its last copy is sent.
LineIntact ==
  \A i \in 1..Len(Multiply_Height_FIFO) :
    LET at == width_out + i - 1
    IN  /\ Multiply_Height_FIFO[i].data.pixel = at % PIXELS
        /\ s_multiply_height = "LOOP_FIFO" =>
             Multiply_Height_FIFO[i].data.line
               = Multiply_Height_FIFO[1].data.line

\* Counters, states and the line in the FIFO belong together, at every edge.
ScalerInv == TypeOK /\ WordsAccountedFor /\ LineIntact

\* The picture is enlarged and nothing else: the pixel at a position of the
\* scaled frame is the pixel whose copy belongs there.
Enlarged ==
  shown # NoBeat =>
    /\ shown.data.line = row \div HeightCopies
    /\ shown.data.pixel = column \div WidthCopies

\* The sink sees a stream of frames of the enlarged size, start-of-packet on
\* the first beat and end-of-packet on the last, one buffer per frame, for
\* ever.
ScaledFrames == INSTANCE FrameStream WITH
  PIXELS <- PIXELS * WidthCopies,
  LINES  <- LINES * HeightCopies,
  beat   <- IF shown = NoBeat THEN NoBeat
            ELSE [shown EXCEPT !.data.line = row, !.data.pixel = column]

\* What leaves the scaler is again a stream of whole frames, each copy of a
\* pixel numbered by its row and column in the enlarged frame.
StreamsScaledFrames == ScaledFrames!Spec
=============================================================================
