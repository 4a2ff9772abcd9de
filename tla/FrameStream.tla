---------------------------- MODULE FrameStream ----------------------------
(***************************************************************************)
(* What the pixel buffer DMA promises the components behind it: an endless *)
(* stream of frames.  Every frame is the LINES * PIXELS pixels of one      *)
(* buffer in raster order, its first beat marked start-of-packet and its   *)
(* last one end-of-packet; which buffer is shown is decided between        *)
(* frames.  How the pixels are fetched and queued is left out.             *)
(***************************************************************************)
EXTENDS Integers

CONSTANTS PIXELS, LINES, Buffers

VARIABLE beat      \* the beat handed over last

Nothing == [data |-> "none"]

Beat(b, l, p) ==
  [data          |-> [buffer |-> b, line |-> l, pixel |-> p],
   startofpacket |-> l = 0 /\ p = 0,
   endofpacket   |-> l = LINES - 1 /\ p = PIXELS - 1]

Init == beat = Nothing

StartFrame ==
  /\ \/ beat = Nothing
     \/ beat # Nothing /\ beat.endofpacket
  /\ \E b \in Buffers : beat' = Beat(b, 0, 0)

NextPixel ==
  /\ beat # Nothing
  /\ beat.data.pixel < PIXELS - 1
  /\ beat' = Beat(beat.data.buffer, beat.data.line, beat.data.pixel + 1)

NextLine ==
  /\ beat # Nothing
  /\ beat.data.pixel = PIXELS - 1
  /\ beat.data.line < LINES - 1
  /\ beat' = Beat(beat.data.buffer, beat.data.line + 1, 0)

Next == StartFrame \/ NextPixel \/ NextLine

SafeSpec == Init /\ [][Next]_beat

Spec == SafeSpec /\ WF_beat(Next)
=============================================================================
