------------------------------ MODULE HDMITiming ------------------------------
(***************************************************************************)
(* The timing of the HDMI transmitter (HDMI_ANY in hdmi_any.v) next to the *)
(* video sync generator.  Each has a pair of counters that scans the same  *)
(* raster, in the same clock: the generator's decide which pixel is put    *)
(* out, the transmitter's which pixels are sent as picture and where the   *)
(* sync pulses are.  Nothing ties the two pairs together: the transmitter  *)
(* has no reset for its counters, which start with whatever the device     *)
(* powers up with, and ignores its inputs rstX and rstY, to which the      *)
(* generator's HD and VD are wired.                                        *)
(***************************************************************************)
EXTENDS VideoSyncGenerator

CONSTANTS
  hActivePixels, hFrontPorch, hSyncWidth, hTotalPixels,
  vActiveLines, vFrontPorch, vSyncWidth, vTotalLines,
  CounterMod            \* number of values of a counter (2^11)

ASSUME TimingAssumption ==
  /\ hTotalPixels = TOTAL_HSCAN_PIXELS /\ hTotalPixels <= CounterMod
  /\ vTotalLines = TOTAL_VSCAN_LINES /\ vTotalLines <= CounterMod
  /\ hActivePixels = NUM_COLUMNS /\ vActiveLines = NUM_ROWS
  /\ H_BLANK_PIXELS = 0 /\ V_BLANK_LINES = 0
  /\ hFrontPorch \in Nat /\ hSyncWidth \in Nat
  /\ vFrontPorch \in Nat /\ vSyncWidth \in Nat /\ CounterMod \in Nat
  /\ hActivePixels + hFrontPorch + hSyncWidth <= hTotalPixels
  /\ vActiveLines + vFrontPorch + vSyncWidth <= vTotalLines

VARIABLES CounterX, CounterY, DrawArea, hSync, vSync

transmitterVars == <<CounterX, CounterY, DrawArea, hSync, vSync>>
timingVars == <<displayVars, transmitterVars>>

-----------------------------------------------------------------------------
TimingInit ==
  /\ Init
  /\ CounterX \in 0..CounterMod-1
  /\ CounterY \in 0..CounterMod-1
  /\ DrawArea = FALSE /\ hSync = FALSE /\ vSync = FALSE

\* Mutant: a line of the transmitter is one pixel too long.
TransmitterCounters_LongLine ==
  /\ CounterX' = IF CounterX = hTotalPixels THEN 0
                 ELSE (CounterX + 1) % CounterMod
  /\ CounterY' = IF CounterX # hTotalPixels THEN CounterY
                 ELSE IF CounterY = vTotalLines - 1 THEN 0
                 ELSE (CounterY + 1) % CounterMod

TransmitterCounters ==
  /\ CounterX' = IF CounterX = hTotalPixels - 1 THEN 0
                 ELSE (CounterX + 1) % CounterMod
  /\ CounterY' = IF CounterX # hTotalPixels - 1 THEN CounterY
                 ELSE IF CounterY = vTotalLines - 1 THEN 0
                 ELSE (CounterY + 1) % CounterMod

SyncPulse(counter, from, width) == counter \in from..from+width-1

\* Mutant: the picture is one pixel too wide.
TransmitterEdge_TooWide ==
  /\ TransmitterCounters
  /\ DrawArea' = (CounterX <= hActivePixels /\ CounterY < vActiveLines)
  /\ hSync' = SyncPulse(CounterX, hActivePixels + hFrontPorch, hSyncWidth)
  /\ vSync' = SyncPulse(CounterY, vActiveLines + vFrontPorch, vSyncWidth)

TransmitterEdge ==
  /\ TransmitterCounters
  /\ DrawArea' = (CounterX < hActivePixels /\ CounterY < vActiveLines)
  /\ hSync' = SyncPulse(CounterX, hActivePixels + hFrontPorch, hSyncWidth)
  /\ vSync' = SyncPulse(CounterY, vActiveLines + vFrontPorch, vSyncWidth)

TimingNext ==
  \/ PixelEdge /\ TransmitterEdge
  \/ (SystemEdge \/ ResetPipeline \/ ResetGenerator) /\ UNCHANGED transmitterVars

TimingSpec == TimingInit /\ [][TimingNext]_timingVars

\* Every edge of the pixel clock is one of both components.
FairTimingSpec == TimingSpec /\ DisplayFairness

-----------------------------------------------------------------------------
(* Properties. *)

InScan == CounterX < hTotalPixels /\ CounterY < vTotalLines

\* How far the transmitter's scan is ahead of the generator's.
Offset == ((CounterY - row_counter) * hTotalPixels + CounterX - column_counter)
            % (hTotalPixels * vTotalLines)

\* The counters find into the scan from whatever they power up with.
CountersSettle == <>[]InScan

\* The picture stays where it is on the screen: the two scans keep their
\* distance, through every frame and whatever the stream does.  Only a reset
\* of the generator moves the picture.
OffsetKept ==
  [][InScan /\ ~ResetGenerator => InScan' /\ Offset' = Offset]_timingVars

\* So the distance at power-up is the distance for ever: the counters come into
\* the scan, and from then on nothing moves them against it.
OffsetSettles == CountersSettle /\ OffsetKept

\* If the scans coincide the right picture is sent: what the transmitter sends
\* as picture is exactly what the generator puts out as picture, every pixel at
\* its place, once the stream is undisturbed; and while a sync pulse is sent
\* nothing is.
PictureInPlace ==
  InScan /\ Offset = 0 /\ starts = Settled /\ DrawArea =>
    /\ DEN
    /\ RGB_OUT = [buffer |-> frame, line |-> at.line, pixel |-> at.pixel]
    /\ ~hSync /\ ~vSync
=============================================================================
