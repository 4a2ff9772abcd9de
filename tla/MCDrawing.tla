------------------------------ MODULE MCDrawing ------------------------------
(* The drawing calls and the demonstration's loop on a screen of sixteen by  *)
(* twelve pixels, the other driver on one of six by five, and the colours    *)
(* they are called with.  "part" says which of them runs; the others stay at *)
(* their beginning.                                                          *)
EXTENDS MCDrawingCalls, Animation, VideoDMADriver, SoftwareColours

VARIABLE part

\* Related to the screen as in main.c: the turning points leave room for the
\* text.
MCText == <<Notch, Full>>

MCCircles == {[x |-> 3, y |-> 2, r |-> 1], [x |-> 13, y |-> 8, r |-> 1],
              [x |-> 0, y |-> 11, r |-> 2], [x |-> 10, y |-> 0, r |-> 0]}

MCFirstCircle == [x |-> 6, y |-> 6, r |-> 2]

\* Pixels of one, two and four bytes, addressed in both ways.
MCRegisters ==
  {[x_resolution |-> 6, y_resolution |-> 5, wiw |-> 3, hiw |-> 3,
    addressing_mode |-> mode, color_bits |-> 8, color_planes |-> planes] :
     mode \in {0, 1}, planes \in 1..3}

\* Levels of a channel that differ in every bit a conversion may drop.
MCColours24 ==
  LET levels == {0, 7, 32, 128, 199, 255}
  IN  {r * 2^16 + g * 2^8 + b : r, g, b \in levels}

MCInit ==
  /\ part \in {"calls", "animation", "video", "colours"}
  /\ CallsInit /\ AnimationInit /\ VideoInit /\ SoftwareColoursInit
  /\ part # "colours" => RGB
  \* One controller is enough where none is used.
  /\ part # "video" => /\ IsXY /\ device.data_width = 1
                       /\ registers.front < registers.back

MCNext ==
  /\ UNCHANGED part
  /\ \/ /\ part = "calls" /\ CallsNext
        /\ UNCHANGED <<animationVars, videoVars, softwareColourVars>>
     \/ /\ part = "animation" /\ AnimationNext
        /\ UNCHANGED <<callVars, videoVars, softwareColourVars>>
     \/ /\ part = "video" /\ VideoNext
        /\ UNCHANGED <<callVars, animationVars, softwareColourVars>>
     \/ /\ part = "colours" /\ SoftwareColoursNext
        /\ UNCHANGED <<callVars, animationVars, videoVars>>

MCSpec == MCInit /\ [][MCNext]_<<part, callVars, animationVars, videoVars,
                            softwareColourVars>>
=============================================================================
