--------------------------- MODULE MCDrawingCalls ---------------------------
(* A screen of sixteen by twelve pixels, and the radii main.c asks for. *)
EXTENDS DrawingCalls, TLC

MCXs == {-18, -1, 0, 7, 15, 16}
MCYs == {-1, 0, 5, 11, 12, 30}

\* Every slope that occurs on the screen.
MCEnds == {<<0, 0>>, <<15, 0>>, <<7, 5>>} \cup {0, 1, 3, 7, 10, 15} \X (0..11)

MCCorners == {<<8, 6>>, <<0, 0>>, <<15, 11>>, <<-3, 10>>, <<13, 13>>}

MCRadii == 0..29

\* Glyphs of three by two pixels: one full, one with a corner missing.
Full  == (0..2) \X (0..1)
Notch == Full \ {<<2, 0>>}

MCStrings == {<<>>, <<Full>>, <<Notch, Full, Notch>>,
              <<Full, Newline, Notch, Full>>,
              <<Newline, Notch, Newline, Newline, Full>>}
=============================================================================
