------------------------------ MODULE Animation ------------------------------
(***************************************************************************)
(* The loop of main.c: a circle anywhere, a box that erases the text, the  *)
(* text in its place, then the buffers are swapped; the same once more for *)
(* the other buffer; then a new circle, and the text moves a pixel in each *)
(* direction and turns at the edges.                                       *)
(*                                                                         *)
(* A picture says of every pixel's address what it shows.  The driver      *)
(* draws into its back buffer only, so both buffers' pictures are kept     *)
(* under the back buffer's addresses and a swap exchanges them; that it    *)
(* does, when the loop has finished polling, is DoubleBuffering's matter.  *)
(* Colours are left out: the text is drawn in one and circles in another.  *)
(***************************************************************************)
EXTENDS Drawing

CONSTANTS
  XTurn, YTurn,         \* where the text turns (320 and 290)
  BoxWidth, BoxHeight,  \* the box's far corner, from the text's (80 and 10)
  Text,                 \* "visuale.ru"
  Circles,              \* what rand makes of [x1, y1, r]
  FirstCircle,          \* [200, 150, 30]
  FirstPlace            \* where the text starts (10, in both directions)

ASSUME AnimationAssumption ==
  /\ XTurn \in 2..x_resolution-2 /\ YTurn \in 2..y_resolution-2
  /\ CharWidth \in Nat /\ CharHeight \in Nat \ {0}
  /\ BoxWidth = Len(Text) * CharWidth /\ BoxHeight = CharHeight - 1
  /\ x_resolution + BoxWidth < WordMod /\ y_resolution + BoxHeight < WordMod
  /\ FirstPlace \in 1..XTurn /\ FirstPlace \in 1..YTurn
  /\ Text \in Seq(SUBSET (Nat \X Nat))
  /\ \A i \in 1..Len(Text) : Text[i] # Newline
  /\ \A d \in UNION {Text[i] : i \in 1..Len(Text)} : d[2] < CharHeight - 1

VARIABLES
  pc,                   \* "first", "second" or "move": which part of the loop
  circle, x2, y2, dx, dy,
  back, front           \* the pictures in the two buffers

animationVars == <<pc, circle, x2, y2, dx, dy, back, front>>

-----------------------------------------------------------------------------
Black == [a \in Picture(Screen, 1) |-> "black"]

Paint(picture, addresses, content) ==
  [a \in DOMAIN picture |-> IF a \in addresses THEN content ELSE picture[a]]

TextAddresses == vid_print_string(x2, y2, Text)

\* Mutant: the box begins in the text's own column.
Drawn_NarrowBox(picture) ==
  Paint(Paint(Paint(picture,
          vid_draw_circle(circle.x, circle.y, circle.r, 1), "circle"),
          draw_box(x2, y2 - 1, x2 + BoxWidth, y2 + BoxHeight, 1), "black"),
          TextAddresses, "text")

Drawn(picture) ==
  Paint(Paint(Paint(picture,
          vid_draw_circle(circle.x, circle.y, circle.r, 1), "circle"),
          draw_box(x2 - 1, y2 - 1, x2 + BoxWidth, y2 + BoxHeight, 1), "black"),
          TextAddresses, "text")

\* clear_screen of both buffers, and the loop's first values.
AnimationInit ==
  /\ pc = "first"
  /\ circle = FirstCircle
  /\ x2 = FirstPlace /\ y2 = FirstPlace
  /\ dx = 1 /\ dy = 1
  /\ back = Black /\ front = Black

DrawAndSwap ==
  /\ front' = Drawn(back)
  /\ back' = front
  /\ UNCHANGED <<circle, x2, y2, dx, dy>>

DrawFirst ==
  /\ pc = "first"
  /\ pc' = "second"
  /\ DrawAndSwap

DrawSecond ==
  /\ pc = "second"
  /\ pc' = "move"
  /\ DrawAndSwap

\* Mutant: the text turns one pixel later at the near edges.
Direction_Late(at, direction, turn) ==
  IF at < 1 THEN 1 ELSE IF at > turn THEN -1 ELSE direction

Direction(at, direction, turn) ==
  IF at < 2 THEN 1 ELSE IF at > turn THEN -1 ELSE direction

Move ==
  /\ pc = "move"
  /\ pc' = "first"
  /\ circle' \in Circles
  /\ dx' = Direction(x2, dx, XTurn)
  /\ dy' = Direction(y2, dy, YTurn)
  /\ x2' = Unsigned(x2 + dx')
  /\ y2' = Unsigned(y2 + dy')
  /\ UNCHANGED <<back, front>>

AnimationNext == DrawFirst \/ DrawSecond \/ Move

AnimationSpec == AnimationInit /\ [][AnimationNext]_animationVars

-----------------------------------------------------------------------------
(* Properties. *)

\* The text is shown once and whole, and leaves no trail: the box erases what
\* is left of it in the buffer being drawn, which is the text of the pass
\* before the last.  (It would leave one below it if a character of the text
\* reached into the last row of its cell, see AnimationAssumption.)  And when
\* the loop has drawn everything twice both buffers show the same, so the next
\* swaps do not make the picture jump.
NoTrail ==
  /\ pc # "first" => {a \in DOMAIN front : front[a] = "text"} = TextAddresses
  /\ pc = "move" => front = back

\* The text turns before the box around it would get a negative coordinate,
\* which draw_box does not handle, and never leaves the screen as a whole.
BoxArgumentsLegal ==
  /\ x2 \in 1..XTurn + 1 /\ y2 \in 1..YTurn + 1
  /\ x2 < x_resolution /\ y2 < y_resolution

\* The demonstration leaves no trail, and never asks for a box that would be
\* drawn elsewhere.
AnimationClean == NoTrail /\ BoxArgumentsLegal
=============================================================================
