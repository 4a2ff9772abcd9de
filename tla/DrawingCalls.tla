----------------------------- MODULE DrawingCalls -----------------------------
(***************************************************************************)
(* One call after the other of the drawing functions, with any arguments   *)
(* from the sets below: "written" are the addresses the last call wrote.   *)
(***************************************************************************)
EXTENDS Drawing, FiniteSets

CONSTANTS
  Xs, Ys,               \* coordinates, on the screen and off it,
  Ends,                 \* the points lines are drawn between,
  Corners,              \* the points circles and texts are placed at,
  Radii,
  Strings

\* An int.
Ints == -(WordMod \div 2)..WordMod \div 2 - 1

\* Coordinates and what is added to them are ints, lines end on the screen, glyphs
\* fill their cells at most, and a line of the screen is cleared by whole words.
ASSUME CallsAssumption ==
  /\ Xs \subseteq Ints /\ Ys \subseteq Ints /\ Ends \subseteq Screen
  /\ x_resolution % 2 = 0
  /\ CharWidth \in Nat /\ CharHeight \in Nat /\ LineHeight \in Nat
  /\ Corners \subseteq Ints \X Ints
  /\ Radii \subseteq Nat
  /\ \A c \in Corners, r \in Radii : \A n \in {-r, r} : c[1] + n \in Ints /\ c[2] + n \in Ints
  /\ Strings \subseteq Seq({Newline} \cup SUBSET ((0..CharWidth-1) \X (0..CharHeight-1)))
  /\ \A c \in Corners, s \in Strings :
       /\ c[1] + (Len(s) + 1) * CharWidth \in Ints
       /\ c[2] + Len(s) * LineHeight + CharHeight \in Ints

VARIABLES call, written

callVars == <<call, written>>

NoCall == [function |-> "none"]

BufferNumbers == {0, 1}

CallsInit == call = NoCall /\ written = {}

-----------------------------------------------------------------------------
Returns(this, addresses) ==
  /\ call = NoCall
  /\ call' = this
  /\ written' = addresses

DrawPixel ==
  \E x \in Xs, y \in Ys :
    Returns([function |-> "draw", x |-> x, y |-> y], draw(x, y))

ClearScreen ==
  \E b \in BufferNumbers :
    Returns([function |-> "clear_screen", backbuffer |-> b], clear_screen(b))

DrawBox ==
  \E x0, x1 \in Xs, y0, y1 \in Ys, b \in BufferNumbers :
    Returns([function |-> "draw_box", x0 |-> x0, y0 |-> y0,
             x1 |-> x1, y1 |-> y1, backbuffer |-> b],
            draw_box(x0, y0, x1, y1, b))

DrawHline ==
  \E x0, x1 \in Xs, y \in Ys, b \in BufferNumbers :
    Returns([function |-> "draw_hline", x0 |-> x0, y0 |-> y,
             x1 |-> x1, y1 |-> y, backbuffer |-> b],
            draw_hline(x0, x1, y, b))

DrawVline ==
  \E x \in Xs, y0, y1 \in Ys, b \in BufferNumbers :
    Returns([function |-> "draw_vline", x0 |-> x, y0 |-> y0,
             x1 |-> x, y1 |-> y1, backbuffer |-> b],
            draw_vline(x, y0, y1, b))

DrawRectangle ==
  \E x0, x1 \in Xs, y0, y1 \in Ys, b \in BufferNumbers :
    Returns([function |-> "draw_rectangle", x0 |-> x0, y0 |-> y0,
             x1 |-> x1, y1 |-> y1, backbuffer |-> b],
            draw_rectangle(x0, y0, x1, y1, b))

DrawLine ==
  \E p, q \in Ends, b \in BufferNumbers :
    Returns([function |-> "draw_line", x0 |-> p[1], y0 |-> p[2],
             x1 |-> q[1], y1 |-> q[2], backbuffer |-> b],
            draw_line(p[1], p[2], q[1], q[2], b))

DrawCircle ==
  \E c \in Corners, radius \in Radii, fill \in {0, 1} :
    Returns([function |-> "vid_draw_circle", x |-> c[1], y |-> c[2],
             radius |-> radius, fill |-> fill],
            vid_draw_circle(c[1], c[2], radius, fill))

PrintString ==
  \E c \in Corners, string \in Strings :
    Returns([function |-> "vid_print_string", x |-> c[1], y |-> c[2],
             string |-> string],
            vid_print_string(c[1], c[2], string))

NextCall ==
  /\ call # NoCall
  /\ call' = NoCall
  /\ written' = {}

CallsNext ==
  \/ DrawPixel \/ ClearScreen
  \/ DrawBox \/ DrawHline \/ DrawVline \/ DrawRectangle \/ DrawLine
  \/ DrawCircle \/ PrintString
  \/ NextCall

CallsSpec == CallsInit /\ [][CallsNext]_callVars

-----------------------------------------------------------------------------
(* Properties. *)

Between(a, b) == IF a <= b THEN a..b ELSE b..a

Box == Between(call.x0, call.x1) \X Between(call.y0, call.y1)

Edges == {p \in Box : p[1] \in {call.x0, call.x1} \/ p[2] \in {call.y0, call.y1}}

Moved(points, x, y) == {<<p[1] + x, p[2] + y>> : p \in points}

\* No call, whatever its arguments, writes anywhere but into the part of one
\* buffer that is shown, and calls without a buffer only into the back buffer.
\* (draw_line makes no such promise and gets ends on the screen.)
StaysInPicture ==
  written \subseteq
    Picture(Screen, IF "backbuffer" \in DOMAIN call THEN call.backbuffer ELSE 1)

\* clear_screen leaves no pixel of the screen behind, although it writes words
\* and the DMA reads pixels.
ClearsEveryPixel ==
  call.function = "clear_screen" =>
    Picture(Screen, call.backbuffer) \subseteq written

\* Boxes, rectangles and straight lines fill what lies on the screen of the
\* figure between their corners, in whatever order the corners are given,
\* and the driver's addresses are those the DMA fetches the pixels from, as
\* long as no coordinate is negative (see ClippedToScreen).
BoxesExact ==
  /\ call.function \in {"draw_box", "draw_hline", "draw_vline", "draw_rectangle"}
  /\ \A n \in {call.x0, call.y0, call.x1, call.y1} : n >= 0
  => written = Picture(IF call.function = "draw_rectangle" THEN Edges ELSE Box,
                       call.backbuffer)

\* A line reaches both its ends, is connected, is nowhere more than half a
\* pixel from the ideal one, and is the same drawn from either end.
LinesStraight ==
  call.function = "draw_line" =>
    LET points == {p \in Box : Picture({p}, call.backbuffer) \subseteq written}
        dx == call.x1 - call.x0
        dy == call.y1 - call.y0
        long == IF Abs(dx) >= Abs(dy) THEN Abs(dx) ELSE Abs(dy)
        axis == IF Abs(dx) >= Abs(dy) THEN 1 ELSE 2
    IN  /\ written = Picture(points, call.backbuffer)
        /\ {<<call.x0, call.y0>>, <<call.x1, call.y1>>} \subseteq points
        /\ \A n \in Between(IF axis = 1 THEN call.x0 ELSE call.y0,
                            IF axis = 1 THEN call.x1 ELSE call.y1) :
             \E p \in points : p[axis] = n /\ \A q \in points :
                                                q[axis] = n => q = p
        /\ \A p \in points :
             2 * Abs((p[1] - call.x0) * dy - (p[2] - call.y0) * dx) <= long
        /\ written = draw_line(call.x1, call.y1, call.x0, call.y0,
                               call.backbuffer)

\* The filled circle leaves out no pixel within its radius and touches none a
\* pixel beyond it; the other one is within half a pixel of its radius, in
\* every row and column, and lies in the filled one.  Both are cut at the edges
\* of the screen and nowhere else, wherever their centre is.
CirclesRound ==
  call.function = "vid_draw_circle" =>
    LET points  == IF call.fill = 1 THEN Disc(call.radius)
                                    ELSE Outline(call.radius)
        Square(p) == p[1] * p[1] + p[2] * p[2]
        within == (-call.radius)..call.radius
    IN  /\ written = Picture(Moved(points, call.x, call.y), 1)
        /\ call.fill = 1 =>
             /\ {p \in within \X within :
                   Square(p) <= call.radius * (call.radius + 1)} \subseteq points
             /\ call.radius > 0 =>
                  \A p \in points :
                    Square(p) < (call.radius + 1) * (call.radius + 1)
        /\ call.fill = 0 /\ call.radius > 0 =>
             /\ \A p \in points :
                  Abs(Square(p) - call.radius * call.radius) < call.radius
             /\ \A n \in within : \E p, q \in points : p[1] = n /\ q[2] = n
             /\ points \subseteq Disc(call.radius)

\* The line a character is in, and the last newline before it (0: there is none).
TextLine(string, i) == Cardinality({j \in 1..i : string[j] = Newline})

LastNewline(string, i) ==
  IF \E j \in 1..i : string[j] = Newline
  THEN CHOOSE j \in 1..i : /\ string[j] = Newline
                           /\ \A k \in j+1..i : string[k] # Newline
  ELSE 0

Cell(x, y, string, i) ==
  Moved(string[i], x + (i - LastNewline(string, i) - 1) * CharWidth,
        y + TextLine(string, i) * LineHeight)

\* The characters of a string stand side by side in their line and do not
\* touch each other's cells, and what falls off the screen is cut, not moved.
TextInCells ==
  call.function = "vid_print_string" =>
    written = UNION {Picture(Cell(call.x, call.y, call.string, i), 1) :
                       i \in {n \in 1..Len(call.string) : call.string[n] # Newline}}

\* What is drawn is what was asked for: as much of the figure as is on the screen
\* and nothing else, at the addresses the DMA fetches its pixels from and never
\* outside the picture; and lines and circles are where geometry puts them.
FiguresExact ==
  /\ StaysInPicture /\ ClearsEveryPixel /\ BoxesExact /\ TextInCells
  /\ LinesStraight /\ CirclesRound

\* What the driver says it does with a figure that is partly off the screen:
\* it is clipped and drawn within the confines of the screen.
ClippedToScreen ==
  call.function \in {"draw_box", "draw_hline", "draw_vline"} =>
    written = Picture(Box, call.backbuffer)
=============================================================================
