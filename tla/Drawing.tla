------------------------------- MODULE Drawing -------------------------------
(***************************************************************************)
(* What the drawing functions write, as sets of byte addresses: those of   *)
(* the pixel buffer driver (altera_up_avalon_video_pixel_buffer_dma.c) and *)
(* those of simple_graphics.c above it.  The driver is told by the DMA     *)
(* that pixels have sixteen bits and are addressed by row and column, so   *)
(* its other colour and addressing modes are left out, as are the colours. *)
(*                                                                         *)
(* Coordinates are C's int until the driver assigns them to unsigned       *)
(* variables, which is what Unsigned is for.  A point is <<x, y>>.         *)
(***************************************************************************)
EXTENDS Integers, Sequences

CONSTANTS
  x_resolution, y_resolution,   \* 400 and 300
  WW, HW,                       \* PIXELS and LINES need WW+1 and HW+1 bits (9)
  buffer_start_address, back_buffer_start_address,
  WordMod,                      \* values of an unsigned int (2^32)
  CharWidth, CharHeight,        \* FONT_10PT_COLUMN and FONT_10PT_ROW (8, 11)
  LineHeight,                   \* from one line of text to the next (12)
  Newline                       \* the character '\n'

ASSUME DrawingAssumption ==
  /\ WW \in Nat /\ HW \in Nat
  /\ x_resolution \in 1..2^(WW + 1) /\ y_resolution \in 1..2^(HW + 1)
  /\ WordMod \in Nat
  /\ {buffer_start_address, back_buffer_start_address}
       \subseteq 0..WordMod - 2^(WW + HW + 3)

-----------------------------------------------------------------------------
(* Addresses. *)

Unsigned(n) == n % WordMod

x_coord_offset == 1
x_coord_mask == 2^(WW + 1)     \* as a modulus
y_coord_offset == WW + 1 + x_coord_offset
y_coord_mask == 2^(HW + 1)

\* What the exponents say (powers of a constant are nothing the provers know
\* about): a line has two bytes for each of its columns, a buffer a line for each
\* of its rows.
ASSUME LineAssumption ==
  /\ 2^y_coord_offset = 2 * x_coord_mask
  /\ 2^(WW + HW + 3) = y_coord_mask * (2 * x_coord_mask)

Start(backbuffer) == IF backbuffer = 1 THEN back_buffer_start_address
                                       ELSE buffer_start_address

\* Where the box and line functions write a pixel.
Address(start, x, y) ==
  (start + y * 2^y_coord_offset + x * 2^x_coord_offset) % WordMod

\* Writes to the back buffer, or to nothing.
draw(x, y) ==
  IF Unsigned(x) >= x_resolution \/ Unsigned(y) >= y_resolution
  THEN {}
  ELSE {Address(back_buffer_start_address,
                Unsigned(x) % x_coord_mask, Unsigned(y) % y_coord_mask)}

\* draw at every one of a set of offsets from a point.
Plot(x, y, offsets) == UNION {draw(x + d[1], y + d[2]) : d \in offsets}

-----------------------------------------------------------------------------
(* The driver. *)

\* One word of 32 bits, two pixels, at a time.
clear_screen(backbuffer) ==
  UNION {LET word == (Start(backbuffer) + y * 2^y_coord_offset + x) % WordMod
         IN  {word, word + 2} :
           y \in 0..y_resolution-1,
           x \in {i \in 0..2*x_resolution-1 : i % 4 = 0}}

\* Mutant: the coordinates are not sorted.
Extent_Unsorted(a, b, limit) ==
  IF Unsigned(a) >= limit THEN {}
  ELSE Unsigned(a)..(IF Unsigned(b) >= limit THEN limit - 1 ELSE Unsigned(b))

\* Sort two coordinates and clip them.  The tests for negative values are
\* never true of unsigned ones and are left out.
Extent(a, b, limit) ==
  LET low  == IF Unsigned(a) > Unsigned(b) THEN Unsigned(b) ELSE Unsigned(a)
      high == IF Unsigned(a) > Unsigned(b) THEN Unsigned(a) ELSE Unsigned(b)
  IN  IF low >= limit THEN {}
      ELSE low..(IF high >= limit THEN limit - 1 ELSE high)

Filled(xs, ys, backbuffer) ==
  {Address(Start(backbuffer), x, y) : x \in xs, y \in ys}

draw_box(x0, y0, x1, y1, backbuffer) ==
  Filled(Extent(x0, x1, x_resolution), Extent(y0, y1, y_resolution), backbuffer)

draw_hline(x0, x1, y, backbuffer) ==
  Filled(Extent(x0, x1, x_resolution), Extent(y, y, y_resolution), backbuffer)

draw_vline(x, y0, y1, backbuffer) ==
  Filled(Extent(x, x, x_resolution), Extent(y0, y1, y_resolution), backbuffer)

draw_rectangle(x0, y0, x1, y1, backbuffer) ==
  draw_hline(x0, x1, y0, backbuffer) \cup draw_hline(x0, x1, y1, backbuffer)
    \cup draw_vline(x0, y0, y1, backbuffer)
    \cup draw_vline(x1, y0, y1, backbuffer)

Abs(n) == IF n >= 0 THEN n ELSE -n

helper_plot_pixel(start, x, y) ==
  (start + (2^(y_coord_offset - 1) * y + x) * 2) % WordMod

\* step[n] is y and error when pixel n is plotted, n columns to the right of the
\* first.
Walk(y, deltax, deltay, ystep) ==
  LET step[n \in 0..deltax] ==
        IF n = 0 THEN [y |-> y, error |-> -(deltax \div 2)]
        ELSE LET before == step[n - 1]
                 error == before.error + deltay
             IN  IF error > 0
                 THEN [y |-> before.y + ystep, error |-> error - deltax]
                 ELSE [y |-> before.y, error |-> error]
  IN  step

\* The points from first to last, a column each.
Columns(first, last) ==
  LET step == Walk(first[2], last[1] - first[1], Abs(last[2] - first[2]),
                   IF first[2] < last[2] THEN 1 ELSE -1)
  IN  {<<first[1] + n, step[n].y>> : n \in 0..last[1] - first[1]}

\* Mutant: the line is not sorted from left to right first.
draw_line_Unsorted(x0, y0, x1, y1, backbuffer) ==
  LET steep == Abs(y1 - y0) > Abs(x1 - x0)
      Turn(p) == IF steep THEN <<p[2], p[1]>> ELSE p
  IN  {helper_plot_pixel(Start(backbuffer), Turn(p)[1], Turn(p)[2]) :
         p \in Columns(Turn(<<x0, y0>>), Turn(<<x1, y1>>))}

\* Along the longer of the two axes (x, after Turn), from the smaller end to
\* the larger.
draw_line(x0, y0, x1, y1, backbuffer) ==
  LET steep == Abs(y1 - y0) > Abs(x1 - x0)
      Turn(p) == IF steep THEN <<p[2], p[1]>> ELSE p
      swap  == Turn(<<x0, y0>>)[1] > Turn(<<x1, y1>>)[1]
      first == Turn(IF swap THEN <<x1, y1>> ELSE <<x0, y0>>)
      last  == Turn(IF swap THEN <<x0, y0>> ELSE <<x1, y1>>)
  IN  {helper_plot_pixel(Start(backbuffer), Turn(p)[1], Turn(p)[2]) :
         p \in Columns(first, last)}

-----------------------------------------------------------------------------
(* simple_graphics.c *)

\* The loop of the filled circle: its x, xChange, yChange and radiusError for
\* each y.
Rows(radius) ==
  LET row[y \in 0..radius+1] ==
        IF y = 0
        THEN [x |-> radius, xChange |-> 1 - 2 * radius, yChange |-> 0, error |-> 0]
        ELSE LET above == row[y - 1]
                 error == above.error + above.yChange
             IN  IF 2 * error + above.xChange > 0
                 THEN [x |-> above.x - 1, xChange |-> above.xChange + 2,
                       yChange |-> above.yChange + 2,
                       error |-> error + above.xChange]
                 ELSE [above EXCEPT !.yChange = @ + 2, !.error = error]
  IN  row

\* The filled circle, as offsets from its centre.
Disc(radius) ==
  LET row == Rows(radius)
  IN  UNION {(((-row[y].x)..row[y].x) \X {y, -y})
               \cup (((-y)..y) \X {row[y].x, -row[y].x}) :
                 y \in {i \in 0..radius+1 : row[i].x >= i}}

\* Mutant: y is not decreased when p turns positive.
Octant_Straight(radius) ==
  LET octant[x \in 0..radius+1] ==
        IF x = 0
        THEN [y |-> radius, p |-> 3 - 2 * radius]
        ELSE LET left == octant[x - 1]
             IN  IF left.p < 0
                 THEN [left EXCEPT !.p = @ + 4 * (x - 1) + 6]
                 ELSE [y |-> left.y,
                       p |-> left.p + 4 * ((x - 1) - left.y) + 10]
  IN  octant

\* The loop of the circle that is not filled: its y and p for each x.
Octant(radius) ==
  LET octant[x \in 0..radius+1] ==
        IF x = 0
        THEN [y |-> radius, p |-> 3 - 2 * radius]
        ELSE LET left == octant[x - 1]
             IN  IF left.p < 0
                 THEN [left EXCEPT !.p = @ + 4 * (x - 1) + 6]
                 ELSE [y |-> left.y - 1,
                       p |-> left.p + 4 * ((x - 1) - left.y) + 10]
  IN  octant

\* The circle that is not filled: the loop's eighth of it and its reflections.
Outline(radius) ==
  LET octant == Octant(radius)
  IN  IF radius = 0 THEN {}
      ELSE UNION {{x, -x} \X {octant[x].y, -octant[x].y}
                    \cup {octant[x].y, -octant[x].y} \X {x, -x} :
                      x \in {i \in 0..radius+1 : octant[i].y >= i}}

vid_draw_circle(Hcenter, Vcenter, radius, fill) ==
  Plot(Hcenter, Vcenter, IF fill # 0 THEN Disc(radius) ELSE Outline(radius))

\* A character is the set of the offsets its glyph has on.
vid_print_char(horiz_offset, vert_offset, character) ==
  Plot(horiz_offset, vert_offset,
       {d \in character : d[1] < CharWidth /\ d[2] < CharHeight})

\* Where each character is put.
Places(horiz_offset, vert_offset, string) ==
  LET place[i \in 1..Len(string) + 1] ==
        IF i = 1 THEN <<horiz_offset, vert_offset>>
        ELSE LET before == place[i - 1]
             IN  IF string[i - 1] = Newline
                 THEN <<horiz_offset, before[2] + LineHeight>>
                 ELSE <<before[1] + CharWidth, before[2]>>
  IN  place

vid_print_string(horiz_offset, vert_offset, string) ==
  LET place == Places(horiz_offset, vert_offset, string)
  IN  UNION {vid_print_char(place[i][1], place[i][2], string[i]) :
               i \in {n \in 1..Len(string) : string[n] # Newline}}

-----------------------------------------------------------------------------
(* What the DMA fetches. *)

\* {line_address, pixel_address, 1'b0} behind the buffer's start.
master_address(start, line_address, pixel_address) ==
  (start + (line_address * 2^(WW + 1) + pixel_address) * 2) % WordMod

Screen == (0..x_resolution-1) \X (0..y_resolution-1)

Picture(points, backbuffer) ==
  {master_address(Start(backbuffer), p[2], p[1]) : p \in points \cap Screen}
=============================================================================
