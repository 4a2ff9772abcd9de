--------------------------- MODULE VideoDMADriver ---------------------------
(***************************************************************************)
(* The driver altera_up_avalon_video_dma_controller.c: one program opens a *)
(* device, moves and swaps its buffers, and draws.  Unlike the pixel       *)
(* buffer's driver this one serves every hardware it is generated for: the *)
(* device structure is filled from the registers, and each function has a  *)
(* branch for each width of a pixel and each of the two addressing modes.  *)
(* The controller is not in the system, so its registers are external and  *)
(* take the behaviour that the driver's comments ask of them.              *)
(*                                                                         *)
(* A write is recorded as the address and the number of bytes.             *)
(***************************************************************************)
EXTENDS Integers, FiniteSets

CONSTANTS
  Registers,            \* what a controller may be generated with
  Addresses,            \* of the buffers the program gives it
  VideoXs, VideoYs,     \* coordinates, on the screen and off it (unsigned)
  Lengths               \* of the strings

ASSUME VideoDMAAssumption ==
  /\ \A r \in Registers :
       /\ r.wiw \in Nat /\ r.hiw \in Nat
       /\ r.x_resolution \in 1..2^r.wiw /\ r.y_resolution \in 1..2^r.hiw
       /\ r.addressing_mode \in {0, 1}
       /\ r.color_bits \in 1..16 /\ r.color_planes \in 1..4
  /\ VideoXs \cup VideoYs \cup Addresses \cup Lengths \subseteq Nat

\* What the exponents say: a row shifted by the width of a pixel.
ASSUME ShiftAssumption ==
  \A r \in Registers, n \in 0..2 : 2^(r.wiw + n) = 2^r.wiw * 2^n

VARIABLES
  registers,            \* front, back, swap and the fixed ones
  device,               \* the driver's structure
  waiting,              \* the program polls for the end of a swap
  drawing, output       \* the last drawing call, and its writes

videoVars == <<registers, device, waiting, drawing, output>>

ALT_UP_VIDEO_DMA_XY_ADDRESS_MODE == 0

NoDrawing == [function |-> "none"]

-----------------------------------------------------------------------------
(* ALTERA_UP_AVALON_VIDEO_DMA_CONTROLLER_INIT *)

DataWidth(r) ==
  LET alt_up_dw == r.color_bits * r.color_planes
  IN  IF alt_up_dw <= 8 THEN 1 ELSE IF alt_up_dw <= 16 THEN 2 ELSE 4

CoordOffset(data_width) ==
  IF data_width = 1 THEN 0 ELSE IF data_width = 2 THEN 1 ELSE 2

\* The masks are kept as moduli.
Opened(r) ==
  LET data_width == DataWidth(r)
  IN  [buffer_start_address |-> r.front, back_buffer_start_address |-> r.back,
       addressing_mode |-> r.addressing_mode, data_width |-> data_width,
       x_resolution |-> r.x_resolution, y_resolution |-> r.y_resolution,
       x_coord_offset |-> CoordOffset(data_width), x_coord_mask |-> 2^r.wiw,
       y_coord_offset |-> r.wiw + CoordOffset(data_width),
       y_coord_mask |-> 2^r.hiw]

Controller(r, front, back) ==
  [front |-> front, back |-> back, swap |-> FALSE,
   addressing_mode |-> r.addressing_mode,
   x_resolution |-> r.x_resolution, y_resolution |-> r.y_resolution,
   color_bits |-> r.color_bits, color_planes |-> r.color_planes,
   wiw |-> r.wiw, hiw |-> r.hiw]

VideoInit ==
  /\ \E r \in Registers, front, back \in Addresses :
       registers = Controller(r, front, back)
  /\ device = Opened(registers)
  /\ waiting = FALSE
  /\ drawing = NoDrawing /\ output = {}

-----------------------------------------------------------------------------
(* What the functions write. *)

IsXY == device.addressing_mode = ALT_UP_VIDEO_DMA_XY_ADDRESS_MODE

BufferStart(backbuffer) ==
  IF backbuffer = 1 THEN device.back_buffer_start_address
                    ELSE device.buffer_start_address

\* A write of a pixel's width.
draw_helper(buffer_start, offset) == <<buffer_start + offset, device.data_width>>

\* From one row to the next, in bytes.
y_inc == IF IsXY THEN 2^device.y_coord_offset
                 ELSE device.x_resolution * 2^device.x_coord_offset

OnScreen(x, y) == x < device.x_resolution /\ y < device.y_resolution

video_draw(x, y, backbuffer) ==
  LET offset == (x % device.x_coord_mask) * 2^device.x_coord_offset
                  + (y % device.y_coord_mask) * y_inc
  IN  IF OnScreen(x, y) THEN {draw_helper(BufferStart(backbuffer), offset)} ELSE {}

\* x times the width, whatever x_coord_offset says.
video_hline(x0, x1, y, backbuffer) ==
  {draw_helper(BufferStart(backbuffer), y * y_inc + x * device.data_width) :
     x \in x0..x1}

video_vline(x, y0, y1, backbuffer) ==
  {draw_helper(BufferStart(backbuffer), x * 2^device.x_coord_offset + y * y_inc) :
     y \in y0..y1}

video_rectangle(x0, y0, x1, y1, backbuffer) ==
  video_hline(x0, x1, y0, backbuffer) \cup video_hline(x0, x1, y1, backbuffer)
    \cup video_vline(x0, y0, y1, backbuffer)
    \cup video_vline(x1, y0, y1, backbuffer)

Low(a, b) == IF a > b THEN b ELSE a
High(a, b) == IF a > b THEN a ELSE b

\* Sorted, and clipped before the function chooses between the box and its edges.
video_box(x0, y0, x1, y1, backbuffer, fill) ==
  LET l_x == Low(x0, x1)
      t_y == Low(y0, y1)
      r_x == Low(High(x0, x1), device.x_resolution - 1)
      b_y == Low(High(y0, y1), device.y_resolution - 1)
  IN  IF ~OnScreen(l_x, t_y) THEN {}
      ELSE IF fill = 0 THEN video_rectangle(l_x, t_y, r_x, b_y, backbuffer)
      ELSE UNION {video_hline(l_x, r_x, y, backbuffer) : y \in t_y..b_y}

screen_fill(backbuffer) ==
  video_box(0, 0, device.x_resolution - 1, device.y_resolution - 1, backbuffer, 1)

Distance(a, b) == IF a > b THEN a - b ELSE b - a

\* The same walk as the other driver's: y and error when pixel n is plotted.
VideoWalk(y, deltax, deltay, ystep) ==
  LET step[n \in 0..deltax] ==
        IF n = 0 THEN [y |-> y, error |-> -(deltax \div 2)]
        ELSE LET before == step[n - 1]
                 error == before.error + deltay
             IN  IF error > 0
                 THEN [y |-> before.y + ystep, error |-> error - deltax]
                 ELSE [y |-> before.y, error |-> error]
  IN  step

\* Its points, in the columns from first to last.
VideoColumns(first, last) ==
  LET step == VideoWalk(first[2], last[1] - first[1], Distance(last[2], first[2]),
                        IF first[2] < last[2] THEN 1 ELSE -1)
  IN  {<<first[1] + n, step[n].y>> : n \in 0..last[1] - first[1]}

\* Pixels from one row to the next.
line_size == IF IsXY THEN 2^(device.y_coord_offset - device.x_coord_offset)
                     ELSE device.x_resolution

\* Only with both ends on the screen.
video_line(x0, y0, x1, y1, backbuffer) ==
  LET steep == Distance(y1, y0) > Distance(x1, x0)
      Turn(p) == IF steep THEN <<p[2], p[1]>> ELSE p
      swap  == Turn(<<x0, y0>>)[1] > Turn(<<x1, y1>>)[1]
      first == Turn(IF swap THEN <<x1, y1>> ELSE <<x0, y0>>)
      last  == Turn(IF swap THEN <<x0, y0>> ELSE <<x1, y1>>)
  IN  IF ~OnScreen(x0, y0) \/ ~OnScreen(x1, y1) THEN {}
      ELSE {draw_helper(BufferStart(backbuffer),
                        (line_size * Turn(p)[2] + Turn(p)[1])
                          * 2^device.x_coord_offset) :
              p \in VideoColumns(first, last)}

\* A character buffer is always addressed by row and column, and only the first
\* byte of a wide pixel is written, unless it has two.
video_string(x, y, length, backbuffer) ==
  LET offset == y * 2^device.y_coord_offset + x * 2^device.x_coord_offset
  IN  IF ~OnScreen(x, y) THEN {}
      ELSE {<<BufferStart(backbuffer) + offset + i * device.data_width,
              IF device.data_width = 2 THEN 2 ELSE 1>> :
              i \in 0..Low(length, device.x_resolution - x) - 1}

-----------------------------------------------------------------------------
(* The program. *)

Draws(this, addresses) ==
  /\ drawing = NoDrawing /\ ~waiting
  /\ drawing' = this
  /\ output' = addresses
  /\ UNCHANGED <<registers, device, waiting>>

\* A call, with the arguments that its function has.
Call(function, x0, y0, x1, y1, b, length, fill) ==
  [function |-> function, x0 |-> x0, y0 |-> y0, x1 |-> x1, y1 |-> y1,
   backbuffer |-> b, length |-> length, fill |-> fill]

DrawVideo ==
  \E x0 \in VideoXs, y0 \in VideoYs, b \in {0, 1} :
    \/ Draws(Call("draw", x0, y0, x0, y0, b, 0, 0), video_draw(x0, y0, b))
    \/ \E n \in Lengths :
         Draws(Call("draw_string", x0, y0, x0, y0, b, n, 0),
               video_string(x0, y0, n, b))
    \/ \E x1 \in VideoXs, y1 \in VideoYs :
         \/ Draws(Call("draw_line", x0, y0, x1, y1, b, 0, 0),
                  video_line(x0, y0, x1, y1, b))
         \/ \E fill \in {0, 1} :
              Draws(Call("draw_box", x0, y0, x1, y1, b, 0, fill),
                    video_box(x0, y0, x1, y1, b, fill))

\* screen_clear is screen_fill with the symbol 0.
FillScreen ==
  \E b \in {0, 1} :
    Draws(Call("draw_box", 0, 0, registers.x_resolution - 1,
               registers.y_resolution - 1, b, 0, 1),
          screen_fill(b))

NextDrawing ==
  /\ drawing # NoDrawing
  /\ drawing' = NoDrawing /\ output' = {}
  /\ UNCHANGED <<registers, device, waiting>>

\* The register is written and read back.
set_bb_addr ==
  /\ drawing = NoDrawing /\ ~waiting
  /\ \E new_address \in Addresses :
       /\ registers' = [registers EXCEPT !.back = new_address]
       /\ device' = [device EXCEPT !.back_buffer_start_address = new_address]
  /\ UNCHANGED <<waiting, drawing, output>>

\* Mutant: the driver keeps its addresses.
swap_buffers_Kept ==
  /\ drawing = NoDrawing /\ ~waiting
  /\ registers' = [registers EXCEPT !.swap = TRUE]
  /\ waiting' = TRUE
  /\ UNCHANGED <<device, drawing, output>>

swap_buffers ==
  /\ drawing = NoDrawing /\ ~waiting
  /\ registers' = [registers EXCEPT !.swap = TRUE]
  /\ device' = [device EXCEPT
                  !.back_buffer_start_address = device.buffer_start_address,
                  !.buffer_start_address = device.back_buffer_start_address]
  /\ waiting' = TRUE
  /\ UNCHANGED <<drawing, output>>

\* The comment has the program wait for a 0 before it draws again.
check_swap_status ==
  /\ waiting
  /\ waiting' = registers.swap
  /\ UNCHANGED <<registers, device, drawing, output>>

\* The controller, at the end of a screen.
EndOfScreen ==
  /\ registers.swap
  /\ registers' = [registers EXCEPT !.front = registers.back,
                                    !.back = registers.front, !.swap = FALSE]
  /\ UNCHANGED <<device, waiting, drawing, output>>

VideoNext ==
  \/ DrawVideo \/ FillScreen \/ NextDrawing
  \/ set_bb_addr \/ swap_buffers \/ check_swap_status
  \/ EndOfScreen

VideoSpec == VideoInit /\ [][VideoNext]_videoVars

-----------------------------------------------------------------------------
(* Properties. *)

\* Where the controller fetches a pixel from, by its own registers: in X-Y mode
\* the address is | Y | X |, in consecutive mode y * x_resolution + x pixels on.
PixelAt(x, y, backbuffer) ==
  (IF backbuffer = 1 THEN registers.back ELSE registers.front)
    + DataWidth(registers) * (x + y * (IF registers.addressing_mode = 0
                                       THEN 2^registers.wiw
                                       ELSE registers.x_resolution))

Asked ==
  LET Span(a, b, limit) == Low(a, b)..Low(High(a, b), limit - 1)
      xs == Span(drawing.x0, drawing.x1, registers.x_resolution)
      ys == Span(drawing.y0, drawing.y1, registers.y_resolution)
  IN  IF drawing.function = "draw_box" /\ drawing.fill = 0
      THEN {p \in xs \X ys :
              \/ \E n \in {drawing.x0, drawing.x1} :
                   p[1] = Low(n, registers.x_resolution - 1)
              \/ \E n \in {drawing.y0, drawing.y1} :
                   p[2] = Low(n, registers.y_resolution - 1)}
      ELSE xs \X ys

\* The writes of whole pixels.
Pixels(points) ==
  {<<PixelAt(p[1], p[2], drawing.backbuffer), DataWidth(registers)>> : p \in points}

\* A pixel or a box: the whole of it and nothing else.
FigureExact == output = Pixels(Asked)

\* A line: half a pixel from the ideal one at most, and a pixel for each step.
VideoLineExact ==
  LET dx == drawing.x1 - drawing.x0
      dy == drawing.y1 - drawing.y0
      long == High(Distance(dx, 0), Distance(dy, 0))
      points == {p \in Asked : Pixels({p}) \subseteq output}
      ends == {<<drawing.x0, drawing.y0>>, <<drawing.x1, drawing.y1>>}
  IN  IF \E p \in ends : \/ p[1] >= registers.x_resolution
                         \/ p[2] >= registers.y_resolution
      THEN output = {}
      ELSE /\ output = Pixels(points) /\ ends \subseteq points
           /\ Cardinality(points) = long + 1
           /\ \E i \in 1..2 : Cardinality({p[i] : p \in points}) = long + 1
           /\ \A p \in points :
                2 * Distance((p[1] - drawing.x0) * dy,
                             (p[2] - drawing.y0) * dx) <= long

\* A string: one character after the other as far as the edge.
VideoStringExact ==
  {w[1] : w \in output} =
    {PixelAt(x, drawing.y0, drawing.backbuffer) :
       x \in {n \in drawing.x0..drawing.x0 + drawing.length - 1 :
                /\ n < registers.x_resolution
                /\ drawing.y0 < registers.y_resolution}}

\* For every width of a pixel and both addressing modes, in spite of a loop for
\* each, and after any sequence of new back buffers and swaps that were waited
\* for: a pixel or a box (clipped to the screen, then filled or framed) is
\* written whole, nothing else is, and all of it into the buffer that was asked
\* for as the controller knows it; a line on the screen joins its ends in one
\* pixel for each step, half a pixel away from the ideal one at most; a string
\* in X-Y mode has one character after the other as far as the edge.
VideoFiguresExact ==
  /\ drawing.function \in {"draw", "draw_box"} => FigureExact
  /\ drawing.function = "draw_line" => VideoLineExact
  /\ drawing.function = "draw_string" /\ registers.addressing_mode = 0
       => VideoStringExact
=============================================================================
