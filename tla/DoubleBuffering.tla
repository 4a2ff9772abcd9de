-------------------------- MODULE DoubleBuffering --------------------------
(***************************************************************************)
(* The software of the frame buffer together with the DMA: the driver      *)
(* altera_up_avalon_video_pixel_buffer_dma.c keeps its own idea of which   *)
(* buffer is on the screen and which is being drawn, asks the DMA for an   *)
(* exchange and polls until the DMA has dropped the request.  The client   *)
(* is main.c's: it clears both buffers, then draws into the back buffer,   *)
(* swaps and polls, for ever.  Unlike main.c it may also give the DMA      *)
(* another back buffer while it draws, the driver's remaining operation.   *)
(*                                                                         *)
(* The processor has no cache and one thread; it makes at most one access  *)
(* to the slave port per edge of the clock, and any number of edges may    *)
(* pass between two of its instructions.                                   *)
(***************************************************************************)
EXTENDS PixelBufferDMA

ASSUME BuffersAssumption == DefaultBuffer # DefaultBackBuffer

VARIABLES
  pc,                          \* what the program is doing
  front_start_address,         \* pixel_buffer->buffer_start_address
  back_buffer_start_address,   \* pixel_buffer->back_buffer_start_address
  asked_between_frames         \* history: see WellTimed

softwareVars == <<pc, front_start_address, back_buffer_start_address>>
allVars == <<dmaVars, softwareVars, asked_between_frames>>

NULL == "no address yet"

SystemInit ==
  /\ Init
  /\ pc = "init_front"
  /\ front_start_address = NULL
  /\ back_buffer_start_address = NULL
  /\ asked_between_frames = FALSE

-----------------------------------------------------------------------------
(* What the program does at an edge; write is its access to the slave port. *)

\* Not at the slave port: computing, drawing into memory, or waiting.
Elsewhere(write) ==
  /\ write = NoWrite
  /\ UNCHANGED softwareVars

\* ALTERA_UP_AVALON_VIDEO_PIXEL_BUFFER_DMA_INIT copies the two addresses out
\* of the DMA, one read each.
InitFront(write) ==
  /\ pc = "init_front"
  /\ write = NoWrite
  /\ front_start_address' = buffer_start_address
  /\ pc' = "init_back"
  /\ UNCHANGED back_buffer_start_address

InitBack(write) ==
  /\ pc = "init_back"
  /\ write = NoWrite
  /\ back_buffer_start_address' = back_buf_start_address
  /\ pc' = "clear_front"
  /\ UNCHANGED front_start_address

\* clear_screen(.., 0) and clear_screen(.., 1) end.
EndClear(write) ==
  /\ write = NoWrite
  /\ \/ pc = "clear_front" /\ pc' = "clear_back"
     \/ pc = "clear_back" /\ pc' = "draw"
  /\ UNCHANGED <<front_start_address, back_buffer_start_address>>

\* Mutant: swap_buffers forgets to exchange the driver's own addresses.
Exchange_Forgotten(write) ==
  /\ pc = "exchange"
  /\ write = NoWrite
  /\ UNCHANGED <<front_start_address, back_buffer_start_address>>
  /\ pc' = "poll"

\* swap_buffers: the request first, the driver's two addresses afterwards.
Request(write) ==
  /\ pc = "draw"
  /\ write = RequestSwap
  /\ pc' = "exchange"
  /\ UNCHANGED <<front_start_address, back_buffer_start_address>>

Exchange(write) ==
  /\ pc = "exchange"
  /\ write = NoWrite
  /\ back_buffer_start_address' = front_start_address
  /\ front_start_address' = back_buffer_start_address
  /\ pc' = "poll"

\* Mutant: the program does not wait for the request to be dropped.
Poll_Once(write) ==
  /\ pc = "poll"
  /\ write = NoWrite
  /\ pc' = "draw"
  /\ UNCHANGED <<front_start_address, back_buffer_start_address>>

\* while (check_swap_buffers_status(..));
Poll(write) ==
  /\ pc = "poll"
  /\ write = NoWrite
  /\ pc' = IF buffer_swap THEN "poll" ELSE "draw"
  /\ UNCHANGED <<front_start_address, back_buffer_start_address>>

\* change_back_buffer_address: a write, and the register read back.
ChangeBack(write) ==
  /\ pc = "draw"
  /\ \E b \in Buffers \ {front_start_address} : write = SetBackBuffer(b)
  /\ pc' = "read_back"
  /\ UNCHANGED <<front_start_address, back_buffer_start_address>>

\* Mutant: the driver does not read the register back.
ReadBack_Skipped(write) ==
  /\ pc = "read_back"
  /\ write = NoWrite
  /\ pc' = "draw"
  /\ UNCHANGED <<front_start_address, back_buffer_start_address>>

ReadBack(write) ==
  /\ pc = "read_back"
  /\ write = NoWrite
  /\ back_buffer_start_address' = back_buf_start_address
  /\ pc' = "draw"
  /\ UNCHANGED front_start_address

Program(write) ==
  \/ InitFront(write)
  \/ InitBack(write)
  \/ EndClear(write)
  \/ Request(write)
  \/ Exchange(write)
  \/ Poll(write)
  \/ ChangeBack(write)
  \/ ReadBack(write)

-----------------------------------------------------------------------------
Software(write) == Program(write) \/ Elsewhere(write)

\* A request is badly timed when the DMA is about to read the first pixel of a
\* frame once the request is in the register.
Remember(write) ==
  asked_between_frames' =
    (\/ asked_between_frames
     \/ write = RequestSwap /\ pixel_address' = 0 /\ line_address' = 0)

SystemEdge(valid, take, write) ==
  /\ Edge(valid, take, write)
  /\ Software(write)
  /\ Remember(write)

SystemNext == \E valid, take \in BOOLEAN, write \in SlaveWrites :
                SystemEdge(valid, take, write)

ProgramStep == \E valid, take \in BOOLEAN, write \in SlaveWrites :
                 SystemEdge(valid, take, write) /\ Program(write)

\* The DMA's fairness, and a processor that gets on with its program.
SystemFairness == DMAFairness /\ WF_allVars(ProgramStep)

SystemSpec == SystemInit /\ [][SystemNext]_allVars

FairSystemSpec == SystemSpec /\ SystemFairness

-----------------------------------------------------------------------------
(* Properties. *)

\* The hardware registers, the driver's copies of them and the program's
\* place in its frame keep their types.
SystemTypeOK ==
  /\ TypeOK
  /\ pc \in {"init_front", "init_back", "clear_front", "clear_back", "draw",
             "exchange", "poll", "read_back"}
  /\ front_start_address \in Buffers \cup {NULL}
  /\ back_buffer_start_address \in Buffers \cup {NULL}
  /\ asked_between_frames \in BOOLEAN

WellTimed == ~asked_between_frames

\* The driver never asks the DMA which buffer is which after start-up, and yet
\* its two addresses are the DMA's whenever no request is outstanding, and the
\* DMA's exchanged while one is, if every request was well timed.
DriverMirrorsHardware ==
  LET same == /\ front_start_address = buffer_start_address
              /\ back_buffer_start_address = back_buf_start_address
      exchanged == /\ front_start_address = back_buf_start_address
                   /\ back_buffer_start_address = buffer_start_address
  IN  WellTimed =>
        /\ pc \in {"clear_front", "clear_back", "draw"} => same
        /\ pc = "exchange" => IF buffer_swap /\ ~AtOrigin THEN same
                                                          ELSE exchanged
        /\ pc = "poll" => IF buffer_swap /\ ~AtOrigin THEN exchanged ELSE same

\* While the program draws, the DMA fetches from another buffer, so nobody
\* sees a picture that is being drawn, if every request was well timed.
DrawsOffScreen ==
  WellTimed /\ pc \in {"clear_back", "draw"} =>
    back_buffer_start_address # buffer_start_address

\* What the driver's header says of check_swap_buffers_status: it returns 0
\* only when the swap is complete, so the program that has stopped polling
\* finds on the screen the buffer it drew.
ZeroMeansComplete ==
  pc = "draw" => front_start_address = buffer_start_address

\* The polling loop ends: the DMA reaches the end of a frame and drops the
\* request, as long as memory answers and the display takes pixels.
PollingEnds == pc = "poll" ~> pc = "draw"
=============================================================================
