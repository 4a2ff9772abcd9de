--------------------------- MODULE DualClockBuffer ---------------------------
(***************************************************************************)
(* The dual clock buffer (sopc_video_dual_clock_buffer_0.v): a dcfifo      *)
(* written in the system's clock and read in the pixel clock.  Neither     *)
(* side sees at once what the other has done: a word read goes on being    *)
(* counted by the write side for a while (freed), a word written becomes   *)
(* visible to the read side after a while (all but the first "arrived"     *)
(* words are on their way), and wrusedw is late even for the write side's  *)
(* own words (uncounted remembers the last WrLatency edges).  The fifo     *)
(* checks no overflow.                                                     *)
(*                                                                         *)
(* One step is one rising edge of one of the two clocks.                   *)
(***************************************************************************)
EXTENDS Integers, Sequences, FiniteSets

CONSTANTS
  PIXELS, LINES,    \* size of the frames that pass through (800 and 600)
  Buffers,
  Numwords,         \* lpm_numwords (128)
  Threshold,        \* wrusedw at which the buffer stops accepting (7'b1110000)
  WrLatency         \* edges after which wrusedw counts a word written

ASSUME BufferAssumption ==
  /\ PIXELS \in Nat \ {0} /\ LINES \in Nat \ {0}
  /\ Numwords \in Nat /\ Threshold \in Nat \ {0} /\ WrLatency \in Nat
  /\ Threshold + WrLatency < Numwords

VARIABLES
  source,       \* the beat that came in last
  Data_FIFO,    \* the words in the fifo, oldest first
  arrived,      \* how many of them the read side sees
  freed,        \* words read that the write side still counts
  uncounted     \* which of the last WrLatency write edges wrote a word

bufferVars == <<source, Data_FIFO, arrived, freed, uncounted>>

Source == INSTANCE FrameStream WITH beat <- source

NoBeat == Source!Nothing

Beats == {Source!Beat(b, l, p) : b \in Buffers, l \in 0..LINES-1,
                                 p \in 0..PIXELS-1}

-----------------------------------------------------------------------------
\* The words of the write side that wrusedw is yet to count.
late == Cardinality({i \in 1..WrLatency : uncounted[i]})

\* wrusedw has no room for Numwords itself.
fifo_wr_used == (Len(Data_FIFO) + freed - late) % Numwords

\* Mutant: the buffer accepts words until wrusedw has all its bits set.
stream_in_ready_ToTheTop == fifo_wr_used < Numwords - 1

stream_in_ready == fifo_wr_used < Threshold

stream_out_valid == arrived > 0

BufferInit ==
  /\ Source!Init
  /\ Data_FIFO = <<>>
  /\ arrived = 0
  /\ freed = 0
  /\ uncounted = [i \in 1..WrLatency |-> FALSE]

\* An edge of clk_stream_in: give hands a word over, and the write side learns
\* of some of the reads.
WriteEdge(give) ==
  /\ give => stream_in_ready
  /\ IF give
     THEN /\ Source!Next
          /\ Data_FIFO' = Append(Data_FIFO, source')
     ELSE UNCHANGED <<source, Data_FIFO>>
  /\ freed' \in 0..freed
  /\ uncounted' = Tail(Append(uncounted, give))
  /\ UNCHANGED arrived

\* An edge of clk_stream_out: take takes the oldest word, and some more words
\* become visible.
ReadEdge(take) ==
  /\ take => stream_out_valid
  /\ Data_FIFO' = IF take THEN Tail(Data_FIFO) ELSE Data_FIFO
  /\ freed' = IF take THEN freed + 1 ELSE freed
  /\ LET left == IF take THEN arrived - 1 ELSE arrived
     IN  arrived' \in left..Len(Data_FIFO')
  /\ UNCHANGED <<source, uncounted>>

-----------------------------------------------------------------------------
(* Properties. *)

\* The stream at the input, the queue and its delayed word counts keep their
\* types.
BufferTypeOK ==
  /\ source \in Beats \cup {NoBeat}
  /\ Data_FIFO \in Seq(Beats)
  /\ arrived \in 0..Len(Data_FIFO)
  /\ freed \in Nat
  /\ uncounted \in Seq(BOOLEAN) /\ Len(uncounted) = WrLatency

\* No word is written over: the words that are still let in when the threshold
\* is passed fit, however late either side learns of the other, and wrusedw
\* does not wrap to zero, which would open the buffer again.
NeverOverflows == Len(Data_FIFO) + freed < Numwords
=============================================================================
