----------------------------- MODULE HDMI_proofs -----------------------------
(***************************************************************************)
(* Theorems about the end of the pipeline: the dual clock buffer and the   *)
(* generator that reads it, for frames, blanking, buffers and clock        *)
(* crossings of every size; the HDMI transmitter's timing beside the       *)
(* generator's, whatever its counters power up with; the serializer of a   *)
(* TMDS channel, for every phase of the pixel clock and every pattern of   *)
(* interruptions; and its encoder, for every sequence of bytes.            *)
(***************************************************************************)
EXTENDS HDMITiming, TMDSEncoder, TMDSSerializer, SequenceTheorems, FiniteSetTheorems, TLAPS

\* What the proofs use of the constants.
LEMMA Sizes ==
  /\ PIXELS \in Nat \ {0} /\ LINES \in Nat \ {0}
  /\ Numwords \in Nat /\ Threshold \in Nat \ {0} /\ WrLatency \in Nat
  /\ Threshold + WrLatency < Numwords
  /\ H_BLANK_PIXELS \in Nat /\ V_BLANK_LINES \in Nat
  /\ TOTAL_HSCAN_PIXELS \in Nat \ {0} /\ TOTAL_VSCAN_LINES \in Nat \ {0}
<1>1. /\ PIXELS \in Nat \ {0} /\ LINES \in Nat \ {0}
      /\ Numwords \in Nat /\ Threshold \in Nat \ {0} /\ WrLatency \in Nat
      /\ Threshold + WrLatency < Numwords
  BY BufferAssumption DEF BufferAssumption
<1> QED
  BY <1>1, SyncAssumption DEF SyncAssumption, NUM_COLUMNS, NUM_ROWS

-----------------------------------------------------------------------------
(* Types. *)

\* A beat is the one its place and its buffer say.
LEMMA BeatAt ==
  ASSUME NEW b \in Buffers, NEW l \in 0..LINES-1, NEW p \in 0..PIXELS-1
  PROVE  /\ Source!Beat(b, l, p) \in Beats
         /\ Source!Beat(b, l, p).data.buffer = b
         /\ Source!Beat(b, l, p).data.line = l
         /\ Source!Beat(b, l, p).data.pixel = p
BY DEF Beats, Source!Beat

\* What a beat in the fifo is made of.
LEMMA BeatFields ==
  ASSUME NEW b \in Beats
  PROVE  /\ b # NoBeat
         /\ b.data = [buffer |-> b.data.buffer, line |-> b.data.line,
                      pixel |-> b.data.pixel]
         /\ b.data.buffer \in Buffers
         /\ b.data.line \in 0..LINES-1 /\ b.data.pixel \in 0..PIXELS-1
         /\ b.startofpacket \in BOOLEAN /\ b.endofpacket \in BOOLEAN
         /\ b.startofpacket = (b.data.line = 0 /\ b.data.pixel = 0)
         /\ b.endofpacket = (b.data.line = LINES-1 /\ b.data.pixel = PIXELS-1)
<1>1. PICK a \in Buffers, l \in 0..LINES-1, p \in 0..PIXELS-1 :
        b = Source!Beat(a, l, p)
  BY DEF Beats
<1>2. b = [data          |-> [buffer |-> a, line |-> l, pixel |-> p],
           startofpacket |-> l = 0 /\ p = 0,
           endofpacket   |-> l = LINES-1 /\ p = PIXELS-1]
  BY <1>1 DEF Source!Beat
<1>3. b # NoBeat
  BY <1>2 DEF NoBeat, Source!Nothing
<1> QED
  BY <1>2, <1>3

\* The beat after a, when frames follow frames.
CanFollow(b, a) ==
  IF a = NoBeat \/ (a # NoBeat /\ a.endofpacket)
  THEN b.data.line = 0 /\ b.data.pixel = 0
  ELSE /\ b.data.buffer = a.data.buffer
       /\ b.data.line = IF a.data.pixel = PIXELS - 1 THEN a.data.line + 1
                                                    ELSE a.data.line
       /\ b.data.pixel = IF a.data.pixel = PIXELS - 1 THEN 0
                                                     ELSE a.data.pixel + 1

\* A source of frames puts out beats, each the one after the last.
LEMMA SourceStep ==
  ASSUME source \in Beats \cup {NoBeat}, Source!Next
  PROVE  source' \in Beats /\ CanFollow(source', source)
<1>1. CASE Source!StartFrame
  <2>1. PICK b \in Buffers : source' = Source!Beat(b, 0, 0)
    BY <1>1 DEF Source!StartFrame
  <2>2. source' \in Beats /\ source'.data.line = 0 /\ source'.data.pixel = 0
    <3>1. 0 \in 0..LINES-1 /\ 0 \in 0..PIXELS-1
      BY Sizes
    <3> QED
      BY <2>1, <3>1, BeatAt
  <2> QED
    BY <1>1, <2>2 DEF CanFollow, Source!StartFrame, NoBeat
<1>2. CASE Source!NextPixel \/ Source!NextLine
  <2> DEFINE b == source.data.buffer
             l == source.data.line
             p == source.data.pixel
  <2>1. source \in Beats
    BY <1>2 DEF NoBeat, Source!NextPixel, Source!NextLine
  <2>2. /\ source # NoBeat /\ b \in Buffers /\ l \in 0..LINES-1
        /\ p \in 0..PIXELS-1
        /\ source.endofpacket = (l = LINES-1 /\ p = PIXELS-1)
    BY <2>1, BeatFields
  <2>3. CASE Source!NextPixel
    <3>1. p + 1 \in 0..PIXELS-1 /\ source' = Source!Beat(b, l, p + 1)
      BY <2>2, <2>3, Sizes DEF Source!NextPixel
    <3>2. p # PIXELS-1 /\ ~source.endofpacket
      <4>1. p # PIXELS-1
        BY <2>2, <2>3, Sizes DEF Source!NextPixel
      <4> QED
        BY <2>2, <4>1
    <3>3. /\ source' \in Beats /\ source'.data.buffer = b
          /\ source'.data.line = l /\ source'.data.pixel = p + 1
      BY <2>2, <3>1, BeatAt
    <3> QED
      BY <2>2, <3>1, <3>2, <3>3 DEF CanFollow
  <2>4. CASE Source!NextLine
    <3>1. /\ l + 1 \in 0..LINES-1 /\ 0 \in 0..PIXELS-1 /\ p = PIXELS-1
          /\ source' = Source!Beat(b, l + 1, 0)
      BY <2>2, <2>4, Sizes DEF Source!NextLine
    <3>2. ~source.endofpacket
      <4>1. l # LINES-1
        BY <2>2, <2>4, Sizes DEF Source!NextLine
      <4> QED
        BY <2>2, <4>1
    <3>3. /\ source' \in Beats /\ source'.data.buffer = b
          /\ source'.data.line = l + 1 /\ source'.data.pixel = 0
      BY <2>2, <3>1, BeatAt
    <3> QED
      BY <2>2, <3>1, <3>2, <3>3 DEF CanFollow
  <2> QED
    BY <1>2, <2>3, <2>4
<1> QED
  BY <1>1, <1>2 DEF Source!Next

\* A word the read side sees is in the fifo.
LEMMA HeadType ==
  ASSUME BufferTypeOK, stream_out_valid
  PROVE  /\ Data_FIFO # <<>> /\ Len(Data_FIFO) \in Nat \ {0}
         /\ Head(Data_FIFO) \in Beats
<1>1. Data_FIFO \in Seq(Beats) /\ Len(Data_FIFO) \in Nat
      /\ Len(Data_FIFO) # 0
  BY LenProperties DEF BufferTypeOK, stream_out_valid
<1>2. Data_FIFO # <<>>
  BY <1>1, EmptySeq
<1> QED
  BY <1>1, <1>2, HeadTailProperties

\* An edge at the write side keeps the types, and adds the word it is given.
LEMMA WriteEdgeType ==
  ASSUME BufferTypeOK, NEW give \in BOOLEAN, WriteEdge(give)
  PROVE  /\ BufferTypeOK'
         /\ Len(Data_FIFO') = Len(Data_FIFO) + IF give THEN 1 ELSE 0
<1>1. source' \in Beats \cup {NoBeat} /\ (give => source' \in Beats)
  BY SourceStep DEF WriteEdge, BufferTypeOK
<1>2. /\ Data_FIFO' \in Seq(Beats)
      /\ Len(Data_FIFO') = Len(Data_FIFO) + IF give THEN 1 ELSE 0
  <2>1. CASE give
    <3>1. source' \in Beats /\ Data_FIFO' = Append(Data_FIFO, source')
      BY <1>1, <2>1 DEF WriteEdge
    <3> QED
      BY <2>1, <3>1, AppendProperties DEF BufferTypeOK
  <2>2. CASE ~give
    BY <2>2, LenProperties DEF WriteEdge, BufferTypeOK
  <2> QED
    BY <2>1, <2>2
<1>3. arrived' \in 0..Len(Data_FIFO') /\ freed' \in Nat
  BY <1>2, LenProperties DEF WriteEdge, BufferTypeOK
<1>4. uncounted' \in Seq(BOOLEAN) /\ Len(uncounted') = WrLatency
  <2>1. /\ Append(uncounted, give) \in Seq(BOOLEAN)
        /\ Append(uncounted, give) # <<>>
        /\ Len(Append(uncounted, give)) = WrLatency + 1
    BY AppendProperties DEF BufferTypeOK
  <2> QED
    BY <2>1, Sizes, HeadTailProperties DEF WriteEdge
<1> QED
  BY <1>1, <1>2, <1>3, <1>4 DEF BufferTypeOK

\* An edge at the read side keeps them too: a word that is taken is counted
\* among the freed ones.
LEMMA ReadEdgeType ==
  ASSUME BufferTypeOK, NEW take \in BOOLEAN, ReadEdge(take)
  PROVE  /\ BufferTypeOK'
         /\ Len(Data_FIFO') + freed' = Len(Data_FIFO) + freed
<1>1. CASE take
  <2>1. /\ Data_FIFO # <<>> /\ Len(Data_FIFO) \in Nat \ {0}
        /\ arrived \in 1..Len(Data_FIFO)
    BY <1>1, HeadType DEF ReadEdge, stream_out_valid, BufferTypeOK
  <2>2. /\ Data_FIFO' \in Seq(Beats)
        /\ Len(Data_FIFO') = Len(Data_FIFO) - 1
    BY <1>1, <2>1, HeadTailProperties DEF ReadEdge, BufferTypeOK
  <2>3. arrived' \in 0..Len(Data_FIFO')
    BY <1>1, <2>1, <2>2 DEF ReadEdge
  <2> QED
    BY <1>1, <2>1, <2>2, <2>3 DEF ReadEdge, BufferTypeOK
<1>2. CASE ~take
  <2>1. Len(Data_FIFO) \in Nat
    BY LenProperties DEF BufferTypeOK
  <2> QED
    BY <1>2, <2>1 DEF ReadEdge, BufferTypeOK
<1> QED
  BY <1>1, <1>2

\* Nothing is in the buffer at first.
LEMMA BufferInitType ==
  ASSUME BufferInit
  PROVE  BufferTypeOK /\ Len(Data_FIFO) = 0 /\ freed = 0
<1>1. Data_FIFO \in Seq(Beats) /\ Len(Data_FIFO) = 0
  BY EmptySeq DEF BufferInit
<1>2. uncounted \in Seq(BOOLEAN) /\ Len(uncounted) = WrLatency
  <2>1. uncounted \in [1..WrLatency -> BOOLEAN]
    BY DEF BufferInit
  <2> QED
    BY <2>1, Sizes, LenProperties, SeqDef
<1>3. source \in Beats \cup {NoBeat}
  BY DEF BufferInit, Source!Init, NoBeat
<1>4. arrived \in 0..Len(Data_FIFO) /\ freed \in Nat /\ freed = 0
  BY <1>1 DEF BufferInit
<1> QED
  BY <1>1, <1>2, <1>3, <1>4 DEF BufferTypeOK

\* The generator's counters stay in a frame and its registers in their types.
LEMMA PixelEdgeType ==
  ASSUME TypeOK, PixelEdge
  PROVE  TypeOK'
<1>1. taken \in BOOLEAN /\ (stream_out_valid => Head(Data_FIFO) \in Beats)
  BY HeadType DEF TypeOK, taken, stream_out_valid
<1>2. BufferTypeOK'
  BY <1>1, ReadEdgeType DEF TypeOK, PixelEdge
<1>3. /\ column_counter' \in 0..TOTAL_HSCAN_PIXELS-1
      /\ row_counter' \in 0..TOTAL_VSCAN_LINES-1
  BY Sizes DEF TypeOK, PixelEdge, Counters
<1>4. /\ RGB_OUT' \in {b.data : b \in Beats} \cup {Stale}
      /\ DEN' \in BOOLEAN /\ HD' \in {0, 1} /\ VD' \in {0, 1}
  BY <1>1 DEF PixelEdge, Outputs, pDEN, h_active, v_active
<1>5. /\ frame' \in Buffers \cup {NoFrame}
      /\ ended' \in BOOLEAN
  BY <1>1, BeatFields DEF TypeOK, PixelEdge, Remember, taken
<1>6. starts' \in 0..Settled
  BY DEF TypeOK, PixelEdge, Remember, Settled
<1> QED
  BY <1>2, <1>3, <1>4, <1>5, <1>6 DEF TypeOK

\* Whichever clock's edge comes, and whenever a reset does, every register
\* keeps its type.
THEOREM TypeCorrect == DisplaySpec => []TypeOK
<1>1. Init => TypeOK
  <2> SUFFICES ASSUME Init PROVE TypeOK
    OBVIOUS
  <2>1. BufferTypeOK
    BY BufferInitType DEF Init
  <2>2. /\ column_counter \in 0..TOTAL_HSCAN_PIXELS-1
        /\ row_counter \in 0..TOTAL_VSCAN_LINES-1
    BY Sizes DEF Init
  <2>3. /\ RGB_OUT \in {b.data : b \in Beats} \cup {Stale}
        /\ DEN \in BOOLEAN /\ HD \in {0, 1} /\ VD \in {0, 1}
    BY DEF Init
  <2>4. /\ frame \in Buffers \cup {NoFrame} /\ ended \in BOOLEAN
        /\ starts \in 0..Settled
    BY DEF Init, Settled
  <2> QED
    BY <2>1, <2>2, <2>3, <2>4 DEF TypeOK
<1>2. TypeOK /\ [DisplayNext]_displayVars => TypeOK'
  <2> SUFFICES ASSUME TypeOK, [DisplayNext]_displayVars PROVE TypeOK'
    OBVIOUS
  <2>1. CASE PixelEdge
    BY <2>1, PixelEdgeType
  <2>2. CASE SystemEdge
    BY <2>2, WriteEdgeType
       DEF SystemEdge, TypeOK, syncVars, historyVars
  <2>3. CASE ResetPipeline
    BY <2>3 DEF ResetPipeline, TypeOK, BufferTypeOK, syncVars, historyVars
  <2>4. CASE ResetGenerator
    <3>1. BufferTypeOK'
      BY <2>4 DEF ResetGenerator, TypeOK, BufferTypeOK, bufferVars
    <3>2. /\ column_counter' \in 0..TOTAL_HSCAN_PIXELS-1
          /\ row_counter' \in 0..TOTAL_VSCAN_LINES-1
      BY <2>4, Sizes DEF ResetGenerator
    <3>3. /\ RGB_OUT' \in {b.data : b \in Beats} \cup {Stale}
          /\ DEN' \in BOOLEAN /\ HD' \in {0, 1} /\ VD' \in {0, 1}
      BY <2>4 DEF ResetGenerator
    <3>4. /\ frame' \in Buffers \cup {NoFrame} /\ ended' \in BOOLEAN
          /\ starts' \in 0..Settled
      BY <2>4 DEF ResetGenerator, TypeOK, Settled
    <3> QED
      BY <3>1, <3>2, <3>3, <3>4 DEF TypeOK
  <2>5. CASE UNCHANGED displayVars
    BY <2>5 DEF displayVars, TypeOK, BufferTypeOK, bufferVars, syncVars,
                historyVars
  <2> QED
    BY <2>1, <2>2, <2>3, <2>4, <2>5 DEF DisplayNext, ClockEdge
<1> QED
  BY <1>1, <1>2, PTL DEF DisplaySpec

-----------------------------------------------------------------------------
(* The buffer. *)

\* What the write side counts, or has still to count, fits under the threshold
\* with the words it may let in before it counts them.  This is NeverOverflows
\* made inductive: a word is refused from there on, though the words counted
\* late make wrusedw fall behind.
Occupied == Len(Data_FIFO) + freed <= Threshold + WrLatency

\* At most the writes of the last WrLatency edges are uncounted.
LEMMA UncountedBounded == late \in Nat /\ late <= WrLatency
<1> DEFINE L == {i \in 1..WrLatency : uncounted[i]}
<1>1. IsFiniteSet(1..WrLatency) /\ Cardinality(1..WrLatency) = WrLatency
  <2>1. WrLatency \in Nat
    BY Sizes
  <2>2. /\ IsFiniteSet(1..WrLatency)
        /\ Cardinality(1..WrLatency)
             = IF 1 > WrLatency THEN 0 ELSE WrLatency - 1 + 1
    BY <2>1, FS_Interval
  <2> QED
    BY <2>1, <2>2
<1>2. L \in SUBSET (1..WrLatency)
  OBVIOUS
<1>3. IsFiniteSet(L) /\ Cardinality(L) <= WrLatency
  BY <1>1, <1>2, FS_Subset
<1>4. Cardinality(L) \in Nat
  BY <1>3, FS_CardinalityType
<1> QED
  BY <1>3, <1>4 DEF late

\* The write side accepts a word only below the threshold, the uncounted ones
\* left aside: wrusedw does not wrap.
LEMMA ReadyMeansRoom ==
  ASSUME BufferTypeOK, Occupied, stream_in_ready
  PROVE  Len(Data_FIFO) + freed < Threshold + WrLatency
<1> DEFINE n == Len(Data_FIFO) + freed
<1>1. n \in Nat /\ n <= Threshold + WrLatency
  BY LenProperties DEF BufferTypeOK, Occupied
<1>2. late \in Nat /\ late <= WrLatency
  BY UncountedBounded
<1>3. (n - late) % Numwords < Threshold
  BY <1>1, <1>2, Sizes, LenProperties
     DEF stream_in_ready, fifo_wr_used, BufferTypeOK
<1> HIDE DEF n
<1>4. n - late < Threshold
  <2>1. CASE n - late < 0
    BY <2>1, <1>2, <1>1, Sizes
  <2>2. CASE n - late >= 0
    <3>1. (n - late) % Numwords = n - late
      BY <2>2, <1>1, <1>2, Sizes
    <3> QED
      BY <3>1, <1>3
  <2> QED
    BY <2>1, <2>2, <1>1, <1>2
<1>5. n < Threshold + WrLatency
  BY <1>1, <1>2, <1>4, Sizes
<1> QED
  BY <1>5 DEF n

\* However the edges of the two clocks fall and however late either side
\* learns of the other, no word in the buffer is written over, resets of
\* either side included.
THEOREM BufferNeverOverflows == DisplaySpec => []NeverOverflows
<1>1. Init => Occupied
  BY BufferInitType, Sizes DEF Init, Occupied
<1>2. TypeOK /\ Occupied /\ [DisplayNext]_displayVars => Occupied'
  <2> SUFFICES ASSUME TypeOK, Occupied, [DisplayNext]_displayVars
               PROVE  Occupied'
    OBVIOUS
  <2>1. BufferTypeOK /\ Len(Data_FIFO) \in Nat /\ freed \in Nat
    BY LenProperties DEF TypeOK, BufferTypeOK
  <2>2. CASE PixelEdge
    <3>1. taken \in BOOLEAN
      BY DEF taken, stream_out_valid
    <3> QED
      BY <3>1, <2>1, <2>2, ReadEdgeType DEF PixelEdge, Occupied
  <2>3. CASE SystemEdge
    <3>1. PICK give \in BOOLEAN : WriteEdge(give)
      BY <2>3 DEF SystemEdge
    <3>2. freed' \in 0..freed /\ (give => stream_in_ready)
      BY <3>1 DEF WriteEdge
    <3>3. Len(Data_FIFO') = Len(Data_FIFO) + IF give THEN 1 ELSE 0
      BY <2>1, <3>1, WriteEdgeType
    <3>4. CASE give
      BY <3>2, <3>3, <3>4, <2>1, ReadyMeansRoom, Sizes DEF Occupied
    <3>5. CASE ~give
      BY <3>2, <3>3, <3>5, <2>1, Sizes DEF Occupied
    <3> QED
      BY <3>4, <3>5
  <2>4. CASE ResetPipeline \/ ResetGenerator \/ UNCHANGED displayVars
    BY <2>4 DEF ResetPipeline, ResetGenerator, displayVars, bufferVars,
                Occupied
  <2> QED
    BY <2>2, <2>3, <2>4 DEF DisplayNext, ClockEdge
<1>3. TypeOK /\ Occupied => NeverOverflows
  BY Sizes, LenProperties DEF TypeOK, BufferTypeOK, Occupied, NeverOverflows
<1> QED
  BY <1>1, <1>2, <1>3, TypeCorrect, PTL DEF DisplaySpec
-----------------------------------------------------------------------------
(* Recovery.  The words in the fifo are in order but where a reset has cut *)
(* a frame short, and the next one is compared with the position that is   *)
(* displayed next.                                                         *)

Starts(b) == b.data.line = 0 /\ b.data.pixel = 0

InOrder ==
  /\ \A i \in 1..Len(Data_FIFO)-1 :
       Starts(Data_FIFO[i+1]) \/ CanFollow(Data_FIFO[i+1], Data_FIFO[i])
  /\ Data_FIFO # <<>> /\ source # NoBeat => source = Data_FIFO[Len(Data_FIFO)]

\* A beat that may be the next one the generator finds.
Upcoming(b) ==
  IF Data_FIFO = <<>> THEN CanFollow(b, source) ELSE b = Data_FIFO[1]

\* Nothing of the frame is left to display: the next position is the first.
Complete ==
  \/ row_counter < V_BLANK_LINES
  \/ row_counter = V_BLANK_LINES /\ column_counter <= H_BLANK_PIXELS
  \/ row_counter >= V_BLANK_LINES + LINES

\* The line and the pixel displayed next, counted on past the last line.
DueLine ==
  IF Complete THEN LINES
  ELSE IF column_counter < H_BLANK_PIXELS + PIXELS
  THEN row_counter - V_BLANK_LINES
  ELSE row_counter - V_BLANK_LINES + 1

DuePixel ==
  IF Complete \/ column_counter < H_BLANK_PIXELS
              \/ column_counter >= H_BLANK_PIXELS + PIXELS
  THEN 0 ELSE column_counter - H_BLANK_PIXELS

NotBehind(b) ==
  \/ b.data.line > DueLine
  \/ b.data.line = DueLine /\ b.data.pixel >= DuePixel

Exactly(b) ==
  b.data.line = DueLine /\ b.data.pixel = DuePixel /\ b.data.buffer = frame

\* A frame that was begun out of place ends before the scan does, so that the
\* start of the next is waiting when its place comes; in a frame begun in its
\* place every word is the one that is due.
Expected(b) ==
  /\ ended => Starts(b)
  /\ starts > 0 => Starts(b) \/ NotBehind(b)
  /\ starts = Settled => Starts(b) \/ Exactly(b)

RecoveryInv ==
  /\ InOrder
  /\ \A b \in Beats : Upcoming(b) => Expected(b)
  /\ starts = Settled /\ DueLine < LINES => ~ended
  /\ Recovers

AtLine == row_counter - V_BLANK_LINES
AtPixel == column_counter - H_BLANK_PIXELS

\* The position displayed next moves on when one is displayed.
LEMMA DueStep ==
  ASSUME TypeOK, Counters
  PROVE  /\ DueLine \in Int /\ DuePixel \in Int
         /\ first_pixel => pDEN /\ AtLine = 0 /\ AtPixel = 0 /\ DueLine = LINES
         /\ ~pDEN => DueLine' = DueLine /\ DuePixel' = DuePixel
         /\ pDEN => /\ AtLine \in 0..LINES-1 /\ AtPixel \in 0..PIXELS-1
                    /\ DueLine' = IF AtPixel = PIXELS-1 THEN AtLine + 1 ELSE AtLine
                    /\ DuePixel' = IF AtPixel = PIXELS-1 THEN 0 ELSE AtPixel + 1
         /\ pDEN /\ ~first_pixel => DueLine = AtLine /\ DuePixel = AtPixel
<1> DEFINE c == column_counter
           r == row_counter
           h == H_BLANK_PIXELS
           v == V_BLANK_LINES
           th == TOTAL_HSCAN_PIXELS
           tv == TOTAL_VSCAN_LINES
<1>1. /\ PIXELS \in Nat \ {0} /\ LINES \in Nat \ {0} /\ h \in Nat /\ v \in Nat
      /\ th \in Nat \ {0} /\ tv \in Nat \ {0}
      /\ h + PIXELS <= th /\ v + LINES <= tv
  BY Sizes, SyncAssumption DEF SyncAssumption, NUM_COLUMNS, NUM_ROWS
<1>2. c \in 0..th-1 /\ r \in 0..tv-1
  BY DEF TypeOK
<1>3. c' = IF c = th-1 THEN 0 ELSE c + 1
  BY <1>1, <1>2 DEF Counters
<1>4. r' = IF c # th-1 THEN r ELSE IF r = tv-1 THEN 0 ELSE r + 1
  BY <1>1, <1>2 DEF Counters
<1>5. /\ pDEN <=> c >= h /\ c < h + PIXELS /\ r >= v /\ r < v + LINES
      /\ first_pixel <=> c = h /\ r = v
  BY <1>1, <1>2 DEF pDEN, h_active, v_active, NUM_COLUMNS, NUM_ROWS, first_pixel
<1>6. /\ Complete <=> r < v \/ (r = v /\ c <= h) \/ r >= v + LINES
      /\ Complete' <=> r' < v \/ (r' = v /\ c' <= h) \/ r' >= v + LINES
  BY DEF Complete
<1>7. /\ DueLine = IF Complete THEN LINES
                   ELSE IF c < h + PIXELS THEN r - v ELSE r - v + 1
      /\ DuePixel = IF Complete \/ c < h \/ c >= h + PIXELS THEN 0 ELSE c - h
      /\ DueLine' = IF Complete' THEN LINES
                    ELSE IF c' < h + PIXELS THEN r' - v ELSE r' - v + 1
      /\ DuePixel' = IF Complete' \/ c' < h \/ c' >= h + PIXELS THEN 0 ELSE c' - h
  BY DEF DueLine, DuePixel
<1>8. AtLine = r - v /\ AtPixel = c - h
  BY DEF AtLine, AtPixel
<1> HIDE DEF c, r, h, v, th, tv
<1>9. DueLine \in Int /\ DuePixel \in Int
  BY <1>1, <1>2, <1>7
<1>10. first_pixel => pDEN /\ AtLine = 0 /\ AtPixel = 0 /\ DueLine = LINES
  BY <1>1, <1>2, <1>5, <1>6, <1>7, <1>8
<1>11. pDEN => AtLine \in 0..LINES-1 /\ AtPixel \in 0..PIXELS-1
  BY <1>1, <1>2, <1>5, <1>8
<1>12. pDEN /\ ~first_pixel => DueLine = AtLine /\ DuePixel = AtPixel
  BY <1>1, <1>2, <1>5, <1>6, <1>7, <1>8
<1>13. ~pDEN => DueLine' = DueLine /\ DuePixel' = DuePixel
  <2>1. CASE c = th-1
    BY <1>1, <1>2, <1>3, <1>4, <1>5, <1>6, <1>7, <2>1
  <2>2. CASE c # th-1
    BY <1>1, <1>2, <1>3, <1>4, <1>5, <1>6, <1>7, <2>2
  <2> QED
    BY <2>1, <2>2
<1>14. pDEN => /\ DueLine' = IF AtPixel = PIXELS-1 THEN AtLine + 1 ELSE AtLine
               /\ DuePixel' = IF AtPixel = PIXELS-1 THEN 0 ELSE AtPixel + 1
  <2>1. CASE c = th-1
    BY <1>1, <1>2, <1>3, <1>4, <1>5, <1>6, <1>7, <1>8, <2>1
  <2>2. CASE c # th-1
    BY <1>1, <1>2, <1>3, <1>4, <1>5, <1>6, <1>7, <1>8, <2>2
  <2> QED
    BY <2>1, <2>2
<1> QED
  BY <1>9, <1>10, <1>11, <1>12, <1>13, <1>14

\* At the read side the beat after the one taken is next.
LEMMA ReadKeepsOrder ==
  ASSUME BufferTypeOK, InOrder, NEW take \in BOOLEAN, ReadEdge(take)
  PROVE  /\ InOrder'
         /\ \A b \in Beats : Upcoming(b)' =>
              IF take THEN Starts(b) \/ CanFollow(b, Data_FIFO[1])
              ELSE Upcoming(b)
<1> DEFINE q == Data_FIFO
<1>1. q \in Seq(Beats) /\ source' = source
  BY DEF BufferTypeOK, ReadEdge
<1>2. CASE take
  <2>1. q # <<>> /\ Len(q) \in Nat \ {0} /\ q' = Tail(q)
    BY <1>2, HeadType DEF ReadEdge
  <2>2. /\ q' \in Seq(Beats) /\ Len(q') = Len(q) - 1
        /\ \A i \in 1..Len(q)-1 : q'[i] = q[i+1]
    BY <1>1, <2>1, HeadTailProperties
  <2>3. q' = <<>> <=> Len(q) = 1
    <3>1. q' = <<>> <=> Len(q') = 0
      BY <2>2, EmptySeq
    <3> HIDE DEF q
    <3> QED
      BY <2>1, <2>2, <3>1
  <2>4. ASSUME NEW i \in 1..Len(q')-1
        PROVE  Starts(q'[i+1]) \/ CanFollow(q'[i+1], q'[i])
    <3>1. q'[i] = q[i+1] /\ q'[i+1] = q[(i+1)+1] /\ i+1 \in 1..Len(q)-1
      BY <2>1, <2>2
    <3> QED
      BY <3>1 DEF InOrder
  <2>5. q' # <<>> /\ source' # NoBeat => source' = q'[Len(q')]
    <3>1. q' # <<>> => q'[Len(q')] = q[Len(q)]
      BY <2>1, <2>2, <2>3
    <3> QED
      BY <1>1, <2>1, <3>1 DEF InOrder
  <2>6. ASSUME NEW b \in Beats, Upcoming(b)'
        PROVE  Starts(b) \/ CanFollow(b, q[1])
    <3>1. CASE Len(q) = 1
      <4>1. CanFollow(b, source)
        BY <1>1, <2>3, <2>6, <3>1 DEF Upcoming
      <4>2. CASE source = NoBeat
        BY <4>1, <4>2 DEF CanFollow, Starts
      <4>3. CASE source # NoBeat
        BY <2>1, <3>1, <4>1, <4>3 DEF InOrder
      <4> QED
        BY <4>2, <4>3
    <3>2. CASE Len(q) # 1
      <4>1. b = q'[1] /\ 1 \in 1..Len(q)-1
        BY <2>1, <2>3, <2>6, <3>2 DEF Upcoming
      <4>2. b = q[1+1]
        BY <2>2, <4>1
      <4> QED
        BY <4>1, <4>2 DEF InOrder
    <3> QED
      BY <3>1, <3>2
  <2> QED
    BY <1>2, <2>4, <2>5, <2>6 DEF InOrder
<1>3. CASE ~take
  <2>1. q' = q
    BY <1>3 DEF ReadEdge
  <2> QED
    BY <1>1, <1>3, <2>1 DEF InOrder, Upcoming
<1> QED
  BY <1>2, <1>3

\* At the write side words come in order, and what is next stays next.
LEMMA WriteKeepsOrder ==
  ASSUME BufferTypeOK, InOrder, NEW give \in BOOLEAN, WriteEdge(give)
  PROVE  InOrder' /\ \A b \in Beats : Upcoming(b)' => Upcoming(b)
<1> DEFINE q == Data_FIFO
<1>1. q \in Seq(Beats) /\ Len(q) \in Nat /\ (q = <<>> <=> Len(q) = 0)
  BY LenProperties, EmptySeq DEF BufferTypeOK
<1>2. CASE give
  <2>1. source' \in Beats /\ CanFollow(source', source) /\ q' = Append(q, source')
    BY <1>2, SourceStep DEF WriteEdge, BufferTypeOK
  <2>2. /\ q' \in Seq(Beats) /\ Len(q') = Len(q) + 1 /\ q'[Len(q) + 1] = source'
        /\ \A i \in 1..Len(q) : q'[i] = q[i]
    BY <1>1, <2>1, AppendProperties
  <2>3. q' # <<>>
    BY <1>1, <2>2, EmptySeq
  <2>4. ASSUME NEW i \in 1..Len(q')-1
        PROVE  Starts(q'[i+1]) \/ CanFollow(q'[i+1], q'[i])
    <3>1. CASE i = Len(q)
      <4>1. q'[i+1] = source' /\ q'[i] = q[Len(q)] /\ q # <<>>
        BY <1>1, <2>2, <3>1
      <4>2. CASE source = NoBeat
        BY <2>1, <4>1, <4>2 DEF CanFollow, Starts
      <4>3. CASE source # NoBeat
        BY <2>1, <4>1, <4>3 DEF InOrder
      <4> QED
        BY <4>2, <4>3
    <3>2. CASE i # Len(q)
      <4>1. i \in 1..Len(q)-1 /\ q'[i] = q[i] /\ q'[i+1] = q[i+1]
        BY <1>1, <2>2, <3>2
      <4> QED
        BY <4>1 DEF InOrder
    <3> QED
      BY <3>1, <3>2
  <2>5. InOrder'
    BY <2>2, <2>4 DEF InOrder
  <2>6. ASSUME NEW b \in Beats, Upcoming(b)' PROVE Upcoming(b)
    <3>1. b = q'[1]
      BY <2>3, <2>6 DEF Upcoming
    <3>2. CASE q = <<>>
      BY <1>1, <2>1, <2>2, <3>1, <3>2 DEF Upcoming
    <3>3. CASE q # <<>>
      BY <1>1, <2>2, <3>1, <3>3 DEF Upcoming
    <3> QED
      BY <3>2, <3>3
  <2> QED
    BY <2>5, <2>6
<1>3. CASE ~give
  BY <1>3 DEF WriteEdge, InOrder, Upcoming
<1> QED
  BY <1>2, <1>3

\* An edge of the pixel clock, by what there is to display.
LEMMA PixelEdgeRecovers ==
  ASSUME TypeOK, RecoveryInv, PixelEdge
  PROVE  RecoveryInv'
<1> DEFINE u == Head(Data_FIFO)
           valid == stream_out_valid
<1>1. /\ DueLine \in Int /\ DuePixel \in Int
      /\ first_pixel => pDEN /\ AtLine = 0 /\ AtPixel = 0 /\ DueLine = LINES
      /\ ~pDEN => DueLine' = DueLine /\ DuePixel' = DuePixel
      /\ pDEN => /\ AtLine \in 0..LINES-1 /\ AtPixel \in 0..PIXELS-1
                 /\ DueLine' = IF AtPixel = PIXELS-1 THEN AtLine + 1 ELSE AtLine
                 /\ DuePixel' = IF AtPixel = PIXELS-1 THEN 0 ELSE AtPixel + 1
      /\ pDEN /\ ~first_pixel => DueLine = AtLine /\ DuePixel = AtPixel
  BY DueStep DEF PixelEdge
<1>2. taken \in BOOLEAN /\ valid \in BOOLEAN /\ BufferTypeOK
  BY DEF taken, stream_out_valid, TypeOK
<1>3. /\ InOrder'
      /\ \A b \in Beats : Upcoming(b)' =>
           IF taken THEN Starts(b) \/ CanFollow(b, Data_FIFO[1]) ELSE Upcoming(b)
  BY <1>2, ReadKeepsOrder DEF RecoveryInv, PixelEdge
<1>4. valid => /\ u \in Beats /\ u = Data_FIFO[1] /\ Upcoming(u)
               /\ Expected(u) /\ (sop <=> Starts(u))
  <2> SUFFICES ASSUME valid PROVE /\ u \in Beats /\ u = Data_FIFO[1] /\ Upcoming(u)
                                  /\ Expected(u) /\ (sop <=> Starts(u))
    OBVIOUS
  <2>1. u \in Beats /\ Data_FIFO # <<>>
    BY <1>2, HeadType
  <2>2. u = Data_FIFO[1]
    BY <2>1, HeadTailProperties DEF TypeOK, BufferTypeOK
  <2>3. Upcoming(u)
    BY <2>1, <2>2 DEF Upcoming
  <2>4. sop <=> Starts(u)
    BY <2>1, BeatFields DEF sop, Starts
  <2> QED
    BY <2>1, <2>2, <2>3, <2>4 DEF RecoveryInv
<1>5. /\ taken <=> valid /\ pDEN /\ ~(sop /\ ~first_pixel)
      /\ Dry <=> pDEN /\ ~valid
      /\ CutShort <=> sop /\ ~ended /\ ~first_pixel
      /\ sop => valid
  BY DEF taken, ready, Dry, CutShort, sop
<1>6. /\ RGB_OUT' = IF valid THEN u.data ELSE Stale
      /\ DEN' = pDEN
      /\ at' = [line |-> AtLine, pixel |-> AtPixel]
      /\ frame' = IF ~first_pixel THEN frame
                  ELSE IF valid THEN u.data.buffer ELSE NoFrame
      /\ ended' = IF taken THEN u.endofpacket ELSE ended
      /\ starts' = IF Dry \/ CutShort THEN 0
                   ELSE IF first_pixel /\ starts < Settled THEN starts + 1
                   ELSE starts
  BY DEF PixelEdge, Outputs, Remember, AtLine, AtPixel
<1>7. starts \in 0..2 /\ Settled = 2 /\ ended \in BOOLEAN
  BY DEF TypeOK, Settled
<1>8. valid => /\ u # NoBeat
               /\ u.data = [buffer |-> u.data.buffer, line |-> u.data.line,
                            pixel |-> u.data.pixel]
               /\ u.data.line \in 0..LINES-1 /\ u.data.pixel \in 0..PIXELS-1
               /\ u.endofpacket = (/\ u.data.line = LINES-1
                                   /\ u.data.pixel = PIXELS-1)
  BY <1>4, BeatFields
<1>9. \A b \in Beats : /\ b.data.line \in 0..LINES-1
                       /\ b.data.pixel \in 0..PIXELS-1
  BY BeatFields
<1>10. PIXELS \in Nat \ {0} /\ LINES \in Nat \ {0}
  BY Sizes
<1>11. \A b : /\ Expected(b) <=>
                   /\ ended => Starts(b)
                   /\ starts > 0 => Starts(b) \/ NotBehind(b)
                   /\ starts = Settled => Starts(b) \/ Exactly(b)
              /\ Expected(b)' <=>
                   /\ ended' => Starts(b)
                   /\ starts' > 0 => Starts(b) \/ NotBehind(b)'
                   /\ starts' = Settled => Starts(b) \/ Exactly(b)'
  BY DEF Expected, Starts
<1>12. \A b : /\ NotBehind(b) <=> \/ b.data.line > DueLine
                                  \/ b.data.line = DueLine /\ b.data.pixel >= DuePixel
              /\ NotBehind(b)' <=> \/ b.data.line > DueLine'
                                   \/ b.data.line = DueLine' /\ b.data.pixel >= DuePixel'
              /\ Exactly(b) <=> /\ b.data.line = DueLine /\ b.data.pixel = DuePixel
                                /\ b.data.buffer = frame
              /\ Exactly(b)' <=> /\ b.data.line = DueLine' /\ b.data.pixel = DuePixel'
                                 /\ b.data.buffer = frame'
  BY DEF NotBehind, Exactly
<1>13. ASSUME \A b \in Beats : Upcoming(b)' => Expected(b)',
              starts' = Settled /\ DueLine' < LINES => ~ended',
              starts' = Settled /\ DEN' =>
                RGB_OUT' = [buffer |-> frame', line |-> at'.line, pixel |-> at'.pixel]
       PROVE  RecoveryInv'
  BY <1>3, <1>13 DEF RecoveryInv, Recovers
<1> HIDE DEF u, valid
\* The beat after u is the one due after u, or a start.
<1>14. ASSUME valid, taken, NEW b \in Beats, Upcoming(b)'
       PROVE  \/ Starts(b)
              \/ /\ ~u.endofpacket /\ b.data.buffer = u.data.buffer
                 /\ b.data.line = IF u.data.pixel = PIXELS-1
                                  THEN u.data.line + 1 ELSE u.data.line
                 /\ b.data.pixel = IF u.data.pixel = PIXELS-1
                                   THEN 0 ELSE u.data.pixel + 1
  <2>1. Starts(b) \/ CanFollow(b, u)
    BY <1>3, <1>4, <1>14
  <2> QED
    BY <1>8, <1>14, <2>1 DEF CanFollow, Starts
\* Nothing is displayed.
<1>15. CASE ~pDEN
  <2>1. /\ ~taken /\ ~first_pixel /\ frame' = frame /\ ended' = ended
        /\ starts' \in {0, starts} /\ DueLine' = DueLine /\ DuePixel' = DuePixel
    BY <1>1, <1>5, <1>6, <1>15
  <2>2. ASSUME NEW b \in Beats, Upcoming(b)' PROVE Expected(b)'
    <3>1. Expected(b)
      BY <1>3, <2>1, <2>2 DEF RecoveryInv
    <3> QED
      BY <1>7, <1>11, <1>12, <2>1, <3>1
  <2>3. starts' = Settled /\ DueLine' < LINES => ~ended'
    BY <1>7, <2>1 DEF RecoveryInv
  <2> QED
    BY <1>6, <1>13, <1>15, <2>2, <2>3
\* There is nothing to display: the picture is disturbed.
<1>16. CASE pDEN /\ ~valid
  <2>1. starts' = 0 /\ ~taken /\ ended' = ended
    BY <1>5, <1>6, <1>16
  <2>2. ASSUME NEW b \in Beats, Upcoming(b)' PROVE Expected(b)'
    <3>1. Expected(b)
      BY <1>3, <2>1, <2>2 DEF RecoveryInv
    <3> QED
      BY <1>7, <1>11, <2>1, <3>1
  <2> QED
    BY <1>7, <1>13, <2>1, <2>2
\* A frame is begun, in its place if the last one was not disturbed.
<1>17. CASE pDEN /\ valid /\ first_pixel
  <2>1. /\ taken /\ AtLine = 0 /\ AtPixel = 0 /\ frame' = u.data.buffer
        /\ ended' = u.endofpacket
        /\ starts' = IF starts < 2 THEN starts + 1 ELSE starts
    BY <1>1, <1>5, <1>6, <1>7, <1>17
  <2>2. starts' = Settled => u.data.line = 0 /\ u.data.pixel = 0
    <3>1. starts > 0 => Starts(u)
      BY <1>1, <1>4, <1>8, <1>10, <1>11, <1>12, <1>17
    <3> QED
      BY <1>7, <2>1, <3>1 DEF Starts
  <2>3. /\ DueLine' = IF PIXELS = 1 THEN 1 ELSE 0
        /\ DuePixel' = IF PIXELS = 1 THEN 0 ELSE 1
    BY <1>1, <1>10, <1>17, <2>1
  <2>4. ASSUME NEW b \in Beats, Upcoming(b)' PROVE Expected(b)'
    <3>1. CASE Starts(b)
      BY <1>11, <3>1
    <3>2. CASE ~Starts(b)
      <4>1. /\ ~u.endofpacket /\ b.data.buffer = u.data.buffer
            /\ b.data.line = IF u.data.pixel = PIXELS-1
                             THEN u.data.line + 1 ELSE u.data.line
            /\ b.data.pixel = IF u.data.pixel = PIXELS-1
                              THEN 0 ELSE u.data.pixel + 1
        BY <1>14, <1>17, <2>1, <2>4, <3>2
      <4>2. NotBehind(b)'
        BY <1>8, <1>10, <1>12, <1>17, <2>3, <4>1
      <4>3. starts' = Settled => Exactly(b)'
        BY <1>8, <1>10, <1>12, <1>17, <2>1, <2>2, <2>3, <4>1
      <4> QED
        BY <1>11, <2>1, <4>1, <4>2, <4>3
    <3> QED
      BY <3>1, <3>2
  <2>5. starts' = Settled /\ DueLine' < LINES => ~ended'
    <3> SUFFICES ASSUME starts' = Settled, DueLine' < LINES PROVE ~ended'
      OBVIOUS
    <3>1. ~(u.data.line = LINES-1 /\ u.data.pixel = PIXELS-1)
      BY <1>10, <2>2, <2>3
    <3>2. ~u.endofpacket
      BY <1>8, <1>17, <3>1
    <3> QED
      BY <2>1, <3>2
  <2>6. starts' = Settled =>
          RGB_OUT' = [buffer |-> frame', line |-> at'.line, pixel |-> at'.pixel]
    BY <1>6, <1>8, <1>17, <2>1, <2>2
  <2> QED
    BY <1>13, <2>4, <2>5, <2>6
\* A start is held, until its place comes.
<1>18. CASE pDEN /\ valid /\ ~first_pixel /\ Starts(u)
  <2>1. /\ ~taken /\ sop /\ ended' = ended
        /\ starts' = IF ended THEN starts ELSE 0
    BY <1>4, <1>5, <1>6, <1>7, <1>18
  <2>2. starts' # Settled
    <3>1. starts = Settled => ~ended
      BY <1>1, <1>10, <1>18 DEF RecoveryInv
    <3> QED
      BY <1>7, <2>1, <3>1
  <2>3. ASSUME NEW b \in Beats, Upcoming(b)' PROVE Expected(b)'
    <3>1. b = u
      <4>1. Upcoming(b) /\ Upcoming(u)
        BY <1>3, <1>4, <1>18, <2>1, <2>3
      <4> QED
        BY <1>2, <1>4, <1>18, <4>1, HeadType DEF Upcoming, valid
    <3> QED
      BY <1>11, <1>18, <3>1
  <2> QED
    BY <1>13, <2>2, <2>3
\* A pixel in the frame.
<1>19. CASE pDEN /\ valid /\ ~first_pixel /\ ~Starts(u)
  <2>1. /\ taken /\ starts' = starts /\ ended' = u.endofpacket /\ frame' = frame
        /\ DueLine = AtLine /\ DuePixel = AtPixel
    BY <1>1, <1>4, <1>5, <1>6, <1>19
  <2>2. /\ starts > 0 => NotBehind(u)
        /\ starts = Settled => Exactly(u)
    BY <1>4, <1>11, <1>19
  <2>3. ASSUME NEW b \in Beats, Upcoming(b)' PROVE Expected(b)'
    <3>1. CASE Starts(b)
      BY <1>11, <3>1
    <3>2. CASE ~Starts(b)
      <4>1. /\ ~u.endofpacket /\ b.data.buffer = u.data.buffer
            /\ b.data.line = IF u.data.pixel = PIXELS-1
                             THEN u.data.line + 1 ELSE u.data.line
            /\ b.data.pixel = IF u.data.pixel = PIXELS-1
                              THEN 0 ELSE u.data.pixel + 1
        BY <1>14, <1>19, <2>1, <2>3, <3>2
      <4>2. starts > 0 => NotBehind(b)'
        BY <1>1, <1>8, <1>10, <1>12, <1>19, <2>1, <2>2, <4>1
      <4>3. starts = Settled => Exactly(b)'
        BY <1>1, <1>8, <1>10, <1>12, <1>19, <2>1, <2>2, <4>1
      <4> QED
        BY <1>11, <2>1, <4>1, <4>2, <4>3
    <3> QED
      BY <3>1, <3>2
  <2>4. starts' = Settled /\ DueLine' < LINES => ~ended'
    <3> SUFFICES ASSUME starts' = Settled, DueLine' < LINES PROVE ~ended'
      OBVIOUS
    <3>1. u.data.line = AtLine /\ u.data.pixel = AtPixel
      BY <1>12, <2>1, <2>2
    <3>2. ~(u.data.line = LINES-1 /\ u.data.pixel = PIXELS-1)
      BY <1>1, <1>10, <1>19, <3>1
    <3>3. ~u.endofpacket
      BY <1>8, <1>19, <3>2
    <3> QED
      BY <2>1, <3>3
  <2>5. starts' = Settled =>
          RGB_OUT' = [buffer |-> frame', line |-> at'.line, pixel |-> at'.pixel]
    BY <1>6, <1>8, <1>12, <1>19, <2>1, <2>2
  <2> QED
    BY <1>13, <2>3, <2>4, <2>5
<1> QED
  BY <1>2, <1>15, <1>16, <1>17, <1>18, <1>19

\* However the picture was disturbed, it is back in place from the second
\* frame after that on, for frames, blanking, buffers and crossings of every
\* size.
THEOREM PictureRecovers == DisplaySpec => []Recovers
<1>1. Init => RecoveryInv
  <2> SUFFICES ASSUME Init PROVE RecoveryInv
    OBVIOUS
  <2>1. Data_FIFO = <<>> /\ Len(Data_FIFO) = 0 /\ source = NoBeat
    BY DEF Init, BufferInit, Source!Init, NoBeat
  <2>2. starts = 0 /\ Settled = 2 /\ InOrder
    BY <2>1 DEF Init, Settled, InOrder
  <2>3. \A b \in Beats : Upcoming(b) => Starts(b)
    BY <2>1 DEF Upcoming, CanFollow, Starts
  <2> QED
    BY <2>2, <2>3 DEF RecoveryInv, Expected, Recovers
<1>2. TypeOK /\ RecoveryInv /\ [DisplayNext]_displayVars => RecoveryInv'
  <2> SUFFICES ASSUME TypeOK, RecoveryInv, [DisplayNext]_displayVars
               PROVE  RecoveryInv'
    OBVIOUS
  <2>1. CASE PixelEdge
    BY <2>1, PixelEdgeRecovers
  <2>2. ASSUME InOrder', UNCHANGED <<syncVars, historyVars>>,
               \A b \in Beats : Upcoming(b)' => Starts(b) \/ Upcoming(b)
        PROVE  RecoveryInv'
    <3>1. \A b : Expected(b)' <=> Expected(b)
      BY <2>2 DEF Expected, Starts, NotBehind, Exactly, DueLine, DuePixel,
                  Complete, syncVars, historyVars
    <3>2. \A b : Starts(b) => Expected(b)
      BY DEF Expected
    <3>3. Recovers' /\ (starts' = Settled /\ DueLine' < LINES => ~ended')
      BY <2>2 DEF RecoveryInv, Recovers, DueLine, Complete, syncVars, historyVars
    <3> QED
      BY <2>2, <3>1, <3>2, <3>3 DEF RecoveryInv
  <2>3. CASE SystemEdge
    <3>1. PICK give \in BOOLEAN : WriteEdge(give)
      BY <2>3 DEF SystemEdge
    <3>2. InOrder' /\ \A b \in Beats : Upcoming(b)' => Upcoming(b)
      BY <3>1, WriteKeepsOrder DEF TypeOK, RecoveryInv
    <3> QED
      BY <2>2, <2>3, <3>2 DEF SystemEdge
  <2>4. CASE ResetPipeline
    <3>1. source' = NoBeat /\ Data_FIFO' = Data_FIFO
      BY <2>4 DEF ResetPipeline
    <3>2. InOrder'
      BY <3>1 DEF RecoveryInv, InOrder
    <3>3. \A b \in Beats : Upcoming(b)' => Starts(b) \/ Upcoming(b)
      BY <3>1 DEF Upcoming, CanFollow, Starts
    <3> QED
      BY <2>2, <2>4, <3>2, <3>3 DEF ResetPipeline
  <2>5. CASE ResetGenerator
    <3>1. /\ source' = source /\ Data_FIFO' = Data_FIFO /\ starts' = 0
          /\ ended' = ended /\ Settled = 2
      BY <2>5 DEF ResetGenerator, bufferVars, Settled
    <3>2. \A b : Upcoming(b)' <=> Upcoming(b)
      BY <3>1 DEF Upcoming
    <3>3. \A b : Expected(b) => Expected(b)'
      BY <3>1 DEF Expected, Starts
    <3>4. InOrder'
      BY <3>1 DEF RecoveryInv, InOrder
    <3> QED
      BY <3>1, <3>2, <3>3, <3>4 DEF RecoveryInv, Recovers
  <2>6. CASE UNCHANGED displayVars
    <3>1. source' = source /\ Data_FIFO' = Data_FIFO
          /\ UNCHANGED <<syncVars, historyVars>>
      BY <2>6 DEF displayVars, bufferVars
    <3>2. InOrder' /\ \A b \in Beats : Upcoming(b)' => Upcoming(b)
      BY <3>1 DEF RecoveryInv, InOrder, Upcoming
    <3> QED
      BY <2>2, <3>1, <3>2
  <2> QED
    BY <2>1, <2>3, <2>4, <2>5, <2>6 DEF DisplayNext, ClockEdge
<1>3. RecoveryInv => Recovers
  BY DEF RecoveryInv
<1> QED
  BY <1>1, <1>2, <1>3, TypeCorrect, PTL DEF DisplaySpec

-----------------------------------------------------------------------------
(* Two scans of the same raster. *)

\* What the proofs use of the transmitter's constants.
LEMMA ScanSizes ==
  /\ hTotalPixels = TOTAL_HSCAN_PIXELS /\ vTotalLines = TOTAL_VSCAN_LINES
  /\ hTotalPixels \in Nat \ {0} /\ vTotalLines \in Nat \ {0}
  /\ CounterMod \in Nat /\ hTotalPixels <= CounterMod /\ vTotalLines <= CounterMod
  /\ hActivePixels = PIXELS /\ vActiveLines = LINES
  /\ PIXELS \in Nat \ {0} /\ LINES \in Nat \ {0}
  /\ PIXELS <= hTotalPixels /\ LINES <= vTotalLines
  /\ H_BLANK_PIXELS = 0 /\ V_BLANK_LINES = 0
  /\ hFrontPorch \in Nat /\ vFrontPorch \in Nat
  /\ hSyncWidth \in Nat /\ vSyncWidth \in Nat
BY Sizes, SyncAssumption, TimingAssumption
DEF SyncAssumption, TimingAssumption, NUM_COLUMNS, NUM_ROWS

\* Multiples of k are at least k apart.
LEMMA Multiples ==
  ASSUME NEW k \in Nat \ {0}, NEW a \in Int, NEW b \in Int, a < b
  PROVE  k * a + k <= k * b
OBVIOUS

\* Quotient and remainder are the only ones.
LEMMA DivModUnique ==
  ASSUME NEW k \in Nat \ {0}, NEW q \in Int, NEW r \in 0..k-1,
         NEW p \in Int, NEW s \in 0..k-1, k * q + r = k * p + s
  PROVE  q = p /\ r = s
<1> DEFINE kq == k * q
           kp == k * p
<1>1. kq \in Int /\ kp \in Int /\ kq + r = kp + s
  OBVIOUS
<1>2. (q < p => kq + k <= kp) /\ (p < q => kp + k <= kq)
  BY Multiples
<1> HIDE DEF kq, kp
<1>3. q = p
  BY <1>1, <1>2
<1> QED
  BY <1>1, <1>3 DEF kq, kp

\* Once around is nowhere.
LEMMA AroundOnce ==
  ASSUME NEW n \in Nat \ {0}, NEW d \in Int, NEW e \in Int,
         e = d \/ e = d + n \/ e = d - n
  PROVE  e % n = d % n
<1>1. /\ d = n * (d \div n) + (d % n) /\ d \div n \in Int /\ d % n \in 0..n-1
      /\ e = n * (e \div n) + (e % n) /\ e \div n \in Int /\ e % n \in 0..n-1
  OBVIOUS
<1> DEFINE q == d \div n
           r == d % n
           p == e \div n
           s == e % n
<1>2. /\ n * (q + 1) = n * q + n /\ n * (q - 1) = n * q - n
  BY <1>1
<1> HIDE DEF q, r, p, s
<1>3. /\ q \in Int /\ r \in 0..n-1 /\ d = n * q + r
      /\ p \in Int /\ s \in 0..n-1 /\ e = n * p + s
  BY <1>1 DEF q, r, p, s
<1>4. CASE e = d
  BY <1>4
<1>5. CASE e = d + n
  <2>1. n * p + s = n * (q + 1) + r
    BY <1>2, <1>3, <1>5
  <2>2. s = r
    BY <1>3, <2>1, DivModUnique
  <2> QED
    BY <2>2 DEF s, r
<1>6. CASE e = d - n
  <2>1. n * p + s = n * (q - 1) + r
    BY <1>2, <1>3, <1>6
  <2>2. s = r
    BY <1>3, <2>1, DivModUnique
  <2> QED
    BY <2>2 DEF s, r
<1> QED
  BY <1>4, <1>5, <1>6

\* A scan of lines of h pixels counts to h * v and starts again.
LEMMA ScanStep ==
  ASSUME NEW h \in Nat \ {0}, NEW v \in Nat \ {0},
         NEW x \in 0..h-1, NEW y \in 0..v-1, NEW x1, NEW y1,
         x1 = IF x = h-1 THEN 0 ELSE x + 1,
         y1 = IF x # h-1 THEN y ELSE IF y = v-1 THEN 0 ELSE y + 1
  PROVE  /\ x1 \in 0..h-1 /\ y1 \in 0..v-1
         /\ y * h + x \in 0..h*v-1
         /\ \/ y1 * h + x1 = y * h + x + 1
            \/ y1 * h + x1 = y * h + x + 1 - h * v
<1>1. x1 \in 0..h-1 /\ y1 \in 0..v-1
  OBVIOUS
<1> DEFINE yh == y * h
           hv == h * v
<1>2. yh \in Nat /\ hv \in Nat /\ h * y = yh
  OBVIOUS
<1>3. yh <= hv - h /\ (y = v-1 => yh = hv - h)
  <2>1. h * (v - 1) = hv - h
    OBVIOUS
  <2>2. y < v-1 => yh + h <= h * (v-1)
    BY <1>2, Multiples
  <2>3. y = v-1 => yh = h * (v-1)
    OBVIOUS
  <2> HIDE DEF yh, hv
  <2> QED
    BY <1>2, <2>1, <2>2, <2>3
<1>4. y * h + x \in 0..h*v-1
  <2> HIDE DEF yh, hv
  <2>1. yh + x \in 0..hv-1
    BY <1>2, <1>3
  <2> QED
    BY <2>1 DEF yh, hv
<1>5. CASE x # h-1
  BY <1>1, <1>4, <1>5
<1>6. CASE x = h-1 /\ y = v-1
  <2>1. y1 * h + x1 = 0
    BY <1>6
  <2>2. yh + x + 1 - hv = 0
    BY <1>2, <1>3, <1>6
  <2> QED
    BY <1>1, <1>4, <2>1, <2>2
<1>7. CASE x = h-1 /\ y # v-1
  <2>1. y1 * h + x1 = (y + 1) * h
    BY <1>7
  <2>2. (y + 1) * h = yh + h
    BY <1>2
  <2> QED
    BY <1>1, <1>4, <1>7, <2>1, <2>2
<1> QED
  BY <1>5, <1>6, <1>7

\* Scans at no distance are at the same place.
LEMMA SamePlace ==
  ASSUME NEW h \in Nat \ {0}, NEW v \in Nat \ {0},
         NEW x \in 0..h-1, NEW y \in 0..v-1, NEW c \in 0..h-1, NEW r \in 0..v-1,
         ((y - r) * h + x - c) % (h * v) = 0
  PROVE  x = c /\ y = r
<1> DEFINE a == y * h + x
           b == r * h + c
           n == h * v
<1>1. a \in 0..n-1 /\ b \in 0..n-1
  BY ScanStep
<1>2. (y - r) * h + x - c = a - b
  OBVIOUS
<1>3. n \in Nat \ {0}
  OBVIOUS
<1>4. (a - b) % n = 0
  BY <1>2
<1>5. h * y + x = a /\ h * r + c = b
  OBVIOUS
<1> HIDE DEF a, b, n
<1>6. a = b
  <2>1. CASE a >= b
    BY <1>1, <1>3, <1>4, <2>1
  <2>2. CASE a < b
    <3> DEFINE d == a - b
    <3>1. d \in Int /\ d + n \in 0..n-1 /\ d + n # 0
      BY <1>1, <1>3, <2>2
    <3>2. d % n = 0
      BY <1>4
    <3> HIDE DEF d
    <3> DEFINE e == d + n
    <3>3. e \in Int /\ e = d + n
      BY <1>3, <3>1
    <3> HIDE DEF e
    <3>4. e % n = d % n
      BY <1>3, <3>1, <3>3, AroundOnce
    <3> QED
      BY <1>3, <3>1, <3>2, <3>3, <3>4
  <2> QED
    BY <1>1, <2>1, <2>2
<1> QED
  BY <1>5, <1>6, DivModUnique

-----------------------------------------------------------------------------
(* The transmitter beside the generator. *)

Counting == CounterX \in 0..CounterMod-1 /\ CounterY \in 0..CounterMod-1

\* What an edge of the pixel clock does to the scans.
LEMMA ScansStep ==
  ASSUME TypeOK, Counting, PixelEdge, TransmitterEdge
  PROVE  /\ Counting'
         /\ InScan => InScan' /\ Offset' = Offset
<1> DEFINE x == CounterX
           y == CounterY
           c == column_counter
           r == row_counter
           h == hTotalPixels
           v == vTotalLines
<1>1. /\ h \in Nat \ {0} /\ v \in Nat \ {0} /\ h <= CounterMod /\ v <= CounterMod
      /\ CounterMod \in Nat /\ h = TOTAL_HSCAN_PIXELS /\ v = TOTAL_VSCAN_LINES
  BY ScanSizes
<1>2. /\ x \in 0..CounterMod-1 /\ y \in 0..CounterMod-1
      /\ c \in 0..h-1 /\ r \in 0..v-1
  BY <1>1 DEF Counting, TypeOK
<1>3. (x + 1) % CounterMod \in 0..CounterMod-1
      /\ (y + 1) % CounterMod \in 0..CounterMod-1
  BY <1>1, <1>2
<1>4. Counting'
  BY <1>1, <1>2, <1>3 DEF TransmitterEdge, TransmitterCounters, Counting
<1>5. /\ c' = IF c = h-1 THEN 0 ELSE c + 1
      /\ r' = IF c # h-1 THEN r ELSE IF r = v-1 THEN 0 ELSE r + 1
  BY <1>1, <1>2 DEF PixelEdge, Counters
<1>6. ASSUME InScan PROVE InScan' /\ Offset' = Offset
  <2>1. x \in 0..h-1 /\ y \in 0..v-1
    BY <1>1, <1>2, <1>6 DEF InScan
  <2>2. /\ x' = IF x = h-1 THEN 0 ELSE x + 1
        /\ y' = IF x # h-1 THEN y ELSE IF y = v-1 THEN 0 ELSE y + 1
    BY <1>1, <2>1 DEF TransmitterEdge, TransmitterCounters
  <2> DEFINE n == h * v
             t == y * h + x
             g == r * h + c
             t1 == y' * h + x'
             g1 == r' * h + c'
  <2>3. /\ x' \in 0..h-1 /\ y' \in 0..v-1 /\ t \in 0..n-1
        /\ t1 = t + 1 \/ t1 = t + 1 - n
    BY <1>1, <2>1, <2>2, ScanStep
  <2>4. /\ c' \in 0..h-1 /\ r' \in 0..v-1 /\ g \in 0..n-1
        /\ g1 = g + 1 \/ g1 = g + 1 - n
    BY <1>1, <1>2, <1>5, ScanStep
  <2>5. InScan'
    BY <1>1, <2>3 DEF InScan
  <2>6. n \in Nat \ {0}
    BY <1>1
  <2>7. Offset = (t - g) % n /\ Offset' = (t1 - g1) % n
    <3>1. (y - r) * h + x - c = t - g
      BY <1>1, <1>2, <2>1
    <3>2. (y' - r') * h + x' - c' = t1 - g1
      BY <1>1, <2>3, <2>4
    <3> QED
      BY <3>1, <3>2 DEF Offset
  <2> HIDE DEF n, t, g, t1, g1
  <2>8. Offset' = Offset
    <3>1. t1 - g1 = t - g \/ t1 - g1 = (t - g) + n \/ t1 - g1 = (t - g) - n
      BY <2>3, <2>4, <2>6
    <3>2. t - g \in Int /\ t1 - g1 \in Int
      BY <2>3, <2>4, <2>6
    <3>3. (t1 - g1) % n = (t - g) % n
      BY <2>6, <3>1, <3>2, AroundOnce
    <3> QED
      BY <2>7, <3>3
  <2> QED
    BY <2>5, <2>8
<1> QED
  BY <1>4, <1>6

\* What is sent as picture is put out as picture, and no sync pulse with it.
SentIsShown ==
  InScan /\ Offset = 0 /\ starts = Settled /\ DrawArea =>
    DEN /\ ~hSync /\ ~vSync

\* An edge of the pixel clock sends the place that is put out.
LEMMA EdgeSends ==
  ASSUME TypeOK, Counting, PixelEdge, TransmitterEdge
  PROVE  SentIsShown'
<1> SUFFICES ASSUME InScan', Offset' = 0, DrawArea'
             PROVE  DEN' /\ ~hSync' /\ ~vSync'
  BY DEF SentIsShown
<1>1. /\ hTotalPixels = TOTAL_HSCAN_PIXELS /\ vTotalLines = TOTAL_VSCAN_LINES
      /\ hTotalPixels \in Nat \ {0} /\ vTotalLines \in Nat \ {0}
      /\ hActivePixels = PIXELS /\ vActiveLines = LINES
      /\ PIXELS \in Nat \ {0} /\ LINES \in Nat \ {0}
      /\ PIXELS <= hTotalPixels /\ LINES <= vTotalLines
      /\ H_BLANK_PIXELS = 0 /\ V_BLANK_LINES = 0
      /\ hFrontPorch \in Nat /\ vFrontPorch \in Nat /\ CounterMod \in Nat
      /\ hSyncWidth \in Nat /\ vSyncWidth \in Nat
  BY ScanSizes
<1>2. CounterX < hActivePixels /\ CounterY < vActiveLines
  BY DEF TransmitterEdge
<1>3. /\ CounterX \in 0..hTotalPixels-1 /\ CounterY \in 0..vTotalLines-1
      /\ column_counter \in 0..hTotalPixels-1 /\ row_counter \in 0..vTotalLines-1
  BY <1>1, <1>2 DEF Counting, TypeOK
<1>4. InScan
  BY <1>1, <1>3 DEF InScan
<1>5. Offset = 0
  BY <1>4, ScansStep
<1>6. CounterX = column_counter /\ CounterY = row_counter
  BY <1>1, <1>3, <1>5, SamePlace DEF Offset
<1>7. pDEN
  BY <1>1, <1>2, <1>3, <1>6 DEF pDEN, h_active, v_active, NUM_COLUMNS, NUM_ROWS
<1>8. DEN'
  BY <1>7 DEF PixelEdge, Outputs
<1>9. ~hSync' /\ ~vSync'
  <2>1. /\ CounterX \notin hActivePixels + hFrontPorch ..
                           hActivePixels + hFrontPorch + hSyncWidth - 1
        /\ CounterY \notin vActiveLines + vFrontPorch ..
                           vActiveLines + vFrontPorch + vSyncWidth - 1
    BY <1>1, <1>2, <1>3
  <2>2. /\ hSync' = SyncPulse(CounterX, hActivePixels + hFrontPorch, hSyncWidth)
        /\ vSync' = SyncPulse(CounterY, vActiveLines + vFrontPorch, vSyncWidth)
    BY DEF TransmitterEdge
  <2> QED
    BY <2>1, <2>2 DEF SyncPulse
<1> QED
  BY <1>8, <1>9

\* Beside the transmitter the generator does what it does alone.
LEMMA GeneratorRuns == TimingSpec => DisplaySpec
<1>1. TimingInit => Init
  BY DEF TimingInit
<1>2. [TimingNext]_timingVars => [DisplayNext]_displayVars
  BY DEF TimingNext, timingVars, DisplayNext, ClockEdge
<1> QED
  BY <1>1, <1>2, PTL DEF TimingSpec, DisplaySpec

\* The transmitter's counters keep their width.
LEMMA CountingHolds == TimingSpec => []Counting
<1>1. TimingInit => Counting
  BY DEF TimingInit, Counting
<1>2. TypeOK /\ Counting /\ [TimingNext]_timingVars => Counting'
  <2> SUFFICES ASSUME TypeOK, Counting, [TimingNext]_timingVars PROVE Counting'
    OBVIOUS
  <2>1. CASE PixelEdge /\ TransmitterEdge
    BY <2>1, ScansStep
  <2>2. CASE UNCHANGED transmitterVars
    BY <2>2 DEF transmitterVars, Counting
  <2> QED
    BY <2>1, <2>2 DEF TimingNext, timingVars
<1> QED
  BY <1>1, <1>2, GeneratorRuns, TypeCorrect, PTL DEF TimingSpec

\* The two scans keep their distance through every frame and whatever the
\* stream does; only a reset of the generator moves the picture.
THEOREM DistanceKept == TimingSpec => OffsetKept
<1>1. TypeOK /\ Counting /\ [TimingNext]_timingVars =>
        [InScan /\ ~ResetGenerator => InScan' /\ Offset' = Offset]_timingVars
  <2> SUFFICES ASSUME TypeOK, Counting, [TimingNext]_timingVars,
                      InScan, ~ResetGenerator
               PROVE  (InScan' /\ Offset' = Offset) \/ UNCHANGED timingVars
    OBVIOUS
  <2>1. CASE PixelEdge /\ TransmitterEdge
    BY <2>1, ScansStep
  <2>2. CASE (SystemEdge \/ ResetPipeline) /\ UNCHANGED transmitterVars
    BY <2>2 DEF SystemEdge, ResetPipeline, syncVars, transmitterVars, InScan, Offset
  <2> QED
    BY <2>1, <2>2 DEF TimingNext
<1> QED
  BY <1>1, GeneratorRuns, TypeCorrect, CountingHolds, PTL DEF TimingSpec, OffsetKept

\* If the scans coincide, what the transmitter sends as picture is exactly what
\* the generator puts out as picture, every pixel at its place once the stream
\* is undisturbed, and no sync pulse falls into it.
THEOREM RightPictureSent == TimingSpec => []PictureInPlace
<1>1. TimingInit => SentIsShown
  BY DEF TimingInit, SentIsShown
<1>2. TypeOK /\ Counting /\ SentIsShown /\ [TimingNext]_timingVars => SentIsShown'
  <2> SUFFICES ASSUME TypeOK, Counting, SentIsShown, [TimingNext]_timingVars
               PROVE  SentIsShown'
    OBVIOUS
  <2>1. CASE PixelEdge /\ TransmitterEdge
    BY <2>1, EdgeSends
  <2>2. CASE (SystemEdge \/ ResetPipeline) /\ UNCHANGED transmitterVars
    BY <2>2 DEF SystemEdge, ResetPipeline, syncVars, historyVars, transmitterVars,
                SentIsShown, InScan, Offset
  <2>3. CASE ResetGenerator
    BY <2>3 DEF ResetGenerator, SentIsShown, Settled
  <2>4. CASE UNCHANGED timingVars
    BY <2>4 DEF timingVars, displayVars, syncVars, historyVars, transmitterVars,
                SentIsShown, InScan, Offset
  <2> QED
    BY <2>1, <2>2, <2>3, <2>4 DEF TimingNext
<1>3. SentIsShown /\ Recovers => PictureInPlace
  BY DEF SentIsShown, Recovers, PictureInPlace
<1> QED
  BY <1>1, <1>2, <1>3, GeneratorRuns, TypeCorrect, CountingHolds, PictureRecovers,
     PTL DEF TimingSpec

-----------------------------------------------------------------------------
(* The serializer. *)

\* What a register is made of.
Bits == [word : Int, place : Int]

\* What is left of a word's even or odd bits, the first of which was at the
\* given place, when n of them have been sent.
Left(word, place, n) ==
  [i \in 1..5 |-> IF i + n <= 5 THEN BitOf(word, 2 * (i + n) - 2 + place)
                  ELSE NoBit]

SerializerTypeOK ==
  /\ word_out \in 0..Words-1
  /\ phase \in 0..4
  /\ TMDS_mod5 \in 0..4
  /\ loaded \in 0..Words-1 \cup {-1}
  /\ steady \in 0..Steady

\* The registers hold what is left of the word loaded last.
HoldsTheRest ==
  loaded # -1 => /\ TMDS_shift_h = Left(loaded, 0, TMDS_mod5)
                 /\ TMDS_shift_l = Left(loaded, 1, TMDS_mod5)

\* When nothing has been interrupted since a word was loaded, the encoder is
\* still at that word, or is at the next one if its clock had an edge since.
InStep ==
  steady > TMDS_mod5 =>
    /\ loaded # -1
    /\ word_out = (loaded + IF phase <= TMDS_mod5 THEN 1 ELSE 0) % Words

SerializerInv == SerializerTypeOK /\ HoldsTheRest /\ InStep

-----------------------------------------------------------------------------
\* What is left of a word is five bits.
LEMMA LeftType ==
  ASSUME NEW word \in Int, NEW place \in {0, 1}, NEW n \in 0..4
  PROVE  /\ Left(word, place, n) \in Seq(Bits)
         /\ Left(word, place, n) # <<>>
         /\ Len(Left(word, place, n)) = 5
<1>1. Left(word, place, n) \in [1..5 -> Bits]
  BY DEF Left, BitOf, NoBit, Bits
<1> HIDE DEF Left
<1>2. Left(word, place, n) \in Seq(Bits)
  BY <1>1, SeqDef
<1>3. DOMAIN Left(word, place, n) = 1..5
  BY <1>1
<1>4. Len(Left(word, place, n)) = 5
  BY <1>2, <1>3, LenProperties
<1>5. Left(word, place, n) # <<>>
  <2>1. Len(<<>>) = 0 /\ 5 # 0
    BY EmptySeq
  <2> QED
    BY <1>4, <2>1, Zenon
<1> QED
  BY <1>2, <1>4, <1>5

\* Shifting a register once sends one more of its bits.
LEMMA ShiftedLeft ==
  ASSUME NEW word \in Int, NEW place \in {0, 1}, NEW n \in 0..3
  PROVE  Shifted(Left(word, place, n)) = Left(word, place, n + 1)
<1> DEFINE s == Left(word, place, n)
<1>1. s \in Seq(Bits) /\ s # <<>> /\ Len(s) = 5
  BY LeftType
<1>2. \A i \in 1..5 : s[i] = IF i + n <= 5
                             THEN BitOf(word, 2 * (i + n) - 2 + place)
                             ELSE NoBit
  BY DEF Left
<1> HIDE DEF s
<1>3. NoBit \in Bits
  BY DEF NoBit, Bits
<1> DEFINE t == Tail(s)
           u == Append(t, NoBit)
<1>4. /\ t \in Seq(Bits) /\ Len(t) = Len(s) - 1
      /\ \A i \in 1..Len(t) : t[i] = s[i+1]
  BY <1>1, HeadTailProperties, Zenon
<1> HIDE DEF t
<1>5. /\ u \in Seq(Bits) /\ Len(u) = Len(t) + 1
      /\ \A i \in 1..Len(t) : u[i] = t[i]
      /\ u[Len(t) + 1] = NoBit
  <2> t \in Seq(Bits) /\ NoBit \in Bits
    BY <1>3, <1>4
  <2> QED
    BY AppendProperties DEF u
<1>6. u = Shifted(s)
  BY Zenon DEF t, Shifted
<1> HIDE DEF u
<1>7. /\ u \in Seq(Bits) /\ Len(u) = 5
      /\ \A i \in 1..4 : u[i] = s[i+1]
      /\ u[5] = NoBit
  BY <1>1, <1>4, <1>5
<1>8. u = [i \in 1..5 |-> u[i]]
  BY <1>7, LenProperties
<1>9. \A i \in 1..5 :
        u[i] = IF i + (n + 1) <= 5
               THEN BitOf(word, 2 * (i + (n + 1)) - 2 + place)
               ELSE NoBit
  <2> TAKE i \in 1..5
  <2>1. CASE i = 5
    BY <2>1, <1>7
  <2>2. CASE i # 5
    <3>1. i \in 1..4 /\ i + 1 \in 1..5
      BY <2>2
    <3>2. u[i] = s[i+1]
      BY <3>1, <1>7
    <3>3. /\ (i + 1) + n = i + (n + 1)
          /\ 2 * ((i + 1) + n) - 2 + place = 2 * (i + (n + 1)) - 2 + place
      OBVIOUS
    <3> QED
      BY <3>1, <3>2, <3>3, <1>2
  <2> QED
    BY <2>1, <2>2
<1> QED
  BY <1>8, <1>9, <1>6, Zenon DEF s, Left

\* A word that has just been loaded is left whole.
LEMMA LoadedLeft ==
  ASSUME NEW word \in Int
  PROVE  /\ EvenBits(word) = Left(word, 0, 0)
         /\ OddBits(word) = Left(word, 1, 0)
<1>1. \A i \in 1..5 : /\ i + 0 <= 5
                      /\ 2 * i - 2 = 2 * (i + 0) - 2 + 0
                      /\ 2 * i - 1 = 2 * (i + 0) - 2 + 1
  OBVIOUS
<1> QED
  BY <1>1 DEF EvenBits, OddBits, Left

\* The two bits being sent are the next two of the word.
LEMMA HeadOfLeft ==
  ASSUME NEW word \in Int, NEW place \in {0, 1}, NEW n \in 0..4
  PROVE  Head(Left(word, place, n)) = BitOf(word, 2 * n + place)
<1>1. Left(word, place, n) \in Seq(Bits) /\ Left(word, place, n) # <<>>
  BY LeftType
<1>2. Head(Left(word, place, n)) = Left(word, place, n)[1]
  BY <1>1, HeadTailProperties
<1>3. 1 + n <= 5 /\ 2 * (1 + n) - 2 + place = 2 * n + place
  OBVIOUS
<1> QED
  BY <1>2, <1>3 DEF Left

\* One more word, counted modulo Words.
LEMMA NextWord ==
  ASSUME NEW w \in 0..Words-1
  PROVE  /\ (w + 1) % Words \in 0..Words-1
         /\ (w + 0) % Words = w
<1>1. Words \in Nat /\ Words > 2
  BY SerializerAssumption DEF SerializerAssumption
<1> QED
  BY <1>1

-----------------------------------------------------------------------------
\* The words and the counts of five keep their types.
LEMMA TypeStep ==
  SerializerTypeOK /\ [SerializerNext]_serializerVars => SerializerTypeOK'
<1> SUFFICES ASSUME SerializerTypeOK, [SerializerNext]_serializerVars
             PROVE  SerializerTypeOK'
  OBVIOUS
<1>1. PixelClock => word_out' \in 0..Words-1 /\ phase' \in 0..4
  BY NextWord DEF PixelClock, SerializerTypeOK
<1>2. CASE Run
  BY <1>1, <1>2 DEF Run, Load, Shift, LastPair, SerializerTypeOK, Steady
<1>3. CASE Hold
  BY <1>1, <1>3 DEF Hold, SerializerTypeOK, Steady
<1>4. CASE UNCHANGED serializerVars
  BY <1>4 DEF SerializerTypeOK, serializerVars
<1> QED
  BY <1>2, <1>3, <1>4 DEF SerializerNext

\* Loading puts a word in the registers, shifting takes one bit of each.
LEMMA HoldsStep ==
  SerializerTypeOK /\ HoldsTheRest /\ [SerializerNext]_serializerVars => HoldsTheRest'
<1> SUFFICES ASSUME SerializerTypeOK, HoldsTheRest, [SerializerNext]_serializerVars
             PROVE  HoldsTheRest'
  OBVIOUS
<1>1. CASE Run /\ Load
  <2>1. word_out \in Int
    BY SerializerAssumption DEF SerializerTypeOK, SerializerAssumption
  <2> QED
    BY <1>1, <2>1, LoadedLeft DEF Load, HoldsTheRest
<1>2. CASE Run /\ Shift
  <2> SUFFICES ASSUME loaded' # -1
               PROVE  /\ TMDS_shift_h' = Left(loaded', 0, TMDS_mod5')
                      /\ TMDS_shift_l' = Left(loaded', 1, TMDS_mod5')
    BY DEF HoldsTheRest
  <2>1. /\ loaded \in Int /\ TMDS_mod5 \in 0..3
        /\ loaded' = loaded /\ TMDS_mod5' = TMDS_mod5 + 1
    BY <1>2 DEF Shift, LastPair, SerializerTypeOK
  <2>2. /\ TMDS_shift_h = Left(loaded, 0, TMDS_mod5)
        /\ TMDS_shift_l = Left(loaded, 1, TMDS_mod5)
    BY <2>1 DEF HoldsTheRest
  <2> QED
    BY <1>2, <2>1, <2>2, ShiftedLeft DEF Shift
<1>3. CASE Hold \/ UNCHANGED serializerVars
  BY <1>3 DEF Hold, serializerVars, HoldsTheRest
<1> QED
  BY <1>1, <1>2, <1>3 DEF SerializerNext, Run

\* The two counts of five run together: which of them is ahead does not change
\* while nothing is interrupted.
LEMMA InStepStep ==
  SerializerTypeOK /\ InStep /\ [SerializerNext]_serializerVars => InStep'
<1> SUFFICES ASSUME SerializerTypeOK, InStep, [SerializerNext]_serializerVars,
                    steady' > TMDS_mod5'
             PROVE  /\ loaded' # -1
                    /\ word_out' = (loaded' + IF phase' <= TMDS_mod5'
                                              THEN 1 ELSE 0) % Words
  BY DEF InStep
<1>1. CASE Run /\ Load
  <2>1. loaded' = word_out /\ TMDS_mod5' = 0
    BY <1>1 DEF Load
  <2>2. loaded' # -1
    BY <2>1, SerializerAssumption DEF SerializerTypeOK, SerializerAssumption
  <2>3. CASE phase = 4
    <3>1. phase' = 0 /\ word_out' = (word_out + 1) % Words
      BY <1>1, <2>3 DEF Run, PixelClock
    <3> QED
      BY <2>1, <2>2, <3>1
  <2>4. CASE phase # 4
    <3>1. phase' \in 1..4 /\ word_out' = word_out
      BY <1>1, <2>4 DEF Run, PixelClock, SerializerTypeOK
    <3>2. (word_out + 0) % Words = word_out
      BY NextWord DEF SerializerTypeOK
    <3> QED
      BY <2>1, <2>2, <3>1, <3>2
  <2> QED
    BY <2>3, <2>4
<1>2. CASE Run /\ Shift
  <2>1. /\ TMDS_mod5 \in 0..3 /\ TMDS_mod5' = TMDS_mod5 + 1
        /\ loaded' = loaded
    BY <1>2 DEF Shift, LastPair, SerializerTypeOK
  <2>2. steady > TMDS_mod5
    BY <1>2, <2>1 DEF Run, SerializerTypeOK, Steady
  <2>3. /\ loaded \in 0..Words-1
        /\ word_out = (loaded + IF phase <= TMDS_mod5 THEN 1 ELSE 0) % Words
    BY <2>2 DEF InStep, SerializerTypeOK
  <2>4. CASE phase = 4
    <3>1. /\ phase' = 0 /\ word_out' = (word_out + 1) % Words
          /\ ~(phase <= TMDS_mod5)
      BY <1>2, <2>1, <2>4 DEF Run, PixelClock
    <3>2. word_out = loaded
      BY <2>3, <3>1, NextWord
    <3> QED
      BY <2>1, <2>3, <3>1, <3>2
  <2>5. CASE phase # 4
    <3>1. /\ phase' = phase + 1 /\ word_out' = word_out
          /\ phase' <= TMDS_mod5' <=> phase <= TMDS_mod5
      BY <1>2, <2>1, <2>5 DEF Run, PixelClock, SerializerTypeOK
    <3> QED
      BY <2>1, <2>3, <3>1
  <2> QED
    BY <2>4, <2>5
<1>3. CASE Hold
  BY <1>3 DEF Hold, SerializerTypeOK
<1>4. CASE UNCHANGED serializerVars
  BY <1>4 DEF serializerVars, InStep
<1> QED
  BY <1>1, <1>2, <1>3, <1>4 DEF SerializerNext, Run

\* SerializerInv holds in every state the serializer reaches.
LEMMA Inductive == SerializerSpec => []SerializerInv
<1>1. SerializerInit => SerializerInv
  BY SerializerAssumption
     DEF SerializerAssumption, SerializerInit, SerializerInv, SerializerTypeOK,
         HoldsTheRest, InStep, Steady
<1>2. SerializerInv /\ [SerializerNext]_serializerVars => SerializerInv'
  BY TypeStep, HoldsStep, InStepStep DEF SerializerInv
<1> QED
  BY <1>1, <1>2, PTL DEF SerializerSpec

\* The pair of bits on the wire is always the next one of the word loaded
\* last, in whatever place of a word the serializer has been stopped.
THEOREM SerialBitsInOrder == SerializerSpec => []BitsInOrder
<1>1. SerializerInv => BitsInOrder
  <2> SUFFICES ASSUME SerializerInv, loaded # -1
               PROVE  /\ Head(TMDS_shift_h) = BitOf(loaded, 2 * TMDS_mod5)
                      /\ Head(TMDS_shift_l) = BitOf(loaded, 2 * TMDS_mod5 + 1)
    BY DEF BitsInOrder
  <2>1. loaded \in Int /\ TMDS_mod5 \in 0..4
    BY DEF SerializerInv, SerializerTypeOK
  <2>2. 2 * TMDS_mod5 + 0 = 2 * TMDS_mod5
    BY <2>1
  <2> QED
    BY <2>1, <2>2, HeadOfLeft DEF SerializerInv, HoldsTheRest
<1> QED
  BY <1>1, Inductive, PTL

\* The serializer takes every word of the encoder exactly once, though its
\* count of five and the encoder's have any phase.
THEOREM EveryWordOnce == SerializerSpec => NoWordSkippedOrRepeated
<1>1. SerializerInv /\ [SerializerNext]_serializerVars =>
        [Load /\ steady = Steady => loaded' = (loaded + 1) % Words]_serializerVars
  <2> SUFFICES ASSUME SerializerInv, Load, steady = Steady
               PROVE  loaded' = (loaded + 1) % Words
    OBVIOUS
  <2>1. TMDS_mod5 = 4 /\ phase <= TMDS_mod5 /\ steady > TMDS_mod5
    BY DEF SerializerInv, SerializerTypeOK, Load, LastPair, Steady
  <2> QED
    BY <2>1 DEF SerializerInv, InStep, Load
<1> QED
  BY <1>1, Inductive, PTL DEF SerializerSpec, NoWordSkippedOrRepeated

-----------------------------------------------------------------------------
(* The encoder.  A word is a set of places, and is counted bit by bit. *)

\* A word's bit as a number.
Bit(S, i) == IF i \in S THEN 1 ELSE 0

\* The ones of a word, counted bit by bit.
Count(S) == Bit(S, 0) + Bit(S, 1) + Bit(S, 2) + Bit(S, 3) + Bit(S, 4)
              + Bit(S, 5) + Bit(S, 6) + Bit(S, 7) + Bit(S, 8) + Bit(S, 9)

\* One more place counts one more bit.
LEMMA CountOn ==
  ASSUME NEW S, NEW k \in Nat
  PROVE  Cardinality({i \in 0..k : i \in S}) =
           Cardinality({i \in 0..k-1 : i \in S}) + Bit(S, k)
<1> DEFINE T == {i \in 0..k-1 : i \in S}
<1>1. IsFiniteSet(T)
  <2>1. T \in SUBSET Nat /\ \A i \in T : i <= k
    OBVIOUS
  <2> HIDE DEF T
  <2> QED
    BY <2>1, FS_BoundedSetOfNaturals
<1>2. CASE k \in S
  <2>1. {i \in 0..k : i \in S} = T \cup {k} /\ k \notin T
    BY <1>2
  <2>2. Cardinality(T \cup {k}) = Cardinality(T) + 1
    <3> HIDE DEF T
    <3> QED
      BY <1>1, <2>1, FS_AddElement
  <2> QED
    BY <1>2, <2>1, <2>2 DEF Bit
<1>3. CASE k \notin S
  <2>1. {i \in 0..k : i \in S} = T
    BY <1>3
  <2>2. Cardinality(T) \in Nat
    <3> HIDE DEF T
    <3> QED
      BY <1>1, FS_CardinalityType
  <2> HIDE DEF T
  <2> QED
    BY <1>3, <2>1, <2>2 DEF Bit
<1> QED
  BY <1>2, <1>3

LEMMA Counted ==
  ASSUME NEW S
  PROVE  Cardinality({i \in 0..9 : i \in S}) = Count(S)
<1> DEFINE C(k) == Cardinality({i \in 0..k-1 : i \in S})
<1>1. \A k \in Nat : C(k + 1) = C(k) + Bit(S, k)
  <2>1. \A k \in Nat : (k + 1) - 1 = k
    OBVIOUS
  <2>2. \A k \in Nat : C(k + 1) = Cardinality({i \in 0..k : i \in S})
    BY <2>1
  <2> QED
    BY <2>2, CountOn
<1>2. C(0) = 0
  <2>1. {i \in 0..0-1 : i \in S} = {}
    OBVIOUS
  <2> QED
    BY <2>1, FS_EmptySet
<1>3. C(10) = Cardinality({i \in 0..9 : i \in S})
  <2>1. 10 - 1 = 9
    OBVIOUS
  <2> QED
    BY <2>1
<1> HIDE DEF C
<1>4. /\ C(1) = C(0) + Bit(S, 0) /\ C(2) = C(1) + Bit(S, 1)
      /\ C(3) = C(2) + Bit(S, 2) /\ C(4) = C(3) + Bit(S, 3)
      /\ C(5) = C(4) + Bit(S, 4) /\ C(6) = C(5) + Bit(S, 5)
      /\ C(7) = C(6) + Bit(S, 6) /\ C(8) = C(7) + Bit(S, 7)
      /\ C(9) = C(8) + Bit(S, 8) /\ C(10) = C(9) + Bit(S, 9)
  <2> HIDE DEF Bit
  <2> QED
    BY <1>1
<1>5. \A k : Bit(S, k) \in Int
  BY DEF Bit
<1> QED
  BY <1>2, <1>3, <1>4, <1>5 DEF Count

\* A byte has eight bits.
LEMMA ByteBits ==
  ASSUME NEW byte \in 0..255
  PROVE  Ones(byte) \in SUBSET (0..7)
<1>1. byte \div 2^8 = 0 /\ byte \div 2^9 = 0
  <2>1. 2^8 = 256 /\ 2^9 = 512
    OBVIOUS
  <2> QED
    BY <2>1
<1>2. 8 \notin Ones(byte) /\ 9 \notin Ones(byte)
  BY <1>1 DEF Ones
<1>3. Ones(byte) \in SUBSET (0..9)
  BY DEF Ones
<1> QED
  BY <1>2, <1>3

LEMMA ControlBits ==
  /\ Ones(852) = {2, 4, 6, 8, 9}
  /\ Ones(171) = {0, 1, 3, 5, 7}
  /\ Ones(340) = {2, 4, 6, 8}
  /\ Ones(683) = {0, 1, 3, 5, 7, 9}
<1> DEFINE F(n, i) == (n \div 2^i) % 2
<1>1. \A n : Ones(n) = {i \in 0..9 : F(n, i) = 1}
  BY DEF Ones
<1>2. Ones(852) = {2, 4, 6, 8, 9}
  <2>1. /\ F(852, 0) = 0 /\ F(852, 1) = 0 /\ F(852, 2) = 1 /\ F(852, 3) = 0 /\ F(852, 4) = 1
        /\ F(852, 5) = 0 /\ F(852, 6) = 1 /\ F(852, 7) = 0 /\ F(852, 8) = 1 /\ F(852, 9) = 1
    OBVIOUS
  <2> HIDE DEF F
  <2> QED
    BY <1>1, <2>1
<1>3. Ones(171) = {0, 1, 3, 5, 7}
  <2>1. /\ F(171, 0) = 1 /\ F(171, 1) = 1 /\ F(171, 2) = 0 /\ F(171, 3) = 1 /\ F(171, 4) = 0
        /\ F(171, 5) = 1 /\ F(171, 6) = 0 /\ F(171, 7) = 1 /\ F(171, 8) = 0 /\ F(171, 9) = 0
    OBVIOUS
  <2> HIDE DEF F
  <2> QED
    BY <1>1, <2>1
<1>4. Ones(340) = {2, 4, 6, 8}
  <2>1. /\ F(340, 0) = 0 /\ F(340, 1) = 0 /\ F(340, 2) = 1 /\ F(340, 3) = 0 /\ F(340, 4) = 1
        /\ F(340, 5) = 0 /\ F(340, 6) = 1 /\ F(340, 7) = 0 /\ F(340, 8) = 1 /\ F(340, 9) = 0
    OBVIOUS
  <2> HIDE DEF F
  <2> QED
    BY <1>1, <2>1
<1>5. Ones(683) = {0, 1, 3, 5, 7, 9}
  <2>1. /\ F(683, 0) = 1 /\ F(683, 1) = 1 /\ F(683, 2) = 0 /\ F(683, 3) = 1 /\ F(683, 4) = 0
        /\ F(683, 5) = 1 /\ F(683, 6) = 0 /\ F(683, 7) = 1 /\ F(683, 8) = 0 /\ F(683, 9) = 1
    OBVIOUS
  <2> HIDE DEF F
  <2> QED
    BY <1>1, <2>1
<1> QED
  BY <1>2, <1>3, <1>4, <1>5

\* A difference of differences is one or is none.
LEMMA Differ ==
  ASSUME NEW f, NEW i, NEW j, NEW S, NEW c, f[i] = ((f[j] # (i \in S)) # c)
  PROVE  f[i] \in BOOLEAN
BY Zenon

\* The chain: each bit differs from the one before as the byte's bit says, or,
\* where flipped, as it does not.
LEMMA ChainBits ==
  ASSUME NEW byte
  PROVE  /\ Chain(byte) \in SUBSET (0..7)
         /\ (0 \in Chain(byte)) = (0 \in Ones(byte))
         /\ \A i \in 1..7 : (i \in Chain(byte)) =
              (((i - 1 \in Chain(byte)) # (i \in Ones(byte))) # XNOR(byte))
<1> DEFINE bits == Ones(byte)
           flip == XNOR(byte)
           V(g, i) == IF i = 0 THEN 0 \in bits ELSE (g[i - 1] # (i \in bits)) # flip
           h0 == 0 \in bits
           h1 == (h0 # (1 \in bits)) # flip
           h2 == (h1 # (2 \in bits)) # flip
           h3 == (h2 # (3 \in bits)) # flip
           h4 == (h3 # (4 \in bits)) # flip
           h5 == (h4 # (5 \in bits)) # flip
           h6 == (h5 # (6 \in bits)) # flip
           h7 == (h6 # (7 \in bits)) # flip
           g == [i \in 0..7 |-> CASE i = 0 -> h0 [] i = 1 -> h1 [] i = 2 -> h2
                                  [] i = 3 -> h3 [] i = 4 -> h4 [] i = 5 -> h5
                                  [] i = 6 -> h6 [] i = 7 -> h7]
<1>1. \A i \in 0..7 : g[i] = V(g, i)
  <2> HIDE DEF bits, flip
  <2>1. /\ g[0] = h0 /\ g[1] = h1 /\ g[2] = h2 /\ g[3] = h3
        /\ g[4] = h4 /\ g[5] = h5 /\ g[6] = h6 /\ g[7] = h7
    <3> HIDE DEF h0, h1, h2, h3, h4, h5, h6, h7
    <3> QED
      OBVIOUS
  <2> HIDE DEF g
  <2>2. \A i \in 0..7 : i \in {0, 1, 2, 3, 4, 5, 6, 7}
    OBVIOUS
  <2>3. /\ g[1] = V(g, 1) /\ g[2] = V(g, 2) /\ g[3] = V(g, 3) /\ g[4] = V(g, 4)
        /\ g[5] = V(g, 5) /\ g[6] = V(g, 6) /\ g[7] = V(g, 7) /\ g[0] = V(g, 0)
    BY <2>1
  <2> HIDE DEF V
  <2> QED
    BY <2>2, <2>3
<1>2. g = [i \in 0..7 |-> V(g, i)]
  <2>1. g = [i \in 0..7 |-> g[i]]
    OBVIOUS
  <2> HIDE DEF g, V
  <2> QED
    BY <1>1, <2>1
<1> DEFINE bit == CHOOSE f : f = [i \in 0..7 |-> V(f, i)]
<1>3. bit = [i \in 0..7 |-> V(bit, i)]
  <2>1. \E f : f = [i \in 0..7 |-> V(f, i)]
    <3> HIDE DEF g, V
    <3> QED
      BY <1>2
  <2> HIDE DEF V
  <2> QED
    BY <2>1, Zenon
<1>4. Chain(byte) = {i \in 0..7 : bit[i]}
  BY DEF Chain
<1>5. \A i \in 0..7 : bit[i] = V(bit, i)
  <2> HIDE DEF bit, V
  <2> QED
    BY <1>3
<1>13. \A i : i # 0 => V(bit, i) = ((bit[i - 1] # (i \in bits)) # flip)
  <2> HIDE DEF bit, bits, flip
  <2> QED
    BY Zenon
<1>6. ASSUME NEW i \in 0..7
      PROVE  bit[i] \in BOOLEAN
  <2> HIDE DEF bit
  <2>1. CASE i = 0
    <3>1. bit[i] = (0 \in bits)
      BY <1>5, <2>1
    <3> HIDE DEF bits
    <3> QED
      BY <3>1
  <2>2. CASE i # 0
    <3>1. bit[i] = ((bit[i - 1] # (i \in bits)) # flip)
      <4> HIDE DEF V
      <4> QED
        BY <1>5, <1>13, <2>2, Zenon
    <3> HIDE DEF bits, flip
    <3> QED
      BY <3>1, Differ
  <2> QED
    BY <2>1, <2>2
<1>7. ASSUME NEW i \in 0..7
      PROVE  bit[i] = (i \in Chain(byte))
  <2> HIDE DEF bit
  <2>1. i \in Chain(byte) <=> bit[i]
    BY <1>4
  <2>2. bit[i] \in BOOLEAN
    BY <1>6
  <2> QED
    BY <2>1, <2>2
<1>8. \A i \in 1..7 : i \in 0..7 /\ i - 1 \in 0..7 /\ i # 0
  OBVIOUS
<1>9. 0 \in 0..7
  OBVIOUS
<1> HIDE DEF bit
<1>10. Chain(byte) \in SUBSET (0..7)
  BY <1>4
<1>11. (0 \in Chain(byte)) = (0 \in Ones(byte))
  <2>1. bit[0] = (0 \in Ones(byte))
    BY <1>5, <1>9
  <2>2. bit[0] = (0 \in Chain(byte))
    BY <1>7, <1>9
  <2> QED
    BY <2>1, <2>2, Zenon
<1>12. ASSUME NEW i \in 1..7
       PROVE  (i \in Chain(byte)) =
                (((i - 1 \in Chain(byte)) # (i \in Ones(byte))) # XNOR(byte))
  <2>1. bit[i] = ((bit[i - 1] # (i \in Ones(byte))) # XNOR(byte))
    <3> HIDE DEF V, XNOR
    <3> QED
      BY <1>5, <1>8, <1>13, Zenon
  <2>2. bit[i] = (i \in Chain(byte)) /\ bit[i - 1] = (i - 1 \in Chain(byte))
    BY <1>7, <1>8
  <2> QED
    BY <2>1, <2>2, Zenon
<1> QED
  BY <1>10, <1>11, <1>12

-----------------------------------------------------------------------------
(* What a receiver makes of a word. *)

\* A word that is not inverted: the chain, and a bit that says how it was made.
LEMMA WordOf ==
  ASSUME NEW byte
  PROVE  /\ q_m(byte) \in SUBSET (0..8)
         /\ \A i \in 0..7 : (i \in q_m(byte)) = (i \in Chain(byte))
         /\ 8 \in q_m(byte) <=> ~XNOR(byte)
<1>1. Chain(byte) \in SUBSET (0..7)
  BY ChainBits
<1> QED
  BY <1>1 DEF q_m

\* Each bit of the word that is sent.
LEMMA SentBits ==
  ASSUME NEW q, q \in SUBSET (0..8)
  PROVE  /\ TMDS_data(q) \in SUBSET (0..9)
         /\ 9 \in TMDS_data(q) <=> invert_q_m(q)
         /\ 8 \in TMDS_data(q) <=> 8 \in q
         /\ \A i \in 0..7 : i \in TMDS_data(q) <=> IF invert_q_m(q) THEN i \notin q ELSE i \in q
<1> HIDE DEF invert_q_m
<1>1. CASE invert_q_m(q)
  BY <1>1 DEF TMDS_data
<1>2. CASE ~invert_q_m(q)
  BY <1>2 DEF TMDS_data
<1> QED
  BY <1>1, <1>2

\* The inversion is undone by bit 9, the chain by bit 8.
LEMMA ByteDecoded ==
  ASSUME NEW byte \in Bytes
  PROVE  Decoded(TMDS_data(q_m(byte))) = Ones(byte)
<1> DEFINE q == q_m(byte)
           word == TMDS_data(q)
           Q == IF 9 \in word THEN 0..7 \ word ELSE word
<1>1. Ones(byte) \in SUBSET (0..7)
  BY EncoderAssumption, ByteBits DEF EncoderAssumption
<1>2. /\ q \in SUBSET (0..8)
      /\ \A i \in 0..7 : (i \in q) = (i \in Chain(byte))
      /\ 8 \in q <=> ~XNOR(byte)
  BY WordOf
<1>3. /\ 9 \in word <=> invert_q_m(q)
      /\ 8 \in word <=> 8 \in q
      /\ \A i \in 0..7 : i \in word <=> IF invert_q_m(q) THEN i \notin q ELSE i \in q
  <2> HIDE DEF q
  <2> QED
    BY <1>2, SentBits
<1> HIDE DEF q, word
<1>4. \A i \in 0..7 : i \in Q <=> i \in Chain(byte)
  BY <1>2, <1>3
<1>5. 8 \notin word <=> XNOR(byte)
  BY <1>2, <1>3
<1>6. /\ (0 \in Chain(byte)) = (0 \in Ones(byte))
      /\ \A i \in 1..7 : (i \in Chain(byte)) =
           (((i - 1 \in Chain(byte)) # (i \in Ones(byte))) # XNOR(byte))
  BY ChainBits
<1>7. Decoded(word) = {i \in 0..7 : IF i = 0 THEN 0 \in Q
                                    ELSE ((i \in Q) # (i - 1 \in Q)) # (8 \notin word)}
  BY DEF Decoded
<1> HIDE DEF Q
<1>8. 0 \in Q <=> 0 \in Ones(byte)
  <2>1. 0 \in 0..7
    OBVIOUS
  <2> QED
    BY <1>4, <1>6, <2>1
<1>9. ASSUME NEW i \in 1..7
      PROVE  (((i \in Q) # (i - 1 \in Q)) # (8 \notin word)) <=> i \in Ones(byte)
  <2>1. /\ i \in Q <=> i \in Chain(byte)
        /\ i - 1 \in Q <=> i - 1 \in Chain(byte)
    BY <1>4
  <2>2. i \in Chain(byte) <=> (((i - 1 \in Chain(byte)) # (i \in Ones(byte))) # XNOR(byte))
    BY <1>6
  <2>3. XNOR(byte) \in BOOLEAN
    BY DEF XNOR
  <2> QED
    BY <1>5, <2>1, <2>2, <2>3
<1>10. \A i \in 0..7 : i \in Decoded(word) <=> i \in Ones(byte)
  <2> TAKE i \in 0..7
  <2>1. CASE i = 0
    BY <1>7, <1>8, <2>1
  <2>2. CASE i # 0
    <3>1. i \in 1..7
      BY <2>2
    <3> QED
      BY <1>7, <1>9, <2>2, <3>1
  <2> QED
    BY <2>1, <2>2
<1>11. Decoded(word) = {i \in 0..7 : i \in Decoded(word)}
  BY <1>7
<1>12. Ones(byte) = {i \in 0..7 : i \in Ones(byte)}
  BY <1>1
<1>13. Decoded(word) = Ones(byte)
  BY <1>10, <1>11, <1>12
<1> QED
  BY <1>13 DEF q, word

\* How often the neighbours among the eight bits of data differ: at most three times.
LEMMA ChainChanges ==
  ASSUME NEW byte \in Bytes
  PROVE  LET Change(i) == IF (i \in Chain(byte)) # (i + 1 \in Chain(byte)) THEN 1 ELSE 0
         IN  Change(0) + Change(1) + Change(2) + Change(3) + Change(4) + Change(5)
               + Change(6) <= 3
<1> DEFINE bits == Ones(byte)
           Change(i) == IF (i \in Chain(byte)) # (i + 1 \in Chain(byte)) THEN 1 ELSE 0
<1>1. bits = {i \in 0..9 : i \in bits} /\ 8 \notin bits /\ 9 \notin bits
  <2>1. Ones(byte) \in SUBSET (0..7)
    BY EncoderAssumption, ByteBits DEF EncoderAssumption
  <2> QED
    BY <2>1
<1>2. Nb1s(byte) = Count(bits)
  BY <1>1, Counted DEF Nb1s
<1>3. ASSUME NEW i \in 0..6
      PROVE  Change(i) = IF XNOR(byte) THEN 1 - Bit(bits, i + 1) ELSE Bit(bits, i + 1)
  <2>1. i + 1 \in 1..7 /\ (i + 1) - 1 = i
    OBVIOUS
  <2>2. i + 1 \in Chain(byte) <=> (((i \in Chain(byte)) # (i + 1 \in bits)) # XNOR(byte))
    BY <2>1, ChainBits
  <2>3. XNOR(byte) \in BOOLEAN
    BY DEF XNOR
  <2> QED
    BY <2>2, <2>3 DEF Bit
<1>4. \A i : Bit(bits, i) \in 0..1
  BY DEF Bit
<1>5. Bit(bits, 8) = 0 /\ Bit(bits, 9) = 0
  BY <1>1 DEF Bit
<1>6. XNOR(byte) <=> Nb1s(byte) > 4 \/ (Nb1s(byte) = 4 /\ Bit(bits, 0) = 0)
  BY DEF XNOR, Bit
<1>7. /\ Change(0) = IF XNOR(byte) THEN 1 - Bit(bits, 1) ELSE Bit(bits, 1)
      /\ Change(1) = IF XNOR(byte) THEN 1 - Bit(bits, 2) ELSE Bit(bits, 2)
      /\ Change(2) = IF XNOR(byte) THEN 1 - Bit(bits, 3) ELSE Bit(bits, 3)
      /\ Change(3) = IF XNOR(byte) THEN 1 - Bit(bits, 4) ELSE Bit(bits, 4)
      /\ Change(4) = IF XNOR(byte) THEN 1 - Bit(bits, 5) ELSE Bit(bits, 5)
      /\ Change(5) = IF XNOR(byte) THEN 1 - Bit(bits, 6) ELSE Bit(bits, 6)
      /\ Change(6) = IF XNOR(byte) THEN 1 - Bit(bits, 7) ELSE Bit(bits, 7)
  <2> HIDE DEF Change, bits
  <2> QED
    BY <1>3
<1> HIDE DEF Change, bits
<1>8. Change(0) + Change(1) + Change(2) + Change(3) + Change(4) + Change(5) + Change(6) <= 3
  BY <1>2, <1>4, <1>5, <1>6, <1>7 DEF Count
<1> QED
  BY <1>8 DEF Change

\* Inverting does not change that, and the two last bits add two changes at most.
LEMMA FewTransitions ==
  ASSUME NEW byte \in Bytes
  PROVE  Transitions(TMDS_data(q_m(byte))) <= 5
<1> DEFINE q == q_m(byte)
           word == TMDS_data(q)
           changes == {i \in 0..8 : (i \in word) # (i + 1 \in word)}
           Change(i) == IF (i \in Chain(byte)) # (i + 1 \in Chain(byte)) THEN 1 ELSE 0
<1>1. /\ q \in SUBSET (0..8)
      /\ \A i \in 0..7 : (i \in q) = (i \in Chain(byte))
  BY WordOf
<1>2. \A i \in 0..7 : i \in word <=> IF invert_q_m(q) THEN i \notin q ELSE i \in q
  <2> HIDE DEF q
  <2> QED
    BY <1>1, SentBits
<1> HIDE DEF q, word
<1>3. ASSUME NEW i \in 0..6
      PROVE  Bit(changes, i) = Change(i)
  <2>1. i \in 0..7 /\ i + 1 \in 0..7 /\ i \in 0..8
    OBVIOUS
  <2>2. i \in changes <=> ((i \in word) # (i + 1 \in word))
    BY <2>1
  <2>3. ((i \in word) # (i + 1 \in word)) <=> ((i \in Chain(byte)) # (i + 1 \in Chain(byte)))
    BY <1>1, <1>2, <2>1
  <2> HIDE DEF changes
  <2> QED
    BY <2>2, <2>3 DEF Bit
<1>4. \A i : Bit(changes, i) \in 0..1
  BY DEF Bit
<1>5. Bit(changes, 9) = 0 /\ changes = {i \in 0..9 : i \in changes}
  <2>1. 9 \notin changes
    OBVIOUS
  <2>2. changes = {i \in 0..9 : i \in changes}
    OBVIOUS
  <2> HIDE DEF changes
  <2> QED
    BY <2>1, <2>2 DEF Bit
<1>6. Transitions(word) = Cardinality(changes)
  BY DEF Transitions
<1>7. Cardinality(changes) = Count(changes)
  <2> HIDE DEF changes
  <2> QED
    BY <1>5, Counted
<1>8. Change(0) + Change(1) + Change(2) + Change(3) + Change(4) + Change(5) + Change(6) <= 3
  BY ChainChanges
<1>9. /\ Bit(changes, 0) = Change(0) /\ Bit(changes, 1) = Change(1)
      /\ Bit(changes, 2) = Change(2) /\ Bit(changes, 3) = Change(3)
      /\ Bit(changes, 4) = Change(4) /\ Bit(changes, 5) = Change(5)
      /\ Bit(changes, 6) = Change(6)
  <2> HIDE DEF changes, Change
  <2> QED
    BY <1>3
<1> HIDE DEF changes, Change
<1>10. Transitions(word) <= 5
  BY <1>4, <1>5, <1>6, <1>7, <1>8, <1>9 DEF Count
<1> QED
  BY <1>10 DEF q, word

\* A control word changes at seven places at least.
LEMMA ManyTransitions ==
  ASSUME NEW CD \in 0..3
  PROVE  Transitions(TMDS_code(CD)) >= 7
<1>1. Transitions(TMDS_code(0)) >= 7
  <2> DEFINE word == {2, 4, 6, 8, 9}
             changes == {i \in 0..8 : (i \in word) # (i + 1 \in word)}
  <2>1. TMDS_code(0) = word
    BY ControlBits DEF TMDS_code
  <2>2. changes = {1, 2, 3, 4, 5, 6, 7}
    OBVIOUS
  <2> HIDE DEF word
  <2>3. Transitions(word) = Cardinality(changes)
    BY DEF Transitions
  <2> HIDE DEF changes
  <2>4. changes = {i \in 0..9 : i \in changes}
    BY <2>2
  <2>5. Cardinality(changes) = Count(changes)
    BY <2>4, Counted
  <2>6. Count(changes) >= 7
    BY <2>2 DEF Count, Bit
  <2> QED
    BY <2>1, <2>3, <2>5, <2>6
<1>2. Transitions(TMDS_code(1)) >= 7
  <2> DEFINE word == {0, 1, 3, 5, 7}
             changes == {i \in 0..8 : (i \in word) # (i + 1 \in word)}
  <2>1. TMDS_code(1) = word
    BY ControlBits DEF TMDS_code
  <2>2. changes = {1, 2, 3, 4, 5, 6, 7}
    OBVIOUS
  <2> HIDE DEF word
  <2>3. Transitions(word) = Cardinality(changes)
    BY DEF Transitions
  <2> HIDE DEF changes
  <2>4. changes = {i \in 0..9 : i \in changes}
    BY <2>2
  <2>5. Cardinality(changes) = Count(changes)
    BY <2>4, Counted
  <2>6. Count(changes) >= 7
    BY <2>2 DEF Count, Bit
  <2> QED
    BY <2>1, <2>3, <2>5, <2>6
<1>3. Transitions(TMDS_code(2)) >= 7
  <2> DEFINE word == {2, 4, 6, 8}
             changes == {i \in 0..8 : (i \in word) # (i + 1 \in word)}
  <2>1. TMDS_code(2) = word
    BY ControlBits DEF TMDS_code
  <2>2. changes = {1, 2, 3, 4, 5, 6, 7, 8}
    OBVIOUS
  <2> HIDE DEF word
  <2>3. Transitions(word) = Cardinality(changes)
    BY DEF Transitions
  <2> HIDE DEF changes
  <2>4. changes = {i \in 0..9 : i \in changes}
    BY <2>2
  <2>5. Cardinality(changes) = Count(changes)
    BY <2>4, Counted
  <2>6. Count(changes) >= 7
    BY <2>2 DEF Count, Bit
  <2> QED
    BY <2>1, <2>3, <2>5, <2>6
<1>4. Transitions(TMDS_code(3)) >= 7
  <2> DEFINE word == {0, 1, 3, 5, 7, 9}
             changes == {i \in 0..8 : (i \in word) # (i + 1 \in word)}
  <2>1. TMDS_code(3) = word
    BY ControlBits DEF TMDS_code
  <2>2. changes = {1, 2, 3, 4, 5, 6, 7, 8}
    OBVIOUS
  <2> HIDE DEF word
  <2>3. Transitions(word) = Cardinality(changes)
    BY DEF Transitions
  <2> HIDE DEF changes
  <2>4. changes = {i \in 0..9 : i \in changes}
    BY <2>2
  <2>5. Cardinality(changes) = Count(changes)
    BY <2>4, Counted
  <2>6. Count(changes) >= 7
    BY <2>2 DEF Count, Bit
  <2> QED
    BY <2>1, <2>3, <2>5, <2>6
<1> QED
  BY <1>1, <1>2, <1>3, <1>4

-----------------------------------------------------------------------------
(* The account. *)

Signed(b) == IF Negative(b) THEN b - 16 ELSE b

\* The balance is between four ones too many and four too few.
Account == (0..4) \cup (12..15)

\* What a word adds to the account is what it adds to the line.
LEMMA AccountKept ==
  ASSUME NEW q, q \in SUBSET (0..8), balance_acc \in Account
  PROVE  /\ balance_acc_new(q) \in Account
         /\ Cardinality(TMDS_data(q)) - 5 = Signed(balance_acc_new(q)) - Signed(balance_acc)
<1> DEFINE n == Cardinality(q \ {8})
           m == Cardinality(TMDS_data(q))
<1>1. n = Bit(q, 0) + Bit(q, 1) + Bit(q, 2) + Bit(q, 3) + Bit(q, 4) + Bit(q, 5)
            + Bit(q, 6) + Bit(q, 7)
  <2> DEFINE S == q \ {8}
  <2>0. S \in SUBSET (0..9)
    OBVIOUS
  <2>1. S = {i \in 0..9 : i \in S}
    <3> HIDE DEF S
    <3> QED
      BY <2>0
  <2>2. Cardinality(S) = Count(S)
    <3> HIDE DEF S
    <3> QED
      BY <2>1, Counted
  <2>3. \A i \in 0..7 : Bit(S, i) = Bit(q, i)
    BY DEF Bit
  <2>4. Bit(S, 8) = 0 /\ Bit(S, 9) = 0
    BY DEF Bit
  <2>5. \A i : Bit(S, i) \in 0..1
    BY DEF Bit
  <2> HIDE DEF S, Bit
  <2>6. /\ Bit(S, 0) = Bit(q, 0) /\ Bit(S, 1) = Bit(q, 1) /\ Bit(S, 2) = Bit(q, 2)
        /\ Bit(S, 3) = Bit(q, 3) /\ Bit(S, 4) = Bit(q, 4) /\ Bit(S, 5) = Bit(q, 5)
        /\ Bit(S, 6) = Bit(q, 6) /\ Bit(S, 7) = Bit(q, 7)
    BY <2>3
  <2>7. Cardinality(S) = Bit(q, 0) + Bit(q, 1) + Bit(q, 2) + Bit(q, 3) + Bit(q, 4)
                           + Bit(q, 5) + Bit(q, 6) + Bit(q, 7)
    BY <2>2, <2>4, <2>5, <2>6 DEF Count
  <2> QED
    BY <2>7 DEF S
<1>2. \A i : Bit(q, i) \in 0..1
  BY DEF Bit
<1>3. n \in 0..8
  <2> HIDE DEF n
  <2> QED
    BY <1>1, <1>2
<1>4. m = (IF invert_q_m(q) THEN 9 - n ELSE n) + Bit(q, 8)
  <2> DEFINE S == TMDS_data(q)
  <2>1. /\ S \in SUBSET (0..9)
        /\ 9 \in S <=> invert_q_m(q)
        /\ 8 \in S <=> 8 \in q
        /\ \A i \in 0..7 : i \in S <=> IF invert_q_m(q) THEN i \notin q ELSE i \in q
    BY SentBits
  <2> HIDE DEF S
  <2>2. Cardinality(S) = Count(S)
    <3>1. S = {i \in 0..9 : i \in S}
      BY <2>1
    <3> QED
      BY <3>1, Counted
  <2>3. Bit(S, 8) = Bit(q, 8) /\ Bit(S, 9) = IF invert_q_m(q) THEN 1 ELSE 0
    BY <2>1 DEF Bit
  <2>4. \A i \in 0..7 : Bit(S, i) = IF invert_q_m(q) THEN 1 - Bit(q, i) ELSE Bit(q, i)
    <3> HIDE DEF invert_q_m
    <3> QED
      BY <2>1 DEF Bit
  <2> HIDE DEF Bit, invert_q_m
  <2>5. \A i \in {0, 1, 2, 3, 4, 5, 6, 7} :
          Bit(S, i) = IF invert_q_m(q) THEN 1 - Bit(q, i) ELSE Bit(q, i)
    BY <2>4
  <2> HIDE DEF n
  <2>6. CASE invert_q_m(q)
    <3>1. /\ Bit(S, 0) = 1 - Bit(q, 0) /\ Bit(S, 1) = 1 - Bit(q, 1)
          /\ Bit(S, 2) = 1 - Bit(q, 2) /\ Bit(S, 3) = 1 - Bit(q, 3)
          /\ Bit(S, 4) = 1 - Bit(q, 4) /\ Bit(S, 5) = 1 - Bit(q, 5)
          /\ Bit(S, 6) = 1 - Bit(q, 6) /\ Bit(S, 7) = 1 - Bit(q, 7)
      BY <2>5, <2>6
    <3> QED
      BY <1>1, <1>2, <2>2, <2>3, <2>6, <3>1 DEF Count, S
  <2>7. CASE ~invert_q_m(q)
    <3>1. /\ Bit(S, 0) = Bit(q, 0) /\ Bit(S, 1) = Bit(q, 1) /\ Bit(S, 2) = Bit(q, 2)
          /\ Bit(S, 3) = Bit(q, 3) /\ Bit(S, 4) = Bit(q, 4) /\ Bit(S, 5) = Bit(q, 5)
          /\ Bit(S, 6) = Bit(q, 6) /\ Bit(S, 7) = Bit(q, 7)
      BY <2>5, <2>7
    <3> QED
      BY <1>1, <1>2, <2>2, <2>3, <2>7, <3>1 DEF Count, S
  <2> QED
    BY <2>6, <2>7
<1>5. balance(q) = (n - 4) % 16
  BY DEF balance, FourBits
<1>6. Bit(q, 8) = IF 8 \in q THEN 1 ELSE 0
  BY DEF Bit
<1> DEFINE acc == Signed(balance_acc)
           d == n - 4
<1>7. /\ acc \in -4..4 /\ d \in -4..4
      /\ balance_acc = acc % 16
      /\ Negative(balance_acc) <=> acc < 0
      /\ balance_acc = 0 <=> acc = 0
      /\ Negative(balance(q)) <=> d < 0
      /\ balance(q) = 0 <=> d = 0
      /\ balance(q) \in 0..15
  <2> HIDE DEF n
  <2> QED
    BY <1>3, <1>5 DEF Account, Signed, Negative
<1>8. /\ Balanced(q) <=> acc = 0 \/ d = 0
      /\ SameSign(q) <=> (acc < 0 <=> d < 0)
  <2> HIDE DEF acc, d
  <2> QED
    BY <1>7 DEF Balanced, SameSign, Negative
<1>9. invert_q_m(q) <=> IF Balanced(q) THEN 8 \notin q ELSE SameSign(q)
  BY DEF invert_q_m
<1> DEFINE e == IF ~Balanced(q) /\ ((8 \in q) = SameSign(q)) THEN 1 ELSE 0
           new == IF invert_q_m(q) THEN acc - (d - e) ELSE acc + (d - e)
<1>10. new \in -4..4 /\ m - 5 = new - acc /\ e \in 0..1
  <2>1. SameSign(q) \in BOOLEAN
    BY DEF SameSign
  <2>2. n = d + 4
    <3> HIDE DEF n
    <3> QED
      BY <1>3
  <2> HIDE DEF n, m, acc, d, Bit, Balanced, SameSign, invert_q_m
  <2>3. e = IF ~Balanced(q) /\ (8 \in q <=> SameSign(q)) THEN 1 ELSE 0
    BY <2>1
  <2> HIDE DEF e
  <2> QED
    BY <1>4, <1>6, <1>7, <1>8, <1>9, <2>2, <2>3
<1>11. balance_acc_inc(q) = (d - e) % 16
  <2>1. balance_acc_inc(q) = (balance(q) - e) % 16
    BY <1>7 DEF balance_acc_inc, FourBits
  <2>2. balance(q) = d % 16
    BY <1>5
  <2> HIDE DEF d, e
  <2> QED
    BY <1>7, <1>10, <2>1, <2>2
<1>12. balance_acc_new(q) = new % 16
  <2>1. balance_acc_new(q) = (IF invert_q_m(q) THEN balance_acc - balance_acc_inc(q)
                                               ELSE balance_acc + balance_acc_inc(q)) % 16
    BY DEF balance_acc_new, FourBits
  <2> HIDE DEF d, e, acc, invert_q_m
  <2> QED
    BY <1>7, <1>10, <1>11, <2>1
<1>13. balance_acc_new(q) \in Account /\ Signed(balance_acc_new(q)) = new
  <2> HIDE DEF new
  <2> QED
    BY <1>10, <1>12 DEF Account, Signed, Negative
<1> QED
  BY <1>10, <1>13

-----------------------------------------------------------------------------

\* The inductive invariant of the encoder.
EncoderInv == balance_acc \in Account /\ EncodingTrue

LEMMA EncodeByteKeeps ==
  ASSUME EncoderInv, NEW byte \in Bytes, EncodeByte(byte)
  PROVE  EncoderInv'
<1> DEFINE q == q_m(byte)
           word == TMDS_data(q)
<1>1. /\ TMDS' = word /\ balance_acc' = balance_acc_new(q) /\ input' = Byte(byte)
      /\ disparity' = disparity + 2 * Cardinality(TMDS') - 10
  BY DEF EncodeByte
<1>2. q \in SUBSET (0..8)
  BY WordOf
<1>3. /\ balance_acc \in Account /\ disparity = 2 * Signed(balance_acc)
  BY DEF EncoderInv, EncodingTrue, AccountIsTrue, Signed
<1>4. /\ balance_acc' \in Account
      /\ Cardinality(word) - 5 = Signed(balance_acc') - Signed(balance_acc)
  <2> HIDE DEF q
  <2> QED
    BY <1>1, <1>2, <1>3, AccountKept
<1>5. Cardinality(word) \in Int
  <2>1. IsFiniteSet(word)
    <3> DEFINE places == 0..9
    <3>1. word \in SUBSET places
      <4> HIDE DEF q
      <4> QED
        BY <1>2, SentBits
    <3>2. IsFiniteSet(places)
      <4>1. places \in SUBSET Nat /\ \A i \in places : i <= 9
        OBVIOUS
      <4> HIDE DEF places
      <4> QED
        BY <4>1, FS_BoundedSetOfNaturals
    <3> HIDE DEF word, places
    <3> QED
      BY <3>1, <3>2, FS_Subset
  <2> QED
    BY <2>1, FS_CardinalityType
<1>6. disparity' = 2 * Signed(balance_acc')
  <2>1. Signed(balance_acc) \in Int /\ Signed(balance_acc') \in Int
    BY <1>3, <1>4 DEF Account, Signed
  <2> HIDE DEF word
  <2> QED
    BY <1>1, <1>3, <1>4, <1>5, <2>1
<1>7. input'.VDE /\ input'.VD = byte
  BY <1>1 DEF Byte
<1>8. Decoded(TMDS') = Ones(byte)
  BY <1>1, ByteDecoded
<1>9. Transitions(TMDS') <= 5
  BY <1>1, FewTransitions
<1> HIDE DEF word, q
<1>10. AccountIsTrue'
  BY <1>6 DEF AccountIsTrue, Signed
<1>11. Decodable'
  BY <1>7, <1>8 DEF Decodable
<1>12. Distinguishable'
  BY <1>7, <1>9 DEF Distinguishable
<1> QED
  BY <1>4, <1>10, <1>11, <1>12 DEF EncoderInv, EncodingTrue, WordsUnderstood

LEMMA EncodeControlKeeps ==
  ASSUME NEW CD \in 0..3, EncodeControl(CD)
  PROVE  EncoderInv'
<1>1. /\ TMDS' = TMDS_code(CD) /\ balance_acc' = 0 /\ input' = Control(CD)
      /\ disparity' = 0
  BY DEF EncodeControl
<1>2. ~input'.VDE
  BY <1>1 DEF Control
<1>3. Transitions(TMDS') >= 7
  BY <1>1, ManyTransitions
<1>4. balance_acc' \in Account /\ AccountIsTrue'
  BY <1>1 DEF Account, AccountIsTrue, Negative
<1>5. Decodable'
  BY <1>2 DEF Decodable
<1>6. Distinguishable'
  BY <1>2, <1>3 DEF Distinguishable
<1> QED
  BY <1>4, <1>5, <1>6 DEF EncoderInv, EncodingTrue, WordsUnderstood

LEMMA EncoderInductive == EncoderSpec => []EncoderInv
<1>1. EncoderInit => EncoderInv
  <2> SUFFICES ASSUME EncoderInit
               PROVE  EncoderInv
    OBVIOUS
  <2>1. balance_acc \in Account /\ AccountIsTrue
    BY DEF EncoderInit, Account, AccountIsTrue, Negative
  <2>2. WordsUnderstood
    BY DEF EncoderInit, Control, WordsUnderstood, Decodable, Distinguishable
  <2> QED
    BY <2>1, <2>2 DEF EncoderInv, EncodingTrue
<1>2. EncoderInv /\ [EncoderNext]_encoderVars => EncoderInv'
  <2> SUFFICES ASSUME EncoderInv, [EncoderNext]_encoderVars
               PROVE  EncoderInv'
    OBVIOUS
  <2>1. ASSUME NEW byte \in Bytes, EncodeByte(byte)
        PROVE  EncoderInv'
    BY <2>1, EncodeByteKeeps
  <2>2. ASSUME NEW CD \in 0..3, EncodeControl(CD)
        PROVE  EncoderInv'
    BY <2>2, EncodeControlKeeps
  <2>3. CASE UNCHANGED encoderVars
    BY <2>3 DEF encoderVars, EncoderInv, EncodingTrue, WordsUnderstood, Decodable,
                Distinguishable, AccountIsTrue
  <2> QED
    BY <2>1, <2>2, <2>3 DEF EncoderNext
<1> QED
  BY <1>1, <1>2, PTL DEF EncoderSpec

\* A receiver gets every byte of the picture back and can tell it from control by
\* counting transitions, and four bits are enough for the account of ones and
\* zeros (TMDS_encoder).
THEOREM EncodingAlwaysTrue == EncoderSpec => []EncodingTrue
<1>1. EncoderInv => EncodingTrue
  BY DEF EncoderInv
<1> QED
  BY <1>1, EncoderInductive, PTL
=============================================================================
