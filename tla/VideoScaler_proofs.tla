-------------------------- MODULE VideoScaler_proofs --------------------------
(***************************************************************************)
(* Theorems about the video scaler, for images of every size and every     *)
(* number of copies ScalerAssumption allows.                               *)
(***************************************************************************)
EXTENDS VideoScaler, SequenceTheorems, TLAPS

-----------------------------------------------------------------------------
(* Arithmetic: a position of the enlarged frame is a pixel and a copy.     *)

\* Division with remainder.
LEMMA DivMod ==
  ASSUME NEW k \in Nat \ {0}, NEW c \in Nat
  PROVE  /\ c \div k \in Nat /\ c % k \in 0..k-1
         /\ c = k * (c \div k) + (c % k)
OBVIOUS

\* Multiples of k are at least k apart.
LEMMA Multiples ==
  ASSUME NEW k \in Nat \ {0}, NEW a \in Int, NEW b \in Int, a < b
  PROVE  k * a + k <= k * b
OBVIOUS

\* Quotient and remainder are the only ones.
LEMMA DivModUnique ==
  ASSUME NEW k \in Nat \ {0}, NEW q \in Int, NEW r \in 0..k-1,
         NEW p \in Int, NEW s \in 0..k-1, k * q + r = k * p + s
  PROVE  q = p /\ r = s
<1> DEFINE kq == k * q
           kp == k * p
<1>1. kq \in Int /\ kp \in Int /\ kq + r = kp + s
  OBVIOUS
<1>2. (q < p => kq + k <= kp) /\ (p < q => kp + k <= kq)
  BY Multiples
<1> HIDE DEF kq, kp
<1>3. q = p
  BY <1>1, <1>2
<1> QED
  BY <1>1, <1>3 DEF kq, kp

\* The n * k positions of a direction in which n things are sent k times
\* each: the copies of a thing are next to each other and in order.
InCopies(n, k, c) ==
  /\ n * k \in Nat \ {0}
  /\ c \div k \in 0..n-1 /\ c % k \in 0..k-1
  /\ c = 0 <=> c \div k = 0 /\ c % k = 0
  /\ c = n*k - 1 <=> c \div k = n - 1 /\ c % k = k - 1
  /\ c # n*k - 1 /\ c % k # k - 1 =>
       (c + 1) \div k = c \div k /\ (c + 1) % k = (c % k) + 1
  /\ c # n*k - 1 /\ c % k = k - 1 =>
       (c + 1) \div k = (c \div k) + 1 /\ (c + 1) % k = 0

\* Every position of such a direction is one of these.
LEMMA Copies ==
  ASSUME NEW n \in Nat \ {0}, NEW k \in Nat \ {0}, NEW c \in 0..n*k-1
  PROVE  InCopies(n, k, c)
<1> DEFINE d == c \div k
           m == c % k
           e == (c + 1) \div k
           r == (c + 1) % k
           kd == k * d
           ke == k * e
           nk == n * k
<1>1. nk \in Nat \ {0} /\ nk = k * n
  OBVIOUS
<1>2. c \in Nat /\ c + 1 \in Nat
  BY <1>1
<1>3. /\ d \in Nat /\ m \in 0..k-1 /\ c = kd + m
      /\ e \in Nat /\ r \in 0..k-1 /\ c + 1 = ke + r
  BY <1>2, DivMod
<1>4. kd \in Nat /\ ke \in Nat /\ (d = 0 => kd = 0)
  BY <1>3
<1>5. /\ n <= d => nk <= kd
      /\ d < n - 1 => kd + k <= k * (n - 1)
      /\ d = n - 1 => kd = k * (n - 1)
      /\ 0 < d => k <= kd
  <2>1. n < d => nk + k <= kd
    BY <1>1, <1>3, Multiples
  <2>2. n = d => nk = kd
    BY <1>1
  <2>3. d < n - 1 => kd + k <= k * (n - 1)
    BY <1>3, Multiples
  <2>4. 0 < d => k * 0 + k <= kd
    BY <1>3, Multiples
  <2>5. k * 0 = 0 /\ (d = n - 1 => kd = k * (n - 1))
    OBVIOUS
  <2> HIDE DEF d, kd, nk
  <2> QED
    BY <1>1, <1>3, <1>4, <2>1, <2>2, <2>3, <2>4, <2>5
<1>6. k * (n - 1) = nk - k /\ k * (d + 1) = kd + k
  BY <1>1, <1>3
<1>7. m # k - 1 => e = d /\ r = m + 1
  <2> SUFFICES ASSUME m # k - 1 PROVE e = d /\ r = m + 1
    OBVIOUS
  <2>1. m + 1 \in 0..k-1 /\ ke + r = kd + (m + 1)
    BY <1>3, <1>4
  <2>2. k * e + r = k * d + (m + 1)
    BY <2>1
  <2> HIDE DEF e, d, r, m
  <2> QED
    BY <1>3, <2>1, <2>2, DivModUnique
<1>8. m = k - 1 => e = d + 1 /\ r = 0
  <2> SUFFICES ASSUME m = k - 1 PROVE e = d + 1 /\ r = 0
    OBVIOUS
  <2>1. k * e + r = k * (d + 1) + 0 /\ 0 \in 0..k-1 /\ d + 1 \in Int
    <3> HIDE DEF e, d, r, m
    <3> QED
      BY <1>3, <1>4, <1>6
  <2> HIDE DEF e, d, r, m
  <2> QED
    BY <1>3, <2>1, DivModUnique
<1> HIDE DEF d, m, e, r, kd, ke, nk
<1>9. k * (n - 1) \in Int
  OBVIOUS
<1>10. c \in 0..nk-1
  BY DEF nk
<1>11. d \in 0..n-1
  BY <1>1, <1>3, <1>4, <1>5, <1>10
<1>12. c = 0 <=> d = 0 /\ m = 0
  BY <1>3, <1>4, <1>5
<1>13. c = nk - 1 <=> d = n - 1 /\ m = k - 1
  BY <1>1, <1>3, <1>4, <1>5, <1>6, <1>9, <1>11
<1> QED
  BY <1>1, <1>3, <1>7, <1>8, <1>11, <1>12, <1>13 DEF d, m, e, r, nk, InCopies

-----------------------------------------------------------------------------
(* Places.  A copy has a row and a column of the enlarged frame; a word, on *)
(* its way to the copying of pixels, a row and a pixel.                    *)

Rows == LINES * HeightCopies
Columns == PIXELS * WidthCopies

LineOf(r) == r \div HeightCopies
CopyOf(r) == r % HeightCopies
PixelOf(c) == c \div WidthCopies
PartOf(c) == c % WidthCopies

Places == [row : 0..Rows-1, column : 0..Columns-1]
WordPlaces == [row : 0..Rows-1, pixel : 0..PIXELS-1]

RowAfter(r) == IF r # Rows - 1 THEN r + 1 ELSE 0
LineAfter(l) == IF l # LINES - 1 THEN l + 1 ELSE 0

Following(a) ==
  IF a.column # Columns - 1
  THEN [row |-> a.row, column |-> a.column + 1]
  ELSE [row |-> RowAfter(a.row), column |-> 0]

FollowingWord(w) ==
  IF w.pixel # PIXELS - 1
  THEN [row |-> w.row, pixel |-> w.pixel + 1]
  ELSE [row |-> RowAfter(w.row), pixel |-> 0]

WordAt(a) == [row |-> a.row, pixel |-> PixelOf(a.column)]

\* What the proofs use of the constants.
LEMMA Sizes ==
  /\ PIXELS \in Nat \ {0} /\ LINES \in Nat \ {0}
  /\ HeightCopies \in Nat \ {0, 1} /\ WidthCopies \in Nat \ {0, 1}
BY ScalerAssumption DEF ScalerAssumption

\* A row of the enlarged frame is one of the copies of a line.
LEMMA RowCopies ==
  ASSUME NEW r \in 0..Rows-1
  PROVE  /\ LineOf(r) \in 0..LINES-1 /\ CopyOf(r) \in 0..HeightCopies-1
         /\ RowAfter(r) \in 0..Rows-1
         /\ r = 0 <=> LineOf(r) = 0 /\ CopyOf(r) = 0
         /\ r = Rows-1 <=> LineOf(r) = LINES-1 /\ CopyOf(r) = HeightCopies-1
         /\ CopyOf(r) # HeightCopies-1 =>
              /\ LineOf(RowAfter(r)) = LineOf(r)
              /\ CopyOf(RowAfter(r)) = CopyOf(r) + 1
         /\ CopyOf(r) = HeightCopies-1 =>
              /\ LineOf(RowAfter(r)) = LineAfter(LineOf(r))
              /\ CopyOf(RowAfter(r)) = 0
<1>1. /\ LINES \in Nat \ {0} /\ HeightCopies \in Nat \ {0}
      /\ r \in 0..LINES*HeightCopies-1
  BY Sizes DEF Rows
<1>2. /\ Rows \in Nat \ {0}
      /\ LineOf(r) \in 0..LINES-1 /\ CopyOf(r) \in 0..HeightCopies-1
      /\ r = 0 <=> LineOf(r) = 0 /\ CopyOf(r) = 0
      /\ r = Rows-1 <=> LineOf(r) = LINES-1 /\ CopyOf(r) = HeightCopies-1
      /\ r # Rows-1 /\ CopyOf(r) # HeightCopies-1 =>
           LineOf(r + 1) = LineOf(r) /\ CopyOf(r + 1) = CopyOf(r) + 1
      /\ r # Rows-1 /\ CopyOf(r) = HeightCopies-1 =>
           LineOf(r + 1) = LineOf(r) + 1 /\ CopyOf(r + 1) = 0
  <2>1. InCopies(LINES, HeightCopies, r)
    BY <1>1, Copies
  <2> QED
    BY <2>1 DEF InCopies, Rows, LineOf, CopyOf
<1>3. LineOf(0) = 0 /\ CopyOf(0) = 0
  BY <1>1 DEF LineOf, CopyOf
<1> QED
  BY <1>1, <1>2, <1>3 DEF RowAfter, LineAfter

\* A column of the enlarged frame is one of the copies of a pixel.
LEMMA ColumnCopies ==
  ASSUME NEW c \in 0..Columns-1
  PROVE  /\ Columns \in Nat \ {0}
         /\ PixelOf(c) \in 0..PIXELS-1 /\ PartOf(c) \in 0..WidthCopies-1
         /\ c = 0 <=> PixelOf(c) = 0 /\ PartOf(c) = 0
         /\ c = Columns-1 <=> PixelOf(c) = PIXELS-1 /\ PartOf(c) = WidthCopies-1
         /\ c # Columns-1 /\ PartOf(c) # WidthCopies-1 =>
              PixelOf(c + 1) = PixelOf(c) /\ PartOf(c + 1) = PartOf(c) + 1
         /\ c # Columns-1 /\ PartOf(c) = WidthCopies-1 =>
              PixelOf(c + 1) = PixelOf(c) + 1 /\ PartOf(c + 1) = 0
<1>1. /\ PIXELS \in Nat \ {0} /\ WidthCopies \in Nat \ {0}
      /\ c \in 0..PIXELS*WidthCopies-1
  BY Sizes DEF Columns
<1>2. InCopies(PIXELS, WidthCopies, c)
  BY <1>1, Copies
<1> QED
  BY <1>2 DEF InCopies, Columns, PixelOf, PartOf

\* The enlarged frame is not empty.
LEMMA EnlargedSize ==
  /\ Rows \in Nat \ {0} /\ Columns \in Nat \ {0}
  /\ PixelOf(0) = 0 /\ PartOf(0) = 0 /\ LineOf(0) = 0 /\ CopyOf(0) = 0
  /\ LineOf(Rows-1) = LINES-1 /\ CopyOf(Rows-1) = HeightCopies-1
  /\ PixelOf(Columns-1) = PIXELS-1 /\ PartOf(Columns-1) = WidthCopies-1
<1>1. /\ PIXELS \in Nat \ {0} /\ WidthCopies \in Nat \ {0}
      /\ LINES \in Nat \ {0} /\ HeightCopies \in Nat \ {0}
  BY Sizes
<1>2. Rows \in Nat \ {0} /\ Columns \in Nat \ {0}
  BY <1>1 DEF Rows, Columns
<1>3. Rows-1 \in 0..Rows-1 /\ Columns-1 \in 0..Columns-1
      /\ 0 \in 0..Rows-1 /\ 0 \in 0..Columns-1
  BY <1>2
<1> QED
  BY <1>2, <1>3, RowCopies, ColumnCopies

\* The next copy is of the same word until the word has been sent
\* WidthCopies times, and then the first of the next word.
LEMMA NextCopy ==
  ASSUME NEW a \in Places
  PROVE  /\ Following(a) \in Places /\ WordAt(a) \in WordPlaces
         /\ PartOf(a.column) \in 0..WidthCopies-1
         /\ PartOf(a.column) # WidthCopies-1 =>
              /\ WordAt(Following(a)) = WordAt(a)
              /\ PartOf(Following(a).column) = PartOf(a.column) + 1
         /\ PartOf(a.column) = WidthCopies-1 =>
              /\ WordAt(Following(a)) = FollowingWord(WordAt(a))
              /\ PartOf(Following(a).column) = 0
<1>1. a.row \in 0..Rows-1 /\ a.column \in 0..Columns-1
  BY DEF Places
<1>2. /\ PixelOf(a.column) \in 0..PIXELS-1
      /\ PartOf(a.column) \in 0..WidthCopies-1
      /\ a.column = Columns-1 <=> /\ PixelOf(a.column) = PIXELS-1
                                 /\ PartOf(a.column) = WidthCopies-1
      /\ a.column # Columns-1 /\ PartOf(a.column) # WidthCopies-1 =>
           /\ PixelOf(a.column + 1) = PixelOf(a.column)
           /\ PartOf(a.column + 1) = PartOf(a.column) + 1
      /\ a.column # Columns-1 /\ PartOf(a.column) = WidthCopies-1 =>
           /\ PixelOf(a.column + 1) = PixelOf(a.column) + 1
           /\ PartOf(a.column + 1) = 0
  BY <1>1, ColumnCopies
<1>3. RowAfter(a.row) \in 0..Rows-1
  BY <1>1, RowCopies
<1>4. PixelOf(0) = 0 /\ PartOf(0) = 0 /\ Columns \in Nat \ {0}
  BY EnlargedSize
<1>5. CASE a.column # Columns-1
  <2>1. Following(a) = [row |-> a.row, column |-> a.column + 1]
    BY <1>5 DEF Following
  <2>2. WordAt(Following(a)) = [row |-> a.row, pixel |-> PixelOf(a.column + 1)]
    BY <2>1 DEF WordAt
  <2>3. Following(a).column = a.column + 1
    BY <2>1
  <2>4. Following(a) \in Places
    BY <1>1, <1>4, <1>5, <2>1 DEF Places
  <2>5. PartOf(a.column) = WidthCopies-1 => PixelOf(a.column) # PIXELS-1
    BY <1>2, <1>5
  <2> QED
    BY <1>1, <1>2, <1>5, <2>2, <2>3, <2>4, <2>5
    DEF WordAt, FollowingWord, WordPlaces
<1>6. CASE a.column = Columns-1
  <2>1. Following(a) = [row |-> RowAfter(a.row), column |-> 0]
    BY <1>6 DEF Following
  <2>2. WordAt(Following(a)) = [row |-> RowAfter(a.row), pixel |-> 0]
    BY <1>4, <2>1 DEF WordAt
  <2>3. Following(a).column = 0
    BY <2>1
  <2>4. Following(a) \in Places
    BY <1>3, <1>4, <2>1 DEF Places
  <2> QED
    BY <1>1, <1>2, <1>4, <1>6, <2>2, <2>3, <2>4
    DEF WordAt, FollowingWord, WordPlaces
<1> QED
  BY <1>5, <1>6

\* The word after a word: the next pixel of the line, or the first one of
\* its next copy, or of the next line.
LEMMA NextWordPlace ==
  ASSUME NEW w \in WordPlaces
  PROVE  LET v == FollowingWord(w)
         IN  /\ v \in WordPlaces
             /\ LineOf(w.row) \in 0..LINES-1
             /\ CopyOf(w.row) \in 0..HeightCopies-1
             /\ w.pixel # PIXELS-1 => v.row = w.row /\ v.pixel = w.pixel + 1
             /\ w.pixel = PIXELS-1 => v.pixel = 0
             /\ w.pixel = PIXELS-1 /\ CopyOf(w.row) # HeightCopies-1 =>
                  /\ LineOf(v.row) = LineOf(w.row)
                  /\ CopyOf(v.row) = CopyOf(w.row) + 1
             /\ w.pixel = PIXELS-1 /\ CopyOf(w.row) = HeightCopies-1 =>
                  /\ LineOf(v.row) = LineAfter(LineOf(w.row))
                  /\ CopyOf(v.row) = 0
<1>1. w.row \in 0..Rows-1 /\ w.pixel \in 0..PIXELS-1
  BY DEF WordPlaces
<1>2. /\ LineOf(w.row) \in 0..LINES-1 /\ CopyOf(w.row) \in 0..HeightCopies-1
      /\ RowAfter(w.row) \in 0..Rows-1
      /\ CopyOf(w.row) # HeightCopies-1 =>
           /\ LineOf(RowAfter(w.row)) = LineOf(w.row)
           /\ CopyOf(RowAfter(w.row)) = CopyOf(w.row) + 1
      /\ CopyOf(w.row) = HeightCopies-1 =>
           /\ LineOf(RowAfter(w.row)) = LineAfter(LineOf(w.row))
           /\ CopyOf(RowAfter(w.row)) = 0
  BY <1>1, RowCopies
<1>3. CASE w.pixel # PIXELS-1
  <2>1. FollowingWord(w) = [row |-> w.row, pixel |-> w.pixel + 1]
    BY <1>3 DEF FollowingWord
  <2> QED
    BY <1>1, <1>2, <1>3, <2>1, Sizes DEF WordPlaces
<1>4. CASE w.pixel = PIXELS-1
  <2>1. FollowingWord(w) = [row |-> RowAfter(w.row), pixel |-> 0]
    BY <1>4 DEF FollowingWord
  <2> QED
    BY <1>1, <1>2, <1>4, <2>1, Sizes DEF WordPlaces
<1> QED
  BY <1>3, <1>4

-----------------------------------------------------------------------------
(* Types. *)

Pixels == [buffer : Buffers, line : 0..LINES-1, pixel : 0..PIXELS-1]
Words == [data : Pixels, startofpacket : BOOLEAN, endofpacket : BOOLEAN]

\* TypeOK, with the FIFO as a sequence and the registers as records.
Types ==
  /\ source \in Beats \cup {NoBeat}
  /\ resampled \in Beats \cup {NoBeat}
  /\ s_multiply_height \in {"GET_CURRENT_LINE", "LOOP_FIFO",
                            "OUTPUT_LAST_LINE"}
  /\ width_in \in 0..PIXELS
  /\ width_out \in 0..PIXELS-1
  /\ enlarge_height_counter \in 0..HeightCopies-1
  /\ enlarge_width_counter \in 0..WidthCopies-1
  /\ Multiply_Height_FIFO \in Seq(Beats)
  /\ line_out \in Words \cup {NoBeat}
  /\ held \in Words \cup {NoBeat}
  /\ stream_out \in Words \cup {NoBeat}
  /\ shown \in Words \cup {NoBeat}
  /\ row \in 0..Rows-1
  /\ column \in 0..Columns-1

\* An empty register is told from every word.
LEMMA NoBeatIsNone == NoBeat \notin Words
BY DEF NoBeat, Source!Nothing, Words

\* A beat is a word whose marks are those of its place.
LEMMA BeatFields ==
  ASSUME NEW b \in Buffers, NEW l \in 0..LINES-1, NEW p \in 0..PIXELS-1
  PROVE  /\ Source!Beat(b, l, p) \in Beats
         /\ Source!Beat(b, l, p) \in Words
         /\ Source!Beat(b, l, p).data = [buffer |-> b, line |-> l, pixel |-> p]
         /\ Source!Beat(b, l, p).startofpacket = (l = 0 /\ p = 0)
         /\ Source!Beat(b, l, p).endofpacket = (l = LINES-1 /\ p = PIXELS-1)
<1>1. Source!Beat(b, l, p) \in Beats
  BY DEF Beats
<1>2. Source!Beat(b, l, p) =
        [data          |-> [buffer |-> b, line |-> l, pixel |-> p],
         startofpacket |-> l = 0 /\ p = 0,
         endofpacket   |-> l = LINES-1 /\ p = PIXELS-1]
  BY DEF Source!Beat
<1>3. Source!Beat(b, l, p) \in Words
  BY <1>2 DEF Words, Pixels
<1> QED
  BY <1>1, <1>2, <1>3

\* What is known of a beat.
LEMMA BeatsAreWords ==
  ASSUME NEW b \in Beats
  PROVE  /\ b \in Words /\ b # NoBeat /\ b.data \in Pixels
         /\ b.data.buffer \in Buffers
         /\ b.data.line \in 0..LINES-1 /\ b.data.pixel \in 0..PIXELS-1
         /\ b = Source!Beat(b.data.buffer, b.data.line, b.data.pixel)
         /\ b.startofpacket = (b.data.line = 0 /\ b.data.pixel = 0)
         /\ b.endofpacket = (b.data.line = LINES-1 /\ b.data.pixel = PIXELS-1)
<1>1. PICK x \in Buffers, l \in 0..LINES-1, p \in 0..PIXELS-1 :
        b = Source!Beat(x, l, p)
  BY DEF Beats
<1>2. /\ b \in Words
      /\ b.data = [buffer |-> x, line |-> l, pixel |-> p]
      /\ b.startofpacket = (l = 0 /\ p = 0)
      /\ b.endofpacket = (l = LINES-1 /\ p = PIXELS-1)
  BY <1>1, BeatFields
<1>3. b.data.buffer = x /\ b.data.line = l /\ b.data.pixel = p
  BY <1>2
<1> QED
  BY <1>1, <1>2, <1>3, NoBeatIsNone DEF Words

\* A register that passes a word on with other marks holds a word.
LEMMA UnmarkedWord ==
  ASSUME NEW w \in Words, NEW s \in BOOLEAN, NEW e \in BOOLEAN
  PROVE  /\ Unmarked(w, s, e) \in Words /\ Unmarked(w, s, e) # NoBeat
         /\ Unmarked(w, s, e).data = w.data
         /\ Unmarked(w, s, e).startofpacket = s
         /\ Unmarked(w, s, e).endofpacket = e
BY NoBeatIsNone DEF Unmarked, Words

\* The beat after a, when frames follow frames.
CanFollow(b, a) ==
  IF a = NoBeat \/ (a # NoBeat /\ a.endofpacket)
  THEN b.data.line = 0 /\ b.data.pixel = 0
  ELSE /\ b.data.buffer = a.data.buffer
       /\ b.data.line = IF a.data.pixel = PIXELS - 1 THEN a.data.line + 1
                                                    ELSE a.data.line
       /\ b.data.pixel = IF a.data.pixel = PIXELS - 1 THEN 0
                                                     ELSE a.data.pixel + 1

\* What the DMA hands over is the beat after the last one.
LEMMA SourceStep ==
  ASSUME source \in Beats \cup {NoBeat}, Source!Next
  PROVE  source' \in Beats /\ CanFollow(source', source)
<1>1. CASE Source!StartFrame
  <2>1. PICK b \in Buffers : source' = Source!Beat(b, 0, 0)
    BY <1>1 DEF Source!StartFrame
  <2>2. 0 \in 0..LINES-1 /\ 0 \in 0..PIXELS-1
    BY Sizes
  <2>3. source' \in Beats /\ source'.data = [buffer |-> b, line |-> 0, pixel |-> 0]
    BY <2>1, <2>2, BeatFields
  <2> QED
    BY <1>1, <2>3 DEF CanFollow, Source!StartFrame, NoBeat
<1>2. CASE Source!NextPixel
  <2>1. source \in Beats /\ source # NoBeat /\ source.data.pixel < PIXELS - 1
    BY <1>2 DEF Source!NextPixel, NoBeat
  <2>2. /\ source.data.buffer \in Buffers /\ source.data.line \in 0..LINES-1
        /\ source.data.pixel \in 0..PIXELS-1
        /\ source.endofpacket = (/\ source.data.line = LINES-1
                                 /\ source.data.pixel = PIXELS-1)
    BY <2>1, BeatsAreWords
  <2>3. source.data.pixel + 1 \in 0..PIXELS-1 /\ ~source.endofpacket
        /\ source.data.pixel # PIXELS - 1
    BY <2>1, <2>2, Sizes
  <2>4. source' = Source!Beat(source.data.buffer, source.data.line,
                              source.data.pixel + 1)
    BY <1>2 DEF Source!NextPixel
  <2>5. /\ source' \in Beats
        /\ source'.data = [buffer |-> source.data.buffer,
                           line |-> source.data.line,
                           pixel |-> source.data.pixel + 1]
    BY <2>2, <2>3, <2>4, BeatFields
  <2> QED
    BY <2>1, <2>3, <2>5 DEF CanFollow
<1>3. CASE Source!NextLine
  <2>1. /\ source \in Beats /\ source # NoBeat
        /\ source.data.pixel = PIXELS - 1 /\ source.data.line < LINES - 1
    BY <1>3 DEF Source!NextLine, NoBeat
  <2>2. /\ source.data.buffer \in Buffers /\ source.data.line \in 0..LINES-1
        /\ source.endofpacket = (/\ source.data.line = LINES-1
                                 /\ source.data.pixel = PIXELS-1)
    BY <2>1, BeatsAreWords
  <2>3. source.data.line + 1 \in 0..LINES-1 /\ ~source.endofpacket
        /\ 0 \in 0..PIXELS-1
    BY <2>1, <2>2, Sizes
  <2>4. source' = Source!Beat(source.data.buffer, source.data.line + 1, 0)
    BY <1>3 DEF Source!NextLine
  <2>5. /\ source' \in Beats
        /\ source'.data = [buffer |-> source.data.buffer,
                           line |-> source.data.line + 1, pixel |-> 0]
    BY <2>2, <2>3, <2>4, BeatFields
  <2> QED
    BY <2>1, <2>3, <2>5 DEF CanFollow
<1> QED
  BY <1>1, <1>2, <1>3 DEF Source!Next

\* The FIFO is read only when it holds a word.
LEMMA ReadsAWord ==
  ASSUME Types, NEW take \in BOOLEAN, fifo_read(take)
  PROVE  /\ Multiply_Height_FIFO # <<>>
         /\ Head(Multiply_Height_FIFO) = Multiply_Height_FIFO[1]
         /\ Head(Multiply_Height_FIFO) \in Beats
         /\ Tail(Multiply_Height_FIFO) \in Seq(Beats)
         /\ Len(Multiply_Height_FIFO) \in Nat \ {0}
         /\ Len(Tail(Multiply_Height_FIFO)) = Len(Multiply_Height_FIFO) - 1
         /\ \A i \in 1..Len(Multiply_Height_FIFO)-1 :
              Tail(Multiply_Height_FIFO)[i] = Multiply_Height_FIFO[i + 1]
<1>1. Multiply_Height_FIFO # <<>>
  BY Sizes, EmptySeq DEF Types, fifo_read, fifo_full
<1>2. Multiply_Height_FIFO \in Seq(Beats)
  BY DEF Types
<1> QED
  BY <1>1, <1>2, HeadTailProperties, EmptySeq, LenProperties

\* What the sink does, in terms of places.
LEMMA SinkStep ==
  ASSUME Types, NEW take \in BOOLEAN, Sink(take)
  PROVE  /\ take => stream_out # NoBeat /\ shown' = stream_out
         /\ ~take => shown' = shown
         /\ row' \in 0..Rows-1 /\ column' \in 0..Columns-1
         /\ [row |-> row', column |-> column'] =
              IF take /\ shown # NoBeat
              THEN Following([row |-> row, column |-> column])
              ELSE [row |-> row, column |-> column]
<1>1. /\ Rows \in Nat \ {0} /\ Columns \in Nat \ {0}
      /\ Rows = LINES * HeightCopies /\ Columns = PIXELS * WidthCopies
  BY EnlargedSize DEF Rows, Columns
<1>2. row \in 0..Rows-1 /\ column \in 0..Columns-1
  BY DEF Types
<1>3. CASE take /\ shown # NoBeat
  <2>1. /\ column' = (column + 1) % Columns
        /\ row' = IF column' # 0 THEN row ELSE (row + 1) % Rows
    BY <1>1, <1>3, Zenon DEF Sink
  <2>2. column' = IF column # Columns - 1 THEN column + 1 ELSE 0
    <3> HIDE DEF Columns
    <3> QED
      BY <1>1, <1>2, <2>1
  <2>3. (row + 1) % Rows = RowAfter(row)
    BY <1>1, <1>2 DEF RowAfter
  <2>4. row' = IF column # Columns - 1 THEN row ELSE RowAfter(row)
    BY <1>1, <1>2, <2>1, <2>2, <2>3
  <2>5. RowAfter(row) \in 0..Rows-1
    BY <1>2, RowCopies
  <2>6. [row |-> row', column |-> column']
          = Following([row |-> row, column |-> column])
    BY <2>2, <2>4 DEF Following
  <2>7. row' \in 0..Rows-1 /\ column' \in 0..Columns-1
    BY <1>1, <1>2, <2>2, <2>4, <2>5
  <2> QED
    BY <1>3, <2>6, <2>7 DEF Sink
<1>4. CASE ~(take /\ shown # NoBeat)
  BY <1>2, <1>4 DEF Sink, sinkVars
<1> QED
  BY <1>3, <1>4

\* Every edge keeps the registers' types.
LEMMA TypesStep ==
  ASSUME Types, NEW give \in BOOLEAN, NEW take \in BOOLEAN, Edge(give, take)
  PROVE  Types'
<1> DEFINE head == Head(Multiply_Height_FIFO)
<1>1. Registers(give, take)
  BY DEF Edge, GetCurrentLine, LoopFifo, OutputLastLine
<1>2. s_multiply_height' \in {"GET_CURRENT_LINE", "LOOP_FIFO",
                              "OUTPUT_LAST_LINE"}
  BY DEF Edge, GetCurrentLine, LoopFifo, OutputLastLine
<1>3. source' \in Beats \cup {NoBeat} /\ resampled' \in Beats \cup {NoBeat}
  BY <1>1, SourceStep DEF Registers, Resampler, Types
<1>4. width_in' \in 0..PIXELS
  BY <1>1, Sizes DEF Registers, WidthIn, Types, received, height_ready
<1>5. width_out' \in 0..PIXELS-1
  BY <1>1, Sizes DEF Registers, WidthOut, Types, EndOfLine
<1>6. enlarge_height_counter' \in 0..HeightCopies-1
  BY <1>1, Sizes DEF Registers, EnlargeHeightCounter, Types
<1>7. enlarge_width_counter' \in 0..WidthCopies-1
  BY <1>1, Sizes DEF Registers, MultiplyWidth, Types
<1>8. Multiply_Height_FIFO' \in Seq(Beats)
  <2> DEFINE rest == IF fifo_read(take) THEN Tail(Multiply_Height_FIFO)
                                        ELSE Multiply_Height_FIFO
  <2>1. rest \in Seq(Beats)
    BY ReadsAWord DEF Types
  <2>2. \A e \in Beats : Append(rest, e) \in Seq(Beats)
    BY <2>1, AppendProperties
  <2>3. fifo_read(take) => head \in Beats
    BY ReadsAWord
  <2>4. received => resampled \in Beats
    BY DEF received, Types
  <2> QED
    BY <1>1, <2>1, <2>2, <2>3, <2>4 DEF Registers, Fifo
<1>9. line_out' \in Words \cup {NoBeat}
  <2>1. Multiply_Height_FIFO # <<>> => head \in Words
    BY HeadTailProperties, BeatsAreWords DEF Types
  <2> DEFINE s == enlarge_height_counter = 0 /\ head.startofpacket
             e == enlarge_height_counter = HeightCopies - 1 /\ head.endofpacket
  <2>2. s \in BOOLEAN /\ e \in BOOLEAN
    OBVIOUS
  <2>3. Multiply_Height_FIFO # <<>> => Unmarked(head, s, e) \in Words
    BY <2>1, <2>2, UnmarkedWord
  <2> QED
    BY <1>1, <2>3 DEF Registers, LineOut, Types
<1>10. held' \in Words \cup {NoBeat}
  BY <1>1 DEF Registers, MultiplyWidth, Types
<1>11. stream_out' \in Words \cup {NoBeat}
  <2> DEFINE s == enlarge_width_counter = 0 /\ held.startofpacket
             e == LastPixelCopy /\ held.endofpacket
  <2>1. s \in BOOLEAN /\ e \in BOOLEAN
    OBVIOUS
  <2>2. held # NoBeat => Unmarked(held, s, e) \in Words
    BY <2>1, UnmarkedWord DEF Types
  <2> QED
    BY <1>1, <2>2 DEF Registers, MultiplyWidth, Types
<1>12. Sink(take)
  BY <1>1 DEF Registers
<1>13. shown' \in Words \cup {NoBeat}
       /\ row' \in 0..Rows-1 /\ column' \in 0..Columns-1
  BY <1>12, SinkStep DEF Types
<1> QED
  BY <1>2, <1>3, <1>4, <1>5, <1>6, <1>7, <1>8, <1>9, <1>10, <1>11, <1>13
  DEF Types

\* Types is what TypeOK says, and more.
LEMMA TypesOK == Types => TypeOK
<1> SUFFICES ASSUME Types PROVE TypeOK
  OBVIOUS
<1>1. \A w \in Words : w.data \in {b.data : b \in Beats}
  <2> SUFFICES ASSUME NEW w \in Words
               PROVE  \E b \in Beats : w.data = b.data
    OBVIOUS
  <2>1. /\ w.data.buffer \in Buffers /\ w.data.line \in 0..LINES-1
        /\ w.data.pixel \in 0..PIXELS-1
        /\ w.data = [buffer |-> w.data.buffer, line |-> w.data.line,
                     pixel |-> w.data.pixel]
    BY DEF Words, Pixels
  <2>2. Source!Beat(w.data.buffer, w.data.line, w.data.pixel) \in Beats
    BY <2>1, BeatFields
  <2> QED
    BY <2>1, <2>2, BeatFields
<1>2. \A i \in 1..Len(Multiply_Height_FIFO) : Multiply_Height_FIFO[i] \in Beats
  BY ElementOfSeq DEF Types
<1>3. row \in 0..LINES*HeightCopies-1 /\ column \in 0..PIXELS*WidthCopies-1
  BY DEF Types, Rows, Columns
<1> QED
  BY <1>1, <1>2, <1>3 DEF Types, TypeOK

-----------------------------------------------------------------------------
(* Multiply_Width.  Each register on the way out is told where its word    *)
(* belongs by the one behind it, back from the sink.                       *)

\* Before the first copy is taken the frame before is taken to have ended.
ShownAt == IF shown = NoBeat THEN [row |-> Rows-1, column |-> Columns-1]
                             ELSE [row |-> row, column |-> column]

StreamedAt == IF stream_out = NoBeat THEN ShownAt ELSE Following(ShownAt)

HeldAt == WordAt(IF held = NoBeat THEN StreamedAt ELSE Following(StreamedAt))

ReadAt == IF line_out = NoBeat THEN HeldAt ELSE FollowingWord(HeldAt)

\* The word that is to be read from the FIFO next.
NextWord == FollowingWord(ReadAt)

IsCopy(b, a) ==
  /\ b.data.line = LineOf(a.row) /\ b.data.pixel = PixelOf(a.column)
  /\ b.startofpacket = (a.row = 0 /\ a.column = 0)
  /\ b.endofpacket = (a.row = Rows-1 /\ a.column = Columns-1)

IsWord(b, w) ==
  /\ b.data.line = LineOf(w.row) /\ b.data.pixel = w.pixel
  /\ b.startofpacket = (w.row = 0 /\ w.pixel = 0)
  /\ b.endofpacket = (w.row = Rows-1 /\ w.pixel = PIXELS-1)

\* Every register holds what belongs where its word is going.
InPlace ==
  /\ shown = NoBeat => row = 0 /\ column = 0
  /\ shown # NoBeat => IsCopy(shown, ShownAt)
  /\ stream_out # NoBeat => IsCopy(stream_out, StreamedAt)
  /\ held # NoBeat => IsWord(held, HeldAt)
  /\ line_out # NoBeat => IsWord(line_out, ReadAt)
  /\ enlarge_width_counter = PartOf(Following(StreamedAt).column)
  /\ held = NoBeat => enlarge_width_counter = 0

\* The places are places of the frame.
LEMMA PlacesType ==
  ASSUME Types
  PROVE  /\ ShownAt \in Places /\ StreamedAt \in Places
         /\ Following(StreamedAt) \in Places
         /\ HeldAt \in WordPlaces /\ ReadAt \in WordPlaces
         /\ NextWord \in WordPlaces
<1>1. ShownAt \in Places
  BY EnlargedSize DEF ShownAt, Types, Places
<1>2. StreamedAt \in Places
  BY <1>1, NextCopy DEF StreamedAt
<1>3. Following(StreamedAt) \in Places
  BY <1>2, NextCopy
<1>4. HeldAt \in WordPlaces
  BY <1>2, <1>3, NextCopy DEF HeldAt
<1>5. ReadAt \in WordPlaces
  BY <1>4, NextWordPlace DEF ReadAt
<1>6. NextWord \in WordPlaces
  BY <1>5, NextWordPlace DEF NextWord
<1> QED
  BY <1>1, <1>2, <1>3, <1>4, <1>5, <1>6

\* A word at a place, sent as the copy its part says it is, with the first
\* copy alone starting a frame and the last alone ending it.
LEMMA CopyOfWord ==
  ASSUME NEW a \in Places, NEW w \in Words, IsWord(w, WordAt(a)),
         NEW part, part = PartOf(a.column)
  PROVE  IsCopy(Unmarked(w, part = 0 /\ w.startofpacket,
                            part = WidthCopies-1 /\ w.endofpacket), a)
<1> DEFINE s == part = 0 /\ w.startofpacket
           e == part = WidthCopies-1 /\ w.endofpacket
           u == Unmarked(w, s, e)
<1>1. u.data = w.data /\ u.startofpacket = s /\ u.endofpacket = e
  BY UnmarkedWord
<1>2. /\ w.data.line = LineOf(a.row) /\ w.data.pixel = PixelOf(a.column)
      /\ w.startofpacket = (a.row = 0 /\ PixelOf(a.column) = 0)
      /\ w.endofpacket = (a.row = Rows-1 /\ PixelOf(a.column) = PIXELS-1)
  BY DEF IsWord, WordAt
<1>3. a.column \in 0..Columns-1
  BY DEF Places
<1>4. /\ a.column = 0 <=> PixelOf(a.column) = 0 /\ PartOf(a.column) = 0
      /\ a.column = Columns-1 <=> /\ PixelOf(a.column) = PIXELS-1
                                 /\ PartOf(a.column) = WidthCopies-1
  BY <1>3, ColumnCopies
<1>5. s = (a.row = 0 /\ a.column = 0)
  BY <1>2, <1>4
<1>6. e = (a.row = Rows-1 /\ a.column = Columns-1)
  BY <1>2, <1>4
<1> HIDE DEF s, e, u
<1>7. IsCopy(u, a)
  BY <1>1, <1>2, <1>5, <1>6 DEF IsCopy
<1> QED
  BY <1>7 DEF s, e, u

\* When stream_out is open the sink has what was in it, and the next copy of
\* the word held takes its place; otherwise neither moves.
LEMMA StreamStep ==
  ASSUME Types, InPlace, NEW take \in BOOLEAN,
         MultiplyWidth(take), Sink(take)
  PROVE  /\ stream_out_open(take) =>
              /\ ShownAt' = StreamedAt
              /\ StreamedAt' = IF held = NoBeat THEN StreamedAt
                                               ELSE Following(StreamedAt)
         /\ ~stream_out_open(take) =>
              /\ ShownAt' = ShownAt /\ StreamedAt' = StreamedAt
              /\ shown' = shown /\ stream_out' = stream_out
         /\ shown' = NoBeat => row' = 0 /\ column' = 0
         /\ shown' # NoBeat => IsCopy(shown', ShownAt')
<1>1. /\ take => stream_out # NoBeat /\ shown' = stream_out
      /\ ~take => shown' = shown
      /\ [row |-> row', column |-> column'] =
           IF take /\ shown # NoBeat
           THEN Following([row |-> row, column |-> column])
           ELSE [row |-> row, column |-> column]
  BY SinkStep
<1>2. ~take => ShownAt' = ShownAt
  BY <1>1 DEF ShownAt
<1>3. take => ShownAt' = Following(ShownAt)
  <2> SUFFICES ASSUME take PROVE ShownAt' = Following(ShownAt)
    OBVIOUS
  <2>1. ShownAt' = [row |-> row', column |-> column']
    BY <1>1 DEF ShownAt
  <2>2. CASE shown # NoBeat
    BY <1>1, <2>1, <2>2 DEF ShownAt
  <2>3. CASE shown = NoBeat
    <3>1. [row |-> row', column |-> column'] = [row |-> 0, column |-> 0]
      BY <1>1, <2>3 DEF InPlace
    <3>2. ShownAt = [row |-> Rows-1, column |-> Columns-1]
      BY <2>3 DEF ShownAt
    <3>3. Following(ShownAt) = [row |-> 0, column |-> 0]
      BY <3>2 DEF Following, RowAfter
    <3> QED
      BY <2>1, <3>1, <3>3
  <2> QED
    BY <2>2, <2>3
<1>4. stream_out_open(take) => ShownAt' = StreamedAt
  BY <1>1, <1>2, <1>3 DEF stream_out_open, StreamedAt
<1>5. held # NoBeat => held \in Words
  BY DEF Types
<1>6. stream_out_open(take) => (stream_out' = NoBeat <=> held = NoBeat)
  BY <1>5, UnmarkedWord DEF MultiplyWidth
<1>7. stream_out_open(take) =>
        StreamedAt' = IF held = NoBeat THEN StreamedAt ELSE Following(StreamedAt)
  BY <1>4, <1>6 DEF StreamedAt
<1>8. ~stream_out_open(take) =>
        /\ ShownAt' = ShownAt /\ StreamedAt' = StreamedAt
        /\ shown' = shown /\ stream_out' = stream_out
  BY <1>1, <1>2 DEF stream_out_open, MultiplyWidth, StreamedAt
<1>9. shown' = NoBeat => row' = 0 /\ column' = 0
  BY <1>1, Zenon DEF InPlace
<1>10. shown' # NoBeat => IsCopy(shown', ShownAt')
  <2> SUFFICES ASSUME shown' # NoBeat PROVE IsCopy(shown', ShownAt')
    OBVIOUS
  <2>1. CASE take
    BY <1>1, <1>4, <2>1, Zenon DEF InPlace, stream_out_open
  <2>2. CASE ~take
    BY <1>1, <1>2, <2>2, Zenon DEF InPlace
  <2> QED
    BY <2>1, <2>2
<1> QED
  BY <1>4, <1>7, <1>8, <1>9, <1>10

\* The word held is kept until its last copy is sent, and then it makes place
\* for the word in line_out.
LEMMA HeldStep ==
  ASSUME Types, InPlace, NEW take \in BOOLEAN,
         MultiplyWidth(take), Sink(take)
  PROVE  /\ HeldAt' = IF width_ready(take) THEN ReadAt ELSE HeldAt
         /\ stream_out' # NoBeat => IsCopy(stream_out', StreamedAt')
         /\ held' # NoBeat => IsWord(held', HeldAt')
         /\ enlarge_width_counter' = PartOf(Following(StreamedAt').column)
         /\ held' = NoBeat => enlarge_width_counter' = 0
         /\ width_ready(take) => enlarge_width_counter' = 0
<1> DEFINE u == StreamedAt
           f == Following(StreamedAt)
           k == enlarge_width_counter
<1>1. /\ stream_out_open(take) =>
           StreamedAt' = IF held = NoBeat THEN u ELSE f
      /\ ~stream_out_open(take) =>
           StreamedAt' = u /\ stream_out' = stream_out
  BY StreamStep
<1>2. u \in Places /\ f \in Places
  BY PlacesType
<1>3. k = PartOf(f.column) /\ k \in 0..WidthCopies-1 /\ WidthCopies \in Nat \ {0, 1}
  BY Sizes DEF InPlace, Types
<1>4. held # NoBeat => HeldAt = WordAt(f) /\ held \in Words /\ IsWord(held, WordAt(f))
  BY DEF HeldAt, InPlace, Types
<1>5. held' = IF width_ready(take) THEN line_out ELSE held
  BY DEF MultiplyWidth
<1>6. HeldAt' = WordAt(IF held' = NoBeat THEN StreamedAt' ELSE Following(StreamedAt'))
  BY DEF HeldAt
<1>7. stream_out' # NoBeat => IsCopy(stream_out', StreamedAt')
  <2>1. CASE ~stream_out_open(take)
    BY <1>1, <2>1, Zenon DEF InPlace
  <2>2. CASE stream_out_open(take) /\ held # NoBeat
    <3>1. stream_out' = Unmarked(held, k = 0 /\ held.startofpacket,
                                 k = WidthCopies-1 /\ held.endofpacket)
      BY <2>2 DEF MultiplyWidth, LastPixelCopy
    <3>2. StreamedAt' = f
      BY <1>1, <2>2
    <3> HIDE DEF f, k
    <3>3. IsCopy(stream_out', f)
      BY <1>2, <1>3, <1>4, <2>2, <3>1, CopyOfWord
    <3> QED
      BY <3>2, <3>3
  <2>3. CASE stream_out_open(take) /\ held = NoBeat
    BY <2>3 DEF MultiplyWidth
  <2> QED
    BY <2>1, <2>2, <2>3
<1>8. ASSUME NEW a \in Places, NEW n, StreamedAt' = a,
             enlarge_width_counter' = PartOf(Following(a).column),
             held' # NoBeat => WordAt(Following(a)) = n,
             held' = NoBeat => WordAt(a) = n
      PROVE  HeldAt' = n
  BY <1>6, <1>8
<1>9. CASE ~width_ready(take)
  <2>1. held # NoBeat /\ held' = held
    BY <1>5, <1>9 DEF width_ready
  <2>2. CASE stream_out_open(take)
    <3>1. StreamedAt' = f /\ k # WidthCopies-1
      BY <1>1, <1>9, <2>1, <2>2 DEF width_ready, LastPixelCopy
    <3>2. enlarge_width_counter' = k + 1
      <4>1. enlarge_width_counter' = (k + 1) % WidthCopies
        BY <2>1, <2>2 DEF MultiplyWidth
      <4> QED
        BY <1>3, <3>1, <4>1
    <3>3. /\ WordAt(Following(f)) = WordAt(f)
          /\ PartOf(Following(f).column) = k + 1
      BY <1>2, <1>3, <3>1, NextCopy
    <3>4. HeldAt' = HeldAt
      BY <1>4, <1>6, <2>1, <3>1, <3>3
    <3>5. enlarge_width_counter' = PartOf(Following(StreamedAt').column)
      BY <3>1, <3>2, <3>3
    <3>6. IsWord(held', HeldAt')
      BY <1>4, <2>1, <3>4
    <3> QED
      BY <1>7, <1>9, <2>1, <3>4, <3>5, <3>6
  <2>3. CASE ~stream_out_open(take)
    <3>1. StreamedAt' = u /\ enlarge_width_counter' = k
      BY <1>1, <2>3 DEF MultiplyWidth
    <3>2. HeldAt' = HeldAt
      BY <1>4, <1>6, <2>1, <3>1
    <3>3. enlarge_width_counter' = PartOf(Following(StreamedAt').column)
      BY <1>3, <3>1
    <3>4. IsWord(held', HeldAt')
      BY <1>4, <2>1, <3>2
    <3> QED
      BY <1>7, <1>9, <2>1, <3>2, <3>3, <3>4
  <2> QED
    BY <2>2, <2>3
<1>10. CASE width_ready(take)
  <2>1. held' = line_out
    BY <1>5, <1>10
  <2>2. \E a \in Places :
          /\ StreamedAt' = a /\ WordAt(a) = HeldAt
          /\ WordAt(Following(a)) = FollowingWord(HeldAt)
          /\ PartOf(Following(a).column) = 0 /\ enlarge_width_counter' = 0
    <3>1. CASE held # NoBeat
      <4>1. stream_out_open(take) /\ k = WidthCopies-1
        BY <1>10, <3>1 DEF width_ready, LastPixelCopy
      <4>2. StreamedAt' = f
        BY <1>1, <3>1, <4>1
      <4>3. enlarge_width_counter' = 0
        <5>1. enlarge_width_counter' = (k + 1) % WidthCopies
          BY <3>1, <4>1 DEF MultiplyWidth
        <5> QED
          BY <1>3, <4>1, <5>1
      <4>4. /\ WordAt(Following(f)) = FollowingWord(WordAt(f))
            /\ PartOf(Following(f).column) = 0
        BY <1>2, <1>3, <4>1, NextCopy
      <4> QED
        BY <1>2, <1>4, <3>1, <4>2, <4>3, <4>4
    <3>2. CASE held = NoBeat
      <4>1. k = 0 /\ StreamedAt' = u
        BY <1>1, <3>2 DEF InPlace
      <4>2. enlarge_width_counter' = 0
        BY <3>2, <4>1 DEF MultiplyWidth
      <4>3. PartOf(u.column) = WidthCopies-1
        <5>1. PartOf(u.column) \in 0..WidthCopies-1
          BY <1>2, NextCopy
        <5>2. PartOf(u.column) # WidthCopies-1 =>
                PartOf(f.column) = PartOf(u.column) + 1
          BY <1>2, NextCopy
        <5> QED
          BY <1>3, <4>1, <5>1, <5>2
      <4>4. WordAt(f) = FollowingWord(WordAt(u))
        BY <1>2, <4>3, NextCopy
      <4>5. HeldAt = WordAt(u)
        BY <3>2 DEF HeldAt
      <4> QED
        BY <1>2, <1>3, <4>1, <4>2, <4>4, <4>5
    <3> QED
      BY <3>1, <3>2
  <2>3. PICK a \in Places :
          /\ StreamedAt' = a /\ WordAt(a) = HeldAt
          /\ WordAt(Following(a)) = FollowingWord(HeldAt)
          /\ PartOf(Following(a).column) = 0 /\ enlarge_width_counter' = 0
    BY <2>2
  <2>4. HeldAt' = ReadAt
    BY <1>6, <2>1, <2>3 DEF ReadAt
  <2>5. held' # NoBeat => IsWord(held', HeldAt')
    BY <2>1, <2>4, Zenon DEF InPlace
  <2> QED
    BY <1>7, <1>10, <2>3, <2>4, <2>5
<1> QED
  BY <1>9, <1>10

-----------------------------------------------------------------------------
(* Multiply_Height's output register. *)

\* A word is read from the FIFO into line_out.
Loads(take) ==
  /\ s_multiply_height # "GET_CURRENT_LINE"
  /\ line_out_open(take)
  /\ Multiply_Height_FIFO # <<>>

\* The first word in the FIFO is the one that is to be read next.
HeadInPlace ==
  s_multiply_height # "GET_CURRENT_LINE" /\ Multiply_Height_FIFO # <<>> =>
    /\ Head(Multiply_Height_FIFO) \in Beats
    /\ Head(Multiply_Height_FIFO).data.line = LineOf(NextWord.row)
    /\ Head(Multiply_Height_FIFO).data.pixel = NextWord.pixel
    /\ enlarge_height_counter = CopyOf(NextWord.row)

\* A beat at a word's place, sent as the copy its row says it is, with the
\* first copy of the line alone starting a frame and the last alone ending it.
LEMMA WordOfBeat ==
  ASSUME NEW w \in WordPlaces, NEW b \in Beats,
         b.data.line = LineOf(w.row), b.data.pixel = w.pixel,
         NEW copy, copy = CopyOf(w.row)
  PROVE  LET u == Unmarked(b, copy = 0 /\ b.startofpacket,
                              copy = HeightCopies-1 /\ b.endofpacket)
         IN  u # NoBeat /\ u.data = b.data /\ IsWord(u, w)
<1> DEFINE s == copy = 0 /\ b.startofpacket
           e == copy = HeightCopies-1 /\ b.endofpacket
           u == Unmarked(b, s, e)
<1>1. /\ b \in Words
      /\ b.startofpacket = (b.data.line = 0 /\ b.data.pixel = 0)
      /\ b.endofpacket = (b.data.line = LINES-1 /\ b.data.pixel = PIXELS-1)
  BY BeatsAreWords
<1>2. s \in BOOLEAN /\ e \in BOOLEAN
  OBVIOUS
<1>3. u # NoBeat /\ u.data = b.data /\ u.startofpacket = s /\ u.endofpacket = e
  BY <1>1, <1>2, UnmarkedWord
<1>4. w.row \in 0..Rows-1
  BY DEF WordPlaces
<1>5. /\ w.row = 0 <=> LineOf(w.row) = 0 /\ CopyOf(w.row) = 0
      /\ w.row = Rows-1 <=> LineOf(w.row) = LINES-1 /\ CopyOf(w.row) = HeightCopies-1
  BY <1>4, RowCopies
<1>6. s = (w.row = 0 /\ w.pixel = 0)
  BY <1>1, <1>5
<1>7. e = (w.row = Rows-1 /\ w.pixel = PIXELS-1)
  BY <1>1, <1>5
<1> HIDE DEF s, e, u
<1>8. IsWord(u, w)
  BY <1>3, <1>6, <1>7 DEF IsWord
<1> QED
  BY <1>3, <1>8 DEF s, e, u

\* line_out keeps its word while that cannot move on, and else takes the next
\* one there is.
LEMMA LineOutStep ==
  ASSUME Types, InPlace, HeadInPlace, NEW take \in BOOLEAN,
         MultiplyWidth(take), Sink(take), LineOut(take)
  PROVE  /\ ReadAt' = IF Loads(take) THEN NextWord ELSE ReadAt
         /\ NextWord' = IF Loads(take) THEN FollowingWord(NextWord) ELSE NextWord
         /\ line_out' # NoBeat => IsWord(line_out', ReadAt')
         /\ Loads(take) =>
              /\ line_out' # NoBeat
              /\ line_out'.data = Head(Multiply_Height_FIFO).data
         /\ line_out_open(take) /\ ~Loads(take) => line_out' = NoBeat
         /\ ~line_out_open(take) => line_out' = line_out
<1>1. HeldAt' = IF width_ready(take) THEN ReadAt ELSE HeldAt
  BY HeldStep
<1>2. /\ ReadAt' = IF line_out' = NoBeat THEN HeldAt' ELSE FollowingWord(HeldAt')
      /\ NextWord' = FollowingWord(ReadAt')
  BY DEF ReadAt, NextWord
<1>3. CASE ~line_out_open(take)
  <2>1. line_out' = line_out /\ ~width_ready(take) /\ ~Loads(take)
        /\ line_out # NoBeat
    BY <1>3 DEF LineOut, line_out_open, Loads
  <2>2. ReadAt' = ReadAt
    BY <1>1, <1>2, <2>1 DEF ReadAt
  <2>3. line_out' # NoBeat => IsWord(line_out', ReadAt')
    BY <2>1, <2>2, Zenon DEF InPlace
  <2> QED
    BY <1>2, <1>3, <2>1, <2>2, <2>3 DEF NextWord
<1>4. CASE line_out_open(take)
  <2>1. HeldAt' = ReadAt
    BY <1>1, <1>4 DEF line_out_open, ReadAt
  <2>2. CASE ~Loads(take)
    <3>1. line_out' = NoBeat
      BY <1>4, <2>2 DEF LineOut, Loads
    <3> QED
      BY <1>2, <1>4, <2>1, <2>2, <3>1 DEF NextWord
  <2>3. CASE Loads(take)
    <3> DEFINE b == Head(Multiply_Height_FIFO)
               c == enlarge_height_counter
    <3>1. line_out' = Unmarked(b, c = 0 /\ b.startofpacket,
                               c = HeightCopies-1 /\ b.endofpacket)
      BY <1>4, <2>3 DEF LineOut, Loads
    <3>2. /\ b \in Beats /\ b.data.line = LineOf(NextWord.row)
          /\ b.data.pixel = NextWord.pixel /\ c = CopyOf(NextWord.row)
      BY <2>3 DEF Loads, HeadInPlace
    <3>3. NextWord \in WordPlaces
      BY PlacesType
    <3> HIDE DEF b, c
    <3>4. line_out' # NoBeat /\ line_out'.data = b.data
          /\ IsWord(line_out', NextWord)
      BY <3>1, <3>2, <3>3, WordOfBeat
    <3>5. ReadAt' = NextWord
      BY <1>2, <2>1, <3>4 DEF NextWord
    <3> QED
      BY <1>2, <1>4, <2>3, <3>4, <3>5 DEF b
  <2> QED
    BY <2>2, <2>3
<1> QED
  BY <1>3, <1>4

-----------------------------------------------------------------------------
(* Buffers: what follows in a frame is of the buffer of what went before.  *)

Origin == [row |-> 0, column |-> 0]
FirstWord == [row |-> 0, pixel |-> 0]

StreamedBuffer == IF stream_out = NoBeat THEN shown.data.buffer
                                         ELSE stream_out.data.buffer

HeldBuffer == IF held = NoBeat THEN StreamedBuffer ELSE held.data.buffer

ReadBuffer == IF line_out = NoBeat THEN HeldBuffer ELSE line_out.data.buffer

SameBuffer ==
  /\ stream_out # NoBeat /\ StreamedAt # Origin =>
       stream_out.data.buffer = shown.data.buffer
  /\ held # NoBeat /\ Following(StreamedAt) # Origin =>
       held.data.buffer = StreamedBuffer
  /\ line_out # NoBeat /\ ReadAt # FirstWord =>
       line_out.data.buffer = HeldBuffer

\* The buffers move with the words.
LEMMA BufferStep ==
  ASSUME Types, InPlace, HeadInPlace, SameBuffer,
         NEW take \in BOOLEAN, MultiplyWidth(take), Sink(take), LineOut(take),
         Loads(take) /\ NextWord # FirstWord =>
           Head(Multiply_Height_FIFO).data.buffer = ReadBuffer
  PROVE  /\ SameBuffer'
         /\ ReadBuffer' = IF Loads(take)
                          THEN Head(Multiply_Height_FIFO).data.buffer
                          ELSE ReadBuffer
<1>1. /\ stream_out_open(take) =>
           StreamedAt' = IF held = NoBeat THEN StreamedAt ELSE Following(StreamedAt)
      /\ ~stream_out_open(take) =>
           /\ StreamedAt' = StreamedAt
           /\ shown' = shown /\ stream_out' = stream_out
  BY StreamStep
<1>2. /\ take => stream_out # NoBeat /\ shown' = stream_out
      /\ ~take => shown' = shown
  BY SinkStep
<1>3. held # NoBeat => held \in Words
  BY DEF Types
<1>4. /\ stream_out_open(take) /\ held = NoBeat => stream_out' = NoBeat
      /\ stream_out_open(take) /\ held # NoBeat =>
           stream_out' # NoBeat /\ stream_out'.data = held.data
  BY <1>3, UnmarkedWord DEF MultiplyWidth
<1>5. stream_out_open(take) => shown'.data.buffer = StreamedBuffer
  BY <1>2 DEF stream_out_open, StreamedBuffer
<1>6. StreamedBuffer' = IF stream_out_open(take) THEN HeldBuffer ELSE StreamedBuffer
  BY <1>1, <1>4, <1>5 DEF StreamedBuffer, HeldBuffer
<1>7. held' = IF width_ready(take) THEN line_out ELSE held
  BY DEF MultiplyWidth
<1>8. held = NoBeat => HeldBuffer = StreamedBuffer
  BY DEF HeldBuffer
<1>9. width_ready(take) => StreamedBuffer' = HeldBuffer
  BY <1>6, <1>8 DEF width_ready
<1>10. HeldBuffer' = IF width_ready(take) THEN ReadBuffer ELSE HeldBuffer
  BY <1>7, <1>9 DEF HeldBuffer, ReadBuffer, width_ready
<1>11. /\ ReadAt' = IF Loads(take) THEN NextWord ELSE ReadAt
       /\ Loads(take) =>
            /\ line_out' # NoBeat
            /\ line_out'.data = Head(Multiply_Height_FIFO).data
       /\ line_out_open(take) /\ ~Loads(take) => line_out' = NoBeat
       /\ ~line_out_open(take) => line_out' = line_out
       /\ Loads(take) => line_out_open(take)
  BY LineOutStep DEF Loads
<1>12. line_out_open(take) => HeldBuffer' = ReadBuffer
  BY <1>10 DEF line_out_open, ReadBuffer
<1>13. ~line_out_open(take) => HeldBuffer' = HeldBuffer
  BY <1>10 DEF line_out_open
<1>14. ReadBuffer' = IF Loads(take)
                     THEN Head(Multiply_Height_FIFO).data.buffer
                     ELSE ReadBuffer
  BY <1>11, <1>12, <1>13 DEF ReadBuffer
<1>15. stream_out' # NoBeat /\ StreamedAt' # Origin =>
         stream_out'.data.buffer = shown'.data.buffer
  BY <1>1, <1>4, <1>5 DEF SameBuffer
<1>16. held' # NoBeat /\ Following(StreamedAt') # Origin =>
         held'.data.buffer = StreamedBuffer'
  <2> SUFFICES ASSUME held' # NoBeat, Following(StreamedAt') # Origin
               PROVE  held'.data.buffer = StreamedBuffer'
    OBVIOUS
  <2>1. CASE ~width_ready(take)
    <3>1. held' = held /\ held # NoBeat /\ HeldBuffer = held.data.buffer
      BY <1>7, <2>1 DEF width_ready, HeldBuffer
    <3>2. ~stream_out_open(take) => held.data.buffer = StreamedBuffer
      BY <1>1, <3>1 DEF SameBuffer
    <3> QED
      BY <1>6, <3>1, <3>2
  <2>2. CASE width_ready(take)
    <3>1. held' = line_out /\ line_out # NoBeat
      BY <1>7, <2>2
    <3>2. ReadAt # FirstWord
      <4> DEFINE a == Following(StreamedAt')
      <4>1. HeldAt' = ReadAt /\ PartOf(a.column) = 0
        BY <2>2, HeldStep
      <4>2. HeldAt' = WordAt(a)
        BY DEF HeldAt
      <4>3. a \in Places
        <5>1. StreamedAt \in Places /\ Following(StreamedAt) \in Places
          BY PlacesType
        <5>2. StreamedAt' \in Places
          BY <1>1, <5>1
        <5> QED
          BY <5>2, NextCopy
      <4> HIDE DEF a
      <4>4. ASSUME ReadAt = FirstWord PROVE FALSE
        <5>1. a.row = 0 /\ PixelOf(a.column) = 0
          <6>1. [row |-> a.row, pixel |-> PixelOf(a.column)] = FirstWord
            BY <4>1, <4>2, <4>4 DEF WordAt
          <6> QED
            BY <6>1 DEF FirstWord
        <5>2. a.column = 0
          <6>1. a.column \in 0..Columns-1
            BY <4>3 DEF Places
          <6> QED
            BY <4>1, <5>1, <6>1, ColumnCopies
        <5>3. a = Origin
          BY <4>3, <5>1, <5>2 DEF Places, Origin
        <5> QED
          BY <5>3 DEF a
      <4> QED
        BY <4>4
    <3> QED
      BY <1>9, <2>2, <3>1, <3>2 DEF SameBuffer
  <2> QED
    BY <2>1, <2>2
<1>17. line_out' # NoBeat /\ ReadAt' # FirstWord =>
         line_out'.data.buffer = HeldBuffer'
  BY <1>11, <1>12, <1>13 DEF SameBuffer
<1> QED
  BY <1>14, <1>15, <1>16, <1>17 DEF SameBuffer

-----------------------------------------------------------------------------
(* Multiply_Height.  The words in the FIFO, and the beats still to come, are *)
(* numbered from the start of line l, the one that is read from the FIFO.   *)

\* Word n, when line l is of buffer b0 and the line after it of buffer b1.
BeatNo(n, l, b0, b1) ==
  IF n < PIXELS THEN Source!Beat(b0, l, n)
                ELSE Source!Beat(b1, LineAfter(l), n - PIXELS)

\* The number of the FIFO's word i: in LOOP_FIFO the line is rotated.
WordNo(i) ==
  IF s_multiply_height = "LOOP_FIFO" /\ width_out + i > PIXELS
  THEN width_out + i - 1 - PIXELS
  ELSE width_out + i - 1

\* The number of the beat that is received next.
Arrived == IF s_multiply_height = "GET_CURRENT_LINE" THEN width_in
           ELSE IF s_multiply_height = "LOOP_FIFO" THEN PIXELS
           ELSE PIXELS + width_in

\* Beat b is number n: of the line that comes then and, unless it starts a
\* frame, of the buffer of the beat before.
Expected(b, n, l, b0, b1) ==
  /\ b.data.line = IF n < PIXELS THEN l
                   ELSE IF n < PIXELS + PIXELS THEN LineAfter(l)
                   ELSE LineAfter(LineAfter(l))
  /\ b.data.pixel = IF n < PIXELS THEN n
                    ELSE IF n < PIXELS + PIXELS THEN n - PIXELS
                    ELSE n - PIXELS - PIXELS
  /\ ~(b.data.line = 0 /\ b.data.pixel = 0) =>
       b.data.buffer = IF n <= PIXELS THEN b0 ELSE b1

\* A beat that may be the next one received.
Upcoming(b) == IF resampled = NoBeat THEN CanFollow(b, source) ELSE b = source

\* The counters agree with each other, with the state and with the place of
\* the word that is read next.
Counted ==
  /\ WordsAccountedFor
  /\ width_out = NextWord.pixel
  /\ enlarge_height_counter = CopyOf(NextWord.row)
  /\ s_multiply_height = "GET_CURRENT_LINE" =>
       width_out = 0 /\ enlarge_height_counter = 0
  /\ s_multiply_height = "LOOP_FIFO" =>
       width_in \in {0, PIXELS} /\ enlarge_height_counter # HeightCopies-1
  /\ s_multiply_height = "OUTPUT_LAST_LINE" =>
       enlarge_height_counter = HeightCopies-1

\* The FIFO holds consecutive beats and the beat after them is next.
Holds(l, b0, b1) ==
  /\ \A i \in 1..Len(Multiply_Height_FIFO) :
       Multiply_Height_FIFO[i] = BeatNo(WordNo(i), l, b0, b1)
  /\ LineAfter(l) # 0 => b1 = b0
  /\ NextWord # FirstWord => b0 = ReadBuffer
  /\ \A b \in Beats : Upcoming(b) => Expected(b, Arrived, l, b0, b1)

Consecutive ==
  /\ resampled # NoBeat => resampled = source
  /\ \E b0, b1 \in Buffers : Holds(LineOf(NextWord.row), b0, b1)

\* In each state, what WordsAccountedFor says.
LEMMA WordCount ==
  ASSUME Types
  PROVE  WordsAccountedFor <=>
           /\ s_multiply_height = "GET_CURRENT_LINE" =>
                Len(Multiply_Height_FIFO) = width_in
           /\ s_multiply_height = "LOOP_FIFO" =>
                Len(Multiply_Height_FIFO) = PIXELS
           /\ s_multiply_height = "OUTPUT_LAST_LINE" =>
                Len(Multiply_Height_FIFO) = PIXELS - width_out + width_in
BY DEF Types, WordsAccountedFor

\* A beat by its number.
LEMMA BeatNoFields ==
  ASSUME NEW l \in 0..LINES-1, NEW b0 \in Buffers, NEW b1 \in Buffers,
         NEW n \in 0..PIXELS+PIXELS-1
  PROVE  /\ BeatNo(n, l, b0, b1) \in Beats
         /\ LineAfter(l) \in 0..LINES-1
         /\ BeatNo(n, l, b0, b1).data =
              [buffer |-> IF n < PIXELS THEN b0 ELSE b1,
               line   |-> IF n < PIXELS THEN l ELSE LineAfter(l),
               pixel  |-> IF n < PIXELS THEN n ELSE n - PIXELS]
<1>1. LineAfter(l) \in 0..LINES-1
  BY Sizes DEF LineAfter
<1>2. CASE n < PIXELS
  <2>1. n \in 0..PIXELS-1 /\ BeatNo(n, l, b0, b1) = Source!Beat(b0, l, n)
    BY <1>2, Sizes DEF BeatNo
  <2> QED
    BY <1>1, <1>2, <2>1, BeatFields
<1>3. CASE ~(n < PIXELS)
  <2>1. /\ n - PIXELS \in 0..PIXELS-1
        /\ BeatNo(n, l, b0, b1) = Source!Beat(b1, LineAfter(l), n - PIXELS)
    BY <1>3, Sizes DEF BeatNo
  <2> QED
    BY <1>1, <1>3, <2>1, BeatFields
<1> QED
  BY <1>2, <1>3

\* The FIFO is read exactly when line_out takes a word: in GET_CURRENT_LINE it
\* is never full.
LEMMA ReadIsLoad ==
  ASSUME Types, WordsAccountedFor, NEW take \in BOOLEAN
  PROVE  fifo_read(take) <=> Loads(take)
<1>1. s_multiply_height = "GET_CURRENT_LINE" => ~fifo_full
  BY WordCount, Sizes DEF Types, fifo_full
<1> QED
  BY <1>1 DEF fifo_read, Loads

\* The beat that follows beat n is beat n + 1; c0 and c1 are the buffers of
\* the two lines when beat n is known.
LEMMA FollowingBeat ==
  ASSUME NEW l \in 0..LINES-1, NEW n \in 0..PIXELS+PIXELS-1,
         NEW b0, NEW b1, NEW c0, NEW c1,
         NEW a \in Beats, Expected(a, n, l, b0, b1),
         NEW b \in Beats, CanFollow(b, a),
         c0 = IF n = 0 THEN a.data.buffer ELSE b0,
         n > 0 => c1 = IF n = PIXELS THEN a.data.buffer ELSE b1
  PROVE  Expected(b, n + 1, l, c0, c1)
<1> DEFINE al == a.data.line
           ap == a.data.pixel
           ab == a.data.buffer
           bl == b.data.line
           bp == b.data.pixel
           bb == b.data.buffer
<1>1. /\ PIXELS \in Nat \ {0} /\ LINES \in Nat \ {0}
      /\ al \in 0..LINES-1 /\ ap \in 0..PIXELS-1
      /\ bl \in 0..LINES-1 /\ bp \in 0..PIXELS-1
  BY Sizes, BeatsAreWords
<1>2. IF al = LINES-1 /\ ap = PIXELS-1
      THEN bl = 0 /\ bp = 0
      ELSE /\ bb = ab
           /\ bl = IF ap = PIXELS-1 THEN al + 1 ELSE al
           /\ bp = IF ap = PIXELS-1 THEN 0 ELSE ap + 1
  BY BeatsAreWords DEF CanFollow
<1>3. /\ al = IF n < PIXELS THEN l ELSE LineAfter(l)
      /\ ap = IF n < PIXELS THEN n ELSE n - PIXELS
      /\ ~(al = 0 /\ ap = 0) => ab = IF n <= PIXELS THEN b0 ELSE b1
  BY <1>1 DEF Expected
<1> HIDE DEF al, ap, ab, bl, bp, bb
<1>4. c0 = IF n = 0 THEN ab ELSE b0
  BY DEF ab
<1>5. n > 0 => c1 = IF n = PIXELS THEN ab ELSE b1
  BY DEF ab
<1>6. ap = PIXELS-1 => bl = LineAfter(al) /\ bp = 0
  BY <1>1, <1>2 DEF LineAfter
<1>7. ap # PIXELS-1 => bl = al /\ bp = ap + 1 /\ bb = ab
  BY <1>2
<1>8. ~(bl = 0 /\ bp = 0) => bb = ab
  BY <1>2
<1>9. CASE n + 1 < PIXELS
  <2>1. bl = l /\ bp = n + 1 /\ (~(bl = 0 /\ bp = 0) => bb = c0)
    BY <1>1, <1>3, <1>4, <1>7, <1>9
  <2> QED
    BY <1>1, <1>9, <2>1 DEF Expected, bl, bp, bb
<1>10. CASE n + 1 = PIXELS
  <2>1. bl = LineAfter(l) /\ bp = 0 /\ (~(bl = 0 /\ bp = 0) => bb = c0)
    BY <1>1, <1>3, <1>4, <1>6, <1>8, <1>10
  <2> QED
    BY <1>1, <1>10, <2>1 DEF Expected, bl, bp, bb
<1>11. CASE n + 1 > PIXELS /\ n + 1 < PIXELS + PIXELS
  <2>1. /\ bl = LineAfter(l) /\ bp = n + 1 - PIXELS
        /\ ~(bl = 0 /\ bp = 0) => bb = c1
    BY <1>1, <1>3, <1>5, <1>7, <1>11
  <2> QED
    BY <1>1, <1>11, <2>1 DEF Expected, bl, bp, bb
<1>12. CASE n + 1 = PIXELS + PIXELS
  <2>1. /\ bl = LineAfter(LineAfter(l)) /\ bp = 0
        /\ ~(bl = 0 /\ bp = 0) => bb = c1
    BY <1>1, <1>3, <1>5, <1>6, <1>8, <1>12
  <2> QED
    BY <1>1, <1>12, <2>1 DEF Expected, bl, bp, bb
<1> QED
  BY <1>1, <1>9, <1>10, <1>11, <1>12

\* Once line l has been read the beats are numbered from the line after it.
LEMMA NextLineBeat ==
  ASSUME NEW l \in 0..LINES-1, NEW n \in PIXELS..PIXELS+PIXELS,
         NEW c0, NEW c1, LineAfter(l) # 0 => c1 = c0,
         NEW b, Expected(b, n, l, c0, c1)
  PROVE  Expected(b, n - PIXELS, LineAfter(l), c1, c1)
BY Sizes DEF Expected

\* Of the beats that may be received after an edge.
LEMMA UpcomingStep ==
  ASSUME Types, resampled # NoBeat => resampled = source,
         NEW give \in BOOLEAN, Resampler(give)
  PROVE  /\ resampled' # NoBeat => resampled' = source'
         /\ \A b \in Beats : Upcoming(b)' =>
              IF received THEN CanFollow(b, resampled) ELSE Upcoming(b)
<1>1. give => source' \in Beats /\ CanFollow(source', source)
  BY SourceStep DEF Resampler, Types
<1>2. received => resampler_ready /\ resampled # NoBeat
  BY DEF received, resampler_ready
<1>3. ~received /\ resampler_ready => resampled = NoBeat
  BY DEF received, resampler_ready
<1>4. CASE give
  <2>1. resampled' = source' /\ resampler_ready /\ source' # NoBeat
    BY <1>1, <1>4, BeatsAreWords DEF Resampler
  <2> QED
    BY <1>1, <1>2, <1>3, <1>4, <2>1 DEF Upcoming
<1>5. CASE ~give
  <2>1. source' = source
        /\ resampled' = IF resampler_ready THEN NoBeat ELSE resampled
    BY <1>5 DEF Resampler
  <2> QED
    BY <1>2, <1>3, <2>1 DEF Upcoming
<1> QED
  BY <1>4, <1>5

\* The word at the head of the FIFO is the one that is read next.
LEMMA HeadWord ==
  ASSUME Types, Counted, NEW b0 \in Buffers, NEW b1 \in Buffers,
         Holds(LineOf(NextWord.row), b0, b1)
  PROVE  /\ HeadInPlace
         /\ Multiply_Height_FIFO # <<>> =>
              /\ Head(Multiply_Height_FIFO) = Multiply_Height_FIFO[1]
              /\ Head(Multiply_Height_FIFO).data.pixel = width_out
              /\ Head(Multiply_Height_FIFO).data.buffer = b0
<1> DEFINE l == LineOf(NextWord.row)
           q == Multiply_Height_FIFO
<1> SUFFICES ASSUME q # <<>>
             PROVE  /\ Head(q) = q[1] /\ Head(q) \in Beats
                    /\ Head(q).data = [buffer |-> b0, line |-> l,
                                       pixel |-> width_out]
  BY DEF HeadInPlace, Counted
<1>1. l \in 0..LINES-1
  BY PlacesType, NextWordPlace
<1>2. width_out \in 0..PIXELS-1 /\ PIXELS \in Nat \ {0}
  BY Sizes DEF Types
<1>3. Head(q) = q[1] /\ 1 \in 1..Len(q)
  BY HeadTailProperties, EmptySeq, LenProperties DEF Types
<1>4. WordNo(1) = width_out
  BY <1>2 DEF WordNo
<1>5. q[1] = BeatNo(width_out, l, b0, b1)
  BY <1>3, <1>4 DEF Holds
<1>6. width_out \in 0..PIXELS+PIXELS-1 /\ width_out < PIXELS
  BY <1>2
<1> HIDE DEF l, q
<1>7. /\ BeatNo(width_out, l, b0, b1) \in Beats
      /\ BeatNo(width_out, l, b0, b1).data =
           [buffer |-> IF width_out < PIXELS THEN b0 ELSE b1,
            line   |-> IF width_out < PIXELS THEN l ELSE LineAfter(l),
            pixel  |-> IF width_out < PIXELS THEN width_out
                                             ELSE width_out - PIXELS]
  BY <1>1, <1>6, BeatNoFields
<1> QED
  BY <1>3, <1>5, <1>6, <1>7

\* The beat received is the next one of its line.
LEMMA ReceivedBeat ==
  ASSUME Types, Counted, resampled # NoBeat => resampled = source,
         NEW l \in 0..LINES-1, NEW b0 \in Buffers, NEW b1 \in Buffers,
         Holds(l, b0, b1), received
  PROVE  /\ resampled \in Beats /\ Expected(resampled, Arrived, l, b0, b1)
         /\ s_multiply_height # "LOOP_FIFO" /\ width_in # PIXELS
         /\ Arrived \in 0..PIXELS+PIXELS-1
         /\ resampled.data.pixel = width_in
<1>1. /\ resampled \in Beats /\ resampled = source
      /\ s_multiply_height # "LOOP_FIFO" /\ width_in # PIXELS
  BY DEF received, height_ready, Types
<1>2. Expected(resampled, Arrived, l, b0, b1)
  BY <1>1, BeatsAreWords DEF Holds, Upcoming
<1>3. /\ Arrived \in 0..PIXELS+PIXELS-1
      /\ Arrived = width_in \/ Arrived = PIXELS + width_in
      /\ width_in \in 0..PIXELS-1
  BY <1>1, Sizes DEF Types, Arrived
<1>4. resampled.data.pixel = width_in
  BY <1>2, <1>3, Sizes DEF Expected
<1> QED
  BY <1>1, <1>2, <1>3, <1>4

\* The marks of the words never disturb the counts: a start of packet comes
\* when a line is to start anyhow.
LEMMA CountersStep ==
  ASSUME Types, Counted, resampled # NoBeat => resampled = source,
         NEW b0 \in Buffers, NEW b1 \in Buffers,
         Holds(LineOf(NextWord.row), b0, b1),
         NEW take \in BOOLEAN,
         WidthIn, WidthOut(take), EnlargeHeightCounter(take)
  PROVE  /\ width_in' = IF s_multiply_height = "LOOP_FIFO" THEN 0
                        ELSE IF received THEN width_in + 1 ELSE width_in
         /\ width_out' = IF ~fifo_read(take) THEN width_out
                         ELSE IF width_out = PIXELS-1 THEN 0 ELSE width_out + 1
         /\ enlarge_height_counter' =
              IF ~EndOfLine(take) THEN enlarge_height_counter
              ELSE IF enlarge_height_counter = HeightCopies-1 THEN 0
              ELSE enlarge_height_counter + 1
         /\ fifo_read(take) => s_multiply_height # "GET_CURRENT_LINE"
<1>1. LineOf(NextWord.row) \in 0..LINES-1
  BY PlacesType, NextWordPlace
<1>2. received /\ resampled.startofpacket => width_in = 0
  BY <1>1, ReceivedBeat, BeatsAreWords
<1>3. fifo_read(take) /\ Head(Multiply_Height_FIFO).startofpacket => width_out = 0
  BY HeadWord, ReadsAWord, BeatsAreWords
<1>4. fifo_read(take) => s_multiply_height # "GET_CURRENT_LINE"
  BY ReadIsLoad DEF Counted, Loads
<1>5. width_in' = IF s_multiply_height = "LOOP_FIFO" THEN 0
                  ELSE IF received THEN width_in + 1 ELSE width_in
  BY <1>2 DEF WidthIn
<1>6. s_multiply_height = "GET_CURRENT_LINE" =>
        width_out = 0 /\ enlarge_height_counter = 0
  BY DEF Counted
<1>7. width_out' = IF ~fifo_read(take) THEN width_out
                   ELSE IF width_out = PIXELS-1 THEN 0 ELSE width_out + 1
  BY <1>3, <1>4, <1>6 DEF WidthOut, EndOfLine
<1>8. enlarge_height_counter' =
        IF ~EndOfLine(take) THEN enlarge_height_counter
        ELSE IF enlarge_height_counter = HeightCopies-1 THEN 0
        ELSE enlarge_height_counter + 1
  <2>1. EndOfLine(take) =>
          enlarge_height_counter' = (enlarge_height_counter + 1) % HeightCopies
    BY <1>4 DEF EnlargeHeightCounter, EndOfLine
  <2>2. (enlarge_height_counter + 1) % HeightCopies =
          IF enlarge_height_counter = HeightCopies-1 THEN 0
          ELSE enlarge_height_counter + 1
    BY Sizes DEF Types
  <2> QED
    BY <1>4, <1>6, <2>1, <2>2 DEF EnlargeHeightCounter
<1> QED
  BY <1>4, <1>5, <1>7, <1>8

\* What an edge does to the FIFO.
LEMMA FifoStep ==
  ASSUME Types, NEW take \in BOOLEAN, Fifo(take)
  PROVE  LET q == Multiply_Height_FIFO
             r == IF fifo_read(take) THEN 1 ELSE 0
             loops == s_multiply_height = "LOOP_FIFO" /\ fifo_read(take)
             n == Len(q) - r
         IN  /\ Len(q) \in Nat /\ n \in Nat
             /\ Len(q') = IF loops \/ received THEN n + 1 ELSE n
             /\ \A i \in 1..n : q'[i] = q[i + r]
             /\ loops => q'[n + 1] = q[1]
             /\ ~loops /\ received => q'[n + 1] = resampled
<1> DEFINE q == Multiply_Height_FIFO
           r == IF fifo_read(take) THEN 1 ELSE 0
           loops == s_multiply_height = "LOOP_FIFO" /\ fifo_read(take)
           n == Len(q) - r
           rest == IF fifo_read(take) THEN Tail(q) ELSE q
<1>1. /\ Len(q) \in Nat /\ n \in Nat
      /\ rest \in Seq(Beats) /\ Len(rest) = n
      /\ \A i \in 1..n : rest[i] = q[i + r]
  <2>1. CASE fifo_read(take)
    BY <2>1, ReadsAWord
  <2>2. CASE ~fifo_read(take)
    BY <2>2, LenProperties DEF Types
  <2> QED
    BY <2>1, <2>2
<1>2. \A e \in Beats : /\ Len(Append(rest, e)) = n + 1
                       /\ \A i \in 1..n : Append(rest, e)[i] = rest[i]
                       /\ Append(rest, e)[n + 1] = e
  BY <1>1, AppendProperties
<1>3. q' = IF loops THEN Append(rest, Head(q))
           ELSE IF received THEN Append(rest, resampled) ELSE rest
  BY DEF Fifo
<1>4. loops => Head(q) = q[1] /\ Head(q) \in Beats
  BY ReadsAWord
<1>5. received => resampled \in Beats
  BY DEF received, Types
<1> HIDE DEF q, r, loops, n, rest
<1>6. CASE loops
  <2>1. q' = Append(rest, q[1]) /\ q[1] \in Beats
    BY <1>3, <1>4, <1>6
  <2>2. Len(q') = n + 1 /\ q'[n + 1] = q[1] /\ \A i \in 1..n : q'[i] = rest[i]
    BY <1>2, <2>1
  <2> QED
    BY <1>1, <1>6, <2>2 DEF q, r, loops, n
<1>7. CASE ~loops /\ received
  <2>1. q' = Append(rest, resampled) /\ resampled \in Beats
    BY <1>3, <1>5, <1>7
  <2>2. /\ Len(q') = n + 1 /\ q'[n + 1] = resampled
        /\ \A i \in 1..n : q'[i] = rest[i]
    BY <1>2, <2>1
  <2> QED
    BY <1>1, <1>7, <2>2 DEF q, r, loops, n
<1>8. CASE ~loops /\ ~received
  <2>1. q' = rest
    BY <1>3, <1>8
  <2> QED
    BY <1>1, <1>8, <2>1 DEF q, r, loops, n
<1> QED
  BY <1>6, <1>7, <1>8

\* The buffers of the lines once the beat of this edge is known: those of
\* before, but for a line that starts with it.
KeepsUp(l, b0, b1, c0, c1) ==
  LET next == IF received THEN Arrived + 1 ELSE Arrived
  IN  /\ Arrived # 0 => c0 = b0
      /\ \A n \in 0..Arrived-1 : BeatNo(n, l, c0, c1) = BeatNo(n, l, b0, b1)
      /\ received => resampled = BeatNo(Arrived, l, c0, c1)
      /\ LineAfter(l) # 0 => c1 = c0
      /\ NextWord # FirstWord => c0 = ReadBuffer
      /\ \A b \in Beats : Upcoming(b)' => Expected(b, next, l, c0, c1)

\* Whatever is received, there are such buffers.
LEMMA ReceiveStep ==
  ASSUME Types, Counted, resampled # NoBeat => resampled = source,
         NEW l, l = LineOf(NextWord.row),
         NEW b0 \in Buffers, NEW b1 \in Buffers, Holds(l, b0, b1),
         NEW give \in BOOLEAN, Resampler(give)
  PROVE  \E c0, c1 \in Buffers : KeepsUp(l, b0, b1, c0, c1)
<1>1. l \in 0..LINES-1 /\ NextWord \in WordPlaces
  BY PlacesType, NextWordPlace
<1>2. \A b \in Beats : Upcoming(b)' =>
        IF received THEN CanFollow(b, resampled) ELSE Upcoming(b)
  BY UpcomingStep
<1>3. CASE ~received
  <2>1. KeepsUp(l, b0, b1, b0, b1)
    BY <1>2, <1>3 DEF KeepsUp, Holds
  <2> QED
    BY <2>1
<1>4. CASE received
  <2> DEFINE rb == resampled.data.buffer
             n == Arrived
             c0 == IF n = 0 THEN rb ELSE b0
             c1 == IF n = 0 THEN rb ELSE IF n = PIXELS THEN rb ELSE b1
  <2>1. /\ resampled \in Beats /\ Expected(resampled, n, l, b0, b1)
        /\ n \in 0..PIXELS+PIXELS-1
        /\ s_multiply_height # "LOOP_FIFO"
    BY <1>1, <1>4, ReceivedBeat
  <2>2. /\ rb \in Buffers
        /\ resampled = Source!Beat(rb, resampled.data.line, resampled.data.pixel)
    BY <2>1, BeatsAreWords
  <2>3. c0 \in Buffers /\ c1 \in Buffers
    BY <2>2
  <2>4. LineAfter(l) # 0 => b1 = b0
    BY DEF Holds
  <2>5. PIXELS \in Nat \ {0}
    BY Sizes
  <2>6. /\ resampled.data.line = IF n < PIXELS THEN l ELSE LineAfter(l)
        /\ resampled.data.pixel = IF n < PIXELS THEN n ELSE n - PIXELS
        /\ ~(resampled.data.line = 0 /\ resampled.data.pixel = 0) =>
             rb = IF n <= PIXELS THEN b0 ELSE b1
    BY <2>1, <2>5 DEF Expected
  <2>7. n = 0 /\ l # 0 => rb = b0
    BY <2>5, <2>6
  <2>8. LineAfter(l) # 0 => c1 = c0
    BY <2>4, <2>5, <2>6
  <2>9. \A m \in 0..n-1 : BeatNo(m, l, c0, c1) = BeatNo(m, l, b0, b1)
    BY <2>1, <2>5 DEF BeatNo
  <2>10. resampled = BeatNo(n, l, c0, c1)
    <3>1. CASE n < PIXELS
      <4>1. resampled = Source!Beat(rb, l, n)
        BY <2>2, <2>6, <3>1
      <4>2. rb = c0
        BY <2>1, <2>5, <2>6, <3>1
      <4> QED
        BY <3>1, <4>1, <4>2 DEF BeatNo
    <3>2. CASE ~(n < PIXELS)
      <4>1. resampled = Source!Beat(rb, LineAfter(l), n - PIXELS)
        BY <2>2, <2>6, <3>2
      <4>2. rb = c1
        BY <2>1, <2>5, <2>6, <3>2
      <4> QED
        BY <3>2, <4>1, <4>2 DEF BeatNo
    <3> QED
      BY <3>1, <3>2
  <2>11. NextWord # FirstWord => c0 = ReadBuffer
    <3> SUFFICES ASSUME NextWord # FirstWord PROVE c0 = ReadBuffer
      OBVIOUS
    <3>1. b0 = ReadBuffer
      BY DEF Holds
    <3>2. ASSUME n = 0 PROVE l # 0
      <4>1. s_multiply_height = "GET_CURRENT_LINE"
        BY <2>1, <2>5, <3>2 DEF Arrived, Types
      <4>2. NextWord.pixel = 0 /\ CopyOf(NextWord.row) = 0
        BY <4>1 DEF Counted
      <4>3. NextWord.row # 0
        BY <1>1, <4>2 DEF WordPlaces, FirstWord
      <4>4. NextWord.row \in 0..Rows-1
        BY <1>1 DEF WordPlaces
      <4> QED
        BY <4>2, <4>3, <4>4, RowCopies
    <3> QED
      BY <2>7, <3>1, <3>2
  <2>12. \A b \in Beats : Upcoming(b)' => Expected(b, n + 1, l, c0, c1)
    <3> SUFFICES ASSUME NEW b \in Beats, Upcoming(b)'
                 PROVE  Expected(b, n + 1, l, c0, c1)
      OBVIOUS
    <3>1. CanFollow(b, resampled)
      BY <1>2, <1>4
    <3>2. c0 = IF n = 0 THEN resampled.data.buffer ELSE b0
      OBVIOUS
    <3>3. n > 0 => c1 = IF n = PIXELS THEN resampled.data.buffer ELSE b1
      OBVIOUS
    <3> HIDE DEF c0, c1, n
    <3> QED
      BY <1>1, <2>1, <3>1, <3>2, <3>3, FollowingBeat
  <2>13. n # 0 => c0 = b0
    OBVIOUS
  <2>14. KeepsUp(l, b0, b1, c0, c1)
    <3> HIDE DEF c0, c1
    <3> QED
      BY <1>4, <2>8, <2>9, <2>10, <2>11, <2>12, <2>13 DEF KeepsUp
  <2> HIDE DEF c0, c1
  <2> QED
    BY <2>3, <2>14
<1> QED
  BY <1>3, <1>4

\* The place of the word that is read next, after an edge.
LEMMA NextWordStep ==
  ASSUME Types, InPlace, Counted,
         NEW b0 \in Buffers, NEW b1 \in Buffers,
         Holds(LineOf(NextWord.row), b0, b1),
         NEW take \in BOOLEAN, MultiplyWidth(take), Sink(take), LineOut(take)
  PROVE  /\ NextWord' = IF fifo_read(take) THEN FollowingWord(NextWord)
                                           ELSE NextWord
         /\ CopyOf(NextWord'.row) =
              IF ~EndOfLine(take) THEN enlarge_height_counter
              ELSE IF enlarge_height_counter = HeightCopies-1 THEN 0
              ELSE enlarge_height_counter + 1
         /\ LineOf(NextWord'.row) =
              IF EndOfLine(take) /\ enlarge_height_counter = HeightCopies-1
              THEN LineAfter(LineOf(NextWord.row)) ELSE LineOf(NextWord.row)
         /\ NextWord'.pixel =
              IF ~fifo_read(take) THEN width_out
              ELSE IF width_out = PIXELS-1 THEN 0 ELSE width_out + 1
<1>1. HeadInPlace
  BY HeadWord
<1>2. fifo_read(take) <=> Loads(take)
  BY ReadIsLoad DEF Counted
<1>3. NextWord' = IF fifo_read(take) THEN FollowingWord(NextWord) ELSE NextWord
  BY <1>1, <1>2, LineOutStep
<1>4. NextWord \in WordPlaces /\ NextWord.pixel = width_out
      /\ CopyOf(NextWord.row) = enlarge_height_counter
  BY PlacesType DEF Counted
<1>5. CASE ~fifo_read(take)
  <2>1. NextWord' = NextWord /\ ~EndOfLine(take)
    BY <1>3, <1>5 DEF EndOfLine
  <2>2. CopyOf(NextWord'.row) =
          IF ~EndOfLine(take) THEN enlarge_height_counter
          ELSE IF enlarge_height_counter = HeightCopies-1 THEN 0
          ELSE enlarge_height_counter + 1
    BY <1>4, <2>1
  <2>3. LineOf(NextWord'.row) =
          IF EndOfLine(take) /\ enlarge_height_counter = HeightCopies-1
          THEN LineAfter(LineOf(NextWord.row)) ELSE LineOf(NextWord.row)
    BY <2>1
  <2>4. NextWord'.pixel =
          IF ~fifo_read(take) THEN width_out
          ELSE IF width_out = PIXELS-1 THEN 0 ELSE width_out + 1
    BY <1>4, <1>5, <2>1
  <2> QED
    BY <1>3, <2>2, <2>3, <2>4, Zenon
<1>6. CASE fifo_read(take)
  <2> DEFINE v == FollowingWord(NextWord)
  <2>1. /\ NextWord.pixel # PIXELS-1 =>
             v.row = NextWord.row /\ v.pixel = NextWord.pixel + 1
        /\ NextWord.pixel = PIXELS-1 => v.pixel = 0
        /\ NextWord.pixel = PIXELS-1 /\ CopyOf(NextWord.row) # HeightCopies-1 =>
             /\ LineOf(v.row) = LineOf(NextWord.row)
             /\ CopyOf(v.row) = CopyOf(NextWord.row) + 1
        /\ NextWord.pixel = PIXELS-1 /\ CopyOf(NextWord.row) = HeightCopies-1 =>
             /\ LineOf(v.row) = LineAfter(LineOf(NextWord.row))
             /\ CopyOf(v.row) = 0
    BY <1>4, NextWordPlace
  <2>2. NextWord' = v
    BY <1>3, <1>6
  <2> HIDE DEF v
  <2> QED
    BY <1>3, <1>4, <1>6, <2>1, <2>2 DEF EndOfLine
<1> QED
  BY <1>5, <1>6

\* Every edge keeps the counters in agreement.
LEMMA CountedStep ==
  ASSUME Types, InPlace, Counted, resampled # NoBeat => resampled = source,
         NEW b0 \in Buffers, NEW b1 \in Buffers,
         Holds(LineOf(NextWord.row), b0, b1),
         NEW give \in BOOLEAN, NEW take \in BOOLEAN, Edge(give, take)
  PROVE  Counted'
<1>1. Types'
  BY TypesStep
<1>2. Registers(give, take)
  BY DEF Edge, GetCurrentLine, LoopFifo, OutputLastLine
<1>3. /\ width_in' = IF s_multiply_height = "LOOP_FIFO" THEN 0
                     ELSE IF received THEN width_in + 1 ELSE width_in
      /\ width_out' = IF ~fifo_read(take) THEN width_out
                      ELSE IF width_out = PIXELS-1 THEN 0 ELSE width_out + 1
      /\ enlarge_height_counter' =
           IF ~EndOfLine(take) THEN enlarge_height_counter
           ELSE IF enlarge_height_counter = HeightCopies-1 THEN 0
           ELSE enlarge_height_counter + 1
      /\ fifo_read(take) => s_multiply_height # "GET_CURRENT_LINE"
  BY <1>2, CountersStep DEF Registers
<1>4. width_out' = NextWord'.pixel /\ enlarge_height_counter' = CopyOf(NextWord'.row)
  BY <1>2, <1>3, NextWordStep DEF Registers
<1> DEFINE q == Multiply_Height_FIFO
           r == IF fifo_read(take) THEN 1 ELSE 0
<1>5. /\ Len(q) \in Nat
      /\ Len(q') = IF (s_multiply_height = "LOOP_FIFO" /\ fifo_read(take)) \/ received
                   THEN Len(q) - r + 1 ELSE Len(q) - r
  BY <1>2, FifoStep DEF Registers
<1>6. /\ width_in \in 0..PIXELS /\ width_out \in 0..PIXELS-1
      /\ enlarge_height_counter \in 0..HeightCopies-1
      /\ PIXELS \in Nat \ {0} /\ HeightCopies \in Nat \ {0, 1}
  BY Sizes DEF Types
<1>7. /\ s_multiply_height = "GET_CURRENT_LINE" =>
           Len(q) = width_in /\ width_out = 0 /\ enlarge_height_counter = 0
      /\ s_multiply_height = "LOOP_FIFO" =>
           Len(q) = PIXELS /\ enlarge_height_counter # HeightCopies-1
      /\ s_multiply_height = "OUTPUT_LAST_LINE" =>
           /\ Len(q) = PIXELS - width_out + width_in
           /\ enlarge_height_counter = HeightCopies-1
  BY WordCount DEF Counted
<1>8. received => width_in # PIXELS /\ s_multiply_height # "LOOP_FIFO"
  BY DEF received, height_ready
<1>9. EndOfLine(take) <=> fifo_read(take) /\ width_out = PIXELS-1
  BY DEF EndOfLine
<1>10. WordsAccountedFor' <=>
         /\ s_multiply_height' = "GET_CURRENT_LINE" => Len(q') = width_in'
         /\ s_multiply_height' = "LOOP_FIFO" => Len(q') = PIXELS
         /\ s_multiply_height' = "OUTPUT_LAST_LINE" =>
              Len(q') = PIXELS - width_out' + width_in'
  BY <1>1 DEF Types, WordsAccountedFor
<1> HIDE DEF q, r
<1>11. CASE GetCurrentLine(give, take)
  <2>1. /\ s_multiply_height = "GET_CURRENT_LINE"
        /\ s_multiply_height' = IF width_in = PIXELS THEN "LOOP_FIFO"
                                                     ELSE "GET_CURRENT_LINE"
    BY <1>11 DEF GetCurrentLine
  <2>2. Len(q') = width_in' /\ width_out' = 0 /\ enlarge_height_counter' = 0
    BY <1>3, <1>5, <1>6, <1>7, <1>9, <2>1 DEF r
  <2>3. s_multiply_height' = "LOOP_FIFO" => width_in' = PIXELS
    BY <1>3, <1>8, <2>1
  <2>4. WordsAccountedFor'
    BY <1>10, <2>1, <2>2, <2>3
  <2> QED
    BY <1>4, <1>6, <2>1, <2>2, <2>3, <2>4 DEF Counted
<1>12. CASE LoopFifo(give, take)
  <2>1. /\ s_multiply_height = "LOOP_FIFO"
        /\ s_multiply_height' =
             IF EndOfLine(take) /\ enlarge_height_counter >= HeightCopies - 2
             THEN "OUTPUT_LAST_LINE" ELSE "LOOP_FIFO"
    BY <1>12 DEF LoopFifo
  <2>2. Len(q') = PIXELS /\ width_in' = 0
    BY <1>3, <1>5, <1>6, <1>7, <1>8, <2>1 DEF r
  <2>3. s_multiply_height' = "OUTPUT_LAST_LINE" =>
          width_out' = 0 /\ enlarge_height_counter' = HeightCopies-1
    BY <1>3, <1>6, <1>7, <1>9, <2>1
  <2>4. s_multiply_height' = "LOOP_FIFO" => enlarge_height_counter' # HeightCopies-1
    BY <1>3, <1>6, <1>7, <1>9, <2>1
  <2>5. WordsAccountedFor'
    BY <1>6, <1>10, <2>1, <2>2, <2>3
  <2> QED
    BY <1>4, <2>1, <2>2, <2>3, <2>4, <2>5 DEF Counted
<1>13. CASE OutputLastLine(give, take)
  <2>1. /\ s_multiply_height = "OUTPUT_LAST_LINE"
        /\ s_multiply_height' = IF EndOfLine(take) THEN "GET_CURRENT_LINE"
                                                   ELSE "OUTPUT_LAST_LINE"
    BY <1>13 DEF OutputLastLine
  <2>2. CASE EndOfLine(take)
    <3>1. /\ s_multiply_height' = "GET_CURRENT_LINE"
          /\ width_out' = 0 /\ enlarge_height_counter' = 0
      BY <1>3, <1>7, <1>9, <2>1, <2>2
    <3>2. Len(q') = width_in'
      BY <1>3, <1>5, <1>6, <1>7, <1>9, <2>1, <2>2 DEF r
    <3> QED
      BY <1>4, <1>10, <3>1, <3>2 DEF Counted
  <2>3. CASE ~EndOfLine(take)
    <3>1. s_multiply_height' = "OUTPUT_LAST_LINE"
          /\ enlarge_height_counter' = HeightCopies-1
      BY <1>3, <1>7, <2>1, <2>3
    <3>2. width_out' = width_out + r
      BY <1>3, <1>6, <1>9, <2>3 DEF r
    <3>3. width_in' = IF received THEN width_in + 1 ELSE width_in
      BY <1>3, <2>1
    <3>4. Len(q') = IF received THEN Len(q) - r + 1 ELSE Len(q) - r
      BY <1>5, <2>1
    <3>5. Len(q) = PIXELS - width_out + width_in /\ r \in {0, 1}
      BY <1>7, <2>1 DEF r
    <3>6. Len(q') = PIXELS - width_out' + width_in'
      BY <1>6, <3>2, <3>3, <3>4, <3>5
    <3> QED
      BY <1>4, <1>10, <3>1, <3>6 DEF Counted
  <2> QED
    BY <2>2, <2>3
<1> QED
  BY <1>11, <1>12, <1>13 DEF Edge

\* Every edge keeps the words in the FIFO, and those to come, in order.
LEMMA ConsecutiveStep ==
  ASSUME Types, InPlace, SameBuffer, Counted, Consecutive,
         NEW give \in BOOLEAN, NEW take \in BOOLEAN, Edge(give, take)
  PROVE  SameBuffer' /\ Consecutive'
<1> DEFINE l == LineOf(NextWord.row)
           q == Multiply_Height_FIFO
           r == IF fifo_read(take) THEN 1 ELSE 0
           n == Len(q) - r
           next == IF received THEN Arrived + 1 ELSE Arrived
           s == s_multiply_height
           P == PIXELS
<1>1. Registers(give, take)
  BY DEF Edge, GetCurrentLine, LoopFifo, OutputLastLine
<1>2. PICK b0 \in Buffers, b1 \in Buffers : Holds(l, b0, b1)
  BY DEF Consecutive
<1>3. resampled # NoBeat => resampled = source
  BY DEF Consecutive
<1>4. PICK c0 \in Buffers, c1 \in Buffers : KeepsUp(l, b0, b1, c0, c1)
  BY <1>1, <1>2, <1>3, ReceiveStep DEF Registers
<1>5. l \in 0..LINES-1
  BY PlacesType, NextWordPlace
<1>6. fifo_read(take) <=> Loads(take)
  BY ReadIsLoad DEF Counted
<1>7. fifo_read(take) => /\ Head(q) = q[1] /\ Head(q).data.buffer = b0
                         /\ Len(q) \in Nat \ {0}
  BY <1>2, HeadWord, ReadsAWord
<1>8. NextWord # FirstWord => b0 = ReadBuffer
  BY <1>2 DEF Holds
<1>9. /\ SameBuffer'
      /\ ReadBuffer' = IF fifo_read(take) THEN b0 ELSE ReadBuffer
  <2>1. HeadInPlace
    BY <1>2, HeadWord
  <2>2. Loads(take) /\ NextWord # FirstWord => Head(q).data.buffer = ReadBuffer
    BY <1>6, <1>7, <1>8
  <2>3. /\ SameBuffer'
        /\ ReadBuffer' = IF Loads(take) THEN Head(q).data.buffer ELSE ReadBuffer
    BY <1>1, <2>1, <2>2, BufferStep DEF Registers
  <2> QED
    BY <1>6, <1>7, <2>3
<1>10. /\ NextWord' = IF fifo_read(take) THEN FollowingWord(NextWord) ELSE NextWord
       /\ LineOf(NextWord'.row) =
            IF EndOfLine(take) /\ enlarge_height_counter = HeightCopies-1
            THEN LineAfter(l) ELSE l
  BY <1>1, <1>2, NextWordStep DEF Registers
<1>11. Types' /\ Counted'
  BY <1>2, <1>3, TypesStep, CountedStep
<1>12. /\ width_in' = IF s = "LOOP_FIFO" THEN 0
                      ELSE IF received THEN width_in + 1 ELSE width_in
       /\ width_out' = IF ~fifo_read(take) THEN width_out
                       ELSE IF width_out = P-1 THEN 0 ELSE width_out + 1
       /\ fifo_read(take) => s # "GET_CURRENT_LINE"
  BY <1>1, <1>2, <1>3, CountersStep DEF Registers
<1>13. /\ Len(q) \in Nat /\ n \in Nat
       /\ Len(q') = IF (s = "LOOP_FIFO" /\ fifo_read(take)) \/ received
                    THEN n + 1 ELSE n
       /\ \A i \in 1..n : q'[i] = q[i + r]
       /\ s = "LOOP_FIFO" /\ fifo_read(take) => q'[n + 1] = q[1]
       /\ s # "LOOP_FIFO" /\ received => q'[n + 1] = resampled
  BY <1>1, FifoStep DEF Registers
<1>14. /\ width_in \in 0..P /\ width_out \in 0..P-1 /\ P \in Nat \ {0}
       /\ s \in {"GET_CURRENT_LINE", "LOOP_FIFO", "OUTPUT_LAST_LINE"}
       /\ width_in' \in 0..P /\ r \in {0, 1}
  BY <1>11, Sizes DEF Types
<1>15. /\ s = "GET_CURRENT_LINE" =>
            /\ Len(q) = width_in /\ width_out = 0
            /\ Arrived = width_in
       /\ s = "LOOP_FIFO" =>
            /\ Len(q) = P /\ Arrived = P
            /\ enlarge_height_counter # HeightCopies-1
       /\ s = "OUTPUT_LAST_LINE" =>
            /\ Len(q) = P - width_out + width_in /\ Arrived = P + width_in
            /\ enlarge_height_counter = HeightCopies-1
  BY <1>14, WordCount DEF Counted, Arrived
<1>16. \A i \in 1..Len(q) : q[i] = BeatNo(WordNo(i), l, b0, b1)
  BY <1>2 DEF Holds
<1>17. /\ Arrived # 0 => c0 = b0
       /\ \A m \in 0..Arrived-1 : BeatNo(m, l, c0, c1) = BeatNo(m, l, b0, b1)
       /\ received => resampled = BeatNo(Arrived, l, c0, c1)
       /\ LineAfter(l) # 0 => c1 = c0
       /\ NextWord # FirstWord => c0 = ReadBuffer
       /\ \A b \in Beats : Upcoming(b)' => Expected(b, next, l, c0, c1)
  BY <1>4 DEF KeepsUp
<1>18. resampled' # NoBeat => resampled' = source'
  BY <1>1, <1>3, UpcomingStep DEF Registers
<1>19. received => width_in # P /\ s # "LOOP_FIFO"
  BY DEF received, height_ready
<1>20. EndOfLine(take) <=> fifo_read(take) /\ width_out = P-1
  BY DEF EndOfLine
<1>21. ASSUME NEW k, NEW d0 \in Buffers, NEW d1 \in Buffers,
              k = LineOf(NextWord'.row),
              \A i \in 1..Len(q') : q'[i] = BeatNo(WordNo(i)', k, d0, d1),
              LineAfter(k) # 0 => d1 = d0,
              NextWord' # FirstWord => d0 = ReadBuffer',
              \A b \in Beats : Upcoming(b)' => Expected(b, Arrived', k, d0, d1)
       PROVE  Consecutive'
  <2>1. Holds(k, d0, d1)'
    BY <1>21 DEF Holds
  <2>2. Holds(LineOf(NextWord.row), d0, d1)'
    BY <1>21, <2>1
  <2> QED
    BY <1>18, <2>2 DEF Consecutive
<1>22. fifo_read(take) => Arrived # 0
  BY <1>12, <1>14, <1>15
<1>23. NextWord' # FirstWord /\ ~(EndOfLine(take) /\ s = "OUTPUT_LAST_LINE") =>
         c0 = ReadBuffer'
  BY <1>9, <1>10, <1>17, <1>22
<1>24. \A i : WordNo(i)' = IF s' = "LOOP_FIFO" /\ width_out' + i > P
                           THEN width_out' + i - 1 - P ELSE width_out' + i - 1
  BY DEF WordNo
<1>25. \A i : WordNo(i) = IF s = "LOOP_FIFO" /\ width_out + i > P
                          THEN width_out + i - 1 - P ELSE width_out + i - 1
  BY DEF WordNo
<1>26. Arrived' = IF s' = "GET_CURRENT_LINE" THEN width_in'
                  ELSE IF s' = "LOOP_FIFO" THEN P ELSE P + width_in'
  BY DEF Arrived
<1>27. next = IF received THEN Arrived + 1 ELSE Arrived
  OBVIOUS
<1>28. r = IF fifo_read(take) THEN 1 ELSE 0
  OBVIOUS
<1>29. s \in {"GET_CURRENT_LINE", "OUTPUT_LAST_LINE"} =>
         \A i \in 1..Len(q') : q'[i] = BeatNo(width_out + r + i - 1, l, c0, c1)
  <2> HIDE DEF l, q, r, n, next, s, P
  <2> SUFFICES ASSUME s \in {"GET_CURRENT_LINE", "OUTPUT_LAST_LINE"},
                      NEW i \in 1..Len(q')
               PROVE  q'[i] = BeatNo(width_out + r + i - 1, l, c0, c1)
    OBVIOUS
  <2>0. n = Len(q) - r
    BY DEF n
  <2>1. Arrived = width_out + Len(q) /\ s # "LOOP_FIFO"
    BY <1>14, <1>15
  <2>2. CASE i \in 1..n
    <3>1. i + r \in 1..Len(q) /\ WordNo(i + r) = width_out + r + i - 1
      BY <1>13, <1>14, <1>25, <2>0, <2>1, <2>2
    <3>2. q'[i] = BeatNo(width_out + r + i - 1, l, b0, b1)
      BY <1>13, <1>16, <2>2, <3>1
    <3>3. width_out + r + i - 1 \in 0..Arrived-1
      BY <1>13, <1>14, <2>0, <2>1, <2>2
    <3> QED
      BY <1>17, <3>2, <3>3
  <2>3. CASE ~(i \in 1..n)
    <3>1. received /\ i = n + 1
      BY <1>13, <2>1, <2>3
    <3>2. width_out + r + i - 1 = Arrived
      BY <1>13, <1>14, <2>0, <2>1, <3>1
    <3> QED
      BY <1>13, <1>17, <2>1, <3>1, <3>2
  <2> QED
    BY <2>2, <2>3
<1> HIDE DEF l, q, r, n, next, s, P
<1>30. CASE GetCurrentLine(give, take)
  <2>1. /\ s = "GET_CURRENT_LINE"
        /\ s' = IF width_in = P THEN "LOOP_FIFO" ELSE "GET_CURRENT_LINE"
    BY <1>30 DEF GetCurrentLine, s, P
  <2>2. /\ r = 0 /\ width_out = 0 /\ width_out' = 0 /\ ~EndOfLine(take)
        /\ ~fifo_read(take) /\ l = LineOf(NextWord'.row)
    BY <1>10, <1>12, <1>15, <1>20, <1>28, <2>1
  <2>3. Len(q') = width_in' /\ Arrived' = next
    BY <1>12, <1>13, <1>15, <1>19, <1>26, <1>27, <2>1, <2>2 DEF n
  <2>4. \A i \in 1..Len(q') : q'[i] = BeatNo(WordNo(i)', l, c0, c1)
    <3> SUFFICES ASSUME NEW i \in 1..Len(q')
                 PROVE  q'[i] = BeatNo(WordNo(i)', l, c0, c1)
      OBVIOUS
    <3>1. i <= P /\ WordNo(i)' = width_out + r + i - 1
      BY <1>14, <1>24, <2>2, <2>3
    <3> QED
      BY <1>29, <2>1, <3>1
  <2>5. NextWord' # FirstWord => c0 = ReadBuffer'
    BY <1>23, <2>2
  <2>6. \A b \in Beats : Upcoming(b)' => Expected(b, Arrived', l, c0, c1)
    BY <1>17, <2>3
  <2> QED
    BY <1>9, <1>17, <1>21, <2>2, <2>4, <2>5, <2>6
<1>31. CASE LoopFifo(give, take)
  <2>1. /\ s = "LOOP_FIFO"
        /\ s' \in {"LOOP_FIFO", "OUTPUT_LAST_LINE"}
        /\ s' = "OUTPUT_LAST_LINE" => EndOfLine(take)
    BY <1>31 DEF LoopFifo, s
  <2>2. /\ ~received /\ width_in' = 0 /\ Arrived' = P /\ next = P
        /\ l = LineOf(NextWord'.row) /\ Len(q) = P
    BY <1>10, <1>12, <1>14, <1>15, <1>19, <1>26, <1>27, <2>1
  <2>3. Len(q') = P
    BY <1>13, <1>14, <1>28, <2>1, <2>2 DEF n
  <2>4. \A i \in 1..Len(q') : q'[i] = BeatNo(WordNo(i)', l, c0, c1)
    <3> SUFFICES ASSUME NEW i \in 1..P
                 PROVE  q'[i] = BeatNo(WordNo(i)', l, c0, c1)
      BY <2>3
    <3>1. PICK j \in 1..P : q'[i] = q[j] /\ WordNo(i)' = WordNo(j)
      <4>1. CASE ~fifo_read(take)
        <5>1. q'[i] = q[i]
          BY <1>13, <1>28, <2>2, <4>1 DEF n
        <5>2. WordNo(i)' = WordNo(i)
          BY <1>12, <1>20, <1>24, <1>25, <2>1, <4>1
        <5> QED
          BY <5>1, <5>2
      <4>2. CASE fifo_read(take) /\ i # P
        <5>1. i \in 1..n /\ i + r = i + 1 /\ i + 1 \in 1..P
          BY <1>14, <1>28, <2>2, <4>2 DEF n
        <5>2. q'[i] = q[i + 1]
          BY <1>13, <5>1
        <5>3. WordNo(i)' = WordNo(i + 1)
          <6>1. CASE width_out = P-1
            <7>1. width_out' = 0
              BY <1>12, <4>2, <6>1
            <7>2. WordNo(i)' = i - 1
              BY <1>14, <1>24, <7>1
            <7>3. WordNo(i + 1) = i - 1
              BY <1>14, <1>25, <2>1, <6>1
            <7> QED
              BY <7>2, <7>3
          <6>2. CASE width_out # P-1
            <7>1. width_out' = width_out + 1 /\ s' = "LOOP_FIFO"
              BY <1>12, <1>20, <2>1, <4>2, <6>2
            <7> QED
              BY <1>14, <1>24, <1>25, <2>1, <7>1
          <6> QED
            BY <6>1, <6>2
        <5> QED
          BY <5>1, <5>2, <5>3
      <4>3. CASE fifo_read(take) /\ i = P
        <5>1. q'[i] = q[1] /\ 1 \in 1..P
          BY <1>13, <1>14, <1>28, <2>1, <2>2, <4>3 DEF n
        <5>2. WordNo(1) = width_out
          BY <1>14, <1>25
        <5>3. WordNo(i)' = width_out
          <6>1. CASE width_out = P-1
            <7>1. width_out' = 0
              BY <1>12, <4>3, <6>1
            <7> QED
              BY <1>14, <1>24, <4>3, <6>1, <7>1
          <6>2. CASE width_out # P-1
            <7>1. width_out' = width_out + 1 /\ s' = "LOOP_FIFO"
              BY <1>12, <1>20, <2>1, <4>3, <6>2
            <7> QED
              BY <1>14, <1>24, <4>3, <7>1
          <6> QED
            BY <6>1, <6>2
        <5> QED
          BY <5>1, <5>2, <5>3
      <4> QED
        BY <4>1, <4>2, <4>3
    <3>2. WordNo(j) \in 0..P-1
      BY <1>14, <1>25, <2>1
    <3>3. q[j] = BeatNo(WordNo(j), l, b0, b1)
      BY <1>16, <2>2
    <3>4. BeatNo(WordNo(j), l, c0, c1) = BeatNo(WordNo(j), l, b0, b1)
      BY <1>15, <1>17, <2>1, <3>2
    <3> QED
      BY <3>1, <3>3, <3>4
  <2>5. NextWord' # FirstWord => c0 = ReadBuffer'
    BY <1>23, <2>1
  <2>6. \A b \in Beats : Upcoming(b)' => Expected(b, Arrived', l, c0, c1)
    BY <1>17, <2>2
  <2> QED
    BY <1>9, <1>17, <1>21, <2>2, <2>4, <2>5, <2>6
<1>32. CASE OutputLastLine(give, take)
  <2>1. /\ s = "OUTPUT_LAST_LINE"
        /\ s' = IF EndOfLine(take) THEN "GET_CURRENT_LINE" ELSE "OUTPUT_LAST_LINE"
    BY <1>32 DEF OutputLastLine, s
  <2>2. CASE ~EndOfLine(take)
    <3>1. s' = "OUTPUT_LAST_LINE" /\ width_out' = width_out + r
          /\ l = LineOf(NextWord'.row)
      BY <1>10, <1>12, <1>14, <1>20, <1>28, <2>1, <2>2
    <3>2. Arrived' = next
      BY <1>12, <1>14, <1>15, <1>26, <1>27, <2>1, <3>1
    <3>3. \A i \in 1..Len(q') : q'[i] = BeatNo(WordNo(i)', l, c0, c1)
      <4> SUFFICES ASSUME NEW i \in 1..Len(q')
                   PROVE  q'[i] = BeatNo(WordNo(i)', l, c0, c1)
        OBVIOUS
      <4>1. WordNo(i)' = width_out + r + i - 1
        BY <1>14, <1>24, <3>1
      <4> QED
        BY <1>29, <2>1, <4>1
    <3>4. NextWord' # FirstWord => c0 = ReadBuffer'
      BY <1>23, <2>2
    <3>5. \A b \in Beats : Upcoming(b)' => Expected(b, Arrived', l, c0, c1)
      BY <1>17, <3>2
    <3> QED
      BY <1>9, <1>17, <1>21, <3>1, <3>3, <3>4, <3>5
  <2>3. CASE EndOfLine(take)
    <3> DEFINE k == LineAfter(l)
    <3>1. /\ s' = "GET_CURRENT_LINE" /\ fifo_read(take) /\ r = 1
          /\ width_out = P-1 /\ width_out' = 0 /\ k = LineOf(NextWord'.row)
      BY <1>10, <1>12, <1>15, <1>20, <1>28, <2>1, <2>3
    <3>2. /\ Arrived' = next - P /\ next \in P..P+P
          /\ Len(q') = width_in'
      BY <1>12, <1>13, <1>14, <1>15, <1>19, <1>26, <1>27, <2>1, <3>1 DEF n
    <3>3. k \in 0..LINES-1
      BY <1>5, Sizes DEF LineAfter
    <3>4. \A i \in 1..Len(q') : q'[i] = BeatNo(WordNo(i)', k, c1, c1)
      <4> SUFFICES ASSUME NEW i \in 1..Len(q')
                   PROVE  q'[i] = BeatNo(WordNo(i)', k, c1, c1)
        OBVIOUS
      <4>1. WordNo(i)' = i - 1 /\ i - 1 < P /\ i \in Nat
        BY <1>14, <1>24, <3>1, <3>2
      <4>2. q'[i] = BeatNo(P + i - 1, l, c0, c1)
        <5>1. width_out + r + i - 1 = P + i - 1
          BY <1>14, <3>1, <4>1
        <5> QED
          BY <1>29, <2>1, <5>1
      <4>3. ~(P + i - 1 < P) /\ (P + i - 1) - P = i - 1
        BY <1>14, <4>1
      <4>4. BeatNo(P + i - 1, l, c0, c1) = Source!Beat(c1, k, i - 1)
        BY <4>3 DEF BeatNo, P
      <4>5. BeatNo(i - 1, k, c1, c1) = Source!Beat(c1, k, i - 1)
        BY <4>1 DEF BeatNo, P
      <4> QED
        BY <4>1, <4>2, <4>4, <4>5
    <3>5. NextWord' # FirstWord => c1 = ReadBuffer'
      <4> SUFFICES ASSUME NextWord' # FirstWord PROVE c1 = ReadBuffer'
        OBVIOUS
      <4>1. ReadBuffer' = b0 /\ c0 = b0
        BY <1>9, <1>17, <1>22, <3>1
      <4>2. NextWord' \in WordPlaces
        BY <1>10, PlacesType, NextWordPlace
      <4>3. NextWord'.pixel = 0 /\ CopyOf(NextWord'.row) = 0
        <5>1. width_out' = NextWord'.pixel
              /\ enlarge_height_counter' = CopyOf(NextWord'.row)
              /\ enlarge_height_counter' = 0
          BY <1>11, <3>1 DEF Counted, s
        <5> QED
          BY <3>1, <5>1
      <4>4. NextWord'.row # 0 /\ NextWord'.row \in 0..Rows-1
        BY <4>2, <4>3 DEF WordPlaces, FirstWord
      <4>5. k # 0
        BY <3>1, <4>3, <4>4, RowCopies
      <4> QED
        BY <1>17, <4>1, <4>5
    <3>6. \A b \in Beats : Upcoming(b)' => Expected(b, Arrived', k, c1, c1)
      <4> SUFFICES ASSUME NEW b \in Beats, Upcoming(b)'
                   PROVE  Expected(b, Arrived', k, c1, c1)
        OBVIOUS
      <4>1. Expected(b, next, l, c0, c1) /\ (LineAfter(l) # 0 => c1 = c0)
        BY <1>17
      <4>2. next \in PIXELS..PIXELS+PIXELS
        BY <3>2 DEF P
      <4>3. Expected(b, next - PIXELS, LineAfter(l), c1, c1)
        BY <1>5, <4>1, <4>2, NextLineBeat
      <4> QED
        BY <3>2, <4>3 DEF P
    <3> QED
      BY <1>9, <1>21, <3>1, <3>4, <3>5, <3>6
  <2> QED
    BY <2>2, <2>3
<1> QED
  BY <1>30, <1>31, <1>32 DEF Edge
-----------------------------------------------------------------------------
(* The invariant, and what it says of the FIFO and of the picture.         *)

\* All of it is needed: the counters agree with the place of the word that is
\* read next, that place with what is in the registers behind it, and the
\* words in the FIFO with what the DMA handed over.
Invariant == Types /\ InPlace /\ SameBuffer /\ Counted /\ Consecutive

\* At start-up the first word of a frame is to be read next.
LEMMA InitPlaces ==
  ASSUME Init
  PROVE  /\ StreamedAt = [row |-> Rows-1, column |-> Columns-1]
         /\ Following(StreamedAt) = Origin
         /\ NextWord = FirstWord
<1>1. /\ PIXELS \in Nat \ {0} /\ PixelOf(Columns-1) = PIXELS-1
  BY Sizes, EnlargedSize
<1>2. StreamedAt = [row |-> Rows-1, column |-> Columns-1]
  BY DEF Init, StreamedAt, ShownAt
<1>3. Following(StreamedAt) = Origin
  BY <1>2 DEF Following, RowAfter, Origin
<1>4. HeldAt = [row |-> Rows-1, pixel |-> PIXELS-1]
  <2>1. HeldAt = WordAt(StreamedAt)
    BY DEF Init, HeldAt
  <2> QED
    BY <1>1, <1>2, <2>1 DEF WordAt
<1>5. ReadAt = HeldAt
  BY DEF Init, ReadAt
<1>6. NextWord = FirstWord
  BY <1>4, <1>5 DEF NextWord, FollowingWord, RowAfter, FirstWord
<1> QED
  BY <1>2, <1>3, <1>6

\* The invariant holds at start-up.
LEMMA InitInvariant == Init => Invariant
<1> SUFFICES ASSUME Init PROVE Invariant
  OBVIOUS
<1>1. Types
  <2>1. source = NoBeat
    BY DEF Init, Source!Init, NoBeat
  <2>2. Multiply_Height_FIFO \in Seq(Beats)
    BY DEF Init
  <2> QED
    BY <2>1, <2>2, Sizes, EnlargedSize DEF Init, Types
<1>2. Following(StreamedAt) = Origin /\ NextWord = FirstWord
  BY InitPlaces
<1>3. LineOf(0) = 0 /\ CopyOf(0) = 0 /\ PartOf(0) = 0
  BY EnlargedSize
<1>4. InPlace
  <2>1. PartOf(Following(StreamedAt).column) = 0
    BY <1>2, <1>3 DEF Origin
  <2> QED
    BY <2>1 DEF Init, InPlace
<1>5. SameBuffer
  BY DEF Init, SameBuffer
<1>6. NextWord.row = 0 /\ NextWord.pixel = 0
  BY <1>2 DEF FirstWord
<1>7. Len(Multiply_Height_FIFO) = 0
  BY DEF Init
<1>8. Counted
  <2>1. WordsAccountedFor
    BY <1>1, <1>7, WordCount DEF Init
  <2> QED
    BY <1>3, <1>6, <2>1 DEF Init, Counted
<1>9. Consecutive
  <2>1. PICK b \in Buffers : TRUE
    BY ScalerAssumption DEF ScalerAssumption
  <2>2. source = NoBeat /\ resampled = NoBeat /\ Arrived = 0
    BY DEF Init, Source!Init, NoBeat, Arrived
  <2>3. \A e \in Beats : Upcoming(e) => Expected(e, Arrived, 0, b, b)
    BY <2>2, Sizes DEF Upcoming, CanFollow, Expected
  <2>4. Holds(0, b, b)
    BY <1>2, <1>7, <2>3 DEF Holds
  <2>5. Holds(LineOf(NextWord.row), b, b)
    BY <1>3, <1>6, <2>4
  <2> QED
    BY <2>1, <2>2, <2>5 DEF Consecutive
<1> QED
  BY <1>1, <1>4, <1>5, <1>8, <1>9 DEF Invariant

\* Every edge keeps what is in the registers in its place.
LEMMA InPlaceStep ==
  ASSUME Invariant, NEW give \in BOOLEAN, NEW take \in BOOLEAN,
         Edge(give, take)
  PROVE  InPlace'
<1>1. MultiplyWidth(take) /\ Sink(take) /\ LineOut(take)
  BY DEF Edge, GetCurrentLine, LoopFifo, OutputLastLine, Registers
<1>2. HeadInPlace
  BY HeadWord DEF Invariant, Consecutive
<1>3. /\ shown' = NoBeat => row' = 0 /\ column' = 0
      /\ shown' # NoBeat => IsCopy(shown', ShownAt')
  BY <1>1, StreamStep DEF Invariant
<1>4. /\ stream_out' # NoBeat => IsCopy(stream_out', StreamedAt')
      /\ held' # NoBeat => IsWord(held', HeldAt')
      /\ enlarge_width_counter' = PartOf(Following(StreamedAt').column)
      /\ held' = NoBeat => enlarge_width_counter' = 0
  BY <1>1, HeldStep DEF Invariant
<1>5. line_out' # NoBeat => IsWord(line_out', ReadAt')
  BY <1>1, <1>2, LineOutStep DEF Invariant
<1> QED
  BY <1>3, <1>4, <1>5 DEF InPlace

\* Between two edges nothing changes.
LEMMA InvariantStutter ==
  ASSUME Invariant, UNCHANGED scalerVars
  PROVE  Invariant'
<1>1. /\ source' = source /\ resampled' = resampled
      /\ s_multiply_height' = s_multiply_height
      /\ width_in' = width_in /\ width_out' = width_out
      /\ enlarge_height_counter' = enlarge_height_counter
      /\ Multiply_Height_FIFO' = Multiply_Height_FIFO
      /\ line_out' = line_out /\ held' = held
      /\ enlarge_width_counter' = enlarge_width_counter
      /\ stream_out' = stream_out /\ shown' = shown
      /\ row' = row /\ column' = column
  BY DEF scalerVars, heightVars, widthVars, sinkVars
<1>2. ShownAt' = ShownAt
  BY <1>1 DEF ShownAt
<1>3. StreamedAt' = StreamedAt
  BY <1>1, <1>2 DEF StreamedAt
<1>4. HeldAt' = HeldAt
  BY <1>1, <1>3 DEF HeldAt
<1>5. ReadAt' = ReadAt
  BY <1>1, <1>4 DEF ReadAt
<1>6. NextWord' = NextWord
  BY <1>5 DEF NextWord
<1>7. ReadBuffer' = ReadBuffer /\ HeldBuffer' = HeldBuffer
      /\ StreamedBuffer' = StreamedBuffer
  BY <1>1 DEF ReadBuffer, HeldBuffer, StreamedBuffer
<1>8. Types'
  BY <1>1 DEF Invariant, Types
<1>9. InPlace'
  BY <1>1, <1>2, <1>3, <1>4, <1>5 DEF Invariant, InPlace
<1>10. SameBuffer'
  BY <1>1, <1>3, <1>5, <1>7 DEF Invariant, SameBuffer
<1>11. Counted'
  BY <1>1, <1>6 DEF Invariant, Counted, WordsAccountedFor
<1>12. Consecutive'
  <2>1. PICK b0 \in Buffers, b1 \in Buffers : Holds(LineOf(NextWord.row), b0, b1)
    BY DEF Invariant, Consecutive
  <2>2. /\ \A i : WordNo(i)' = WordNo(i)
        /\ \A b : Upcoming(b)' <=> Upcoming(b)
        /\ Arrived' = Arrived
    BY <1>1 DEF WordNo, Upcoming, Arrived
  <2>3. Holds(LineOf(NextWord.row), b0, b1)'
    BY <1>1, <1>6, <1>7, <2>1, <2>2 DEF Holds
  <2> QED
    BY <1>1, <2>3 DEF Invariant, Consecutive
<1> QED
  BY <1>8, <1>9, <1>10, <1>11, <1>12 DEF Invariant

\* Every step keeps the invariant.
LEMMA InvariantStep == Invariant /\ [ScalerNext]_scalerVars => Invariant'
<1> SUFFICES ASSUME Invariant, [ScalerNext]_scalerVars
             PROVE  Invariant'
  OBVIOUS
<1>1. ASSUME NEW give \in BOOLEAN, NEW take \in BOOLEAN, Edge(give, take)
      PROVE  Invariant'
  <2>1. Types'
    BY <1>1, TypesStep DEF Invariant
  <2>2. InPlace'
    BY <1>1, InPlaceStep
  <2>3. Counted'
    BY <1>1, CountedStep DEF Invariant, Consecutive
  <2>4. SameBuffer' /\ Consecutive'
    BY <1>1, ConsecutiveStep DEF Invariant
  <2> QED
    BY <2>1, <2>2, <2>3, <2>4 DEF Invariant
<1>2. CASE UNCHANGED scalerVars
  BY <1>2, InvariantStutter
<1> QED
  BY <1>1, <1>2 DEF ScalerNext

\* The invariant holds at every edge.
LEMMA InvariantHolds == ScalerSpec => []Invariant
BY InitInvariant, InvariantStep, PTL DEF ScalerSpec

\* The words of the FIFO by their numbers.
LEMMA FifoIntact ==
  ASSUME Types, Counted, Consecutive
  PROVE  LineIntact
<1> DEFINE q == Multiply_Height_FIFO
           l == LineOf(NextWord.row)
<1>1. PICK b0 \in Buffers, b1 \in Buffers : Holds(l, b0, b1)
  BY DEF Consecutive
<1>2. l \in 0..LINES-1
  BY PlacesType, NextWordPlace
<1>3. /\ width_in \in 0..PIXELS /\ width_out \in 0..PIXELS-1
      /\ PIXELS \in Nat \ {0}
      /\ s_multiply_height \in {"GET_CURRENT_LINE", "LOOP_FIFO",
                                "OUTPUT_LAST_LINE"}
  BY Sizes DEF Types
<1>4. /\ s_multiply_height = "GET_CURRENT_LINE" =>
           Len(q) = width_in /\ width_out = 0
      /\ s_multiply_height = "LOOP_FIFO" => Len(q) = PIXELS
      /\ s_multiply_height = "OUTPUT_LAST_LINE" =>
           Len(q) = PIXELS - width_out + width_in
  BY WordCount DEF Counted
<1>5. ASSUME NEW i \in 1..Len(q)
      PROVE  /\ q[i].data.pixel = (width_out + i - 1) % PIXELS
             /\ s_multiply_height = "LOOP_FIFO" => q[i].data.line = l
  <2> DEFINE at == width_out + i - 1
             m == WordNo(i)
  <2>1. /\ at \in 0..PIXELS+PIXELS-1
        /\ m = IF s_multiply_height = "LOOP_FIFO" /\ at >= PIXELS
               THEN at - PIXELS ELSE at
    <3>1. i \in Nat /\ 1 <= i /\ i <= Len(q)
      BY <1>3, <1>4
    <3>2. m = IF s_multiply_height = "LOOP_FIFO" /\ width_out + i > PIXELS
              THEN width_out + i - 1 - PIXELS ELSE width_out + i - 1
      BY DEF WordNo
    <3> QED
      BY <1>3, <1>4, <3>1, <3>2
  <2>2. q[i] = BeatNo(m, l, b0, b1)
    BY <1>1 DEF Holds
  <2>3. m \in 0..PIXELS+PIXELS-1 /\ (s_multiply_height = "LOOP_FIFO" => m < PIXELS)
    <3> HIDE DEF at, m
    <3> QED
      BY <1>3, <2>1
  <2>4. BeatNo(m, l, b0, b1).data =
          [buffer |-> IF m < PIXELS THEN b0 ELSE b1,
           line   |-> IF m < PIXELS THEN l ELSE LineAfter(l),
           pixel  |-> IF m < PIXELS THEN m ELSE m - PIXELS]
    <3> HIDE DEF at, m, q, l
    <3> QED
      BY <1>2, <2>3, BeatNoFields
  <2>5. at % PIXELS = IF at < PIXELS THEN at ELSE at - PIXELS
    <3> HIDE DEF at
    <3> QED
      BY <1>3, <2>1
  <2> HIDE DEF at, m, q, l
  <2>6. /\ q[i].data.pixel = IF m < PIXELS THEN m ELSE m - PIXELS
        /\ q[i].data.line = IF m < PIXELS THEN l ELSE LineAfter(l)
    BY <2>2, <2>4
  <2>7. q[i].data.pixel = at % PIXELS
    BY <1>3, <2>1, <2>3, <2>5, <2>6
  <2> QED
    BY <2>3, <2>6, <2>7 DEF at
<1>6. \A i \in 1..Len(q) : i \in Nat /\ 1 \in 1..Len(q)
  BY <1>3, <1>4
<1> HIDE DEF l
<1> QED
  BY <1>5, <1>6 DEF LineIntact

\* The counters, the state and the words in the FIFO belong together at every
\* edge, whatever the sizes and whenever the DMA gives and the sink takes: no
\* word is lost, repeated or thrown away, whether the line is taken in, looped
\* or sent for the last time while the next one comes in.
THEOREM ScalerInvariant == ScalerSpec => []ScalerInv
<1>1. Invariant => ScalerInv
  BY TypesOK, FifoIntact DEF Invariant, Counted, ScalerInv
<1> QED
  BY <1>1, InvariantHolds, PTL

\* The picture is enlarged and nothing else.
THEOREM PictureEnlarged == ScalerSpec => []Enlarged
<1>1. Invariant => Enlarged
  <2> SUFFICES ASSUME Invariant, shown # NoBeat
               PROVE  /\ shown.data.line = row \div HeightCopies
                      /\ shown.data.pixel = column \div WidthCopies
    BY DEF Enlarged
  <2>1. IsCopy(shown, ShownAt) /\ ShownAt = [row |-> row, column |-> column]
    BY DEF Invariant, InPlace, ShownAt
  <2> QED
    BY <2>1 DEF IsCopy, LineOf, PixelOf
<1> QED
  BY <1>1, InvariantHolds, PTL

-----------------------------------------------------------------------------
(* The scaler implements the stream of frames.                             *)

\* The beat the sink took last, numbered by its place in the enlarged frame.
Shown == IF shown = NoBeat THEN NoBeat
         ELSE [shown EXCEPT !.data.line = row, !.data.pixel = column]

\* A pixel renumbered keeps its buffer.
LEMMA Renumbered ==
  ASSUME NEW d \in Pixels, NEW r \in Int, NEW c \in Int
  PROVE  [d EXCEPT !.line = r, !.pixel = c] =
           [buffer |-> d.buffer, line |-> r, pixel |-> c]
<1> DEFINE e == [d EXCEPT !.line = r, !.pixel = c]
<1>1. e \in [buffer : Buffers, line : Int, pixel : Int]
  BY DEF Pixels
<1>2. e.buffer = d.buffer /\ e.line = r /\ e.pixel = c
  BY DEF Pixels
<1> HIDE DEF e
<1>3. e = [buffer |-> e.buffer, line |-> e.line, pixel |-> e.pixel]
  BY <1>1
<1>4. e = [buffer |-> d.buffer, line |-> r, pixel |-> c]
  BY <1>2, <1>3
<1> QED
  BY <1>4 DEF e

ShownIsBeat ==
  shown # NoBeat =>
    /\ Shown = ScaledFrames!Beat(shown.data.buffer, row, column)
    /\ Shown # NoBeat /\ shown.data.buffer \in Buffers
    /\ Shown.data = [buffer |-> shown.data.buffer, line |-> row,
                     pixel |-> column]
    /\ Shown.endofpacket = (row = Rows-1 /\ column = Columns-1)

\* It is a beat of the enlarged frame.
LEMMA ShownBeat == Invariant => ShownIsBeat
<1> SUFFICES ASSUME Types, InPlace, shown # NoBeat PROVE ShownIsBeat
  BY DEF Invariant, ShownIsBeat
<1> DEFINE d == shown.data
<1>1. shown = [data |-> d, startofpacket |-> shown.startofpacket,
               endofpacket |-> shown.endofpacket]
  BY DEF Types, Words
<1>2. d \in Pixels /\ d.buffer \in Buffers
  BY DEF Types, Words, Pixels
<1>3. IsCopy(shown, [row |-> row, column |-> column])
  BY DEF InPlace, ShownAt
<1>4. /\ shown.startofpacket = (row = 0 /\ column = 0)
      /\ shown.endofpacket = (row = Rows-1 /\ column = Columns-1)
  BY <1>3 DEF IsCopy
<1> HIDE DEF d
<1>5. [d EXCEPT !.line = row, !.pixel = column] =
        [buffer |-> d.buffer, line |-> row, pixel |-> column]
  <2>1. row \in Int /\ column \in Int
    BY EnlargedSize DEF Types
  <2> QED
    BY <1>2, <2>1, Renumbered
<1>6. Shown = [data |-> [d EXCEPT !.line = row, !.pixel = column],
               startofpacket |-> shown.startofpacket,
               endofpacket |-> shown.endofpacket]
  BY <1>1 DEF Shown, d
<1>7. Shown = [data |-> [buffer |-> d.buffer, line |-> row, pixel |-> column],
               startofpacket |-> row = 0 /\ column = 0,
               endofpacket |-> row = Rows-1 /\ column = Columns-1]
  BY <1>4, <1>5, <1>6 DEF d
<1>8. Shown = ScaledFrames!Beat(d.buffer, row, column)
  BY <1>7 DEF ScaledFrames!Beat, Rows, Columns
<1>9. Shown # NoBeat
  BY <1>7 DEF NoBeat, Source!Nothing
<1> QED
  BY <1>2, <1>7, <1>8, <1>9 DEF ShownIsBeat, d

\* Every edge hands the next beat of the enlarged stream to the sink, or none.
LEMMA EdgeStreams ==
  ASSUME Invariant, ShownIsBeat, ShownIsBeat',
         NEW give \in BOOLEAN, NEW take \in BOOLEAN, Edge(give, take)
  PROVE  ScaledFrames!Next \/ Shown' = Shown
<1>1. MultiplyWidth(take) /\ Sink(take)
  BY DEF Edge, GetCurrentLine, LoopFifo, OutputLastLine, Registers
<1>2. CASE ~take
  BY <1>1, <1>2 DEF Sink, sinkVars, Shown
<1>3. CASE take
  <2>1. /\ stream_out # NoBeat /\ shown' = stream_out
        /\ ShownAt' = StreamedAt /\ StreamedAt = Following(ShownAt)
    <3>1. stream_out # NoBeat /\ shown' = stream_out
      BY <1>1, <1>3, SinkStep DEF Invariant
    <3>2. ShownAt' = StreamedAt
      BY <1>1, <1>3, StreamStep DEF Invariant, stream_out_open
    <3> QED
      BY <3>1, <3>2 DEF StreamedAt
  <2>2. ShownAt' = [row |-> row', column |-> column']
    BY <2>1 DEF ShownAt
  <2>3. /\ Shown' = ScaledFrames!Beat(shown'.data.buffer, row', column')
        /\ shown'.data.buffer \in Buffers
    BY <2>1 DEF ShownIsBeat
  <2>4. [row |-> row', column |-> column'] # Origin =>
          shown'.data.buffer = shown.data.buffer
    BY <2>1, <2>2 DEF Invariant, SameBuffer
  <2>5. row \in 0..Rows-1 /\ column \in 0..Columns-1
    BY DEF Invariant, Types
  <2>6. Rows \in Nat \ {0} /\ Columns \in Nat \ {0}
    BY EnlargedSize
  <2>7. CASE shown = NoBeat
    <3>1. [row |-> row', column |-> column'] = Origin
      BY <2>1, <2>2, <2>7 DEF ShownAt, Following, RowAfter, Origin
    <3>2. row' = 0 /\ column' = 0
      BY <3>1 DEF Origin
    <3>3. Shown = ScaledFrames!Nothing
      BY <2>7 DEF Shown, NoBeat, Source!Nothing, ScaledFrames!Nothing
    <3> QED
      BY <2>3, <3>2, <3>3 DEF ScaledFrames!Next, ScaledFrames!StartFrame, Shown
  <2>8. CASE shown # NoBeat
    <3>1. /\ Shown # NoBeat
          /\ Shown.data = [buffer |-> shown.data.buffer, line |-> row,
                           pixel |-> column]
          /\ Shown.endofpacket = (row = Rows-1 /\ column = Columns-1)
      BY <2>8 DEF ShownIsBeat
    <3>2. Shown # ScaledFrames!Nothing
      BY <3>1 DEF NoBeat, Source!Nothing, ScaledFrames!Nothing
    <3>3. [row |-> row', column |-> column'] =
            Following([row |-> row, column |-> column])
      BY <2>1, <2>2, <2>8 DEF ShownAt
    <3>4. CASE column # Columns-1
      <4>1. row' = row /\ column' = column + 1
        BY <3>3, <3>4 DEF Following
      <4>2. shown'.data.buffer = shown.data.buffer
        <5>1. column' # 0
          BY <2>5, <4>1
        <5> QED
          BY <2>4, <5>1 DEF Origin
      <4>3. column < Columns-1
        BY <2>5, <2>6, <3>4
      <4> QED
        BY <2>3, <3>1, <3>2, <4>1, <4>2, <4>3
        DEF ScaledFrames!Next, ScaledFrames!NextPixel, Shown, Columns
    <3>5. CASE column = Columns-1 /\ row # Rows-1
      <4>1. row' = row + 1 /\ column' = 0
        BY <3>3, <3>5 DEF Following, RowAfter
      <4>2. shown'.data.buffer = shown.data.buffer
        <5>1. row' # 0
          BY <2>5, <4>1
        <5> QED
          BY <2>4, <5>1 DEF Origin
      <4>3. row < Rows-1
        BY <2>5, <2>6, <3>5
      <4> QED
        BY <2>3, <3>1, <3>2, <3>5, <4>1, <4>2, <4>3
        DEF ScaledFrames!Next, ScaledFrames!NextLine, Shown, Columns, Rows
    <3>6. CASE column = Columns-1 /\ row = Rows-1
      <4>1. row' = 0 /\ column' = 0
        BY <3>3, <3>6 DEF Following, RowAfter
      <4>2. Shown.endofpacket
        BY <3>1, <3>6
      <4> QED
        BY <2>3, <3>2, <4>1, <4>2
        DEF ScaledFrames!Next, ScaledFrames!StartFrame, Shown
    <3> QED
      BY <3>4, <3>5, <3>6
  <2> QED
    BY <2>7, <2>8
<1> QED
  BY <1>2, <1>3

\* The scaler implements the safety part of FrameStream at the enlarged size:
\* whatever the DMA and the sink do, the sink sees whole enlarged frames of
\* one buffer each, in raster order and correctly marked.
THEOREM Refinement == ScalerSpec => ScaledFrames!SafeSpec
<1>1. Init => ScaledFrames!Init
  BY DEF Init, ScaledFrames!Init, ScaledFrames!Nothing, NoBeat, Source!Nothing
<1>2. ASSUME Invariant, ShownIsBeat, ShownIsBeat', [ScalerNext]_scalerVars
      PROVE  ScaledFrames!Next \/ Shown' = Shown
  <2>1. CASE UNCHANGED scalerVars
    BY <2>1 DEF scalerVars, sinkVars, Shown
  <2> QED
    BY <1>2, <2>1, EdgeStreams DEF ScalerNext
<1>3. Invariant /\ ShownIsBeat /\ ShownIsBeat' /\ [ScalerNext]_scalerVars =>
        [ScaledFrames!Next]_(IF shown = NoBeat THEN NoBeat
          ELSE [shown EXCEPT !.data.line = row, !.data.pixel = column])
  BY <1>2 DEF Shown
<1> QED
  BY <1>1, <1>3, ShownBeat, InvariantHolds, PTL
  DEF ScalerSpec, ScaledFrames!SafeSpec
=============================================================================
