---------------------------- MODULE Drawing_proofs ----------------------------
(***************************************************************************)
(* Theorems about what the program draws: the demonstration's loop, for    *)
(* every screen, text, circle and place that AnimationAssumption allows;   *)
(* what becomes of a colour a program asks for, for every colour of three  *)
(* bytes; every call of a drawing function, for every screen and any       *)
(* arguments that CallsAssumption allows; and every call of the other      *)
(* driver's, for every hardware that VideoDMAAssumption allows.            *)
(***************************************************************************)
EXTENDS Animation, SoftwareColours, DrawingCalls, VideoDMADriver,
        SequenceTheorems, FiniteSetTheorems, WellFoundedInduction, TLAPS

-----------------------------------------------------------------------------
(* Sizes and addresses. *)

\* What the proofs use of the constants.
LEMMA Sizes ==
  /\ x_resolution \in Nat \ {0} /\ y_resolution \in Nat \ {0}
  /\ x_coord_mask \in Int /\ y_coord_mask \in Int
  /\ x_resolution <= x_coord_mask /\ y_resolution <= y_coord_mask
  /\ x_resolution < WordMod /\ y_resolution < WordMod /\ WordMod \in Nat \ {0}
  /\ CharWidth \in Nat /\ CharHeight \in Nat \ {0}
  /\ BoxWidth \in Nat /\ BoxHeight \in Nat
<1>1. 2^(WW + 1) \in Int /\ 2^(HW + 1) \in Int
  <2>1. WW + 1 \in Nat /\ HW + 1 \in Nat
    BY DrawingAssumption DEF DrawingAssumption
  <2>2. \A n \in Nat : 2^n \in Int
    BY Z3
  <2> QED
    BY <2>1, <2>2
<1>2. /\ x_resolution \in Nat \ {0} /\ y_resolution \in Nat \ {0}
      /\ x_resolution <= 2^(WW + 1) /\ y_resolution <= 2^(HW + 1)
      /\ WordMod \in Nat
  <2>1. x_resolution \in 1..2^(WW + 1) /\ y_resolution \in 1..2^(HW + 1)
    BY DrawingAssumption DEF DrawingAssumption
  <2>2. WordMod \in Nat
    BY DrawingAssumption DEF DrawingAssumption
  <2> DEFINE a == 2^(WW + 1)
             b == 2^(HW + 1)
  <2>3. a \in Int /\ b \in Int /\ x_resolution \in 1..a /\ y_resolution \in 1..b
    BY <1>1, <2>1
  <2> HIDE DEF a, b
  <2>4. /\ x_resolution \in Nat \ {0} /\ y_resolution \in Nat \ {0}
        /\ x_resolution <= a /\ y_resolution <= b
    BY <2>3
  <2> QED
    BY <2>2, <2>4 DEF a, b
<1>3. CharWidth \in Nat /\ CharHeight \in Nat \ {0} /\ Len(Text) \in Nat
  BY AnimationAssumption, LenProperties DEF AnimationAssumption
<1>4. BoxWidth = Len(Text) * CharWidth /\ BoxHeight = CharHeight - 1
  BY AnimationAssumption DEF AnimationAssumption
<1>5. BoxWidth \in Nat /\ BoxHeight \in Nat
  BY <1>3, <1>4
<1>6. x_resolution + BoxWidth < WordMod /\ y_resolution + BoxHeight < WordMod
  BY AnimationAssumption DEF AnimationAssumption
<1> QED
  BY <1>1, <1>2, <1>3, <1>5, <1>6 DEF x_coord_mask, y_coord_mask

\* A number of the range is itself.
LEMMA Within ==
  ASSUME NEW m \in Int, NEW n \in Nat, n < m
  PROVE  n % m = n
OBVIOUS

\* The driver's address of a pixel of the screen is the one the DMA fetches it
\* from.
LEMMA AddressIsFetched ==
  ASSUME NEW px \in 0..x_resolution-1, NEW py \in 0..y_resolution-1
  PROVE  Address(back_buffer_start_address, px, py) \in Picture(Screen, 1)
<1> DEFINE start == back_buffer_start_address
           mask == x_coord_mask
<1>1. px \in Int /\ py \in Int /\ mask \in Int
  BY Sizes
<1>2. 2^y_coord_offset = 2 * mask /\ 2^x_coord_offset = 2
  BY LineAssumption DEF x_coord_offset
<1>3. py * (2 * mask) + px * 2 = (py * mask + px) * 2
  BY <1>1
<1>4. start \in Int
  BY DrawingAssumption DEF DrawingAssumption
<1>5. Address(start, px, py) = (start + py * (2 * mask) + px * 2) % WordMod
  BY <1>2 DEF Address
<1>6. master_address(start, py, px) = (start + (py * mask + px) * 2) % WordMod
  BY DEF master_address, x_coord_mask
<1>7. Address(start, px, py) = master_address(start, py, px)
  <2> HIDE DEF start, mask
  <2>1. start + py * (2 * mask) + px * 2 = start + (py * mask + px) * 2
    BY <1>1, <1>3, <1>4
  <2> QED
    BY <1>5, <1>6, <2>1
<1>8. <<px, py>> \in Screen
  BY DEF Screen
<1>9. master_address(Start(1), <<px, py>>[2], <<px, py>>[1]) \in Picture(Screen, 1)
  BY <1>8 DEF Picture
<1> QED
  BY <1>7, <1>9 DEF Start

\* A pixel that is drawn lies on the screen, and at its address.
LEMMA DrawnPixel ==
  ASSUME NEW x \in Nat, NEW y \in Nat, x < WordMod, y < WordMod,
         NEW a \in draw(x, y)
  PROVE  /\ x < x_resolution /\ y < y_resolution
         /\ a = Address(back_buffer_start_address, x, y)
<1>1. Unsigned(x) = x /\ Unsigned(y) = y
  BY Sizes, Within DEF Unsigned
<1>2. x < x_resolution /\ y < y_resolution
  BY <1>1, Sizes DEF draw
<1>3. x % x_coord_mask = x /\ y % y_coord_mask = y
  <2>1. x < x_coord_mask /\ y < y_coord_mask
    BY <1>2, Sizes
  <2> QED
    BY <2>1, Sizes, Within
<1> QED
  BY <1>1, <1>2, <1>3, Sizes DEF draw
-----------------------------------------------------------------------------
(* Where the text is. *)

Below == {p \in Nat \X Nat : p[1] < p[2]}

\* A set of numbers has a least one: what takes the place of an induction over
\* the places of a string.
LEMMA Lowest ==
  ASSUME NEW S \in SUBSET Nat, S # {}
  PROVE  \E m \in S : \A n \in S : m <= n
<1>1. IsWellFoundedOn(Below, Nat)
  <2>1. Below = OpToRel(<, Nat)
    BY DEF OpToRel, Below
  <2> QED
    BY <2>1, NatLessThanWellFounded
<1>2. PICK m \in S : \A n \in S : <<n, m>> \notin Below
  BY <1>1, WFMin, Zenon
<1>3. ASSUME NEW n \in S
      PROVE  m <= n
  <2>1. <<n, m>> \notin Below /\ n \in Nat /\ m \in Nat
    BY <1>2
  <2>2. ~(n < m)
    BY <2>1 DEF Below
  <2> QED
    BY <2>1, <2>2
<1> QED
  BY <1>2, <1>3

\* The characters stand side by side.
LEMMA PlacesInARow ==
  ASSUME NEW x \in Nat, NEW y \in Nat, NEW i \in 1..Len(Text)
  PROVE  Places(x, y, Text)[i] = <<x + (i - 1) * CharWidth, y>>
<1> DEFINE N == Len(Text) + 1
           h == [k \in 1..N |-> <<x + (k - 1) * CharWidth, y>>]
           Rule(place, k) ==
             IF k = 1 THEN <<x, y>>
             ELSE LET before == place[k - 1]
                  IN  IF Text[k - 1] = Newline
                      THEN <<x, before[2] + LineHeight>>
                      ELSE <<before[1] + CharWidth, before[2]>>
<1>1. Len(Text) \in Nat /\ N \in Nat /\ CharWidth \in Nat
  BY Sizes, AnimationAssumption, LenProperties DEF AnimationAssumption
<1>2. \A k \in 1..Len(Text) : Text[k] # Newline
  BY AnimationAssumption DEF AnimationAssumption
<1>3. ASSUME NEW k \in 1..N, k # 1
      PROVE  /\ k - 1 \in 1..N /\ k - 1 \in Nat /\ Text[k - 1] # Newline
             /\ (x + ((k - 1) - 1) * CharWidth) + CharWidth = x + (k - 1) * CharWidth
  <2>1. k - 1 \in 1..N /\ k - 1 \in 1..Len(Text) /\ k - 1 \in Nat
    BY <1>1, <1>3
  <2>2. ((k - 1) - 1) * CharWidth + CharWidth = (k - 1) * CharWidth
    BY <1>1, <2>1
  <2>3. ((k - 1) - 1) * CharWidth \in Int /\ (k - 1) * CharWidth \in Int
    BY <1>1, <2>1
  <2> QED
    BY <1>1, <1>2, <2>1, <2>2, <2>3
<1>4. ASSUME NEW place, NEW k \in 1..N, k # 1,
             place[k - 1] = <<x + ((k - 1) - 1) * CharWidth, y>>
      PROVE  Rule(place, k) = <<x + (k - 1) * CharWidth, y>>
  BY <1>3, <1>4
<1>5. h = [k \in 1..N |-> Rule(h, k)]
  <2>1. ASSUME NEW k \in 1..N
        PROVE  h[k] = Rule(h, k)
    <3>1. CASE k = 1
      <4>1. (k - 1) * CharWidth = 0
        BY <1>1, <3>1
      <4> QED
        BY <3>1, <4>1
    <3>2. CASE k # 1
      <4>1. h[k - 1] = <<x + ((k - 1) - 1) * CharWidth, y>>
        BY <1>3, <3>2
      <4> QED
        BY <1>4, <3>2, <4>1
    <3> QED
      BY <3>1, <3>2
  <2> HIDE DEF Rule
  <2> QED
    BY <2>1
<1> DEFINE W == Places(x, y, Text)
<1>6. W = [k \in 1..N |-> Rule(W, k)]
  <2>1. W = CHOOSE place : place = [k \in 1..N |-> Rule(place, k)]
    BY DEF Places
  <2> HIDE DEF h, Rule, W
  <2>2. \E place : place = [k \in 1..N |-> Rule(place, k)]
    BY <1>5
  <2> QED
    BY <2>1, <2>2, Zenon
<1> HIDE DEF W
<1>7. ASSUME NEW k \in 1..N
       PROVE  W[k] = Rule(W, k)
  <2> HIDE DEF N, h, Rule
  <2> QED
    BY <1>6
<1>8. ASSUME NEW j \in 1..N, W[j] # <<x + (j - 1) * CharWidth, y>>
      PROVE  FALSE
  <2> DEFINE V(k) == <<x + (k - 1) * CharWidth, y>>
             S == {k \in 1..N : W[k] # V(k)}
  <2>1. S \in SUBSET Nat /\ S # {}
    <3>1. j \in 1..N /\ W[j] # V(j)
      BY <1>8
    <3> HIDE DEF N, V
    <3> QED
      BY <1>1, <3>1
  <2>2. PICK m \in S : \A k \in S : m <= k
    BY <2>1, Lowest
  <2>3. m \in 1..N /\ W[m] # <<x + (m - 1) * CharWidth, y>> /\ W[m] = Rule(W, m)
    <3> HIDE DEF N, Rule
    <3>1. m \in 1..N /\ W[m] # <<x + (m - 1) * CharWidth, y>>
      BY <2>2
    <3>2. W[m] = Rule(W, m)
      BY <1>7, <3>1
    <3> QED
      BY <3>1, <3>2
  <2>4. CASE m = 1
    <3>1. (m - 1) * CharWidth = 0
      BY <1>1, <2>4
    <3> QED
      BY <2>3, <2>4, <3>1
  <2>5. CASE m # 1
    <3>1. m - 1 \in 1..N /\ m - 1 < m
      BY <1>1, <2>3, <2>5
    <3>2. W[m - 1] = <<x + ((m - 1) - 1) * CharWidth, y>>
      BY <1>1, <2>2, <3>1
    <3>3. Rule(W, m) = <<x + (m - 1) * CharWidth, y>>
      BY <1>4, <2>3, <2>5, <3>2
    <3> QED
      BY <2>3, <3>3
  <2> QED
    BY <2>4, <2>5
<1>9. i \in 1..N
  BY <1>1
<1> QED
  BY <1>8, <1>9 DEF W

\* A pixel of the text lies on the screen and in the text's box.
LEMMA TextPixel ==
  ASSUME NEW x \in Nat, NEW y \in Nat, x < x_resolution, y < y_resolution,
         NEW a \in vid_print_string(x, y, Text)
  PROVE  \E px \in 0..x_resolution-1, py \in 0..y_resolution-1 :
           /\ px \in x..x + BoxWidth - 1 /\ py \in y..y + BoxHeight - 1
           /\ a = Address(back_buffer_start_address, px, py)
<1>1. a \in UNION {vid_print_char(Places(x, y, Text)[i][1], Places(x, y, Text)[i][2],
                                    Text[i]) :
                     i \in {n \in 1..Len(Text) : Text[n] # Newline}}
  BY DEF vid_print_string
<1>2. PICK i \in 1..Len(Text) :
        a \in vid_print_char(Places(x, y, Text)[i][1], Places(x, y, Text)[i][2],
                             Text[i])
  BY <1>1
<1> DEFINE left == x + (i - 1) * CharWidth
<1>3. a \in vid_print_char(left, y, Text[i])
  BY <1>2, PlacesInARow
<1>4. PICK d \in Text[i] : /\ d[1] < CharWidth /\ d[2] < CharHeight
                           /\ a \in draw(left + d[1], y + d[2])
  BY <1>3 DEF vid_print_char, Plot
<1>5. d \in Nat \X Nat /\ d[2] < CharHeight - 1
  <2>1. Text \in Seq(SUBSET (Nat \X Nat))
        /\ \A c \in UNION {Text[j] : j \in 1..Len(Text)} : c[2] < CharHeight - 1
    BY AnimationAssumption DEF AnimationAssumption
  <2>2. Text[i] \in SUBSET (Nat \X Nat)
    BY <2>1, ElementOfSeq
  <2> QED
    BY <2>1, <2>2
<1>6. /\ i \in Nat \ {0} /\ Len(Text) \in Nat /\ i <= Len(Text)
      /\ BoxWidth = Len(Text) * CharWidth /\ BoxHeight = CharHeight - 1
      /\ x_resolution + BoxWidth < WordMod /\ y_resolution + BoxHeight < WordMod
  BY AnimationAssumption, LenProperties DEF AnimationAssumption
<1>7. left \in Nat /\ x <= left /\ left + CharWidth <= x + BoxWidth
  <2>1. (i - 1) * CharWidth \in Nat
    BY <1>6, Sizes
  <2>2. (i - 1) * CharWidth + CharWidth = i * CharWidth
    BY <1>6, Sizes
  <2>3. i * CharWidth <= Len(Text) * CharWidth
    BY <1>6, Sizes
  <2> DEFINE u == (i - 1) * CharWidth
             v == i * CharWidth
  <2>4. /\ u \in Nat /\ v \in Int /\ BoxWidth \in Nat /\ CharWidth \in Nat
        /\ u + CharWidth = v /\ v <= BoxWidth /\ left = x + u
    BY <1>6, <2>1, <2>2, <2>3, Sizes
  <2> HIDE DEF u, v, left
  <2> QED
    BY <2>4
<1> HIDE DEF left
<1> DEFINE px == left + d[1]
           py == y + d[2]
<1>8. /\ px \in Nat /\ py \in Nat
      /\ px \in x..x + BoxWidth - 1 /\ py \in y..y + BoxHeight - 1
      /\ px < WordMod /\ py < WordMod
  <2> DEFINE u == d[1]
             v == d[2]
  <2>1. /\ u \in Nat /\ v \in Nat /\ u < CharWidth /\ v < BoxHeight
        /\ px = left + u /\ py = y + v
    BY <1>4, <1>5, <1>6, Sizes
  <2>2. /\ x_resolution + BoxWidth < WordMod /\ y_resolution + BoxHeight < WordMod
        /\ x_resolution \in Nat /\ y_resolution \in Nat /\ CharWidth \in Nat
        /\ BoxWidth \in Nat /\ BoxHeight \in Nat /\ WordMod \in Nat
    BY <1>6, Sizes
  <2> HIDE DEF left, u, v, px, py
  <2> QED
    BY <1>7, <2>1, <2>2
<1>9. /\ px < x_resolution /\ py < y_resolution
      /\ a = Address(back_buffer_start_address, px, py)
  <2>1. a \in draw(px, py)
    BY <1>4
  <2> HIDE DEF px, py
  <2> QED
    BY <1>8, <2>1, DrawnPixel
<1> HIDE DEF px, py
<1>10. px \in 0..x_resolution-1 /\ py \in 0..y_resolution-1
  BY <1>8, <1>9, Sizes
<1> QED
  BY <1>8, <1>9, <1>10
-----------------------------------------------------------------------------
(* The demonstration. *)

\* The box that erases the text, where a picture shows text, and where it shows
\* anything.
TextBox == draw_box(x2 - 1, y2 - 1, x2 + BoxWidth, y2 + BoxHeight, 1)

Marked(picture) == {a \in DOMAIN picture : picture[a] = "text"}

Visible == Picture(Screen, 1)

\* The box may be drawn and the text may be moved.
PlaceLegal ==
  /\ x2 \in 1..XTurn + 1 /\ y2 \in 1..YTurn + 1
  /\ dx \in {-1, 1} /\ dy \in {-1, 1}

\* Before anything is drawn both buffers are the same, and the box covers what
\* text there is in them; it does so in the second buffer while the first one is
\* new; and then both have the text where it is now.
AnimationInv ==
  /\ pc \in {"first", "second", "move"}
  /\ PlaceLegal
  /\ DOMAIN back = Visible /\ DOMAIN front = Visible
  /\ pc = "first" => front = back /\ Marked(back) \subseteq TextBox
  /\ pc = "second" => front = Drawn(back) /\ Marked(back) \subseteq TextBox
  /\ pc = "move" => front = back /\ Marked(back) = TextAddresses

\* What is known of a place where text is drawn.
LEMMA LegalPlace ==
  ASSUME PlaceLegal
  PROVE  /\ x2 \in Nat \ {0} /\ y2 \in Nat \ {0}
         /\ x2 < x_resolution /\ y2 < y_resolution
         /\ x_resolution + BoxWidth < WordMod /\ y_resolution + BoxHeight < WordMod
<1>1. XTurn \in 2..x_resolution-2 /\ YTurn \in 2..y_resolution-2
  BY AnimationAssumption DEF AnimationAssumption
<1>2. x_resolution + BoxWidth < WordMod /\ y_resolution + BoxHeight < WordMod
  BY AnimationAssumption DEF AnimationAssumption
<1> QED
  BY <1>1, <1>2, Sizes DEF PlaceLegal

\* Two coordinates in their order are clipped at the screen's edge.
LEMMA Clipped ==
  ASSUME NEW low \in Nat, NEW high \in Nat, NEW limit \in Nat,
         low <= high, high < WordMod, NEW n \in Nat,
         low <= n, n <= high, n < limit
  PROVE  n \in Extent(low, high, limit)
<1>1. Unsigned(low) = low /\ Unsigned(high) = high
  BY Sizes, Within DEF Unsigned
<1> QED
  BY <1>1, Sizes DEF Extent

\* The box reaches a pixel beyond the text on every side, as far as the screen
\* does.
LEMMA BoxCovers ==
  ASSUME NEW x \in Nat \ {0}, NEW y \in Nat \ {0},
         x < x_resolution, y < y_resolution,
         NEW px \in 0..x_resolution-1, NEW py \in 0..y_resolution-1,
         px \in x - 1..x + BoxWidth, py \in y - 1..y + BoxHeight
  PROVE  Address(back_buffer_start_address, px, py)
           \in draw_box(x - 1, y - 1, x + BoxWidth, y + BoxHeight, 1)
<1>0. x_resolution + BoxWidth < WordMod /\ y_resolution + BoxHeight < WordMod
  BY AnimationAssumption DEF AnimationAssumption
<1>1. /\ x - 1 \in Nat /\ x + BoxWidth \in Nat /\ px \in Nat
      /\ x - 1 <= x + BoxWidth /\ x + BoxWidth < WordMod
      /\ x - 1 <= px /\ px <= x + BoxWidth /\ px < x_resolution
  BY <1>0, Sizes
<1>2. /\ y - 1 \in Nat /\ y + BoxHeight \in Nat /\ py \in Nat
      /\ y - 1 <= y + BoxHeight /\ y + BoxHeight < WordMod
      /\ y - 1 <= py /\ py <= y + BoxHeight /\ py < y_resolution
  BY <1>0, Sizes
<1>3. px \in Extent(x - 1, x + BoxWidth, x_resolution)
  BY <1>1, Clipped, Sizes
<1>4. py \in Extent(y - 1, y + BoxHeight, y_resolution)
  BY <1>2, Clipped, Sizes
<1> QED
  BY <1>3, <1>4 DEF draw_box, Filled, Start

\* The text is inside the picture.
LEMMA TextShown ==
  ASSUME PlaceLegal
  PROVE  TextAddresses \subseteq Visible
<1> SUFFICES ASSUME NEW a \in TextAddresses
             PROVE  a \in Visible
  OBVIOUS
<1>1. PICK px \in 0..x_resolution-1, py \in 0..y_resolution-1 :
        a = Address(back_buffer_start_address, px, py)
  BY LegalPlace, TextPixel DEF TextAddresses
<1> QED
  BY <1>1, AddressIsFetched DEF Visible

\* One step further, a range reaches one step further on both sides.
LEMMA NextRange ==
  ASSUME NEW x \in Nat, NEW next \in {x - 1, x + 1}, NEW size \in Nat,
         NEW n \in x..x + size - 1
  PROVE  n \in next - 1..next + size
OBVIOUS

\* Wherever the text moves, its box there covers it where it was.
LEMMA NextBoxCovers ==
  ASSUME PlaceLegal, PlaceLegal',
         x2' \in {x2 - 1, x2 + 1}, y2' \in {y2 - 1, y2 + 1}
  PROVE  TextAddresses \subseteq TextBox'
<1> SUFFICES ASSUME NEW a \in TextAddresses
             PROVE  a \in TextBox'
  OBVIOUS
<1>1. PICK px \in 0..x_resolution-1, py \in 0..y_resolution-1 :
        /\ px \in x2..x2 + BoxWidth - 1 /\ py \in y2..y2 + BoxHeight - 1
        /\ a = Address(back_buffer_start_address, px, py)
  BY LegalPlace, TextPixel DEF TextAddresses
<1>2. /\ x2' \in Nat \ {0} /\ y2' \in Nat \ {0}
      /\ x2' < x_resolution /\ y2' < y_resolution
  <2>1. XTurn \in 2..x_resolution-2 /\ YTurn \in 2..y_resolution-2
    BY AnimationAssumption DEF AnimationAssumption
  <2> QED
    BY <2>1, Sizes DEF PlaceLegal
<1>3. px \in x2' - 1..x2' + BoxWidth
  <2>1. /\ x2 \in Nat /\ x2' \in {x2 - 1, x2 + 1} /\ BoxWidth \in Nat
        /\ px \in x2..x2 + BoxWidth - 1
    BY <1>1, LegalPlace, Sizes
  <2> QED
    BY <2>1, NextRange
<1>4. py \in y2' - 1..y2' + BoxHeight
  <2>1. /\ y2 \in Nat /\ y2' \in {y2 - 1, y2 + 1} /\ BoxHeight \in Nat
        /\ py \in y2..y2 + BoxHeight - 1
    BY <1>1, LegalPlace, Sizes
  <2> QED
    BY <2>1, NextRange
<1> QED
  BY <1>1, <1>2, <1>3, <1>4, BoxCovers DEF TextBox

\* Once everything is drawn the text is shown where it is meant to be and
\* nowhere else, whatever the circle was, if the box covered what was there.
LEMMA TextOnly ==
  ASSUME PlaceLegal, NEW picture, DOMAIN picture = Visible,
         Marked(picture) \subseteq TextBox
  PROVE  DOMAIN Drawn(picture) = Visible /\ Marked(Drawn(picture)) = TextAddresses
<1> DEFINE disc == vid_draw_circle(circle.x, circle.y, circle.r, 1)
<1>1. Drawn(picture) =
        [a \in Visible |->
           IF a \in TextAddresses THEN "text"
           ELSE IF a \in TextBox THEN "black"
           ELSE IF a \in disc THEN "circle" ELSE picture[a]]
  <2> HIDE DEF disc
  <2>1. Drawn(picture) =
          Paint(Paint(Paint(picture, disc, "circle"), TextBox, "black"),
                TextAddresses, "text")
    BY DEF Drawn, disc, TextBox
  <2> QED
    BY <2>1 DEF Paint
<1>2. TextAddresses \subseteq Visible
  BY TextShown
<1> HIDE DEF disc
<1>3. ASSUME NEW a \in Visible
      PROVE  Drawn(picture)[a] = "text" <=> a \in TextAddresses
  <2>1. "circle" # "text" /\ "black" # "text"
    OBVIOUS
  <2>2. picture[a] = "text" => a \in TextBox
    BY DEF Marked
  <2> QED
    BY <1>1, <2>1, <2>2
<1>4. DOMAIN Drawn(picture) = Visible
  BY <1>1
<1> QED
  BY <1>2, <1>3, <1>4 DEF Marked

\* A draw and a swap.
LEMMA DrawStep ==
  ASSUME AnimationInv, DrawFirst \/ DrawSecond
  PROVE  AnimationInv'
<1>1. /\ front' = Drawn(back) /\ back' = front
      /\ UNCHANGED <<circle, x2, y2, dx, dy>>
  BY DEF DrawFirst, DrawSecond, DrawAndSwap
<1>2. PlaceLegal' /\ TextBox' = TextBox /\ TextAddresses' = TextAddresses
  BY <1>1 DEF AnimationInv, PlaceLegal, TextBox, TextAddresses
<1>3. (Drawn(back))' = Paint(Paint(Paint(back',
                        vid_draw_circle(circle.x, circle.y, circle.r, 1), "circle"),
                        TextBox, "black"), TextAddresses, "text")
  BY <1>1, <1>2 DEF Drawn, TextBox
<1>4. Drawn(front) = Paint(Paint(Paint(front,
                        vid_draw_circle(circle.x, circle.y, circle.r, 1), "circle"),
                        TextBox, "black"), TextAddresses, "text")
  BY DEF Drawn, TextBox
<1>5. (Drawn(back))' = Drawn(front)
  BY <1>1, <1>3, <1>4
<1>6. Marked(back) \subseteq TextBox /\ pc \in {"first", "second"}
  BY DEF DrawFirst, DrawSecond, AnimationInv
<1>7. DOMAIN Drawn(back) = Visible /\ Marked(Drawn(back)) = TextAddresses
  BY <1>6, TextOnly DEF AnimationInv
<1>8. DOMAIN back' = Visible /\ DOMAIN front' = Visible
  BY <1>1, <1>7 DEF AnimationInv
<1>9. CASE DrawFirst
  <2>1. pc' = "second" /\ front = back
    BY <1>9 DEF DrawFirst, AnimationInv
  <2>2. front' = (Drawn(back))' /\ Marked(back)' = Marked(back)
    BY <1>1, <1>5, <2>1 DEF Marked
  <2> QED
    BY <1>2, <1>6, <1>8, <2>1, <2>2 DEF AnimationInv
<1>10. CASE DrawSecond
  <2>1. pc' = "move" /\ front = Drawn(back)
    BY <1>10 DEF DrawSecond, AnimationInv
  <2>2. front' = back' /\ Marked(back)' = TextAddresses
    BY <1>1, <1>7, <2>1 DEF Marked
  <2> QED
    BY <1>2, <1>8, <2>1, <2>2 DEF AnimationInv
<1> QED
  BY <1>9, <1>10

\* The text moves by one pixel and turns in time.
LEMMA MoveStep ==
  ASSUME AnimationInv, Move
  PROVE  AnimationInv'
<1>1. /\ XTurn \in 2..x_resolution-2 /\ YTurn \in 2..y_resolution-2
  BY AnimationAssumption DEF AnimationAssumption
<1>2. PlaceLegal /\ pc = "move" /\ front = back /\ Marked(back) = TextAddresses
  BY DEF Move, AnimationInv
<1>3. dx' \in {-1, 1} /\ x2 + dx' \in 1..XTurn + 1
  BY <1>1, <1>2, Sizes DEF Move, Direction, PlaceLegal
<1>4. dy' \in {-1, 1} /\ y2 + dy' \in 1..YTurn + 1
  BY <1>1, <1>2, Sizes DEF Move, Direction, PlaceLegal
<1>5. x2' = x2 + dx' /\ y2' = y2 + dy'
  <2>1. x2 + dx' \in Nat /\ x2 + dx' < WordMod
    BY <1>1, <1>3, Sizes
  <2>2. y2 + dy' \in Nat /\ y2 + dy' < WordMod
    BY <1>1, <1>4, Sizes
  <2>3. (x2 + dx') % WordMod = x2 + dx' /\ (y2 + dy') % WordMod = y2 + dy'
    BY <2>1, <2>2, Sizes, Within
  <2> QED
    BY <2>3 DEF Move, Unsigned
<1>6. PlaceLegal'
  BY <1>3, <1>4, <1>5 DEF PlaceLegal
<1>7. x2' \in {x2 - 1, x2 + 1} /\ y2' \in {y2 - 1, y2 + 1}
  BY <1>1, <1>2, <1>3, <1>4, <1>5 DEF PlaceLegal
<1>8. Marked(back)' \subseteq TextBox'
  BY <1>2, <1>6, <1>7, NextBoxCovers DEF Move, Marked
<1> QED
  BY <1>2, <1>6, <1>8 DEF Move, AnimationInv

\* What AnimationInv says holds in every state of the demonstration.
THEOREM AnimationInvariant == AnimationSpec => []AnimationInv
<1>1. AnimationInit => AnimationInv
  <2> SUFFICES ASSUME AnimationInit PROVE AnimationInv
    OBVIOUS
  <2>1. /\ XTurn \in 2..x_resolution-2 /\ YTurn \in 2..y_resolution-2
        /\ FirstPlace \in 1..XTurn /\ FirstPlace \in 1..YTurn
    BY AnimationAssumption DEF AnimationAssumption
  <2>2. PlaceLegal
    BY <2>1, Sizes DEF AnimationInit, PlaceLegal
  <2>3. DOMAIN Black = Visible /\ Marked(Black) = {}
    BY DEF Black, Visible, Marked
  <2> QED
    BY <2>2, <2>3 DEF AnimationInit, AnimationInv
<1>2. AnimationInv /\ [AnimationNext]_animationVars => AnimationInv'
  <2> SUFFICES ASSUME AnimationInv, [AnimationNext]_animationVars
               PROVE  AnimationInv'
    OBVIOUS
  <2>1. CASE DrawFirst \/ DrawSecond
    BY <2>1, DrawStep
  <2>2. CASE Move
    BY <2>2, MoveStep
  <2>3. CASE UNCHANGED animationVars
    BY <2>3 DEF animationVars, AnimationInv, PlaceLegal, Marked, TextBox,
                TextAddresses, Drawn
  <2> QED
    BY <2>1, <2>2, <2>3 DEF AnimationNext
<1> QED
  BY <1>1, <1>2, PTL DEF AnimationSpec
\* The demonstration never asks for a box that would be drawn elsewhere, its text
\* leaves no trail, and both buffers show the same whenever the text moves on:
\* whatever the size of the screen and of the text, wherever it starts, and
\* however circles are drawn into it.
THEOREM AnimationAlwaysClean == AnimationSpec => []AnimationClean
<1>1. ASSUME AnimationInv
      PROVE  AnimationClean
  <2>1. BoxArgumentsLegal
    BY <1>1, LegalPlace DEF AnimationInv, PlaceLegal, BoxArgumentsLegal
  <2>2. CASE pc = "first"
    BY <2>1, <2>2 DEF AnimationClean, NoTrail
  <2>3. CASE pc = "second"
    <3>1. Marked(front) = TextAddresses
      BY <1>1, <2>3, TextOnly DEF AnimationInv
    <3> QED
      BY <2>1, <2>3, <3>1 DEF AnimationClean, NoTrail, Marked
  <2>4. CASE pc = "move"
    BY <1>1, <2>1, <2>4 DEF AnimationInv, AnimationClean, NoTrail, Marked
  <2> QED
    BY <1>1, <2>2, <2>3, <2>4 DEF AnimationInv
<1> QED
  BY <1>1, AnimationInvariant, PTL
-----------------------------------------------------------------------------
(* Colours. *)

\* The resampler takes the bits that the driver's macro takes.
LEMMA SixteenToEight ==
  ASSUME NEW c \in Nat
  PROVE  converted_data(c) = RGB_16BIT_TO_8BIT(c)
<1> DEFINE r == (c \div 2048) % 32
           g == (c \div 32) % 64
           b == c % 32
<1>1. r \in Nat /\ g \in Nat /\ b \in Nat
  BY SMT
<1>2. /\ (r \div 4) % 8 = (c \div 8192) % 8
      /\ (g \div 8) % 8 = (c \div 256) % 8
      /\ (b \div 8) % 4 = (c \div 8) % 4
  <2>1. (r \div 4) % 8 = (c \div 8192) % 8
    BY SMT
  <2>2. (g \div 8) % 8 = (c \div 256) % 8
    BY SMT
  <2>3. (b \div 8) % 4 = (c \div 8) % 4
    BY SMT
  <2> QED
    BY <2>1, <2>2, <2>3, SMT
<1>3. Red(c) = r /\ Green(c) = g /\ Blue(c) = b
  BY SMT DEF Red, Green, Blue, Bits
<1> HIDE DEF r, g, b
<1>4. converted_data(c) = ((r \div 4) % 8) * 32 + ((g \div 8) % 8) * 4 + ((b \div 8) % 4)
  BY <1>1, <1>3, SMT DEF converted_data, Bits
<1>5. RGB_16BIT_TO_8BIT(c) =
        ((c \div 8192) % 8) * 32 + ((c \div 256) % 8) * 4 + ((c \div 8) % 4)
  BY SMT DEF RGB_16BIT_TO_8BIT, Bits
<1> QED
  BY <1>2, <1>4, <1>5, SMT

\* What the driver's macros make of a colour are numbers of as many bits.
LEMMA Narrowed ==
  ASSUME NEW c \in Nat
  PROVE  RGB_24BIT_TO_16BIT(c) \in Nat
<1>1. /\ (c \div 524288) % 32 \in Nat /\ (c \div 1024) % 64 \in Nat
      /\ (c \div 8) % 32 \in Nat
  BY SMT
<1>2. RGB_24BIT_TO_16BIT(c) =
        ((c \div 524288) % 32) * 2048 + ((c \div 1024) % 64) * 32 + ((c \div 8) % 32)
  BY SMT DEF RGB_24BIT_TO_16BIT, Bits
<1> QED
  BY <1>1, <1>2, SMT

\* A colour of three bytes becomes the same byte in one step as in two.
LEMMA TwentyFourToEight ==
  ASSUME NEW c \in Nat
  PROVE  RGB_16BIT_TO_8BIT(RGB_24BIT_TO_16BIT(c)) = RGB_24BIT_TO_8BIT(c)
<1> DEFINE r == (c \div 524288) % 32
           g == (c \div 1024) % 64
           b == (c \div 8) % 32
           d == r * 2048 + g * 32 + b
<1>1. r \in 0..31 /\ g \in 0..63 /\ b \in 0..31
  BY SMT
<1>2. RGB_24BIT_TO_16BIT(c) = d
  BY SMT DEF RGB_24BIT_TO_16BIT, Bits
<1>3. (r \div 4) % 8 = (c \div 2097152) % 8
  BY SMT
<1>4. (g \div 8) % 8 = (c \div 8192) % 8
  BY SMT
<1>5. (b \div 8) % 4 = (c \div 64) % 4
  BY SMT
<1> HIDE DEF r, g, b
<1>6. d \in Nat
  BY <1>1, SMT
<1>7. /\ (d \div 8192) % 8 = (r \div 4) % 8
      /\ (d \div 256) % 8 = (g \div 8) % 8
      /\ (d \div 8) % 4 = (b \div 8) % 4
  <2>1. d \div 2048 = r /\ d \div 32 = r * 64 + g /\ d % 32 = b
    BY <1>1, SMT
  <2>2. (d \div 8192) % 8 = (r \div 4) % 8
    BY <1>1, <2>1, SMT
  <2>3. (d \div 256) % 8 = (g \div 8) % 8
    <3>1. d \div 256 = (r * 64 + g) \div 8
      BY <1>1, SMT
    <3>2. ((r * 64 + g) \div 8) % 8 = (g \div 8) % 8
      BY <1>1, SMT
    <3> QED
      BY <3>1, <3>2
  <2>4. (d \div 8) % 4 = (b \div 8) % 4
    <3>1. d % 32 = b
      BY <2>1
    <3> HIDE DEF d
    <3> QED
      BY <1>6, <3>1, SMT
  <2> QED
    BY <2>2, <2>3, <2>4, SMT
<1> HIDE DEF d
<1>8. RGB_16BIT_TO_8BIT(d) =
        ((d \div 8192) % 8) * 32 + ((d \div 256) % 8) * 4 + ((d \div 8) % 4)
  BY <1>6, SMT DEF RGB_16BIT_TO_8BIT, Bits
<1>9. RGB_24BIT_TO_8BIT(c) =
        ((c \div 2097152) % 8) * 32 + ((c \div 8192) % 8) * 4 + ((c \div 64) % 4)
  BY SMT DEF RGB_24BIT_TO_8BIT, Bits
<1> QED
  BY <1>2, <1>3, <1>4, <1>5, <1>7, <1>8, <1>9, SMT
\* What a "narrowed" pixel was made of, and what the resampler has made of it.
\* NamesAgree says the same of a named one, and is kept for the same reason: a
\* pixel stays as it was drawn.
ColoursInv ==
  /\ stream_in_data \in Nat
  /\ stream_out_data \in {Nothing, converted_data(stream_in_data)}
  /\ way = "narrowed" => meant \in Nat /\ stream_in_data = RGB_24BIT_TO_16BIT(meant)
  /\ NamesAgree

\* The two tables of a setting agree on every name they share, but on ROYALBLUE for
\* RGB, and there they do not.
LEMMA RGBNames ==
  \A name \in DOMAIN Names16 \cap DOMAIN Names24 :
    /\ Names16[name] \in Nat
    /\ Names16[name] = Sixteen(Names24[name]) <=> Names24[name] # Names24.ROYALBLUE
BY SMT DEF Names16, Names24, Sixteen, vid_color_convert24_16_m, Bits

LEMMA BGRNames ==
  \A name \in DOMAIN BGRNames16 \cap DOMAIN BGRNames24 :
    /\ BGRNames16[name] \in Nat
    /\ BGRNames16[name] = Sixteen(BGRNames24[name])
BY SMTT(30) DEF BGRNames16, BGRNames24, Sixteen, vid_color_convert24_16_m, Bits

\* The numbers that the wider colours are on their way back to sixteen bits.
LEMMA WideNumbers ==
  /\ \A c \in 0..255 : RGB_8BIT_TO_30BIT(c) \in Nat
  /\ \A c \in Colours : RGB_16BIT_TO_24BIT(c) \in Nat
  /\ \A c \in Colours24 : RGB_30BIT_TO_24BIT(RGB_24BIT_TO_30BIT(c)) \in Nat
<1>1. ASSUME NEW n \in Nat
      PROVE  /\ RGB_2BIT_TO_10BIT(n) \in Nat /\ RGB_3BIT_TO_10BIT(n) \in Nat
             /\ RGB_5BIT_TO_10BIT(n) \in Nat /\ RGB_6BIT_TO_10BIT(n) \in Nat
             /\ RGB_8BIT_TO_10BIT(n) \in Nat
  BY SMT DEF RGB_2BIT_TO_10BIT, RGB_3BIT_TO_10BIT, RGB_5BIT_TO_10BIT,
             RGB_6BIT_TO_10BIT, RGB_8BIT_TO_10BIT
<1>2. ASSUME NEW r \in Nat, NEW g \in Nat, NEW b \in Nat
      PROVE  RGB_TO_30BIT_RGB(r, g, b) \in Nat
  BY SMT DEF RGB_TO_30BIT_RGB
<1>3. ASSUME NEW n \in Nat
      PROVE  RGB_30BIT_TO_24BIT(n) \in Nat
  <2>1. /\ Bits(n, 29, 22) \in Nat /\ Bits(n, 19, 12) \in Nat /\ Bits(n, 9, 2) \in Nat
    BY SMT DEF Bits
  <2> QED
    BY <2>1, SMT DEF RGB_30BIT_TO_24BIT
<1>4. ASSUME NEW c \in 0..255
      PROVE  RGB_8BIT_TO_30BIT(c) \in Nat
  <2>1. Bits(c, 7, 5) \in Nat /\ Bits(c, 3, 3) * 2 \in Nat /\ 0 \in Nat
    BY SMT DEF Bits
  <2> QED
    BY <1>1, <1>2, <2>1, Zenon DEF RGB_8BIT_TO_30BIT
<1>5. ASSUME NEW c \in Colours
      PROVE  RGB_16BIT_TO_24BIT(c) \in Nat
  <2>1. c \in Nat
    <3>1. c \in 0..2^16-1
      BY ColoursAssumption, Zenon
    <3> QED
      BY <3>1, SMT
  <2>2. Red(c) \in Nat /\ Green(c) \in Nat /\ Blue(c) \in Nat
    BY <2>1, SMT DEF Red, Green, Blue, Bits
  <2>3. RGB_16BIT_TO_30BIT(c) \in Nat
    BY <1>1, <1>2, <2>2, Zenon DEF RGB_16BIT_TO_30BIT
  <2> QED
    BY <1>3, <2>3, SMT DEF RGB_16BIT_TO_24BIT
<1>6. ASSUME NEW c \in Colours24
      PROVE  RGB_30BIT_TO_24BIT(RGB_24BIT_TO_30BIT(c)) \in Nat
  <2>1. c \in Nat
    <3>1. c \in 0..2^24-1
      BY Colours24Assumption, Zenon
    <3> QED
      BY <3>1, SMT
  <2>2. Bits(c, 23, 16) \in Nat /\ Bits(c, 15, 8) \in Nat /\ Bits(c, 7, 0) \in Nat
    BY <2>1, SMT DEF Bits
  <2>3. RGB_24BIT_TO_30BIT(c) \in Nat
    BY <1>1, <1>2, <2>2, Zenon DEF RGB_24BIT_TO_30BIT
  <2> QED
    BY <1>3, <2>3
<1> QED
  BY <1>4, <1>5, <1>6

\* Whatever is drawn or sent on, the pixel is what it was made from.
THEOREM ColoursInvariant == SoftwareColoursSpec => []ColoursInv
<1>1. SoftwareColoursInit => ColoursInv
  BY SMT DEF SoftwareColoursInit, ColoursInv, NamesAgree
<1>2. ASSUME ColoursInv, NEW pixel \in Nat, NEW colour, NEW how,
             Draw(pixel, colour, how),
             how = "narrowed" => colour \in Nat /\ pixel = RGB_24BIT_TO_16BIT(colour),
             how = "named" =>
               (pixel = Sixteen(colour) <=> ~(RGB /\ colour = Names24.ROYALBLUE))
      PROVE  ColoursInv'
  <2>1. NamesAgree'
    BY <1>2 DEF Draw, NamesAgree, Misnamed
  <2> QED
    BY <1>2, <2>1 DEF Draw, ColoursInv
<1>3. ASSUME ColoursInv, DrawNamed
      PROVE  ColoursInv'
  <2>1. CASE RGB
    <3>1. PICK name \in DOMAIN Names16 \cap DOMAIN Names24 :
            Draw(Names16[name], Names24[name], "named")
      BY <1>3, <2>1, Zenon DEF DrawNamed
    <3> QED
      BY <1>2, <1>3, <2>1, <3>1, RGBNames
  <2>2. CASE ~RGB
    <3>1. PICK name \in DOMAIN BGRNames16 \cap DOMAIN BGRNames24 :
            Draw(BGRNames16[name], BGRNames24[name], "named")
      BY <1>3, <2>2, Zenon DEF DrawNamed
    <3> QED
      BY <1>2, <1>3, <2>2, <3>1, BGRNames
  <2> QED
    BY <2>1, <2>2
<1>4. ASSUME ColoursInv, DrawNarrowed
      PROVE  ColoursInv'
  <2>1. PICK c \in Colours24 : Draw(RGB_24BIT_TO_16BIT(c), c, "narrowed")
    BY <1>4 DEF DrawNarrowed
  <2>2. c \in Nat
    <3>1. c \in 0..2^24-1
      BY Colours24Assumption, Zenon
    <3> QED
      BY <3>1, SMT
  <2> QED
    BY <1>2, <1>4, <2>1, <2>2, Narrowed, SMT
<1>5. ASSUME ColoursInv, DrawWidened
      PROVE  ColoursInv'
  <2>1. \E c \in Nat : \E colour : Draw(RGB_24BIT_TO_16BIT(c), colour, "widened")
    <3>1. ASSUME NEW c \in 0..255, NEW colour,
                 Draw(RGB_8BIT_TO_16BIT(c), colour, "widened")
          PROVE  \E d \in Nat : Draw(RGB_24BIT_TO_16BIT(d), colour, "widened")
      BY <3>1, WideNumbers DEF RGB_8BIT_TO_16BIT, RGB_30BIT_TO_16BIT
    <3> QED
      BY <1>5, <3>1, WideNumbers DEF DrawWidened
  <2> QED
    BY <1>2, <1>5, <2>1, Narrowed, SMT
<1>6. ASSUME ColoursInv, Resample /\ UNCHANGED <<RGB, meant, way>>
      PROVE  ColoursInv'
  BY <1>6, SMT DEF Resample, ColoursInv, NamesAgree, Misnamed
<1>7. ASSUME ColoursInv, UNCHANGED softwareColourVars
      PROVE  ColoursInv'
  BY <1>7, SMT DEF softwareColourVars, colourVars, ColoursInv, NamesAgree, Misnamed
<1>8. ColoursInv /\ [SoftwareColoursNext]_softwareColourVars => ColoursInv'
  BY <1>3, <1>4, <1>5, <1>6, <1>7 DEF SoftwareColoursNext
<1> QED
  BY <1>1, <1>8, PTL DEF SoftwareColoursSpec

\* What the driver's macros for fewer bits make of a colour is what the hardware
\* shows of it, in one step or in two, for every colour of three bytes and not only
\* those a run takes; and the two tables of names agree on every name of either
\* setting but on ROYALBLUE for RGB.
THEOREM ColoursAlwaysTrue == SoftwareColoursSpec => []ColoursTrue
<1>1. ASSUME ColoursInv
      PROVE  ColoursTrue
  <2>1. stream_out_data # Nothing =>
          stream_out_data = RGB_16BIT_TO_8BIT(stream_in_data)
    BY <1>1, SixteenToEight DEF ColoursInv
  <2>2. way = "narrowed" => Shown
    BY <1>1, <2>1, TwentyFourToEight DEF ColoursInv, Shown
  <2> QED
    BY <1>1, <2>1, <2>2 DEF ColoursInv, ColoursTrue, NarrowedColoursShown
<1> QED
  BY <1>1, ColoursInvariant, PTL

-----------------------------------------------------------------------------
(* Functions that are defined by their value at the number before. *)

\* Induction up to a number, for what the members of a set have in common.
LEMMA UpTo ==
  ASSUME NEW N \in Nat, NEW T, 0 \in T, \A n \in 1..N : n - 1 \in T => n \in T
  PROVE  0..N \subseteq T
<1> DEFINE Bad == {n \in 0..N : n \notin T}
<1>1. CASE Bad # {}
  <2>1. PICK m \in Bad : \A k \in Bad : m <= k
    <3>1. Bad \in SUBSET Nat
      OBVIOUS
    <3> HIDE DEF Bad
    <3> QED
      BY <1>1, <3>1, Lowest
  <2>2. m \in 1..N /\ m - 1 \in 0..N /\ ~(m <= m - 1)
    BY <2>1
  <2>3. m - 1 \in T
    BY <2>1, <2>2
  <2> QED
    BY <2>1, <2>2, <2>3
<1> QED
  BY <1>1

\* g is defined by its value at the number before.
Iterates(g, c, N, F) == g = [n \in 0..N |-> IF n = 0 THEN c ELSE F[n][g[n - 1]]]

\* A function that is defined by its value at the number before exists, and has
\* its values where the steps stay.
LEMMA Iterated ==
  ASSUME NEW S, NEW c \in S, NEW N \in Nat, NEW F,
         \A m \in 1..N, s \in S : F[m][s] \in S
  PROVE  \E g \in [0..N -> S] : Iterates(g, c, N, F)
<1> DEFINE Good(k, g) == /\ g \in [0..k -> S]
                         /\ g = [n \in 0..k |-> IF n = 0 THEN c ELSE F[n][g[n - 1]]]
           Bad == {k \in 0..N : \A g : ~Good(k, g)}
<1>1. CASE Bad = {}
  <2>1. N \in 0..N
    OBVIOUS
  <2>2. \E g : Good(N, g)
    BY <1>1, <2>1
  <2> QED
    BY <2>2 DEF Iterates
<1>2. CASE Bad # {}
  <2>1. PICK m \in Bad : \A k \in Bad : m <= k
    <3>1. Bad \in SUBSET Nat
      OBVIOUS
    <3> HIDE DEF Bad
    <3> QED
      BY <1>2, <3>1, Lowest
  <2>2. CASE m = 0
    <3> DEFINE g == [n \in 0..0 |-> c]
    <3>1. g = [n \in 0..0 |-> IF n = 0 THEN c ELSE F[n][g[n - 1]]]
      OBVIOUS
    <3>2. Good(0, g)
      BY <3>1
    <3> QED
      BY <2>1, <2>2, <3>2
  <2>3. CASE m # 0
    <3>1. m \in 1..N /\ m - 1 \in 0..N /\ m - 1 < m /\ m \in Nat
      BY <2>1, <2>3
    <3>2. PICK f : Good(m - 1, f)
      BY <2>1, <3>1
    <3> DEFINE g == [n \in 0..m |-> IF n = m THEN F[m][f[m - 1]] ELSE f[n]]
    <3>3. \A n \in 0..m : n = m \/ n \in 0..m - 1
      BY <3>1
    <3>4. g \in [0..m -> S]
      <4>1. f[m - 1] \in S /\ \A n \in 0..m - 1 : f[n] \in S
        BY <3>1, <3>2
      <4> HIDE DEF Good
      <4> QED
        BY <3>1, <3>3, <4>1
    <3>5. ASSUME NEW n \in 0..m
          PROVE  g[n] = IF n = 0 THEN c ELSE F[n][g[n - 1]]
      <4>1. \A j \in 0..m - 1 : g[j] = f[j]
        BY <3>1
      <4>2. CASE n = m
        <5>1. g[m - 1] = f[m - 1] /\ m # 0
          BY <3>1, <4>1
        <5> QED
          BY <3>1, <4>2, <5>1
      <4>3. CASE n # m
        <5>1. n \in 0..m - 1 /\ (n # 0 => n - 1 \in 0..m - 1)
          BY <3>1, <4>3
        <5>2. f[n] = IF n = 0 THEN c ELSE F[n][f[n - 1]]
          BY <3>2, <5>1
        <5> HIDE DEF g, Good
        <5> QED
          BY <4>1, <5>1, <5>2
      <4> QED
        BY <4>2, <4>3
    <3>6. g = [n \in 0..m |-> IF n = 0 THEN c ELSE F[n][g[n - 1]]]
      <4>1. g = [n \in 0..m |-> g[n]]
        OBVIOUS
      <4> HIDE DEF g
      <4> QED
        BY <3>5, <4>1
    <3>7. Good(m, g)
      BY <3>4, <3>6
    <3> QED
      BY <2>1, <3>7
  <2> QED
    BY <2>2, <2>3
<1> QED
  BY <1>1, <1>2

\* W takes the steps of a walk.
WalkTaken(W, y0, D, d, s) ==
  /\ W \in [0..D -> [y : Int, error : Int]]
  /\ W[0] = [y |-> y0, error |-> -(D \div 2)]
  /\ \A n \in 1..D :
       LET before == W[n - 1]
           after  == W[n]
       IN  IF before.error + d > 0
           THEN /\ after.y = before.y + s
                /\ after.error = before.error + d - D
           ELSE /\ after.y = before.y
                /\ after.error = before.error + d

LEMMA WalkSteps ==
  ASSUME NEW y0 \in Int, NEW D \in Nat, NEW d \in Int, NEW s \in Int
  PROVE  WalkTaken(Walk(y0, D, d, s), y0, D, d, s)
<1> DEFINE S == [y : Int, error : Int]
           c == [y |-> y0, error |-> -(D \div 2)]
           Step(before) == LET error == before.error + d
                           IN  IF error > 0
                               THEN [y |-> before.y + s, error |-> error - D]
                               ELSE [y |-> before.y, error |-> error]
           F == [n \in 1..D |-> [before \in S |-> Step(before)]]
<1>1. c \in S /\ \A before \in S : Step(before) \in S
  OBVIOUS
<1>2. PICK g \in [0..D -> S] :
        Iterates(g, c, D, F)
  <2>1. \A m \in 1..D, r \in S : F[m][r] \in S
    BY <1>1
  <2>2. c \in S
    BY <1>1
  <2> HIDE DEF F, S, c, Step
  <2> QED
    BY <2>1, <2>2, Iterated
<1>3. g = [n \in 0..D |-> IF n = 0 THEN c ELSE Step(g[n - 1])]
  <2>1. ASSUME NEW n \in 0..D, n # 0
        PROVE  F[n][g[n - 1]] = Step(g[n - 1])
    <3>1. n \in 1..D /\ n - 1 \in 0..D
      BY <2>1
    <3>2. g[n - 1] \in S
      BY <3>1
    <3> HIDE DEF S, Step
    <3> QED
      BY <3>1, <3>2
  <2> HIDE DEF F, S, c, Step
  <2> QED
    BY <1>2, <2>1 DEF Iterates
<1> DEFINE W == Walk(y0, D, d, s)
<1>4. W = CHOOSE step : step = [n \in 0..D |-> IF n = 0 THEN c ELSE Step(step[n - 1])]
  BY DEF Walk
<1>5. W = [n \in 0..D |-> IF n = 0 THEN c ELSE Step(W[n - 1])]
  <2> HIDE DEF W, c, Step
  <2>1. \E step : step = [n \in 0..D |-> IF n = 0 THEN c ELSE Step(step[n - 1])]
    BY <1>3
  <2> QED
    BY <1>4, <2>1, Zenon
<1>6. W \in [0..D -> S]
  <2> DEFINE T == {n \in 0..D : W[n] \in S}
  <2>1. \A n \in 0..D : W[n] = IF n = 0 THEN c ELSE Step(W[n - 1])
    <3> HIDE DEF W, c, Step
    <3> QED
      BY <1>5
  <2>2. 0 \in T
    <3> HIDE DEF W, c, S, Step
    <3> QED
      BY <1>1, <2>1
  <2>3. \A n \in 1..D : n - 1 \in T => n \in T
    <3> HIDE DEF W, c, S, Step
    <3> QED
      BY <1>1, <2>1
  <2>4. 0..D \subseteq T
    <3> HIDE DEF T
    <3> QED
      BY <2>2, <2>3, UpTo
  <2> DEFINE V(n) == IF n = 0 THEN c ELSE Step(W[n - 1])
  <2>5. W = [n \in 0..D |-> V(n)]
    BY <1>5
  <2>6. \A n \in 0..D : V(n) \in S
    <3>1. \A n \in 0..D : W[n] \in S
      <4> HIDE DEF W, S
      <4> QED
        BY <2>4
    <3> HIDE DEF W, S, c, Step
    <3> QED
      BY <2>1, <3>1
  <2> HIDE DEF W, S, V
  <2> QED
    BY <2>5, <2>6
<1>7. W[0] = c /\ \A n \in 1..D : W[n] = Step(W[n - 1])
  <2> HIDE DEF W, c, Step
  <2> QED
    BY <1>5
<1>8. \A n \in 1..D :
        LET before == W[n - 1]
            after  == W[n]
        IN  IF before.error + d > 0
            THEN /\ after.y = before.y + s
                 /\ after.error = before.error + d - D
            ELSE /\ after.y = before.y
                 /\ after.error = before.error + d
  <2> TAKE n \in 1..D
  <2>1. W[n] = Step(W[n - 1]) /\ n - 1 \in 0..D
    BY <1>7
  <2>2. W[n - 1] \in S
    BY <1>6, <2>1
  <2>3. \A before \in S : before.error + d > 0 =>
          Step(before) = [y |-> before.y + s, error |-> (before.error + d) - D]
    OBVIOUS
  <2>4. \A before \in S : ~(before.error + d > 0) =>
          Step(before) = [y |-> before.y, error |-> before.error + d]
    OBVIOUS
  <2>5. W[n - 1].error \in Int /\ d \in Int /\ D \in Int
    <3> HIDE DEF W
    <3> QED
      BY <2>2
  <2>6. (W[n - 1].error + d) - D = W[n - 1].error + d - D
    <3> HIDE DEF W
    <3> QED
      BY <2>5
  <2> HIDE DEF W, Step, S
  <2> QED
    BY <2>1, <2>2, <2>3, <2>4, <2>6
<1>9. WalkTaken(W, y0, D, d, s)
  <2> HIDE DEF W
  <2> QED
    BY <1>6, <1>7, <1>8 DEF WalkTaken
<1> QED
  BY <1>9

\* Where the walk is after n steps: it has gone k times to the side, and its error
\* is how far it is from the ideal line, less half a step.
Walked(y0, D, d, s, n, k) ==
  /\ Walk(y0, D, d, s)[n].y = y0 + s * k
  /\ Walk(y0, D, d, s)[n].error = n * d - D * k - D \div 2

\* The error stays between a whole step below zero and zero.
LEMMA WalkError ==
  ASSUME NEW y0 \in Int, NEW D \in Nat, NEW d \in 0..D, NEW s \in {-1, 1},
         NEW n \in 0..D
  PROVE  /\ \E k \in Int : Walked(y0, D, d, s, n, k)
         /\ Walk(y0, D, d, s)[n].error <= 0
         /\ D > 0 => -D < Walk(y0, D, d, s)[n].error
         /\ Walk(y0, D, d, s)[0].y = y0
<1> DEFINE W == Walk(y0, D, d, s)
           e(m) == W[m].error
           Legal(m) == e(m) <= 0 /\ (D > 0 => -D < e(m))
           T == {m \in 0..D : (\E k \in Int : Walked(y0, D, d, s, m, k)) /\ Legal(m)}
<1> d \in Int /\ s \in Int
  OBVIOUS
<1>1. /\ W \in [0..D -> [y : Int, error : Int]]
      /\ W[0] = [y |-> y0, error |-> -(D \div 2)]
      /\ \A m \in 1..D :
           LET before == W[m - 1]
               after  == W[m]
           IN  IF before.error + d > 0
               THEN /\ after.y = before.y + s
                    /\ after.error = before.error + d - D
               ELSE /\ after.y = before.y
                    /\ after.error = before.error + d
  <2>1. WalkTaken(W, y0, D, d, s)
    BY WalkSteps
  <2> HIDE DEF W
  <2> QED
    BY <2>1 DEF WalkTaken
<1>2. 0 \in T
  <2>1. Walked(y0, D, d, s, 0, 0)
    BY <1>1 DEF Walked
  <2>2. Legal(0)
    BY <1>1
  <2> QED
    BY <2>1, <2>2
<1>3. ASSUME NEW m \in 1..D, m - 1 \in T
      PROVE  m \in T
  <2>1. PICK k \in Int : Walked(y0, D, d, s, m - 1, k)
    BY <1>3
  <2> DEFINE e0 == e(m - 1)
             e1 == e(m)
             v0 == W[m - 1].y
             v1 == W[m].y
             h == D \div 2
  <2>2. /\ e0 \in Int /\ v0 \in Int /\ e1 \in Int /\ v1 \in Int /\ h \in Int
        /\ v0 = y0 + s * k /\ e0 = (m - 1) * d - D * k - h
        /\ e0 <= 0 /\ -D < e0
    <3>1. m \in 0..D /\ m - 1 \in 0..D /\ D > 0
      OBVIOUS
    <3>2. W[m] \in [y : Int, error : Int] /\ W[m - 1] \in [y : Int, error : Int]
      BY <1>1, <3>1
    <3> HIDE DEF W
    <3> QED
      BY <1>3, <2>1, <3>1, <3>2 DEF Walked, W
  <2>3. IF e0 + d > 0 THEN v1 = v0 + s /\ e1 = e0 + d - D
                      ELSE v1 = v0 /\ e1 = e0 + d
    <3> HIDE DEF W
    <3> QED
      BY <1>1
  <2>4. (m - 1) * d = m * d - d /\ D * (k + 1) = D * k + D /\ s * (k + 1) = s * k + s
    OBVIOUS
  <2> DEFINE md == m * d
             dk == D * k
             dk1 == D * (k + 1)
             sk == s * k
             sk1 == s * (k + 1)
  <2>5. md \in Int /\ dk \in Int /\ dk1 \in Int /\ sk \in Int /\ sk1 \in Int
    OBVIOUS
  <2>6. /\ v0 = y0 + sk /\ e0 = md - d - dk - h
        /\ dk1 = dk + D /\ sk1 = sk + s
    BY <2>2, <2>4
  <2> HIDE DEF W, e0, e1, v0, v1, md, dk, dk1, sk, sk1, h
  <2>7. e1 <= 0 /\ -D < e1
    BY <2>2, <2>3
  <2>8. CASE e0 + d > 0
    <3>1. v1 = y0 + sk1 /\ e1 = md - dk1 - h
      BY <2>2, <2>3, <2>5, <2>6, <2>8
    <3>2. Walked(y0, D, d, s, m, k + 1)
      BY <3>1 DEF Walked, W, e1, v1, md, dk1, sk1, h
    <3> QED
      BY <2>7, <3>2 DEF e1
  <2>9. CASE ~(e0 + d > 0)
    <3>1. v1 = y0 + sk /\ e1 = md - dk - h
      BY <2>2, <2>3, <2>5, <2>6, <2>9
    <3>2. Walked(y0, D, d, s, m, k)
      BY <3>1 DEF Walked, W, e1, v1, md, dk, sk, h
    <3> QED
      BY <2>7, <3>2 DEF e1
  <2> QED
    BY <2>8, <2>9
<1>4. 0..D \subseteq T
  <2> HIDE DEF T
  <2> QED
    BY <1>2, <1>3, UpTo
<1>5. W[0].y = y0
  BY <1>1
<1> QED
  BY <1>4, <1>5

\* After n steps it has gone k times to the side, which is within half a step of
\* the ideal line, and the ends are where they should be.
NearIdeal(y0, D, d, s, n, k) ==
  /\ Walk(y0, D, d, s)[n].y = y0 + s * k
  /\ 2 * (n * d - D * k) <= D /\ -D <= 2 * (n * d - D * k)
  /\ n = 0 => k = 0
  /\ n = D => k = d

LEMMA WalkTrue ==
  ASSUME NEW y0 \in Int, NEW D \in Nat, NEW d \in 0..D, NEW s \in {-1, 1},
         NEW n \in 0..D
  PROVE  \E k \in 0..d : NearIdeal(y0, D, d, s, n, k)
<1> DEFINE e == Walk(y0, D, d, s)[n].error
           h == D \div 2
<1>1. PICK k \in Int : Walked(y0, D, d, s, n, k)
  BY WalkError
<1>2. e <= 0 /\ (D > 0 => -D < e)
  BY WalkError
<1> DEFINE nd == n * d
           dk == D * k
<1>3. e = nd - dk - h /\ nd \in Int /\ dk \in Int /\ h \in Int /\ e \in Int
  BY <1>1 DEF Walked
<1>4. h >= 0 /\ 2 * h <= D /\ D <= 2 * h + 1
  OBVIOUS
<1> HIDE DEF e, h
<1>5. CASE D = 0
  <2>1. n = 0 /\ d = 0 /\ nd = 0 /\ \A j \in Int : D * j = 0
    BY <1>5
  <2>2. Walk(y0, D, d, s)[n].y = y0 + s * 0
    <3>1. Walk(y0, D, d, s)[0].y = y0
      BY WalkError
    <3>2. Walk(y0, D, d, s)[n].y = y0
      BY <2>1, <3>1
    <3>3. y0 + s * 0 = y0
      OBVIOUS
    <3> QED
      BY <3>2, <3>3
  <2> QED
    BY <1>5, <2>1, <2>2 DEF NearIdeal
<1>6. CASE D > 0
  <2>1. /\ 2 * (nd - dk) <= D /\ -D <= 2 * (nd - dk)
        /\ nd - dk <= h /\ nd - dk > h - D
    <3> HIDE DEF nd, dk
    <3> QED
      BY <1>2, <1>3, <1>4, <1>6
  <2>2. nd >= 0 /\ nd <= D * d
    BY <1>6
  <2>3. D * k > D * (-1)
    <3> HIDE DEF nd
    <3> QED
      BY <1>3, <1>4, <2>1, <2>2
  <2>4. D * k < D * (d + 1)
    <3>1. D * (d + 1) = D * d + D
      OBVIOUS
    <3> DEFINE dd == D * d
               dd1 == D * (d + 1)
    <3>2. dd \in Int /\ dd1 = dd + D
      BY <3>1
    <3> HIDE DEF nd, dk, dd, dd1
    <3>3. dk < dd1
      BY <1>3, <1>4, <2>1, <2>2, <3>2 DEF dd
    <3> QED
      BY <3>3 DEF dk, dd1
  <2>5. k > -1 /\ k < d + 1
    BY <1>6, <2>3, <2>4
  <2>6. ASSUME n = 0
        PROVE  k = 0
    <3>1. nd = 0
      BY <2>6
    <3>2. D * k < D
      <4> HIDE DEF nd
      <4> QED
        BY <1>3, <1>4, <1>6, <2>1, <3>1
    <3>3. D * k < D * 1
      BY <3>2
    <3>4. k < 1
      BY <1>6, <3>3
    <3> QED
      BY <2>5, <3>4
  <2>7. ASSUME n = D
        PROVE  k = d
    <3>1. D * (d - k) = nd - dk
      BY <2>7
    <3>2. D * (d - k) < D * 1
      <4> HIDE DEF nd, dk
      <4> QED
        BY <1>3, <1>4, <1>6, <2>1, <3>1
    <3>3. d - k < 1
      BY <1>6, <3>2
    <3> QED
      BY <2>5, <3>3
  <2> QED
    BY <1>1, <2>1, <2>5, <2>6, <2>7 DEF Walked, NearIdeal
<1> QED
  BY <1>5, <1>6

-----------------------------------------------------------------------------
\* How far a point is from the line through two others, times their distance.
Cross(p, a, b) == (p[1] - a[1]) * (b[2] - a[2]) - (p[2] - a[2]) * (b[1] - a[1])

\* The points of L join a and b with one point for each step along an axis.
Joins(L, a, b, axis) ==
  /\ L \subseteq Between(a[1], b[1]) \X Between(a[2], b[2])
  /\ {a, b} \subseteq L
  /\ \A n \in Between(a[axis], b[axis]) : \E p \in L : p[axis] = n
  /\ \A p, q \in L : p[axis] = q[axis] => p = q
  /\ \A p \in L : 2 * Abs(Cross(p, a, b)) <= Abs(b[axis] - a[axis])

LEMMA ColumnsJoin ==
  ASSUME NEW a1 \in Int, NEW a2 \in Int, NEW b1 \in Int, NEW b2 \in Int,
         a1 <= b1, Abs(b2 - a2) <= b1 - a1
  PROVE  Joins(Columns(<<a1, a2>>, <<b1, b2>>), <<a1, a2>>, <<b1, b2>>, 1)
<1> DEFINE D == b1 - a1
           d == Abs(b2 - a2)
           s == IF a2 < b2 THEN 1 ELSE -1
           W == Walk(a2, D, d, s)
           L == Columns(<<a1, a2>>, <<b1, b2>>)
<1>1. D \in Nat /\ d \in 0..D /\ s \in {-1, 1} /\ b2 = a2 + s * d
  BY DEF Abs
<1>2. L = {<<a1 + n, W[n].y>> : n \in 0..D}
  BY DEF Columns
<1>3. ASSUME NEW n \in 0..D
      PROVE  \E k \in 0..d : NearIdeal(a2, D, d, s, n, k)
  <2> HIDE DEF D, d, s
  <2> QED
    BY <1>1, WalkTrue
<1> HIDE DEF L, W
<1>4. ASSUME NEW n \in 0..D
      PROVE  /\ W[n].y \in Between(a2, b2)
             /\ n = 0 => W[n].y = a2
             /\ n = D => W[n].y = b2
             /\ 2 * Abs(Cross(<<a1 + n, W[n].y>>, <<a1, a2>>, <<b1, b2>>)) <= D
  <2>1. PICK k \in 0..d :
               /\ W[n].y = a2 + s * k
               /\ 2 * (n * d - D * k) <= D /\ -D <= 2 * (n * d - D * k)
               /\ n = 0 => k = 0
               /\ n = D => k = d
    BY <1>3 DEF NearIdeal, W
  <2> DEFINE v == W[n].y
             c == n * d - D * k
  <2>2. v \in Between(a2, b2) /\ (n = 0 => v = a2) /\ (n = D => v = b2)
    <3> HIDE DEF d, D
    <3>1. /\ v = a2 + s * k /\ k \in 0..d /\ d \in Nat
          /\ n = 0 => k = 0
          /\ n = D => k = d
      BY <1>1, <2>1
    <3> HIDE DEF v, W
    <3>2. CASE a2 < b2
      BY <1>1, <3>1, <3>2 DEF Between
    <3>3. CASE ~(a2 < b2)
      BY <1>1, <3>1, <3>3 DEF Between
    <3> QED
      BY <3>2, <3>3
  <2>3. Cross(<<a1 + n, v>>, <<a1, a2>>, <<b1, b2>>) = s * c
    <3>1. Cross(<<a1 + n, v>>, <<a1, a2>>, <<b1, b2>>)
            = ((a1 + n) - a1) * (b2 - a2) - (v - a2) * (b1 - a1)
      BY DEF Cross
    <3>2. (a1 + n) - a1 = n /\ b2 - a2 = s * d /\ v - a2 = s * k
      <4>1. n \in Int
        OBVIOUS
      <4>2. s * d \in Int /\ s * k \in Int /\ v = a2 + s * k
        BY <1>1, <2>1
      <4> DEFINE sd == s * d
                 sk == s * k
      <4>3. b2 = a2 + sd /\ sd \in Int /\ sk \in Int /\ v = a2 + sk
        BY <1>1, <4>2
      <4> HIDE DEF d, D, v, sd, sk
      <4>4. b2 - a2 = sd /\ v - a2 = sk
        BY <4>3
      <4> QED
        BY <4>1, <4>4 DEF sd, sk
    <3>3. n * (s * d) - (s * k) * D = s * (n * d - D * k)
      <4> HIDE DEF d, D
      <4> QED
        BY <1>1
    <3>4. b1 - a1 = D
      OBVIOUS
    <3> HIDE DEF d, D, s, v, W
    <3> QED
      BY <3>1, <3>2, <3>3, <3>4
  <2>4. 2 * Abs(s * c) <= D
    <3>1. c \in Int /\ D \in Nat /\ 2 * c <= D /\ -D <= 2 * c
      <4> HIDE DEF d, D
      <4> QED
        BY <1>1, <2>1
    <3> HIDE DEF c, D
    <3> QED
      BY <1>1, <3>1 DEF Abs
  <2> QED
    BY <2>2, <2>3, <2>4
<1>5. L \subseteq Between(a1, b1) \X Between(a2, b2)
  <2>1. \A n \in 0..D : a1 + n \in Between(a1, b1)
    BY DEF Between
  <2> HIDE DEF D
  <2> QED
    BY <1>2, <1>4, <2>1
<1>6. {<<a1, a2>>, <<b1, b2>>} \subseteq L
  <2>1. 0 \in 0..D /\ D \in 0..D /\ a1 + 0 = a1 /\ a1 + D = b1
    BY <1>1
  <2> HIDE DEF D
  <2>2. <<a1 + 0, W[0].y>> \in L /\ <<a1 + D, W[D].y>> \in L
    BY <1>2, <2>1
  <2> QED
    BY <1>4, <2>1, <2>2
<1>7. ASSUME NEW n \in Between(a1, b1)
      PROVE  \E p \in L : p[1] = n
  <2>1. n - a1 \in 0..D /\ a1 + (n - a1) = n
    BY DEF Between
  <2>2. <<a1 + (n - a1), W[n - a1].y>> \in L
    BY <1>2, <2>1
  <2> QED
    BY <2>1, <2>2
<1>8. ASSUME NEW p \in L, NEW q \in L, p[1] = q[1]
      PROVE  p = q
  <2>1. PICK n \in 0..D : p = <<a1 + n, W[n].y>>
    BY <1>2
  <2>2. PICK m \in 0..D : q = <<a1 + m, W[m].y>>
    BY <1>2
  <2>3. n = m
    BY <1>8, <2>1, <2>2
  <2> QED
    BY <2>1, <2>2, <2>3
<1>9. ASSUME NEW p \in L
      PROVE  2 * Abs(Cross(p, <<a1, a2>>, <<b1, b2>>)) <= Abs(b1 - a1)
  <2>1. PICK n \in 0..D : p = <<a1 + n, W[n].y>>
    BY <1>2
  <2>2. Abs(b1 - a1) = D
    BY <1>1 DEF Abs
  <2> QED
    BY <1>4, <2>1, <2>2
<1> QED
  BY <1>5, <1>6, <1>7, <1>8, <1>9 DEF Joins, L

\* What joins two points also joins them in the other order,
LEMMA JoinsBack ==
  ASSUME NEW a \in Int \X Int, NEW b \in Int \X Int, NEW L, Joins(L, a, b, 1)
  PROVE  Joins(L, b, a, 1)
<1> DEFINE a1 == a[1]
           a2 == a[2]
           b1 == b[1]
           b2 == b[2]
<1>1. a1 \in Int /\ a2 \in Int /\ b1 \in Int /\ b2 \in Int
  OBVIOUS
<1>2. Between(a1, b1) = Between(b1, a1) /\ Between(a2, b2) = Between(b2, a2)
  BY <1>1 DEF Between
<1>3. Abs(b1 - a1) = Abs(a1 - b1)
  BY <1>1 DEF Abs
<1>4. ASSUME NEW p \in L
      PROVE  Abs(Cross(p, b, a)) = Abs(Cross(p, a, b))
  <2> DEFINE p1 == p[1]
             p2 == p[2]
  <2>1. p1 \in Int /\ p2 \in Int
    <3>1. \A m, n \in Int : Between(m, n) \subseteq Int
      BY DEF Between
    <3>2. p \in Between(a1, b1) \X Between(a2, b2)
      BY DEF Joins
    <3> QED
      BY <1>1, <3>1, <3>2
  <2> HIDE DEF a1, a2, b1, b2, p1, p2
  <2>2. (p1 - b1) * (a2 - b2) - (p2 - b2) * (a1 - b1)
          = -((p1 - a1) * (b2 - a2) - (p2 - a2) * (b1 - a1))
    BY <1>1, <2>1
  <2> DEFINE c == (p1 - a1) * (b2 - a2) - (p2 - a2) * (b1 - a1)
  <2>3. c \in Int /\ Cross(p, a, b) = c /\ Cross(p, b, a) = -c
    BY <1>1, <2>1, <2>2 DEF Cross, a1, a2, b1, b2, p1, p2
  <2> HIDE DEF c
  <2> QED
    BY <2>3 DEF Abs
<1> QED
  BY <1>2, <1>3, <1>4 DEF Joins

Turned(p) == <<p[2], p[1]>>

\* and with rows for columns.
LEMMA JoinsTurned ==
  ASSUME NEW a \in Int \X Int, NEW b \in Int \X Int, NEW L, Joins(L, a, b, 1)
  PROVE  Joins({Turned(p) : p \in L}, Turned(a), Turned(b), 2)
<1> DEFINE M == {Turned(p) : p \in L}
           box == Between(a[1], b[1]) \X Between(a[2], b[2])
<1>1. /\ L \subseteq box /\ {a, b} \subseteq L
      /\ \A n \in Between(a[1], b[1]) : \E p \in L : p[1] = n
      /\ \A p, q \in L : p[1] = q[1] => p = q
      /\ \A p \in L : 2 * Abs(Cross(p, a, b)) <= Abs(b[1] - a[1])
  BY DEF Joins
<1>2. /\ Turned(a)[1] = a[2] /\ Turned(a)[2] = a[1]
      /\ Turned(b)[1] = b[2] /\ Turned(b)[2] = b[1]
  BY DEF Turned
<1>3. M \subseteq Between(a[2], b[2]) \X Between(a[1], b[1])
  BY <1>1 DEF Turned
<1>4. {Turned(a), Turned(b)} \subseteq M
  BY <1>1
<1>5. ASSUME NEW n \in Between(a[1], b[1])
      PROVE  \E p \in M : p[2] = n
  <2>1. PICK p \in L : p[1] = n
    BY <1>1
  <2>2. Turned(p) \in M /\ Turned(p)[2] = n
    BY <2>1 DEF Turned
  <2> QED
    BY <2>2
<1>6. ASSUME NEW p \in M, NEW q \in M, p[2] = q[2]
      PROVE  p = q
  BY <1>1, <1>6 DEF Turned
<1>7. ASSUME NEW p \in L
      PROVE  Abs(Cross(Turned(p), Turned(a), Turned(b))) = Abs(Cross(p, a, b))
  <2> DEFINE a1 == a[1]
             a2 == a[2]
             b1 == b[1]
             b2 == b[2]
             p1 == p[1]
             p2 == p[2]
  <2>1. a1 \in Int /\ a2 \in Int /\ b1 \in Int /\ b2 \in Int
    OBVIOUS
  <2>2. p1 \in Int /\ p2 \in Int
    <3>1. \A m, n \in Int : Between(m, n) \subseteq Int
      BY DEF Between
    <3> QED
      BY <1>1, <2>1, <3>1
  <2> HIDE DEF a1, a2, b1, b2, p1, p2
  <2>3. (p2 - a2) * (b1 - a1) - (p1 - a1) * (b2 - a2)
          = -((p1 - a1) * (b2 - a2) - (p2 - a2) * (b1 - a1))
    BY <2>1, <2>2
  <2> DEFINE c == (p1 - a1) * (b2 - a2) - (p2 - a2) * (b1 - a1)
  <2>4. c \in Int /\ Cross(p, a, b) = c
    BY <2>1, <2>2 DEF Cross, a1, a2, b1, b2, p1, p2
  <2>5. Cross(Turned(p), Turned(a), Turned(b)) = -c
    BY <2>3 DEF Cross, Turned, a1, a2, b1, b2, p1, p2
  <2> HIDE DEF c
  <2> QED
    BY <2>4, <2>5 DEF Abs
<1>8. ASSUME NEW p \in M
      PROVE  2 * Abs(Cross(p, Turned(a), Turned(b))) <= Abs(b[1] - a[1])
  <2>1. PICK q \in L : p = Turned(q)
    OBVIOUS
  <2> QED
    BY <1>1, <1>7, <2>1
<1> HIDE DEF M
<1> QED
  BY <1>2, <1>3, <1>4, <1>5, <1>6, <1>8 DEF Joins, M

-----------------------------------------------------------------------------
(* Addresses. *)

\* What the proofs use of the screen and of its buffers.
LEMMA ScreenSizes ==
  /\ x_resolution \in Nat \ {0} /\ y_resolution \in Nat \ {0}
  /\ x_coord_mask \in Nat /\ y_coord_mask \in Nat /\ WordMod \in Nat \ {0}
  /\ x_resolution <= x_coord_mask /\ y_resolution <= y_coord_mask
  /\ 2 * x_coord_mask <= WordMod /\ 2 * y_coord_mask <= WordMod
  /\ \A b : /\ Start(b) \in Nat
            /\ Start(b) + y_coord_mask * (2 * x_coord_mask) <= WordMod
<1>1. 2^(WW + 1) \in Int /\ 2^(HW + 1) \in Int
  <2>1. WW + 1 \in Nat /\ HW + 1 \in Nat
    BY DrawingAssumption DEF DrawingAssumption
  <2>2. \A n \in Nat : 2^n \in Int
    BY Z3
  <2> QED
    BY <2>1, <2>2
<1> DEFINE a == 2^(WW + 1)
           b == 2^(HW + 1)
<1>2. /\ a \in Int /\ b \in Int
      /\ x_resolution \in 1..a /\ y_resolution \in 1..b /\ WordMod \in Nat
  BY <1>1, DrawingAssumption DEF DrawingAssumption
<1>3. {buffer_start_address, back_buffer_start_address}
        \subseteq 0..WordMod - b * (2 * a)
  BY DrawingAssumption, LineAssumption
     DEF DrawingAssumption, LineAssumption, x_coord_mask, y_coord_mask
<1>4. x_coord_mask = a /\ y_coord_mask = b
  BY DEF x_coord_mask, y_coord_mask
<1> HIDE DEF a, b
<1>5. /\ x_resolution \in Nat \ {0} /\ y_resolution \in Nat \ {0}
      /\ a \in Nat \ {0} /\ b \in Nat \ {0} /\ x_resolution <= a /\ y_resolution <= b
  BY <1>2
<1>6. 2 * a <= b * (2 * a) /\ 2 * b <= b * (2 * a) /\ b * (2 * a) \in Nat
  <2>1. b * (2 * a) = 2 * (a * b) /\ a * b \in Nat
    BY <1>5
  <2>2. a * b >= a
    BY <1>5
  <2>3. a * b >= b
    BY <1>5
  <2> DEFINE ab == a * b
  <2>4. ab \in Nat /\ ab >= a /\ ab >= b
    BY <2>1, <2>2, <2>3
  <2> HIDE DEF ab
  <2>5. 2 * a <= 2 * ab /\ 2 * b <= 2 * ab
    BY <1>5, <2>4
  <2> QED
    BY <1>5, <2>1, <2>5 DEF ab
<1> DEFINE m == b * (2 * a)
<1>7. m \in Nat /\ 2 * a <= m /\ 2 * b <= m
  BY <1>6
<1>8. \A c : Start(c) \in 0..WordMod - m
  BY <1>3 DEF Start
<1> HIDE DEF m
<1>9. \A c : Start(c) \in Nat /\ Start(c) + m <= WordMod
  BY <1>2, <1>7, <1>8
<1>10. WordMod \in Nat \ {0} /\ 2 * a <= WordMod /\ 2 * b <= WordMod
  <2>1. Start(0) \in Nat /\ Start(0) + m <= WordMod
    BY <1>9
  <2> QED
    BY <1>2, <1>5, <1>7, <2>1
<1> QED
  BY <1>4, <1>5, <1>9, <1>10 DEF m

\* Where a pixel of the screen is in a buffer.
PlaceOf(b, px, py) == Start(b) + (py * x_coord_mask + px) * 2

\* The three ways to compute it agree, and no two pixels share an address.
LEMMA PixelAddress ==
  ASSUME NEW b, NEW px \in 0..x_resolution-1, NEW py \in 0..y_resolution-1
  PROVE  /\ PlaceOf(b, px, py) \in 0..WordMod-1
         /\ master_address(Start(b), py, px) = PlaceOf(b, px, py)
         /\ Address(Start(b), px, py) = PlaceOf(b, px, py)
         /\ helper_plot_pixel(Start(b), px, py) = PlaceOf(b, px, py)
<1> DEFINE start == Start(b)
           a == x_coord_mask
           c == y_coord_mask
           pa == py * a
           at == start + (pa + px) * 2
<1>1. /\ start \in Nat /\ a \in Nat /\ c \in Nat /\ px \in Nat /\ py \in Nat
      /\ WordMod \in Nat \ {0}
      /\ start + c * (2 * a) <= WordMod /\ px < a /\ py < c
  BY ScreenSizes
<1>2. pa \in Nat /\ at \in Nat /\ at < WordMod
  <2>1. py + 1 <= c
    BY <1>1
  <2>2. (py + 1) * a <= c * a /\ (py + 1) * a = py * a + a
    BY <1>1, <2>1
  <2>3. c * (2 * a) = 2 * (c * a)
    BY <1>1
  <2> DEFINE ca == c * a
             pa1 == (py + 1) * a
  <2>4. /\ pa \in Nat /\ ca \in Nat /\ pa1 = pa + a /\ pa1 <= ca
        /\ start + 2 * ca <= WordMod
    BY <1>1, <2>2, <2>3
  <2> HIDE DEF start, a, c, pa, ca, pa1
  <2> QED
    BY <1>1, <2>4
<1>3. at % WordMod = at
  <2>1. at \in Nat /\ WordMod \in Int /\ at < WordMod
    BY <1>1, <1>2
  <2> HIDE DEF at
  <2> QED
    BY <2>1, Within
<1>4. master_address(Start(b), py, px) = at % WordMod
  BY DEF master_address, x_coord_mask
<1>5. Address(Start(b), px, py) = at % WordMod
  <2>1. 2^y_coord_offset = 2 * a /\ 2^x_coord_offset = 2
    BY LineAssumption DEF LineAssumption, x_coord_offset
  <2>2. py * (2 * a) = 2 * pa
    BY <1>1
  <2>3. Address(start, px, py) = (start + py * (2 * a) + px * 2) % WordMod
    BY <2>1 DEF Address
  <2>4. start + 2 * pa + px * 2 = at
    <3> HIDE DEF start, pa
    <3> QED
      BY <1>1, <1>2
  <2> QED
    BY <2>2, <2>3, <2>4
<1>6. helper_plot_pixel(Start(b), px, py) = at % WordMod
  <2>1. y_coord_offset - 1 = WW + 1
    BY DrawingAssumption DEF DrawingAssumption, y_coord_offset, x_coord_offset
  <2>2. helper_plot_pixel(start, px, py) = (start + (a * py + px) * 2) % WordMod
    BY <2>1 DEF helper_plot_pixel, x_coord_mask
  <2>3. a * py = pa
    BY <1>1
  <2> QED
    BY <2>2, <2>3
<1>7. PlaceOf(b, px, py) = at
  BY DEF PlaceOf
<1>8. at \in 0..WordMod-1
  <2> HIDE DEF at
  <2> QED
    BY <1>1, <1>2
<1> QED
  BY <1>3, <1>4, <1>5, <1>6, <1>7, <1>8

LEMMA PixelsApart ==
  ASSUME NEW b, NEW p \in Screen, NEW q \in Screen,
         PlaceOf(b, p[1], p[2]) = PlaceOf(b, q[1], q[2])
  PROVE  p = q
<1> DEFINE start == Start(b)
           a == x_coord_mask
           px == p[1]
           py == p[2]
           qx == q[1]
           qy == q[2]
           pa == py * a
           qa == qy * a
<1>1. /\ start \in Nat /\ a \in Nat /\ px \in Nat /\ py \in Nat /\ qx \in Nat /\ qy \in Nat
      /\ px < a /\ qx < a /\ p = <<px, py>> /\ q = <<qx, qy>>
  BY ScreenSizes DEF Screen
<1>2. pa + px = qa + qx /\ pa \in Nat /\ qa \in Nat
  <2>1. start + (pa + px) * 2 = start + (qa + qx) * 2
    BY DEF PlaceOf
  <2>2. pa \in Nat /\ qa \in Nat
    BY <1>1
  <2> HIDE DEF start, pa, qa, px, qx
  <2> QED
    BY <1>1, <2>1, <2>2
<1>3. ASSUME NEW m \in Nat, NEW n \in Nat, m < n
      PROVE  m * a + a <= n * a
  <2>1. (m + 1) * a <= n * a
    BY <1>1, <1>3
  <2>2. (m + 1) * a = m * a + a
    BY <1>1
  <2> QED
    BY <2>1, <2>2
<1>4. ~(py < qy)
  <2>1. py < qy => pa + a <= qa
    BY <1>1, <1>3
  <2> HIDE DEF pa, qa, px, py, qx, qy
  <2> QED
    BY <1>1, <1>2, <2>1
<1>5. ~(qy < py)
  <2>1. qy < py => qa + a <= pa
    BY <1>1, <1>3
  <2> HIDE DEF pa, qa, px, py, qx, qy
  <2> QED
    BY <1>1, <1>2, <2>1
<1>6. py = qy
  <2> HIDE DEF pa, qa, px, py, qx, qy
  <2> QED
    BY <1>1, <1>4, <1>5
<1>7. px = qx
  <2>1. pa = qa
    BY <1>6
  <2> HIDE DEF pa, qa, px, py, qx, qy
  <2> QED
    BY <1>1, <1>2, <2>1
<1> QED
  BY <1>1, <1>6, <1>7

\* What the DMA fetches of a figure, and what of the screen it shows.
LEMMA PictureIs ==
  ASSUME NEW points, NEW b
  PROVE  Picture(points, b) = {PlaceOf(b, p[1], p[2]) : p \in points \cap Screen}
<1>1. ASSUME NEW p \in Screen
      PROVE  master_address(Start(b), p[2], p[1]) = PlaceOf(b, p[1], p[2])
  BY PixelAddress DEF Screen
<1> QED
  BY <1>1 DEF Picture

LEMMA PictureShows ==
  ASSUME NEW points, NEW b, NEW p \in Screen, Picture({p}, b) \subseteq Picture(points, b)
  PROVE  p \in points
<1>1. PlaceOf(b, p[1], p[2]) \in Picture({p}, b)
  BY PictureIs
<1>2. PICK q \in points \cap Screen : PlaceOf(b, p[1], p[2]) = PlaceOf(b, q[1], q[2])
  BY <1>1, PictureIs
<1> QED
  BY <1>2, PixelsApart

-----------------------------------------------------------------------------
(* Lines. *)

LongAxis(x0, y0, x1, y1) == IF Abs(x1 - x0) >= Abs(y1 - y0) THEN 1 ELSE 2

\* The points of a line, along the longer axis, from the smaller end to the larger,
LinePoints(x0, y0, x1, y1) ==
  LET steep == Abs(y1 - y0) > Abs(x1 - x0)
      Turn(p) == IF steep THEN <<p[2], p[1]>> ELSE p
      swap  == Turn(<<x0, y0>>)[1] > Turn(<<x1, y1>>)[1]
      first == Turn(IF swap THEN <<x1, y1>> ELSE <<x0, y0>>)
      last  == Turn(IF swap THEN <<x0, y0>> ELSE <<x1, y1>>)
  IN  {Turn(p) : p \in Columns(first, last)}

\* join its ends along it.
LEMMA PointsJoin ==
  ASSUME NEW x0 \in Int, NEW y0 \in Int, NEW x1 \in Int, NEW y1 \in Int
  PROVE  Joins(LinePoints(x0, y0, x1, y1), <<x0, y0>>, <<x1, y1>>,
               LongAxis(x0, y0, x1, y1))
<1> DEFINE steep == Abs(y1 - y0) > Abs(x1 - x0)
           Turn(p) == IF steep THEN <<p[2], p[1]>> ELSE p
           swap  == Turn(<<x0, y0>>)[1] > Turn(<<x1, y1>>)[1]
           first == Turn(IF swap THEN <<x1, y1>> ELSE <<x0, y0>>)
           last  == Turn(IF swap THEN <<x0, y0>> ELSE <<x1, y1>>)
           L == Columns(first, last)
           P == {Turn(p) : p \in L}
<1>1. LinePoints(x0, y0, x1, y1) = P
  BY DEF LinePoints
<1>2. <<x0, y0>> \in Int \X Int /\ <<x1, y1>> \in Int \X Int
  OBVIOUS
<1>3. \A m, n \in Int : Abs(m - n) \in Int /\ Abs(n - m) = Abs(m - n)
                        /\ (m <= n => Abs(n - m) = n - m)
  BY DEF Abs
<1>4. CASE ~steep
  <2>1. LongAxis(x0, y0, x1, y1) = 1
    BY <1>3, <1>4 DEF LongAxis
  <2>2. P = L
    BY <1>4
  <2>3. CASE x0 <= x1
    <3>1. first = <<x0, y0>> /\ last = <<x1, y1>>
      BY <1>4, <2>3
    <3>2. Abs(y1 - y0) <= x1 - x0
      BY <1>3, <1>4, <2>3
    <3> HIDE DEF first, last
    <3>3. Joins(L, <<x0, y0>>, <<x1, y1>>, 1)
      BY <2>3, <3>1, <3>2, ColumnsJoin
    <3> QED
      BY <1>1, <2>1, <2>2, <3>3
  <2>4. CASE x1 < x0
    <3>1. first = <<x1, y1>> /\ last = <<x0, y0>>
      BY <1>4, <2>4
    <3>2. Abs(y0 - y1) <= x0 - x1 /\ x1 <= x0
      BY <1>3, <1>4, <2>4
    <3> HIDE DEF first, last
    <3>3. Joins(L, <<x1, y1>>, <<x0, y0>>, 1)
      BY <3>1, <3>2, ColumnsJoin
    <3>4. Joins(L, <<x0, y0>>, <<x1, y1>>, 1)
      BY <1>2, <3>3, JoinsBack
    <3> QED
      BY <1>1, <2>1, <2>2, <3>4
  <2> QED
    BY <2>3, <2>4
<1>5. CASE steep
  <2>1. LongAxis(x0, y0, x1, y1) = 2
    BY <1>3, <1>5 DEF LongAxis
  <2>2. P = {Turned(p) : p \in L}
    BY <1>5 DEF Turned
  <2>3. /\ <<y0, x0>> \in Int \X Int /\ <<y1, x1>> \in Int \X Int
        /\ Turned(<<y0, x0>>) = <<x0, y0>> /\ Turned(<<y1, x1>>) = <<x1, y1>>
    BY DEF Turned
  <2>4. Joins(L, <<y0, x0>>, <<y1, x1>>, 1)
    <3>1. CASE y0 <= y1
      <4>1. first = <<y0, x0>> /\ last = <<y1, x1>>
        BY <1>5, <3>1
      <4>2. Abs(x1 - x0) <= y1 - y0
        BY <1>3, <1>5, <3>1
      <4> HIDE DEF first, last
      <4> QED
        BY <3>1, <4>1, <4>2, ColumnsJoin
    <3>2. CASE y1 < y0
      <4>1. first = <<y1, x1>> /\ last = <<y0, x0>>
        BY <1>5, <3>2
      <4>2. Abs(x0 - x1) <= y0 - y1 /\ y1 <= y0
        BY <1>3, <1>5, <3>2
      <4> HIDE DEF first, last
      <4>3. Joins(L, <<y1, x1>>, <<y0, x0>>, 1)
        BY <4>1, <4>2, ColumnsJoin
      <4> QED
        BY <2>3, <4>3, JoinsBack
    <3> QED
      BY <3>1, <3>2
  <2>5. Joins(P, <<x0, y0>>, <<x1, y1>>, 2)
    <3> HIDE DEF P, L
    <3>1. Joins({Turned(p) : p \in L}, Turned(<<y0, x0>>), Turned(<<y1, x1>>), 2)
      BY <2>3, <2>4, JoinsTurned
    <3> QED
      BY <2>2, <2>3, <3>1
  <2> QED
    BY <1>1, <2>1, <2>5
<1> QED
  BY <1>4, <1>5

\* They are what draw_line plots.
LEMMA LineJoins ==
  ASSUME NEW x0 \in Int, NEW y0 \in Int, NEW x1 \in Int, NEW y1 \in Int, NEW b
  PROVE  \E P : /\ draw_line(x0, y0, x1, y1, b) =
                     {helper_plot_pixel(Start(b), p[1], p[2]) : p \in P}
                /\ Joins(P, <<x0, y0>>, <<x1, y1>>, LongAxis(x0, y0, x1, y1))
<1> DEFINE P == LinePoints(x0, y0, x1, y1)
           steep == Abs(y1 - y0) > Abs(x1 - x0)
           Turn(p) == IF steep THEN <<p[2], p[1]>> ELSE p
           swap  == Turn(<<x0, y0>>)[1] > Turn(<<x1, y1>>)[1]
           first == Turn(IF swap THEN <<x1, y1>> ELSE <<x0, y0>>)
           last  == Turn(IF swap THEN <<x0, y0>> ELSE <<x1, y1>>)
           L == Columns(first, last)
<1>1. draw_line(x0, y0, x1, y1, b) =
        {helper_plot_pixel(Start(b), Turn(p)[1], Turn(p)[2]) : p \in L}
  BY DEF draw_line
<1>2. P = {Turn(p) : p \in L}
  BY DEF LinePoints
<1>3. Joins(P, <<x0, y0>>, <<x1, y1>>, LongAxis(x0, y0, x1, y1))
  BY PointsJoin
<1>4. draw_line(x0, y0, x1, y1, b) =
        {helper_plot_pixel(Start(b), p[1], p[2]) : p \in P}
  <2> HIDE DEF P, L, Turn
  <2> QED
    BY <1>1, <1>2
<1> HIDE DEF P
<1> QED
  BY <1>3, <1>4

\* It makes no difference which end comes first.
LEMMA LineBack ==
  ASSUME NEW x0 \in Int, NEW y0 \in Int, NEW x1 \in Int, NEW y1 \in Int, NEW b
  PROVE  draw_line(x1, y1, x0, y0, b) = draw_line(x0, y0, x1, y1, b)
<1> DEFINE Turn(steep, p) == IF steep THEN <<p[2], p[1]>> ELSE p
           Drawing(steep, first, last) ==
             {helper_plot_pixel(Start(b), Turn(steep, p)[1], Turn(steep, p)[2]) :
                p \in Columns(Turn(steep, first), Turn(steep, last))}
           to == Abs(y1 - y0) > Abs(x1 - x0)
           fro == Abs(y0 - y1) > Abs(x0 - x1)
           swap(steep, p, q) == Turn(steep, p)[1] > Turn(steep, q)[1]
<1>1. draw_line(x0, y0, x1, y1, b) =
        Drawing(to, IF swap(to, <<x0, y0>>, <<x1, y1>>) THEN <<x1, y1>> ELSE <<x0, y0>>,
                    IF swap(to, <<x0, y0>>, <<x1, y1>>) THEN <<x0, y0>> ELSE <<x1, y1>>)
  BY DEF draw_line
<1>2. draw_line(x1, y1, x0, y0, b) =
        Drawing(fro, IF swap(fro, <<x1, y1>>, <<x0, y0>>) THEN <<x0, y0>> ELSE <<x1, y1>>,
                     IF swap(fro, <<x1, y1>>, <<x0, y0>>) THEN <<x1, y1>> ELSE <<x0, y0>>)
  BY DEF draw_line
<1>3. to = fro
  BY DEF Abs
<1>4. CASE swap(to, <<x0, y0>>, <<x1, y1>>)
  <2>1. ~swap(to, <<x1, y1>>, <<x0, y0>>)
    BY <1>4
  <2> HIDE DEF swap, to, fro, Drawing
  <2> QED
    BY <1>1, <1>2, <1>3, <1>4, <2>1
<1>5. CASE swap(to, <<x1, y1>>, <<x0, y0>>)
  <2>1. ~swap(to, <<x0, y0>>, <<x1, y1>>)
    BY <1>5
  <2> HIDE DEF swap, to, fro, Drawing
  <2> QED
    BY <1>1, <1>2, <1>3, <1>5, <2>1
<1>6. CASE ~swap(to, <<x0, y0>>, <<x1, y1>>) /\ ~swap(to, <<x1, y1>>, <<x0, y0>>)
  <2>1. x0 = x1 /\ y0 = y1
    BY <1>6 DEF Abs
  <2> QED
    BY <2>1
<1> QED
  BY <1>4, <1>5, <1>6

\* What LinesStraight says of a line that was drawn from (x0, y0) to (x1, y1).
LineStraight(x0, y0, x1, y1, b, addresses) ==
  LET points == {p \in Between(x0, x1) \X Between(y0, y1) :
                   Picture({p}, b) \subseteq addresses}
      dx0 == x1 - x0
      dy0 == y1 - y0
      long == IF Abs(dx0) >= Abs(dy0) THEN Abs(dx0) ELSE Abs(dy0)
      axis == IF Abs(dx0) >= Abs(dy0) THEN 1 ELSE 2
  IN  /\ addresses = Picture(points, b)
      /\ {<<x0, y0>>, <<x1, y1>>} \subseteq points
      /\ \A n \in Between(IF axis = 1 THEN x0 ELSE y0,
                          IF axis = 1 THEN x1 ELSE y1) :
           \E p \in points : p[axis] = n /\ \A q \in points :
                                                 q[axis] = n => q = p
      /\ \A p \in points : 2 * Abs((p[1] - x0) * dy0 - (p[2] - y0) * dx0) <= long
      /\ addresses = draw_line(x1, y1, x0, y0, b)

\* It is true of every line between two points of the screen.
LEMMA LineIsStraight ==
  ASSUME NEW x0, NEW y0, NEW x1, NEW y1, NEW b,
         <<x0, y0>> \in Screen, <<x1, y1>> \in Screen
  PROVE  LineStraight(x0, y0, x1, y1, b, draw_line(x0, y0, x1, y1, b))
<1> DEFINE axis == LongAxis(x0, y0, x1, y1)
           p0 == <<x0, y0>>
           p1 == <<x1, y1>>
           addresses == draw_line(x0, y0, x1, y1, b)
           box == Between(x0, x1) \X Between(y0, y1)
<1>1. x0 \in Int /\ y0 \in Int /\ x1 \in Int /\ y1 \in Int
  BY ScreenSizes DEF Screen
<1>2. PICK P : /\ addresses = {helper_plot_pixel(Start(b), p[1], p[2]) : p \in P}
               /\ Joins(P, p0, p1, axis)
  BY <1>1, LineJoins
<1>3. P \subseteq Between(x0, x1) \X Between(y0, y1)
  BY <1>2 DEF Joins
<1>4. Between(x0, x1) \X Between(y0, y1) \subseteq Screen
  BY <1>1, ScreenSizes DEF Between, Screen
<1>5. addresses = Picture(P, b)
  <2>1. \A p \in P : helper_plot_pixel(Start(b), p[1], p[2]) = PlaceOf(b, p[1], p[2])
    BY <1>3, <1>4, PixelAddress DEF Screen
  <2>2. P \cap Screen = P
    BY <1>3, <1>4
  <2> QED
    BY <1>2, <2>1, <2>2, PictureIs
<1> DEFINE points == {p \in box : Picture({p}, b) \subseteq addresses}
<1>7. points = P
  <2>1. ASSUME NEW p \in P
        PROVE  p \in points
    <3>1. Picture({p}, b) \subseteq Picture(P, b)
      BY DEF Picture
    <3> QED
      BY <1>3, <1>5, <3>1
  <2>2. ASSUME NEW p \in points
        PROVE  p \in P
    <3>1. p \in Screen /\ Picture({p}, b) \subseteq Picture(P, b)
      BY <1>4, <1>5
    <3> QED
      BY <3>1, PictureShows
  <2> HIDE DEF points
  <2> QED
    BY <2>1, <2>2
<1>8. draw_line(x1, y1, x0, y0, b) = addresses
  BY <1>1, LineBack
<1> DEFINE dx0 == x1 - x0
           dy0 == y1 - y0
           long == IF Abs(dx0) >= Abs(dy0) THEN Abs(dx0) ELSE Abs(dy0)
<1>9. \A p \in P : 2 * Abs((p[1] - x0) * dy0 - (p[2] - y0) * dx0) <= long
  <2>1. ASSUME NEW p \in P
        PROVE  2 * Abs(Cross(p, p0, p1)) <= Abs(p1[axis] - p0[axis])
    BY <1>2 DEF Joins
  <2>2. Abs(p1[axis] - p0[axis]) = long
    BY DEF LongAxis
  <2> HIDE DEF axis, long
  <2> QED
    BY <2>1, <2>2 DEF Cross
<1>10. {p0, p1} \subseteq P
  BY <1>2 DEF Joins
<1>11. \A n \in Between(p0[axis], p1[axis]) :
         \E p \in P : p[axis] = n /\ \A q \in P : q[axis] = n => q = p
  BY <1>2, Zenon DEF Joins
<1> DEFINE side == IF Abs(dx0) >= Abs(dy0) THEN 1 ELSE 2
<1>13. \A n \in Between(IF side = 1 THEN x0 ELSE y0, IF side = 1 THEN x1 ELSE y1) :
         \E p \in P : p[side] = n /\ \A q \in P : q[side] = n => q = p
  <2>1. side = axis
    BY DEF LongAxis
  <2>2. /\ p0[axis] = IF side = 1 THEN x0 ELSE y0
        /\ p1[axis] = IF side = 1 THEN x1 ELSE y1
    BY DEF LongAxis
  <2> HIDE DEF side, axis, p0, p1
  <2> QED
    BY <1>11, <2>1, <2>2
<1> HIDE DEF points
<1>14. /\ addresses = Picture(points, b)
       /\ {<<x0, y0>>, <<x1, y1>>} \subseteq points
       /\ \A n \in Between(IF side = 1 THEN x0 ELSE y0, IF side = 1 THEN x1 ELSE y1) :
            \E p \in points : p[side] = n /\ \A q \in points : q[side] = n => q = p
       /\ \A p \in points : 2 * Abs((p[1] - x0) * dy0 - (p[2] - y0) * dx0) <= long
       /\ addresses = draw_line(x1, y1, x0, y0, b)
  <2> HIDE DEF side, long
  <2> QED
    BY <1>5, <1>7, <1>8, <1>9, <1>10, <1>13
<1> QED
  BY <1>14 DEF LineStraight, points

-----------------------------------------------------------------------------
(* The filled circle. *)

RowState == [x : Int, xChange : Int, yChange : Int, error : Int]

\* The loop of the filled circle takes its steps.
RowStep(radius, above, row) ==
  LET error == above.error + above.yChange
  IN  IF 2 * error + above.xChange > 0
      THEN /\ row.x = above.x - 1 /\ row.xChange = above.xChange + 2
           /\ row.yChange = above.yChange + 2 /\ row.error = error + above.xChange
      ELSE /\ row.x = above.x /\ row.xChange = above.xChange
           /\ row.yChange = above.yChange + 2 /\ row.error = error

LEMMA RowSteps ==
  ASSUME NEW radius \in Nat
  PROVE  /\ \A y \in 0..radius+1 : Rows(radius)[y] \in RowState
         /\ Rows(radius)[0] =
              [x |-> radius, xChange |-> 1 - 2 * radius, yChange |-> 0, error |-> 0]
         /\ \A y \in 1..radius+1 : RowStep(radius, Rows(radius)[y - 1], Rows(radius)[y])
<1> DEFINE N == radius + 1
           c == [x |-> radius, xChange |-> 1 - 2 * radius, yChange |-> 0, error |-> 0]
           Step(above) ==
             LET error == above.error + above.yChange
             IN  IF 2 * error + above.xChange > 0
                 THEN [x |-> above.x - 1, xChange |-> above.xChange + 2,
                       yChange |-> above.yChange + 2,
                       error |-> error + above.xChange]
                 ELSE [above EXCEPT !.yChange = @ + 2, !.error = error]
           F == [n \in 1..N |-> [above \in RowState |-> Step(above)]]
<1>0. N \in Nat /\ c \in RowState
  BY DEF RowState
<1>1. ASSUME NEW above \in RowState
      PROVE  Step(above) \in RowState /\ RowStep(radius, above, Step(above))
  <2> DEFINE error == above.error + above.yChange
  <2>1. /\ above.x \in Int /\ above.xChange \in Int /\ above.yChange \in Int
        /\ above.error \in Int /\ error \in Int
    BY DEF RowState
  <2>2. CASE 2 * error + above.xChange > 0
    <3>1. Step(above) = [x |-> above.x - 1, xChange |-> above.xChange + 2,
                         yChange |-> above.yChange + 2,
                         error |-> error + above.xChange]
      BY <2>2
    <3> HIDE DEF Step
    <3> QED
      BY <2>1, <2>2, <3>1 DEF RowState, RowStep
  <2>3. CASE ~(2 * error + above.xChange > 0)
    <3>1. Step(above) = [x |-> above.x, xChange |-> above.xChange,
                         yChange |-> above.yChange + 2, error |-> error]
      <4>1. Step(above) = [above EXCEPT !.yChange = @ + 2, !.error = error]
        BY <2>3
      <4> HIDE DEF Step, error
      <4> QED
        BY <4>1 DEF RowState
    <3> HIDE DEF Step
    <3> QED
      BY <2>1, <2>3, <3>1 DEF RowState, RowStep
  <2> QED
    BY <2>2, <2>3
<1>2. PICK g \in [0..N -> RowState] : Iterates(g, c, N, F)
  <2>1. \A m \in 1..N, r \in RowState : F[m][r] \in RowState
    <3> HIDE DEF Step
    <3> QED
      BY <1>1
  <2>2. c \in RowState /\ N \in Nat
    BY <1>0
  <2> HIDE DEF F, c, Step, N
  <2> QED
    BY <2>1, <2>2, Iterated
<1>3. g = [n \in 0..N |-> IF n = 0 THEN c ELSE Step(g[n - 1])]
  <2>1. ASSUME NEW n \in 0..N, n # 0
        PROVE  F[n][g[n - 1]] = Step(g[n - 1])
    <3>1. n \in 1..N /\ n - 1 \in 0..N
      BY <1>0, <2>1
    <3>2. g[n - 1] \in RowState
      BY <3>1
    <3> HIDE DEF Step
    <3> QED
      BY <3>1, <3>2
  <2> HIDE DEF F, c, Step, N
  <2> QED
    BY <1>2, <2>1 DEF Iterates
<1> DEFINE W == Rows(radius)
<1>4. W = CHOOSE row : row = [y \in 0..N |-> IF y = 0 THEN c ELSE Step(row[y - 1])]
  BY DEF Rows
<1>5. W = [n \in 0..N |-> IF n = 0 THEN c ELSE Step(W[n - 1])]
  <2> HIDE DEF W, c, Step, N
  <2>1. \E row : row = [n \in 0..N |-> IF n = 0 THEN c ELSE Step(row[n - 1])]
    BY <1>3
  <2> QED
    BY <1>4, <2>1, Zenon
<1>6. W[0] = c /\ \A y \in 1..N : W[y] = Step(W[y - 1])
  <2> HIDE DEF W, c, Step
  <2> QED
    BY <1>5
<1>7. \A y \in 0..N : W[y] \in RowState
  <2> DEFINE T == {n \in 0..N : W[n] \in RowState}
  <2>1. 0 \in T
    <3> HIDE DEF W, c, Step
    <3> QED
      BY <1>0, <1>1, <1>6
  <2>2. \A n \in 1..N : n - 1 \in T => n \in T
    <3> HIDE DEF W, c, Step
    <3> QED
      BY <1>0, <1>1, <1>6
  <2>3. 0..N \subseteq T
    <3> HIDE DEF T, N
    <3> QED
      BY <1>0, <2>1, <2>2, UpTo
  <2> QED
    BY <2>3
<1>8. ASSUME NEW y \in 1..N
      PROVE  RowStep(radius, W[y - 1], W[y])
  <2>1. W[y] = Step(W[y - 1]) /\ W[y - 1] \in RowState
    <3>1. y - 1 \in 0..N
      BY <1>0
    <3> HIDE DEF W, Step, N
    <3> QED
      BY <1>6, <1>7, <3>1
  <2> HIDE DEF W, Step
  <2> QED
    BY <1>1, <2>1
<1> HIDE DEF W
<1> QED
  BY <1>6, <1>7, <1>8 DEF W

\* The x of a row: where the row ends, at its beginning and one row on.
RowEnd(radius, y) == Rows(radius)[y].x

Sq(n) == n * n

\* A row ends where the one above ends, or one pixel before if the pixel in the
\* middle between the two would be too far away.
LEMMA RowEnds ==
  ASSUME NEW radius \in Nat
  PROVE  /\ RowEnd(radius, 0) = radius
         /\ \A y \in 0..radius+1 : RowEnd(radius, y) \in Int
         /\ \A y \in 1..radius+1 :
              LET x == RowEnd(radius, y - 1)
              IN  RowEnd(radius, y) =
                    IF Sq(x) - x + Sq(y) - y >= Sq(radius) THEN x - 1 ELSE x
<1> DEFINE R == Rows(radius)
           Legal(y, s) == /\ s.xChange = 1 - 2 * s.x /\ s.yChange = 2 * y
                          /\ s.error = Sq(s.x) + Sq(y) - y - Sq(radius)
           T == {y \in 0..radius+1 : Legal(y, R[y])}
<1>1. /\ \A y \in 0..radius+1 : R[y] \in RowState
      /\ R[0] = [x |-> radius, xChange |-> 1 - 2 * radius, yChange |-> 0, error |-> 0]
      /\ \A y \in 1..radius+1 : RowStep(radius, R[y - 1], R[y])
  BY RowSteps, Zenon
<1> HIDE DEF R
<1>2. 0 \in T
  BY <1>1 DEF Sq
<1>3. ASSUME NEW y \in 1..radius+1, y - 1 \in T
      PROVE  /\ y \in T
             /\ LET x == R[y - 1].x
                IN  R[y].x = IF Sq(x) - x + Sq(y) - y >= Sq(radius) THEN x - 1 ELSE x
  <2> DEFINE x0 == R[y - 1].x
             x1 == R[y].x
             e0 == R[y - 1].error
             e1 == R[y].error
             e  == e0 + R[y - 1].yChange
  <2>1. /\ x0 \in Int /\ x1 \in Int /\ e0 \in Int /\ e1 \in Int
        /\ R[y - 1].xChange \in Int /\ R[y - 1].yChange \in Int
    BY <1>1 DEF RowState
  <2>2. /\ R[y - 1].xChange = 1 - 2 * x0 /\ R[y - 1].yChange = 2 * (y - 1)
        /\ e0 = Sq(x0) + Sq(y - 1) - (y - 1) - Sq(radius)
    BY <1>3
  <2>3. Sq(y - 1) = Sq(y) - 2 * y + 1 /\ Sq(x0 - 1) = Sq(x0) - 2 * x0 + 1
    BY <2>1 DEF Sq
  <2>4. Sq(y) \in Int /\ Sq(x0) \in Int /\ Sq(radius) \in Int
    BY <2>1 DEF Sq
  <2>5. e = Sq(x0) + Sq(y) - y - Sq(radius) /\ e \in Int
    <3> HIDE DEF x0, e0
    <3> QED
      BY <2>1, <2>2, <2>3, <2>4
  <2>6. IF 2 * e + R[y - 1].xChange > 0
        THEN /\ x1 = x0 - 1 /\ R[y].xChange = R[y - 1].xChange + 2
             /\ R[y].yChange = R[y - 1].yChange + 2 /\ e1 = e + R[y - 1].xChange
        ELSE /\ x1 = x0 /\ R[y].xChange = R[y - 1].xChange
             /\ R[y].yChange = R[y - 1].yChange + 2 /\ e1 = e
    BY <1>1 DEF RowStep
  <2> HIDE DEF x0, x1, e0, e1, e
  <2>7. (2 * e + R[y - 1].xChange > 0) = (Sq(x0) - x0 + Sq(y) - y >= Sq(radius))
    BY <2>1, <2>2, <2>4, <2>5
  <2>8. CASE 2 * e + R[y - 1].xChange > 0
    <3>1. R[y].xChange = 1 - 2 * x1 /\ R[y].yChange = 2 * y
      BY <2>1, <2>2, <2>6, <2>8
    <3>2. e1 = Sq(x1) + Sq(y) - y - Sq(radius)
      BY <2>1, <2>2, <2>3, <2>4, <2>5, <2>6, <2>8
    <3> QED
      BY <2>6, <2>7, <2>8, <3>1, <3>2 DEF x0, x1, e1
  <2>9. CASE ~(2 * e + R[y - 1].xChange > 0)
    <3>1. R[y].xChange = 1 - 2 * x1 /\ R[y].yChange = 2 * y
      BY <2>1, <2>2, <2>6, <2>9
    <3>2. e1 = Sq(x1) + Sq(y) - y - Sq(radius)
      BY <2>5, <2>6, <2>9
    <3> QED
      BY <2>6, <2>7, <2>9, <3>1, <3>2 DEF x0, x1, e1
  <2> QED
    BY <2>8, <2>9
<1>4. 0..radius+1 \subseteq T
  <2>1. radius + 1 \in Nat
    OBVIOUS
  <2>2. \A y \in 1..radius+1 : y - 1 \in T => y \in T
    BY <1>3
  <2> HIDE DEF T
  <2> QED
    BY <1>2, <2>1, <2>2, UpTo
<1>5. ASSUME NEW y \in 1..radius+1
      PROVE  LET x == R[y - 1].x
             IN  R[y].x = IF Sq(x) - x + Sq(y) - y >= Sq(radius) THEN x - 1 ELSE x
  <2>1. y - 1 \in T
    <3> HIDE DEF T
    <3> QED
      BY <1>4
  <2> HIDE DEF T
  <2> QED
    BY <1>3, <2>1
<1>6. \A y \in 0..radius+1 : R[y].x \in Int
  BY <1>1 DEF RowState
<1>7. R[0].x = radius
  BY <1>1
<1> QED
  BY <1>5, <1>6, <1>7 DEF RowEnd, R

LEMMA RowFalls ==
  ASSUME NEW radius \in Nat, NEW y \in 1..radius+1
  PROVE  /\ RowEnd(radius, y) <= RowEnd(radius, y - 1)
         /\ RowEnd(radius, y - 1) <= RowEnd(radius, y) + 1
<1>1. y - 1 \in 0..radius+1
  OBVIOUS
<1> DEFINE x == RowEnd(radius, y - 1)
<1>2. x \in Int
  BY <1>1, RowEnds
<1>3. RowEnd(radius, y) = x \/ RowEnd(radius, y) = x - 1
  BY RowEnds
<1> HIDE DEF x
<1> QED
  BY <1>2, <1>3 DEF x

LEMMA RowsFall ==
  ASSUME NEW radius \in Nat, NEW j \in 0..radius+1, NEW k \in 0..radius+1, j <= k
  PROVE  RowEnd(radius, k) <= RowEnd(radius, j)
<1> DEFINE R(n) == RowEnd(radius, n)
           T == {n \in 0..radius+1 : j <= n => R(n) <= R(j)}
<1>1. /\ \A n \in 0..radius+1 : R(n) \in Int
      /\ \A n \in 1..radius+1 : R(n) <= R(n - 1)
  BY RowEnds, RowFalls
<1> HIDE DEF R
<1>2. 0 \in T
  <2>1. j <= 0 => j = 0
    OBVIOUS
  <2>2. R(j) <= R(j)
    BY <1>1
  <2> QED
    BY <2>1, <2>2
<1>3. ASSUME NEW n \in 1..radius+1, n - 1 \in T
      PROVE  n \in T
  <2>1. CASE n = j
    BY <1>1, <2>1
  <2>2. CASE n # j
    <3>1. j <= n => j <= n - 1
      BY <2>2
    <3>2. n - 1 \in 0..radius+1
      OBVIOUS
    <3> QED
      BY <1>1, <1>3, <3>1, <3>2
  <2> QED
    BY <2>1, <2>2
<1>4. 0..radius+1 \subseteq T
  <2>1. radius + 1 \in Nat
    OBVIOUS
  <2>2. \A n \in 1..radius+1 : n - 1 \in T => n \in T
    BY <1>3
  <2> HIDE DEF T
  <2> QED
    BY <1>2, <2>1, <2>2, UpTo
<1> QED
  BY <1>4 DEF R

LEMMA SquaresGrow ==
  ASSUME NEW m \in Int, NEW n \in Nat, -n <= m, m <= n
  PROVE  Sq(m) <= Sq(n) /\ Sq(m) \in Nat /\ Sq(n) \in Nat
<1>1. CASE m >= 0
  <2>1. m * m <= m * n
    BY <1>1
  <2>2. m * n <= n * n
    BY <1>1
  <2> QED
    BY <2>1, <2>2, <1>1 DEF Sq
<1>2. CASE m < 0
  <2> DEFINE k == -m
  <2>1. k \in Nat /\ k <= n /\ k * k = m * m
    BY <1>2
  <2> HIDE DEF k
  <2>2. k * k <= k * n
    BY <2>1
  <2>3. k * n <= n * n
    BY <2>1
  <2>4. k * k \in Nat /\ n * n \in Nat /\ k * k <= n * n
    BY <2>1, <2>2, <2>3
  <2> QED
    BY <2>1, <2>4 DEF Sq
<1> QED
  BY <1>1, <1>2

\* As long as a row is no shorter than the one before the diagonal, the pixel that
\* follows its last one is beyond the circle, and the last one is not.
RowTrue(radius, y, x) ==
  /\ x >= 0
  /\ Sq(x + 1) + Sq(y) > Sq(radius) + radius
  /\ radius > 0 => Sq(x) - x + Sq(y) - y < Sq(radius)

LEMMA RowBounds ==
  ASSUME NEW radius \in Nat, NEW y \in 0..radius+1, y <= RowEnd(radius, y) + 1
  PROVE  RowTrue(radius, y, RowEnd(radius, y))
<1> DEFINE R(n) == RowEnd(radius, n)
           T == {n \in 0..radius+1 : n <= R(n) + 1 => RowTrue(radius, n, R(n))}
<1>1. /\ R(0) = radius
      /\ \A n \in 0..radius+1 : R(n) \in Int
      /\ \A n \in 1..radius+1 :
           R(n) = IF Sq(R(n - 1)) - R(n - 1) + Sq(n) - n >= Sq(radius)
                  THEN R(n - 1) - 1 ELSE R(n - 1)
  BY RowEnds, Zenon
<1> HIDE DEF R
<1>2. 0 \in T
  <2>1. Sq(radius + 1) = Sq(radius) + 2 * radius + 1 /\ Sq(0) = 0 /\ Sq(radius) \in Int
    BY DEF Sq
  <2>2. RowTrue(radius, 0, radius)
    BY <2>1 DEF RowTrue
  <2> QED
    BY <1>1, <2>2
<1>3. ASSUME NEW n \in 1..radius+1, n - 1 \in T, n <= R(n) + 1
      PROVE  RowTrue(radius, n, R(n))
  <2> DEFINE x0 == R(n - 1)
             x1 == R(n)
             s == Sq(radius)
             q == Sq(n)
             a == Sq(x0)
  <2>1. n - 1 \in 0..radius+1 /\ n \in 0..radius+1
    OBVIOUS
  <2>2. /\ x0 \in Int /\ x1 \in Int /\ s \in Int /\ q \in Int /\ a \in Int
        /\ x1 = IF a - x0 + q - n >= s THEN x0 - 1 ELSE x0
    BY <1>1, <2>1 DEF Sq
  <2>3. /\ Sq(x0 + 1) = a + 2 * x0 + 1 /\ Sq(x0 - 1) = a - 2 * x0 + 1
        /\ Sq(n - 1) = q - 2 * n + 1
    BY <2>2 DEF Sq
  <2>4. n - 1 <= x0 + 1 /\ x1 >= 0
    <3> HIDE DEF x0, x1, a, q, s
    <3> QED
      BY <1>3, <2>2 DEF x1
  <2>5. RowTrue(radius, n - 1, x0)
    BY <1>3, <2>4
  <2>6. /\ x0 >= 0 /\ a + 2 * x0 + 1 + q - 2 * n + 1 > s + radius
        /\ radius > 0 => a - x0 + (q - 2 * n + 1) - (n - 1) < s
    <3>1. /\ x0 >= 0 /\ Sq(x0 + 1) + Sq(n - 1) > s + radius
          /\ radius > 0 => a - x0 + Sq(n - 1) - (n - 1) < s
      BY <2>5 DEF RowTrue
    <3> HIDE DEF x0, a, q, s
    <3> QED
      BY <2>2, <2>3, <3>1
  <2>7. CASE a - x0 + q - n >= s
    <3>1. x1 = x0 - 1 /\ n <= x0
      <4> HIDE DEF x0, a, q, s
      <4> QED
        BY <1>3, <2>2, <2>7
    <3>2. x0 + n > radius
      <4> DEFINE xn == x0 * n
      <4>1. xn \in Int
        BY <2>2
      <4>2. Sq(x0 + n) = a + q + 2 * xn
        <5>1. x0 \in Int /\ n \in Int
          BY <2>2
        <5> HIDE DEF x0
        <5>2. (x0 + n) * (x0 + n) = x0 * x0 + n * n + 2 * (x0 * n)
          BY <5>1
        <5> QED
          BY <5>2 DEF Sq
      <4>5. x0 + n \in Nat
        BY <2>2, <2>6
      <4>6. (x0 + 1) * (n - 1) >= 0 /\ (x0 + 1) * (n - 1) = xn - x0 + n - 1
        BY <2>2, <2>6
      <4> HIDE DEF x0, a, q, s, xn
      <4>7. Sq(x0 + n) > s
        BY <2>2, <2>6, <4>1, <4>2, <4>6
      <4>8. x0 + n <= radius => Sq(x0 + n) <= s
        <5> DEFINE t == x0 + n
        <5> HIDE DEF t
        <5>1. t \in Nat /\ (t <= radius => Sq(t) <= s)
          BY <4>5, SquaresGrow DEF s, t
        <5> QED
          BY <5>1 DEF t
      <4>9. Sq(x0 + n) \in Int
        BY <2>2, <4>1, <4>2
      <4> QED
        BY <2>2, <4>5, <4>7, <4>8, <4>9
    <3>3. Sq(x1 + 1) = a
      <4>1. x1 + 1 = x0
        BY <2>2, <3>1
      <4> QED
        BY <4>1
    <3>4. Sq(x1) = a - 2 * x0 + 1
      BY <2>3, <3>1
    <3> HIDE DEF x0, x1, a, q, s
    <3>5. a + q > s + radius
      BY <2>2, <2>7, <3>2
    <3>6. radius > 0 => (a - 2 * x0 + 1) - x1 + q - n < s
      BY <2>2, <2>6, <3>1
    <3> QED
      BY <2>4, <3>3, <3>4, <3>5, <3>6 DEF RowTrue, x1, q, s
  <2>8. CASE ~(a - x0 + q - n >= s)
    <3>1. x1 = x0
      BY <2>2, <2>8
    <3>2. a + 2 * x0 + 1 + q > s + radius
      <4> HIDE DEF x0, x1, a, q, s
      <4> QED
        BY <2>2, <2>6
    <3>3. a - x0 + q - n < s
      <4> HIDE DEF x0, x1, a, q, s
      <4> QED
        BY <2>2, <2>8
    <3>4. Sq(x1) = a /\ Sq(x1 + 1) = a + 2 * x0 + 1
      BY <2>3, <3>1
    <3> HIDE DEF x0, x1, a, q, s
    <3> QED
      BY <2>4, <3>1, <3>2, <3>3, <3>4 DEF RowTrue, x1, q, s
  <2> QED
    BY <2>7, <2>8
<1>4. 0..radius+1 \subseteq T
  <2>1. radius + 1 \in Nat
    OBVIOUS
  <2>2. \A n \in 1..radius+1 : n - 1 \in T => n \in T
    BY <1>3
  <2> HIDE DEF T
  <2> QED
    BY <1>2, <2>1, <2>2, UpTo
<1> QED
  BY <1>4 DEF R

\* What falls by one at most passes every value on its way.
FallsBelow(f, j, k, m) ==
  /\ \A n \in j..k : f[n] \in Int
  /\ \A n \in j+1..k : f[n - 1] <= f[n] + 1
  /\ f[j] >= m /\ f[k] < m /\ j <= k

LEMMA Passes ==
  ASSUME NEW j \in Nat, NEW k \in Nat, NEW f, NEW m \in Int, FallsBelow(f, j, k, m)
  PROVE  \E n \in j..k-1 : f[n] = m
<1> USE DEF FallsBelow
<1> DEFINE S == {n \in j..k : f[n] < m}
<1>1. S \in SUBSET Nat /\ k \in S
  OBVIOUS
<1>2. PICK n \in S : \A i \in S : n <= i
  <2> HIDE DEF S
  <2>1. S # {}
    BY <1>1
  <2> QED
    BY <1>1, <2>1, Lowest
<1>3. n \in j..k /\ f[n] < m /\ n # j
  <2>1. f[j] \in Int
    OBVIOUS
  <2> QED
    BY <1>2, <2>1
<1>4. n \in j+1..k /\ n - 1 \in j..k /\ n - 1 \in j..k-1 /\ ~(n <= n - 1)
  BY <1>3
<1>5. ~(f[n - 1] < m)
  BY <1>2, <1>4
<1>6. f[n - 1] \in Int /\ f[n] \in Int /\ f[n - 1] <= f[n] + 1
  BY <1>3, <1>4
<1>7. f[n - 1] = m
  BY <1>3, <1>5, <1>6
<1> QED
  BY <1>4, <1>7

\* Rows that end before the diagonal are outside the circle there.
LEMMA DiagonalOutside ==
  ASSUME NEW radius \in Nat, NEW y \in 0..radius+1, RowEnd(radius, y) < y
  PROVE  Sq(y) + Sq(y) > Sq(radius) + radius
<1> DEFINE R(n) == RowEnd(radius, n)
           S == {n \in 0..radius+1 : R(n) < n}
<1>1. R(0) = radius /\ \A n \in 0..radius+1 : R(n) \in Int
  BY RowEnds
<1>2. PICK n \in S : \A i \in S : n <= i
  <2>1. S # {} /\ S \in SUBSET Nat
    OBVIOUS
  <2> HIDE DEF S
  <2> QED
    BY <2>1, Lowest
<1>3. n \in 1..radius+1 /\ n - 1 \in 0..radius+1 /\ ~(n <= n - 1) /\ R(n) < n /\ n <= y
  <2>1. n # 0
    BY <1>1, <1>2
  <2>2. n <= y
    BY <1>2
  <2> HIDE DEF R
  <2> QED
    BY <1>2, <2>1, <2>2
<1>4. R(n - 1) >= n - 1
  <2> HIDE DEF R
  <2>1. n - 1 \notin S
    BY <1>2, <1>3
  <2> QED
    BY <1>1, <1>3, <2>1
<1>5. R(n - 1) <= R(n) + 1 /\ R(n - 1) \in Int /\ R(n) \in Int
  BY <1>1, <1>3, RowFalls
<1>6. Sq(n) + Sq(n) > Sq(radius) + radius
  <2>1. CASE R(n) = n - 1
    <3>1. RowTrue(radius, n, R(n))
      BY <1>3, <2>1, RowBounds
    <3>2. R(n) + 1 = n
      BY <1>3, <2>1
    <3> HIDE DEF R
    <3> QED
      BY <3>1, <3>2 DEF RowTrue
  <2>2. CASE R(n) # n - 1
    <3>1. R(n - 1) = n - 1
      <4> HIDE DEF R
      <4> QED
        BY <1>3, <1>4, <1>5, <2>2
    <3>2. RowTrue(radius, n - 1, R(n - 1))
      BY <1>3, <3>1, RowBounds
    <3>3. (n - 1) + 1 = n
      BY <1>3
    <3> HIDE DEF R
    <3>4. Sq(n) + Sq(n - 1) > Sq(radius) + radius
      BY <3>1, <3>2, <3>3 DEF RowTrue
    <3>5. Sq(n - 1) <= Sq(n) /\ Sq(n - 1) \in Nat /\ Sq(n) \in Nat
      <4> DEFINE t == n - 1
      <4>1. t \in Int /\ n \in Nat /\ -n <= t /\ t <= n
        BY <1>3
      <4> HIDE DEF t
      <4>2. Sq(t) <= Sq(n) /\ Sq(t) \in Nat /\ Sq(n) \in Nat
        BY <4>1, SquaresGrow
      <4> QED
        BY <4>2 DEF t
    <3>6. Sq(radius) \in Int
      BY DEF Sq
    <3> QED
      BY <3>4, <3>5, <3>6
  <2> QED
    BY <2>1, <2>2
<1>7. Sq(n) <= Sq(y) /\ Sq(n) \in Nat /\ Sq(y) \in Nat
  <2>1. n \in Int /\ y \in Nat /\ -y <= n /\ n <= y
    BY <1>3
  <2> QED
    BY <2>1, SquaresGrow
<1>8. Sq(radius) \in Int
  BY DEF Sq
<1> QED
  BY <1>6, <1>7, <1>8

\* The rows of the filled circle: across, and up and down beside it.
Across(x, y) == ((-x)..x) \X {y, -y}
Beside(x, y) == ((-y)..y) \X {x, -x}

LEMMA DiscIs ==
  ASSUME NEW radius \in Nat
  PROVE  Disc(radius) =
           UNION {Across(RowEnd(radius, y), y) \cup Beside(RowEnd(radius, y), y) :
                    y \in {i \in 0..radius+1 : RowEnd(radius, i) >= i}}
BY DEF Disc, RowEnd, Across, Beside

\* Every pixel within the radius is in the filled circle.
LEMMA DiscCovers ==
  ASSUME NEW radius \in Nat, NEW a \in Int, NEW b \in Int,
         -radius <= a, a <= radius, -radius <= b, b <= radius,
         Sq(a) + Sq(b) <= Sq(radius) + radius
  PROVE  <<a, b>> \in Disc(radius)
<1> DEFINE R(n) == RowEnd(radius, n)
           k == Abs(a)
           m == Abs(b)
<1>1. /\ k \in 0..radius+1 /\ m \in 0..radius+1 /\ a \in {k, -k} /\ b \in {m, -m}
      /\ Sq(k) = Sq(a) /\ Sq(m) = Sq(b)
  <2>1. /\ k \in 0..radius+1 /\ m \in 0..radius+1
        /\ (k = a \/ k = -a) /\ (m = b \/ m = -b)
    BY DEF Abs
  <2>2. \A n \in Int : Sq(-n) = Sq(n)
    BY DEF Sq
  <2> HIDE DEF k, m
  <2> QED
    BY <2>1, <2>2
<1>2. /\ Sq(k) + Sq(m) <= Sq(radius) + radius
      /\ Sq(k) \in Nat /\ Sq(m) \in Nat /\ Sq(radius) \in Nat
  <2>1. \A n \in Nat : Sq(n) \in Nat
    BY DEF Sq
  <2> HIDE DEF k, m
  <2> QED
    BY <1>1, <2>1
<1> HIDE DEF k, m
<1>3. \A n \in 0..radius+1 : R(n) \in Int
  BY RowEnds
<1>4. \A i, n \in Nat : Sq(i) < Sq(n) => i < n
  <2> SUFFICES ASSUME NEW i \in Nat, NEW n \in Nat, n <= i
               PROVE  Sq(n) <= Sq(i) /\ Sq(n) \in Nat /\ Sq(i) \in Nat
    BY DEF Sq
  <2>1. n \in Int /\ -i <= n
    OBVIOUS
  <2> QED
    BY <2>1, SquaresGrow
<1>5. ASSUME NEW n \in 0..radius+1, R(n) >= n
      PROVE  /\ Across(R(n), n) \subseteq Disc(radius)
             /\ Beside(R(n), n) \subseteq Disc(radius)
  BY <1>5, DiscIs
<1>6. ASSUME NEW n \in 0..radius+1, NEW i \in 0..radius+1, R(n) >= n,
             Sq(i) + Sq(n) <= Sq(radius) + radius
      PROVE  i <= R(n)
  <2> DEFINE x == R(n)
  <2>1. x \in Int /\ n <= x + 1
    BY <1>3, <1>6
  <2>2. RowTrue(radius, n, x)
    BY <2>1, RowBounds
  <2> HIDE DEF x
  <2>3. x + 1 \in Nat /\ Sq(x + 1) + Sq(n) > Sq(radius) + radius
    BY <2>1, <2>2 DEF RowTrue
  <2>4. Sq(x + 1) \in Int /\ Sq(n) \in Int /\ Sq(i) \in Int /\ Sq(radius) \in Int
    BY <2>1 DEF Sq
  <2>5. Sq(i) < Sq(x + 1)
    BY <1>6, <2>3, <2>4
  <2>6. i < x + 1
    BY <1>4, <2>3, <2>5
  <2> QED
    BY <2>1, <2>6 DEF x
<1>7. CASE R(m) >= m
  <2>1. k <= R(m)
    BY <1>1, <1>2, <1>6, <1>7
  <2>2. a \in (-R(m))..R(m)
    <3> HIDE DEF R
    <3> QED
      BY <1>1, <1>3, <2>1
  <2>3. <<a, b>> \in Across(R(m), m)
    BY <1>1, <2>2 DEF Across
  <2> QED
    BY <1>1, <1>5, <1>7, <2>3
<1>8. CASE R(m) < m
  <2>1. Sq(m) + Sq(m) > Sq(radius) + radius
    BY <1>1, <1>8, DiagonalOutside
  <2>2. k < m
    BY <1>1, <1>2, <1>4, <2>1
  <2>3. R(k) >= k
    <3>1. CASE R(k) < k
      <4>1. Sq(k) + Sq(k) > Sq(radius) + radius
        BY <1>1, <3>1, DiagonalOutside
      <4> QED
        BY <1>2, <2>1, <4>1
    <3> HIDE DEF R
    <3> QED
      BY <1>1, <1>3, <3>1
  <2>4. R(k) >= m
    <3>1. Sq(m) + Sq(k) <= Sq(radius) + radius
      BY <1>2
    <3> HIDE DEF R
    <3>2. m <= R(k)
      BY <1>1, <1>6, <2>3, <3>1
    <3> QED
      BY <1>1, <1>3, <3>2
  <2>5. \E y \in k..m-1 : R(y) = m
    <3> DEFINE f == [n \in 0..radius+1 |-> R(n)]
    <3>1. /\ k \in Nat /\ m \in Nat /\ m \in Int /\ k <= m
          /\ \A n \in k..m : n \in 0..radius+1
          /\ \A n \in k+1..m : n \in 1..radius+1 /\ n - 1 \in 0..radius+1
      BY <1>1, <2>2
    <3>2. \A n \in k..m : f[n] \in Int
      <4> HIDE DEF R
      <4> QED
        BY <1>3, <3>1
    <3>3. ASSUME NEW n \in k+1..m
          PROVE  f[n - 1] <= f[n] + 1
      <4>1. n \in 1..radius+1 /\ n - 1 \in 0..radius+1 /\ n \in 0..radius+1
        BY <1>1
      <4>2. R(n - 1) <= R(n) + 1
        BY <4>1, RowFalls
      <4> HIDE DEF R
      <4> QED
        BY <4>1, <4>2
    <3>4. f[k] >= m /\ f[m] < m
      <4> HIDE DEF R
      <4> QED
        BY <1>1, <1>8, <2>4
    <3> HIDE DEF f
    <3>5. PICK n \in k..m-1 : f[n] = m
      <4>1. FallsBelow(f, k, m, m)
        BY <3>1, <3>2, <3>3, <3>4 DEF FallsBelow
      <4> QED
        BY <3>1, <4>1, Passes
    <3>6. n \in 0..radius+1
      BY <1>1, <3>1
    <3> QED
      BY <3>5, <3>6 DEF f
  <2>6. PICK y \in k..m-1 : R(y) = m
    BY <2>5
  <2>7. y \in 0..radius+1 /\ R(y) >= y /\ a \in (-y)..y
    <3> HIDE DEF R
    <3> QED
      BY <1>1, <2>6
  <2>8. <<a, b>> \in Beside(R(y), y)
    BY <1>1, <2>6, <2>7 DEF Beside
  <2> QED
    BY <1>5, <2>7, <2>8
<1> QED
  <2> HIDE DEF R
  <2> QED
    BY <1>1, <1>3, <1>7, <1>8

\* No pixel of it is a pixel beyond the radius.
LEMMA DiscWithin ==
  ASSUME NEW radius \in Nat, NEW p \in Disc(radius)
  PROVE  /\ p \in ((-radius)..radius) \X ((-radius)..radius)
         /\ radius > 0 => Sq(p[1]) + Sq(p[2]) < Sq(radius + 1)
<1>1. PICK y \in 0..radius+1 :
        /\ RowEnd(radius, y) >= y
        /\ p \in Across(RowEnd(radius, y), y) \cup Beside(RowEnd(radius, y), y)
  BY DiscIs
<1> DEFINE x == RowEnd(radius, y)
<1>2. x \in Int /\ y <= x /\ x <= radius /\ 0 \in 0..radius+1
  <2>1. x <= RowEnd(radius, 0) /\ RowEnd(radius, 0) = radius /\ x \in Int
    BY RowEnds, RowsFall
  <2> QED
    BY <1>1, <2>1
<1>3. RowTrue(radius, y, x)
  BY <1>1, <1>2, RowBounds
<1> HIDE DEF x
<1>4. x \in Nat /\ (radius > 0 => Sq(x) - x + Sq(y) - y < Sq(radius))
  BY <1>2, <1>3 DEF RowTrue
<1> DEFINE a == p[1]
           b == p[2]
<1>5. \/ a \in (-x)..x /\ b \in {y, -y}
      \/ a \in (-y)..y /\ b \in {x, -x}
  BY <1>1 DEF Across, Beside, x
<1>6. p = <<a, b>> /\ a \in Int /\ b \in Int
  BY <1>1, <1>2 DEF Across, Beside, x
<1> HIDE DEF a, b
<1>7. /\ Sq(a) + Sq(b) <= Sq(x) + Sq(y)
      /\ a \in (-radius)..radius /\ b \in (-radius)..radius
  <2>1. \A n \in Int : Sq(-n) = Sq(n) /\ Sq(n) \in Int
    BY DEF Sq
  <2>2. CASE a \in (-x)..x /\ b \in {y, -y}
    <3>1. Sq(a) <= Sq(x)
      BY <1>4, <1>6, <2>2, SquaresGrow
    <3>2. Sq(b) = Sq(y)
      BY <2>1, <2>2
    <3> QED
      BY <1>2, <1>4, <1>6, <2>1, <2>2, <3>1, <3>2
  <2>3. CASE a \in (-y)..y /\ b \in {x, -x}
    <3>1. Sq(a) <= Sq(y)
      BY <1>6, <2>3, SquaresGrow
    <3>2. Sq(b) = Sq(x)
      BY <1>4, <2>1, <2>3
    <3> QED
      BY <1>2, <1>4, <1>6, <2>1, <2>3, <3>1, <3>2
  <2> QED
    BY <1>5, <2>2, <2>3
<1>8. ASSUME radius > 0
      PROVE  Sq(a) + Sq(b) < Sq(radius + 1)
  <2>1. Sq(radius + 1) = Sq(radius) + 2 * radius + 1
    BY DEF Sq
  <2>2. Sq(a) \in Int /\ Sq(b) \in Int /\ Sq(x) \in Int /\ Sq(y) \in Int /\ Sq(radius) \in Int
    BY <1>4, <1>6 DEF Sq
  <2> QED
    BY <1>2, <1>4, <1>7, <1>8, <2>1, <2>2
<1> QED
  BY <1>6, <1>7, <1>8

-----------------------------------------------------------------------------
(* The circle that is not filled. *)

OctantState == [y : Int, p : Int]

OctantStep(x, left, right) ==
  IF left.p < 0
  THEN right.y = left.y /\ right.p = left.p + 4 * (x - 1) + 6
  ELSE right.y = left.y - 1 /\ right.p = left.p + 4 * ((x - 1) - left.y) + 10

LEMMA OctantSteps ==
  ASSUME NEW radius \in Nat
  PROVE  /\ \A x \in 0..radius+1 : Octant(radius)[x] \in OctantState
         /\ Octant(radius)[0] = [y |-> radius, p |-> 3 - 2 * radius]
         /\ \A x \in 1..radius+1 : OctantStep(x, Octant(radius)[x - 1], Octant(radius)[x])
<1> DEFINE N == radius + 1
           c == [y |-> radius, p |-> 3 - 2 * radius]
           Step(x, left) ==
             IF left.p < 0
             THEN [left EXCEPT !.p = @ + 4 * (x - 1) + 6]
             ELSE [y |-> left.y - 1, p |-> left.p + 4 * ((x - 1) - left.y) + 10]
           F == [n \in 1..N |-> [left \in OctantState |-> Step(n, left)]]
<1>1. N \in Nat /\ c \in OctantState
  BY DEF OctantState
<1>2. ASSUME NEW left \in OctantState, NEW x \in 1..N
      PROVE  Step(x, left) \in OctantState /\ OctantStep(x, left, Step(x, left))
  <2>1. left.y \in Int /\ left.p \in Int /\ x \in Int
    BY DEF OctantState
  <2>2. CASE left.p < 0
    <3>1. Step(x, left) = [y |-> left.y, p |-> left.p + 4 * (x - 1) + 6]
      <4>1. Step(x, left) = [left EXCEPT !.p = @ + 4 * (x - 1) + 6]
        BY <2>2
      <4> HIDE DEF Step
      <4> QED
        BY <4>1 DEF OctantState
    <3> HIDE DEF Step
    <3> QED
      BY <2>1, <2>2, <3>1 DEF OctantState, OctantStep
  <2>3. CASE ~(left.p < 0)
    <3>1. Step(x, left) =
            [y |-> left.y - 1, p |-> left.p + 4 * ((x - 1) - left.y) + 10]
      BY <2>3
    <3> HIDE DEF Step
    <3> QED
      BY <2>1, <2>3, <3>1 DEF OctantState, OctantStep
  <2> QED
    BY <2>2, <2>3
<1>3. PICK g \in [0..N -> OctantState] : Iterates(g, c, N, F)
  <2>1. \A m \in 1..N, r \in OctantState : F[m][r] \in OctantState
    <3> HIDE DEF Step
    <3> QED
      BY <1>2
  <2>2. c \in OctantState /\ N \in Nat
    BY <1>1
  <2> HIDE DEF F, c, Step, N
  <2> QED
    BY <2>1, <2>2, Iterated
<1>4. g = [n \in 0..N |-> IF n = 0 THEN c ELSE Step(n, g[n - 1])]
  <2>1. ASSUME NEW n \in 0..N, n # 0
        PROVE  F[n][g[n - 1]] = Step(n, g[n - 1])
    <3>1. n \in 1..N /\ n - 1 \in 0..N
      BY <1>1, <2>1
    <3>2. g[n - 1] \in OctantState
      BY <3>1
    <3> HIDE DEF Step
    <3> QED
      BY <3>1, <3>2
  <2> HIDE DEF F, c, Step, N
  <2> QED
    BY <1>3, <2>1 DEF Iterates
<1> DEFINE W == Octant(radius)
<1>5. W = CHOOSE octant : octant = [x \in 0..N |-> IF x = 0 THEN c ELSE Step(x, octant[x - 1])]
  BY DEF Octant
<1>6. W = [n \in 0..N |-> IF n = 0 THEN c ELSE Step(n, W[n - 1])]
  <2> HIDE DEF W, c, Step, N
  <2>1. \E octant : octant = [n \in 0..N |-> IF n = 0 THEN c ELSE Step(n, octant[n - 1])]
    BY <1>4
  <2> QED
    BY <1>5, <2>1, Zenon
<1>7. W[0] = c /\ \A x \in 1..N : W[x] = Step(x, W[x - 1])
  <2> HIDE DEF W, c, Step
  <2> QED
    BY <1>6
<1>8. \A x \in 0..N : W[x] \in OctantState
  <2> DEFINE T == {n \in 0..N : W[n] \in OctantState}
  <2>1. 0 \in T
    <3> HIDE DEF W, c, Step
    <3> QED
      BY <1>1, <1>7
  <2>2. \A n \in 1..N : n - 1 \in T => n \in T
    <3> HIDE DEF W, c, Step
    <3> QED
      BY <1>1, <1>2, <1>7
  <2>3. 0..N \subseteq T
    <3> HIDE DEF T, N
    <3> QED
      BY <1>1, <2>1, <2>2, UpTo
  <2> QED
    BY <2>3
<1>9. ASSUME NEW x \in 1..N
      PROVE  OctantStep(x, W[x - 1], W[x])
  <2>1. W[x] = Step(x, W[x - 1]) /\ W[x - 1] \in OctantState
    <3>1. x - 1 \in 0..N
      BY <1>1
    <3> HIDE DEF W, Step, N
    <3> QED
      BY <1>7, <1>8, <3>1
  <2> HIDE DEF W, Step
  <2> QED
    BY <1>2, <2>1
<1> HIDE DEF W
<1> QED
  BY <1>7, <1>8, <1>9 DEF W

\* How high the circle is in a column, up to the diagonal.
Height(radius, x) == Octant(radius)[x].y

\* The circle goes down by one where the middle of the pixel and the one below is
\* not inside.
LEMMA Heights ==
  ASSUME NEW radius \in Nat
  PROVE  /\ Height(radius, 0) = radius
         /\ \A x \in 0..radius+1 : Height(radius, x) \in Int
         /\ \A x \in 1..radius+1 :
              LET y == Height(radius, x - 1)
              IN  Height(radius, x) =
                    IF 2 * Sq(x) + Sq(y) + Sq(y - 1) - 2 * Sq(radius) < 0
                    THEN y ELSE y - 1
<1> DEFINE R == Octant(radius)
           Legal(x, s) == s.p = 2 * Sq(x + 1) + Sq(s.y) + Sq(s.y - 1) - 2 * Sq(radius)
           T == {x \in 0..radius+1 : Legal(x, R[x])}
<1>1. /\ \A x \in 0..radius+1 : R[x] \in OctantState
      /\ R[0] = [y |-> radius, p |-> 3 - 2 * radius]
      /\ \A x \in 1..radius+1 : OctantStep(x, R[x - 1], R[x])
  BY OctantSteps, Zenon
<1> HIDE DEF R
<1>2. 0 \in T
  <2>1. /\ Sq(0 + 1) = 1 /\ Sq(radius) \in Int
        /\ Sq(radius - 1) = Sq(radius) - 2 * radius + 1
    BY DEF Sq
  <2> QED
    BY <1>1, <2>1
<1>3. ASSUME NEW x \in 1..radius+1, x - 1 \in T
      PROVE  /\ x \in T
             /\ LET y == R[x - 1].y
                IN  R[x].y = IF 2 * Sq(x) + Sq(y) + Sq(y - 1) - 2 * Sq(radius) < 0
                             THEN y ELSE y - 1
  <2> DEFINE y0 == R[x - 1].y
             y1 == R[x].y
             p0 == R[x - 1].p
             p1 == R[x].p
  <2>1. y0 \in Int /\ y1 \in Int /\ p0 \in Int /\ p1 \in Int
    BY <1>1 DEF OctantState
  <2>2. p0 = 2 * Sq(x) + Sq(y0) + Sq(y0 - 1) - 2 * Sq(radius)
    <3>1. (x - 1) + 1 = x
      OBVIOUS
    <3> QED
      BY <1>3, <3>1
  <2>3. IF p0 < 0 THEN y1 = y0 /\ p1 = p0 + 4 * (x - 1) + 6
        ELSE y1 = y0 - 1 /\ p1 = p0 + 4 * ((x - 1) - y0) + 10
    BY <1>1 DEF OctantStep
  <2> HIDE DEF y0, y1, p0, p1
  <2>4. /\ Sq(y0 - 1) = Sq(y0) - 2 * y0 + 1 /\ Sq(x + 1) = Sq(x) + 2 * x + 1
        /\ Sq((y0 - 1) - 1) = Sq(y0) - 4 * y0 + 4
        /\ Sq(x) \in Int /\ Sq(y0) \in Int /\ Sq(radius) \in Int
    BY <2>1 DEF Sq
  <2>5. p1 = 2 * Sq(x + 1) + Sq(y1) + Sq(y1 - 1) - 2 * Sq(radius)
    <3>1. CASE p0 < 0
      BY <2>1, <2>2, <2>3, <2>4, <3>1
    <3>2. CASE ~(p0 < 0)
      <4>1. Sq(y1) = Sq(y0 - 1) /\ Sq(y1 - 1) = Sq((y0 - 1) - 1)
        BY <2>3, <3>2
      <4> QED
        BY <2>1, <2>2, <2>3, <2>4, <3>2, <4>1
    <3> QED
      BY <3>1, <3>2
  <2> QED
    BY <2>2, <2>3, <2>5 DEF y0, y1, p0, p1
<1>4. 0..radius+1 \subseteq T
  <2>1. radius + 1 \in Nat
    OBVIOUS
  <2>2. \A x \in 1..radius+1 : x - 1 \in T => x \in T
    BY <1>3
  <2> HIDE DEF T
  <2> QED
    BY <1>2, <2>1, <2>2, UpTo
<1>5. ASSUME NEW x \in 1..radius+1
      PROVE  LET y == R[x - 1].y
             IN  R[x].y = IF 2 * Sq(x) + Sq(y) + Sq(y - 1) - 2 * Sq(radius) < 0
                          THEN y ELSE y - 1
  <2>1. x - 1 \in T
    <3> HIDE DEF T
    <3> QED
      BY <1>4
  <2> HIDE DEF T
  <2> QED
    BY <1>3, <2>1
<1>6. \A x \in 0..radius+1 : R[x].y \in Int
  BY <1>1 DEF OctantState
<1>7. R[0].y = radius
  BY <1>1
<1> QED
  BY <1>5, <1>6, <1>7 DEF Height, R

LEMMA HeightFalls ==
  ASSUME NEW radius \in Nat, NEW x \in 1..radius+1
  PROVE  /\ Height(radius, x) <= Height(radius, x - 1)
         /\ Height(radius, x - 1) <= Height(radius, x) + 1
<1>1. x - 1 \in 0..radius+1
  OBVIOUS
<1> DEFINE y == Height(radius, x - 1)
<1>2. y \in Int
  BY <1>1, Heights
<1>3. Height(radius, x) = y \/ Height(radius, x) = y - 1
  BY Heights
<1> HIDE DEF y
<1> QED
  BY <1>2, <1>3 DEF y

\* Up to the diagonal the circle is within half a pixel of its radius, and not
\* higher than it.
HeightTrue(radius, x, y) ==
  /\ -y <= Sq(x) + Sq(y) - Sq(radius) /\ Sq(x) + Sq(y) - Sq(radius) <= y - 1
  /\ y <= radius

LEMMA HeightBounds ==
  ASSUME NEW radius \in Nat, radius > 0, NEW x \in 0..radius+1, x <= Height(radius, x)
  PROVE  HeightTrue(radius, x, Height(radius, x))
<1> DEFINE H(n) == Height(radius, n)
           T == {n \in 0..radius+1 : n <= H(n) => HeightTrue(radius, n, H(n))}
<1>1. /\ H(0) = radius
      /\ \A n \in 0..radius+1 : H(n) \in Int
      /\ \A n \in 1..radius+1 :
           H(n) = IF 2 * Sq(n) + Sq(H(n - 1)) + Sq(H(n - 1) - 1) - 2 * Sq(radius) < 0
                  THEN H(n - 1) ELSE H(n - 1) - 1
  BY Heights, Zenon
<1> HIDE DEF H
<1>2. 0 \in T
  <2>1. Sq(0) = 0 /\ Sq(radius) \in Int
    BY DEF Sq
  <2>2. HeightTrue(radius, 0, radius)
    BY <2>1 DEF HeightTrue
  <2> QED
    BY <1>1, <2>2
<1>3. ASSUME NEW n \in 1..radius+1, n - 1 \in T, n <= H(n)
      PROVE  HeightTrue(radius, n, H(n))
  <2> DEFINE y0 == H(n - 1)
             y1 == H(n)
             s == Sq(radius)
             q == Sq(n)
             a == Sq(y0)
  <2>1. n - 1 \in 0..radius+1 /\ n \in 0..radius+1
    OBVIOUS
  <2>2. /\ y0 \in Int /\ y1 \in Int /\ s \in Int /\ q \in Int /\ a \in Int
        /\ y1 = IF 2 * q + a + Sq(y0 - 1) - 2 * s < 0 THEN y0 ELSE y0 - 1
    BY <1>1, <2>1 DEF Sq
  <2>3. Sq(y0 - 1) = a - 2 * y0 + 1 /\ Sq(n - 1) = q - 2 * n + 1
    BY <2>2 DEF Sq
  <2>4. n - 1 <= y0
    <3> HIDE DEF y0, y1, a, q, s
    <3> QED
      BY <1>3, <2>2 DEF y1
  <2>5. HeightTrue(radius, n - 1, y0)
    BY <1>3, <2>4
  <2>6. /\ -y0 <= (q - 2 * n + 1) + a - s /\ (q - 2 * n + 1) + a - s <= y0 - 1
        /\ y0 <= radius
    BY <2>3, <2>5 DEF HeightTrue
  <2>7. CASE 2 * q + a + Sq(y0 - 1) - 2 * s < 0
    <3>1. y1 = y0 /\ Sq(y1) = a
      BY <2>2, <2>7
    <3>2. 2 * q + a + (a - 2 * y0 + 1) - 2 * s < 0
      BY <2>3, <2>7
    <3> HIDE DEF y0, y1, a, q, s
    <3>3. -y1 <= q + a - s /\ q + a - s <= y1 - 1 /\ y1 <= radius
      BY <2>2, <2>6, <3>1, <3>2
    <3> QED
      BY <3>1, <3>3 DEF HeightTrue, y1, q, s
  <2>8. CASE ~(2 * q + a + Sq(y0 - 1) - 2 * s < 0)
    <3>1. y1 = y0 - 1 /\ n <= y1
      BY <1>3, <2>2, <2>8
    <3>2. Sq(y1) = a - 2 * y0 + 1
      BY <2>3, <3>1
    <3>3. ~(2 * q + a + (a - 2 * y0 + 1) - 2 * s < 0)
      BY <2>3, <2>8
    <3> HIDE DEF y0, y1, a, q, s
    <3>4. /\ -y1 <= q + (a - 2 * y0 + 1) - s /\ q + (a - 2 * y0 + 1) - s <= y1 - 1
          /\ y1 <= radius
      BY <2>2, <2>6, <3>1, <3>3
    <3> QED
      BY <3>2, <3>4 DEF HeightTrue, y1, q, s
  <2> QED
    BY <2>7, <2>8
<1>4. 0..radius+1 \subseteq T
  <2>1. radius + 1 \in Nat
    OBVIOUS
  <2>2. \A n \in 1..radius+1 : n - 1 \in T => n \in T
    BY <1>3
  <2> HIDE DEF T
  <2> QED
    BY <1>2, <2>1, <2>2, UpTo
<1> QED
  BY <1>4 DEF H

Eighths(x, y) == {x, -x} \X {y, -y} \cup {y, -y} \X {x, -x}

LEMMA OutlineIs ==
  ASSUME NEW radius \in Nat, radius > 0
  PROVE  Outline(radius) =
           UNION {Eighths(x, Height(radius, x)) :
                    x \in {i \in 0..radius+1 : Height(radius, i) >= i}}
BY DEF Outline, Height, Eighths

\* The circle is a circle,
LEMMA OutlineRound ==
  ASSUME NEW radius \in Nat, radius > 0, NEW p \in Outline(radius)
  PROVE  /\ p \in ((-radius)..radius) \X ((-radius)..radius)
         /\ Abs(Sq(p[1]) + Sq(p[2]) - Sq(radius)) < radius
         /\ p \in Disc(radius)
<1>1. PICK x \in 0..radius+1 :
        Height(radius, x) >= x /\ p \in Eighths(x, Height(radius, x))
  BY OutlineIs
<1> DEFINE y == Height(radius, x)
           a == p[1]
           b == p[2]
<1>2. y \in Int /\ x <= y
  BY <1>1, Heights
<1>3. HeightTrue(radius, x, y)
  BY <1>1, <1>2, HeightBounds
<1> HIDE DEF y
<1>4. \/ a \in {x, -x} /\ b \in {y, -y}
      \/ a \in {y, -y} /\ b \in {x, -x}
  BY <1>1 DEF Eighths, y
<1>5. p = <<a, b>> /\ a \in Int /\ b \in Int
  BY <1>1, <1>2 DEF Eighths, y
<1> HIDE DEF a, b
<1>6. /\ y <= radius /\ -y <= Sq(x) + Sq(y) - Sq(radius)
      /\ Sq(x) + Sq(y) - Sq(radius) <= y - 1
  BY <1>3 DEF HeightTrue
<1>7. /\ Sq(a) + Sq(b) = Sq(x) + Sq(y) /\ Sq(x) \in Nat /\ Sq(y) \in Nat
      /\ Sq(radius) \in Nat
  <2>1. \A n \in Int : Sq(-n) = Sq(n)
    BY DEF Sq
  <2>2. \A n \in Nat : Sq(n) \in Nat
    BY DEF Sq
  <2>3. x \in Nat /\ y \in Nat
    BY <1>2
  <2>4. \/ Sq(a) = Sq(x) /\ Sq(b) = Sq(y)
        \/ Sq(a) = Sq(y) /\ Sq(b) = Sq(x)
    BY <1>4, <2>1, <2>3
  <2> QED
    BY <2>2, <2>3, <2>4
<1>8. Abs(Sq(a) + Sq(b) - Sq(radius)) < radius
  <2> DEFINE e == Sq(x) + Sq(y) - Sq(radius)
  <2>1. e \in Int /\ -y <= e /\ e <= y - 1
    BY <1>6, <1>7
  <2>2. y = radius => e >= 0
    BY <1>7
  <2>3. Sq(a) + Sq(b) - Sq(radius) = e
    <3>1. Sq(a) \in Int /\ Sq(b) \in Int
      BY <1>5 DEF Sq
    <3> QED
      BY <1>7, <3>1
  <2> HIDE DEF e
  <2>4. e < radius /\ -radius < e
    BY <1>2, <1>6, <2>1, <2>2
  <2> QED
    BY <2>1, <2>3, <2>4 DEF Abs
<1>9. -radius <= a /\ a <= radius /\ -radius <= b /\ b <= radius
  BY <1>2, <1>4, <1>6
<1>10. Sq(a) + Sq(b) <= Sq(radius) + radius
  BY <1>2, <1>6, <1>7
<1>11. <<a, b>> \in Disc(radius)
  BY <1>5, <1>9, <1>10, DiscCovers
<1> QED
  BY <1>5, <1>8, <1>9, <1>11 DEF a, b

\* without a gap.
LEMMA OutlineWhole ==
  ASSUME NEW radius \in Nat, radius > 0, NEW n \in (-radius)..radius
  PROVE  \E p, q \in Outline(radius) : p[1] = n /\ q[2] = n
<1> DEFINE H(x) == Height(radius, x)
           m == Abs(n)
<1>1. m \in 0..radius /\ n \in {m, -m}
  BY DEF Abs
<1> HIDE DEF m
<1>2. H(0) = radius /\ \A x \in 0..radius+1 : H(x) \in Int
  BY Heights
<1>3. ASSUME NEW x \in 0..radius+1, H(x) >= x
      PROVE  Eighths(x, H(x)) \subseteq Outline(radius)
  BY <1>3, OutlineIs
<1>4. CASE H(m) >= m
  <2>1. Eighths(m, H(m)) \subseteq Outline(radius)
    BY <1>1, <1>3, <1>4
  <2>2. <<n, H(m)>> \in Eighths(m, H(m)) /\ <<H(m), n>> \in Eighths(m, H(m))
    <3> HIDE DEF H
    <3> QED
      BY <1>1 DEF Eighths
  <2>3. <<n, H(m)>>[1] = n /\ <<H(m), n>>[2] = n
    OBVIOUS
  <2> QED
    BY <2>1, <2>2, <2>3
<1>5. CASE H(m) < m
  <2>1. \E x \in 0..m-1 : H(x) = m
    <3> DEFINE f == [x \in 0..radius+1 |-> H(x)]
    <3>1. 0 \in Nat /\ m \in Nat /\ m \in Int /\ 0 <= m
      BY <1>1
    <3>2. \A x \in 0..m : f[x] \in Int
      <4> HIDE DEF H
      <4> QED
        BY <1>1, <1>2
    <3>3. ASSUME NEW x \in 0+1..m
          PROVE  f[x - 1] <= f[x] + 1
      <4>1. x \in 1..radius+1 /\ x - 1 \in 0..radius+1 /\ x \in 0..radius+1
        BY <1>1
      <4>2. H(x - 1) <= H(x) + 1
        BY <4>1, HeightFalls
      <4> HIDE DEF H
      <4> QED
        BY <4>1, <4>2
    <3>4. f[0] >= m /\ f[m] < m
      <4>1. 0 \in 0..radius+1 /\ m \in 0..radius+1 /\ radius >= m
        BY <1>1
      <4> HIDE DEF H
      <4>2. f[0] = H(0) /\ f[m] = H(m)
        BY <4>1
      <4>3. H(0) = radius /\ H(m) \in Int
        BY <1>2, <4>1
      <4> HIDE DEF f
      <4> QED
        BY <1>5, <4>1, <4>2, <4>3
    <3> HIDE DEF f
    <3>5. PICK x \in 0..m-1 : f[x] = m
      <4>1. FallsBelow(f, 0, m, m)
        BY <3>1, <3>2, <3>3, <3>4 DEF FallsBelow
      <4> QED
        BY <3>1, <4>1, Passes
    <3>6. x \in 0..radius+1
      BY <1>1
    <3> QED
      BY <3>5, <3>6 DEF f
  <2>2. PICK x \in 0..m-1 : H(x) = m
    BY <2>1
  <2>3. x \in 0..radius+1 /\ H(x) >= x
    <3> HIDE DEF H
    <3> QED
      BY <1>1, <2>2
  <2>4. Eighths(x, m) \subseteq Outline(radius)
    BY <1>3, <2>2, <2>3
  <2>5. <<n, x>> \in Eighths(x, m) /\ <<x, n>> \in Eighths(x, m)
    BY <1>1 DEF Eighths
  <2>6. <<n, x>>[1] = n /\ <<x, n>>[2] = n
    OBVIOUS
  <2> QED
    BY <2>4, <2>5, <2>6
<1> QED
  <2> HIDE DEF H
  <2> QED
    BY <1>1, <1>2, <1>4, <1>5

-----------------------------------------------------------------------------
(* What is drawn at offsets from a point. *)

\* A pixel of the back buffer is drawn if and where it is on the screen.
LEMMA DrawIs ==
  ASSUME NEW x \in Ints, NEW y \in Ints
  PROVE  draw(x, y) = IF <<x, y>> \in Screen THEN {PlaceOf(1, x, y)} ELSE {}
<1>1. ASSUME NEW n \in Ints, NEW limit \in Nat, limit > 0, 2 * limit <= WordMod
      PROVE  /\ Unsigned(n) < limit => n \in 0..limit-1
             /\ n \in 0..limit-1 => Unsigned(n) = n
  <2>1. /\ n \in Int /\ WordMod \in Nat \ {0}
        /\ -(WordMod \div 2) <= n /\ n <= WordMod \div 2 - 1
    BY ScreenSizes DEF Ints
  <2>2. n >= 0 => n % WordMod = n
    BY <2>1
  <2>3. n < 0 => n % WordMod = n + WordMod
    BY <2>1
  <2> QED
    BY <1>1, <2>1, <2>2, <2>3 DEF Unsigned
<1>2. /\ x_resolution \in Nat /\ x_resolution > 0 /\ 2 * x_resolution <= WordMod
      /\ y_resolution \in Nat /\ y_resolution > 0 /\ 2 * y_resolution <= WordMod
  BY ScreenSizes
<1>3. /\ Unsigned(x) < x_resolution => x \in 0..x_resolution-1
      /\ x \in 0..x_resolution-1 => Unsigned(x) = x
      /\ Unsigned(y) < y_resolution => y \in 0..y_resolution-1
      /\ y \in 0..y_resolution-1 => Unsigned(y) = y
  BY <1>1, <1>2
<1>4. Unsigned(x) \in Int /\ Unsigned(y) \in Int
  <2>1. x \in Int /\ y \in Int /\ WordMod \in Nat \ {0}
    BY ScreenSizes DEF Ints
  <2> QED
    BY <2>1 DEF Unsigned
<1>5. CASE <<x, y>> \in Screen
  <2>1. x \in 0..x_resolution-1 /\ y \in 0..y_resolution-1
    BY <1>5 DEF Screen
  <2>2. Unsigned(x) = x /\ Unsigned(y) = y
    BY <1>3, <2>1
  <2>3. x % x_coord_mask = x /\ y % y_coord_mask = y
    <3>1. /\ x_coord_mask \in Int /\ y_coord_mask \in Int /\ x \in Nat /\ y \in Nat
          /\ x < x_coord_mask /\ y < y_coord_mask
      BY <2>1, ScreenSizes
    <3> QED
      BY <3>1, Within
  <2>4. draw(x, y) = {Address(back_buffer_start_address, x, y)}
    BY <1>2, <2>1, <2>2, <2>3 DEF draw
  <2>5. Address(Start(1), x, y) = PlaceOf(1, x, y)
    BY <2>1, PixelAddress
  <2> QED
    BY <1>5, <2>4, <2>5 DEF Start
<1>6. CASE <<x, y>> \notin Screen
  <2>1. ~(x \in 0..x_resolution-1 /\ y \in 0..y_resolution-1)
    BY <1>6 DEF Screen
  <2>2. Unsigned(x) >= x_resolution \/ Unsigned(y) >= y_resolution
    BY <1>2, <1>3, <1>4, <2>1
  <2> QED
    BY <1>6, <2>2 DEF draw
<1> QED
  BY <1>5, <1>6

\* So a figure is moved to the point and cut at the edges of the screen.
LEMMA PlotIs ==
  ASSUME NEW x \in Int, NEW y \in Int, NEW offsets \in SUBSET (Int \X Int),
         \A d \in offsets : x + d[1] \in Ints /\ y + d[2] \in Ints
  PROVE  Plot(x, y, offsets) = Picture(Moved(offsets, x, y), 1)
<1> DEFINE M == Moved(offsets, x, y)
<1>1. Picture(M, 1) = {PlaceOf(1, p[1], p[2]) : p \in M \cap Screen}
  BY PictureIs
<1>2. ASSUME NEW d \in offsets
      PROVE  /\ <<x + d[1], y + d[2]>> \in M
             /\ draw(x + d[1], y + d[2]) = IF <<x + d[1], y + d[2]>> \in Screen
                                           THEN {PlaceOf(1, x + d[1], y + d[2])} ELSE {}
  <2>1. x + d[1] \in Ints /\ y + d[2] \in Ints
    OBVIOUS
  <2>2. d[1] + x = x + d[1] /\ d[2] + y = y + d[2]
    OBVIOUS
  <2>3. <<x + d[1], y + d[2]>> \in M
    BY <2>2 DEF Moved
  <2> DEFINE px == x + d[1]
             py == y + d[2]
  <2>4. px \in Ints /\ py \in Ints
    BY <2>1
  <2> HIDE DEF px, py
  <2>5. draw(px, py) = IF <<px, py>> \in Screen THEN {PlaceOf(1, px, py)} ELSE {}
    BY <2>4, DrawIs
  <2> QED
    BY <2>3, <2>5 DEF px, py
<1>3. ASSUME NEW p \in M
      PROVE  \E d \in offsets : p = <<x + d[1], y + d[2]>>
  <2>1. PICK d \in offsets : p = <<d[1] + x, d[2] + y>>
    BY DEF Moved
  <2>2. d[1] + x = x + d[1] /\ d[2] + y = y + d[2]
    OBVIOUS
  <2> QED
    BY <2>1, <2>2
<1> HIDE DEF M
<1>5. ASSUME NEW a \in Plot(x, y, offsets)
      PROVE  a \in Picture(M, 1)
  <2>1. PICK d \in offsets : a \in draw(x + d[1], y + d[2])
    BY DEF Plot
  <2> DEFINE p == <<x + d[1], y + d[2]>>
  <2>2. p \in M /\ p \in Screen /\ a = PlaceOf(1, p[1], p[2])
    BY <1>2, <2>1
  <2> HIDE DEF p
  <2> QED
    BY <1>1, <2>2
<1>6. ASSUME NEW a \in Picture(M, 1)
      PROVE  a \in Plot(x, y, offsets)
  <2>1. PICK p \in M \cap Screen : a = PlaceOf(1, p[1], p[2])
    BY <1>1
  <2>2. PICK d \in offsets : p = <<x + d[1], y + d[2]>>
    BY <1>3, <2>1
  <2>3. a \in draw(x + d[1], y + d[2])
    BY <1>2, <2>1, <2>2
  <2> QED
    BY <2>3 DEF Plot
<1> QED
  BY <1>5, <1>6 DEF M

-----------------------------------------------------------------------------
(* Circles. *)

\* What CirclesRound says of a circle that was drawn around (x, y).
CircleRound(x, y, radius, fill, addresses) ==
  LET points  == IF fill = 1 THEN Disc(radius) ELSE Outline(radius)
      Square(p) == p[1] * p[1] + p[2] * p[2]
      within == (-radius)..radius
  IN  /\ addresses = Picture(Moved(points, x, y), 1)
      /\ fill = 1 =>
           /\ {p \in within \X within : Square(p) <= radius * (radius + 1)} \subseteq points
           /\ radius > 0 =>
                \A p \in points : Square(p) < (radius + 1) * (radius + 1)
      /\ fill = 0 /\ radius > 0 =>
           /\ \A p \in points : Abs(Square(p) - radius * radius) < radius
           /\ \A n \in within : \E p, q \in points : p[1] = n /\ q[2] = n
           /\ points \subseteq Disc(radius)

\* It is true of every circle whose edges are ints.
LEMMA CircleIsRound ==
  ASSUME NEW x \in Int, NEW y \in Int, NEW radius \in Nat, NEW fill \in {0, 1},
         \A n \in {-radius, radius} : x + n \in Ints /\ y + n \in Ints
  PROVE  CircleRound(x, y, radius, fill, vid_draw_circle(x, y, radius, fill))
<1> DEFINE points  == IF fill = 1 THEN Disc(radius) ELSE Outline(radius)
           Square(p) == p[1] * p[1] + p[2] * p[2]
           within == (-radius)..radius
           addresses == vid_draw_circle(x, y, radius, fill)
<1>1. points \subseteq within \X within
  <2>1. Disc(radius) \subseteq within \X within
    BY DiscWithin
  <2>2. CASE radius = 0
    <3>1. Outline(radius) = {}
      BY <2>2 DEF Outline
    <3> HIDE DEF within
    <3> QED
      BY <2>1, <3>1
  <2>3. CASE radius > 0
    <3>1. Outline(radius) \subseteq within \X within
      BY <2>3, OutlineRound
    <3> HIDE DEF within
    <3> QED
      BY <2>1, <3>1
  <2> QED
    BY <2>2, <2>3
<1>2. addresses = Picture(Moved(points, x, y), 1)
  <2>1. addresses = Plot(x, y, points)
    BY DEF vid_draw_circle
  <2>2. \A n \in within : x + n \in Ints /\ y + n \in Ints
    <3> DEFINE h == WordMod \div 2
    <3>1. h \in Int
      BY ScreenSizes
    <3>2. Ints = -h..h - 1
      BY DEF Ints
    <3> HIDE DEF h
    <3> QED
      BY <3>1, <3>2
  <2>3. points \in SUBSET (Int \X Int)
    BY <1>1
  <2> HIDE DEF points, addresses, within
  <2>4. \A d \in points : x + d[1] \in Ints /\ y + d[2] \in Ints
    BY <1>1, <2>2
  <2> QED
    BY <2>1, <2>3, <2>4, PlotIs
<1>3. ASSUME fill = 1, NEW p \in within \X within, Square(p) <= radius * (radius + 1)
      PROVE  p \in points
  <2> DEFINE a == p[1]
             b == p[2]
  <2>1. /\ a \in Int /\ b \in Int /\ -radius <= a /\ a <= radius
        /\ -radius <= b /\ b <= radius /\ p = <<a, b>>
    OBVIOUS
  <2>2. Sq(a) + Sq(b) <= Sq(radius) + radius
    <3>1. radius * (radius + 1) = radius * radius + radius
      OBVIOUS
    <3> QED
      BY <1>3, <3>1 DEF Sq
  <2> HIDE DEF a, b
  <2>3. <<a, b>> \in Disc(radius)
    BY <2>1, <2>2, DiscCovers
  <2> QED
    BY <1>3, <2>1, <2>3
<1>4. ASSUME fill = 1, radius > 0, NEW p \in points
      PROVE  Square(p) < (radius + 1) * (radius + 1)
  <2>1. Sq(p[1]) + Sq(p[2]) < Sq(radius + 1)
    BY <1>4, DiscWithin
  <2> QED
    BY <2>1 DEF Sq
<1>5. ASSUME fill = 0, radius > 0
      PROVE  /\ \A p \in points : Abs(Square(p) - radius * radius) < radius
             /\ \A n \in within : \E p, q \in points : p[1] = n /\ q[2] = n
             /\ points \subseteq Disc(radius)
  <2>1. points = Outline(radius)
    BY <1>5
  <2>2. ASSUME NEW p \in points
        PROVE  Abs(Square(p) - radius * radius) < radius
    <3>1. p \in Outline(radius)
      BY <2>1
    <3>2. Abs(Sq(p[1]) + Sq(p[2]) - Sq(radius)) < radius
      BY <1>5, <3>1, OutlineRound
    <3>3. Square(p) = Sq(p[1]) + Sq(p[2]) /\ radius * radius = Sq(radius)
      BY DEF Sq
    <3>4. Sq(p[1]) \in Int /\ Sq(p[2]) \in Int /\ Sq(radius) \in Int
      BY <1>1 DEF Sq
    <3>5. Square(p) - radius * radius = Sq(p[1]) + Sq(p[2]) - Sq(radius)
      <4> HIDE DEF Square
      <4> QED
        BY <3>3, <3>4
    <3> QED
      BY <3>2, <3>5
  <2>3. points \subseteq Disc(radius)
    BY <1>5, <2>1, OutlineRound
  <2>4. \A n \in within : \E p, q \in points : p[1] = n /\ q[2] = n
    BY <1>5, <2>1, OutlineWhole
  <2> HIDE DEF points, within
  <2> QED
    BY <2>2, <2>3, <2>4
<1>6. fill = 1 => {p \in within \X within : Square(p) <= radius * (radius + 1)}
                    \subseteq points
  BY <1>3
<1>7. fill = 1 /\ radius > 0 =>
        \A p \in points : Square(p) < (radius + 1) * (radius + 1)
  BY <1>4
<1> QED
  BY <1>2, <1>5, <1>6, <1>7 DEF CircleRound

-----------------------------------------------------------------------------
(* Boxes. *)

LEMMA PictureOfScreen ==
  ASSUME NEW points, NEW b
  PROVE  Picture(points, b) \subseteq Picture(Screen, b)
BY DEF Picture

\* Boxes are cut at the edges of the screen, and fill what is left of them.
LEMMA FilledIs ==
  ASSUME NEW xs \in SUBSET (0..x_resolution-1), NEW ys \in SUBSET (0..y_resolution-1), NEW b
  PROVE  Filled(xs, ys, b) = Picture(xs \X ys, b)
<1>1. ASSUME NEW x \in xs, NEW y \in ys
      PROVE  Address(Start(b), x, y) = PlaceOf(b, x, y)
  BY PixelAddress
<1>2. (xs \X ys) \cap Screen = xs \X ys
  BY DEF Screen
<1>3. Filled(xs, ys, b) = {PlaceOf(b, x, y) : x \in xs, y \in ys}
  BY <1>1 DEF Filled
<1>4. Picture(xs \X ys, b) = {PlaceOf(b, p[1], p[2]) : p \in xs \X ys}
  BY <1>2, PictureIs
<1> DEFINE A == {PlaceOf(b, x, y) : x \in xs, y \in ys}
           B == {PlaceOf(b, p[1], p[2]) : p \in xs \X ys}
<1>5. ASSUME NEW a \in A
      PROVE  a \in B
  <2>1. PICK x \in xs, y \in ys : a = PlaceOf(b, x, y)
    OBVIOUS
  <2>2. <<x, y>> \in xs \X ys /\ <<x, y>>[1] = x /\ <<x, y>>[2] = y
    OBVIOUS
  <2> QED
    BY <2>1, <2>2
<1>6. ASSUME NEW a \in B
      PROVE  a \in A
  <2>1. PICK p \in xs \X ys : a = PlaceOf(b, p[1], p[2])
    OBVIOUS
  <2>2. p[1] \in xs /\ p[2] \in ys
    OBVIOUS
  <2> QED
    BY <2>1, <2>2
<1>7. Filled(xs, ys, b) = A /\ Picture(xs \X ys, b) = B
  BY <1>3, <1>4
<1> HIDE DEF A, B
<1> QED
  BY <1>5, <1>6, <1>7

LEMMA UnsignedOf ==
  ASSUME NEW n \in Ints
  PROVE  Unsigned(n) \in Nat /\ (n >= 0 => Unsigned(n) = n)
<1>1. n \in Int /\ WordMod \in Nat \ {0} /\ n <= WordMod \div 2 - 1
  BY ScreenSizes DEF Ints
<1>2. n >= 0 => n % WordMod = n
  BY <1>1
<1> QED
  BY <1>1, <1>2 DEF Unsigned

LEMMA ExtentIs ==
  ASSUME NEW m \in Ints, NEW n \in Ints, NEW limit \in Nat \ {0}
  PROVE  /\ Extent(m, n, limit) \subseteq 0..limit-1
         /\ m >= 0 /\ n >= 0 => Extent(m, n, limit) = Between(m, n) \cap 0..limit-1
<1> DEFINE u == Unsigned(m)
           v == Unsigned(n)
           low  == IF u > v THEN v ELSE u
           high == IF u > v THEN u ELSE v
<1>1. u \in Nat /\ v \in Nat /\ (m >= 0 => u = m) /\ (n >= 0 => v = n)
  BY UnsignedOf
<1>2. Extent(m, n, limit) = IF low >= limit THEN {}
                            ELSE low..(IF high >= limit THEN limit - 1 ELSE high)
  BY DEF Extent
<1> HIDE DEF u, v
<1>3. low \in Nat /\ high \in Nat /\ low <= high
  BY <1>1
<1>4. m >= 0 /\ n >= 0 => Between(m, n) = low..high
  <2>1. m \in Int /\ n \in Int
    BY ScreenSizes DEF Ints
  <2> QED
    BY <1>1, <2>1 DEF Between
<1> HIDE DEF low, high
<1>5. Extent(m, n, limit) = low..high \cap 0..limit-1
  BY <1>2, <1>3
<1> QED
  BY <1>4, <1>5

\* The four functions, with the figure each of them draws.
FigureTrue(addresses, points, x0, y0, x1, y1, b) ==
  /\ addresses \subseteq Picture(Screen, b)
  /\ x0 >= 0 /\ y0 >= 0 /\ x1 >= 0 /\ y1 >= 0 => addresses = Picture(points, b)

LEMMA BoxIs ==
  ASSUME NEW x0 \in Ints, NEW y0 \in Ints, NEW x1 \in Ints, NEW y1 \in Ints, NEW b
  PROVE  FigureTrue(draw_box(x0, y0, x1, y1, b), Between(x0, x1) \X Between(y0, y1),
                    x0, y0, x1, y1, b)
<1> DEFINE xs == Extent(x0, x1, x_resolution)
           ys == Extent(y0, y1, y_resolution)
<1>1. /\ x_resolution \in Nat \ {0} /\ y_resolution \in Nat \ {0}
  BY ScreenSizes
<1>2. xs \in SUBSET (0..x_resolution-1) /\ ys \in SUBSET (0..y_resolution-1)
  BY <1>1, ExtentIs
<1>3. /\ x0 >= 0 /\ x1 >= 0 => xs = Between(x0, x1) \cap 0..x_resolution-1
      /\ y0 >= 0 /\ y1 >= 0 => ys = Between(y0, y1) \cap 0..y_resolution-1
  BY <1>1, ExtentIs
<1>4. draw_box(x0, y0, x1, y1, b) = Filled(xs, ys, b)
  BY DEF draw_box
<1> HIDE DEF xs, ys
<1>5. draw_box(x0, y0, x1, y1, b) = Picture(xs \X ys, b)
  <2>1. Filled(xs, ys, b) = Picture(xs \X ys, b)
    BY <1>2, FilledIs
  <2> QED
    BY <1>4, <2>1
<1>6. ASSUME x0 >= 0, y0 >= 0, x1 >= 0, y1 >= 0
      PROVE  Picture(xs \X ys, b) = Picture(Between(x0, x1) \X Between(y0, y1), b)
  <2>1. (xs \X ys) \cap Screen = (Between(x0, x1) \X Between(y0, y1)) \cap Screen
    BY <1>3, <1>6 DEF Screen
  <2> QED
    BY <2>1 DEF Picture
<1> QED
  BY <1>5, <1>6, PictureOfScreen DEF FigureTrue

LEMMA LinesAreBoxes ==
  ASSUME NEW x0, NEW y0, NEW x1, NEW y1, NEW b
  PROVE  /\ draw_hline(x0, x1, y0, b) = draw_box(x0, y0, x1, y0, b)
         /\ draw_vline(x0, y0, y1, b) = draw_box(x0, y0, x0, y1, b)
BY DEF draw_hline, draw_vline, draw_box

PictureOfBoth(U, V, b) == Picture(U \cup V, b) = Picture(U, b) \cup Picture(V, b)

LEMMA PictureJoins ==
  ASSUME NEW U, NEW V, NEW b
  PROVE  PictureOfBoth(U, V, b)
<1> DEFINE At(p) == master_address(Start(b), p[2], p[1])
<1>1. ASSUME NEW W
      PROVE  Picture(W, b) = {At(p) : p \in W \cap Screen}
  BY DEF Picture
<1>2. {At(p) : p \in (U \cup V) \cap Screen}
        = {At(p) : p \in U \cap Screen} \cup {At(p) : p \in V \cap Screen}
  <2> HIDE DEF At
  <2> QED
    OBVIOUS
<1> HIDE DEF At
<1> QED
  BY <1>1, <1>2 DEF PictureOfBoth

LEMMA RectangleIs ==
  ASSUME NEW x0 \in Ints, NEW y0 \in Ints, NEW x1 \in Ints, NEW y1 \in Ints, NEW b
  PROVE  FigureTrue(draw_rectangle(x0, y0, x1, y1, b),
                    {p \in Between(x0, x1) \X Between(y0, y1) :
                       p[1] \in {x0, x1} \/ p[2] \in {y0, y1}},
                    x0, y0, x1, y1, b)
<1> DEFINE top    == Between(x0, x1) \X Between(y0, y0)
           bottom == Between(x0, x1) \X Between(y1, y1)
           left   == Between(x0, x0) \X Between(y0, y1)
           right  == Between(x1, x1) \X Between(y0, y1)
           edges == {p \in Between(x0, x1) \X Between(y0, y1) :
                       p[1] \in {x0, x1} \/ p[2] \in {y0, y1}}
<1>1. draw_rectangle(x0, y0, x1, y1, b)
        = draw_box(x0, y0, x1, y0, b) \cup draw_box(x0, y1, x1, y1, b)
            \cup draw_box(x0, y0, x0, y1, b) \cup draw_box(x1, y0, x1, y1, b)
  BY LinesAreBoxes DEF draw_rectangle
<1>2. /\ FigureTrue(draw_box(x0, y0, x1, y0, b), top, x0, y0, x1, y0, b)
      /\ FigureTrue(draw_box(x0, y1, x1, y1, b), bottom, x0, y1, x1, y1, b)
      /\ FigureTrue(draw_box(x0, y0, x0, y1, b), left, x0, y0, x0, y1, b)
      /\ FigureTrue(draw_box(x1, y0, x1, y1, b), right, x1, y0, x1, y1, b)
  BY BoxIs
<1> HIDE DEF top, bottom, left, right, edges
<1>3. draw_rectangle(x0, y0, x1, y1, b) \subseteq Picture(Screen, b)
  BY <1>1, <1>2 DEF FigureTrue
<1>4. ASSUME x0 >= 0, y0 >= 0, x1 >= 0, y1 >= 0
      PROVE  draw_rectangle(x0, y0, x1, y1, b) = Picture(edges, b)
  <2>1. draw_rectangle(x0, y0, x1, y1, b)
          = Picture(top, b) \cup Picture(bottom, b) \cup Picture(left, b)
              \cup Picture(right, b)
    BY <1>1, <1>2, <1>4 DEF FigureTrue
  <2>2. edges = top \cup bottom \cup left \cup right
    <3> USE DEF edges, top, bottom, left, right
    <3>1. \A n \in Ints : n \in Int
      BY ScreenSizes DEF Ints
    <3>2. /\ Between(x0, x0) = {x0} /\ Between(x1, x1) = {x1}
          /\ Between(y0, y0) = {y0} /\ Between(y1, y1) = {y1}
      BY <3>1 DEF Between
    <3>3. /\ x0 \in Between(x0, x1) /\ x1 \in Between(x0, x1)
          /\ y0 \in Between(y0, y1) /\ y1 \in Between(y0, y1)
      BY <3>1 DEF Between
    <3> QED
      BY <3>2, <3>3
  <2>3. /\ PictureOfBoth(top \cup bottom \cup left, right, b)
        /\ PictureOfBoth(top \cup bottom, left, b)
        /\ PictureOfBoth(top, bottom, b)
    BY PictureJoins
  <2> QED
    BY <2>1, <2>2, <2>3 DEF PictureOfBoth
<1> QED
  BY <1>3, <1>4 DEF FigureTrue, edges

-----------------------------------------------------------------------------
(* Clearing. *)

\* The words of two pixels cover the screen, and nothing beyond it.
LEMMA ClearIs ==
  ASSUME NEW b
  PROVE  clear_screen(b) = Picture(Screen, b)
<1> DEFINE W(y, x) == LET word == (Start(b) + y * 2^y_coord_offset + x) % WordMod
                      IN  {word, word + 2}
           Lefts == {i \in 0..2*x_resolution-1 : i % 4 = 0}
           m == x_resolution
<1>1. /\ m \in Nat \ {0} /\ m % 2 = 0
      /\ x_coord_mask \in Nat /\ Start(b) \in Nat
  BY ScreenSizes, CallsAssumption DEF CallsAssumption
<1>2. ASSUME NEW x \in Lefts
      PROVE  /\ x \div 2 \in 0..m-1 /\ x \div 2 + 1 \in 0..m-1 /\ x = (x \div 2) * 2
  <2>1. x \in 0..2*m-1 /\ x % 4 = 0
    OBVIOUS
  <2> HIDE DEF m
  <2>2. PICK k \in Nat : x = 4 * k
    <3>1. x \div 4 \in Nat /\ x = 4 * (x \div 4)
      BY <1>1, <2>1
    <3> QED
      BY <3>1
  <2>3. PICK j \in Nat : m = 2 * j
    <3>1. m \div 2 \in Nat /\ m = 2 * (m \div 2)
      BY <1>1
    <3> QED
      BY <3>1
  <2> QED
    BY <1>1, <2>1, <2>2, <2>3
<1>3. ASSUME NEW y \in 0..y_resolution-1, NEW x \in Lefts
      PROVE  W(y, x) = {PlaceOf(b, x \div 2, y), PlaceOf(b, x \div 2 + 1, y)}
  <2> DEFINE px == x \div 2
  <2>1. px \in 0..m-1 /\ px + 1 \in 0..m-1 /\ x = px * 2
    BY <1>2
  <2>2. x_coord_offset = 1 /\ 2^1 = 2
    BY DEF x_coord_offset
  <2> HIDE DEF px
  <2>3. Address(Start(b), px, y) = (Start(b) + y * 2^y_coord_offset + x) % WordMod
    BY <2>1, <2>2 DEF Address
  <2>4. Address(Start(b), px, y) = PlaceOf(b, px, y)
    BY <2>1, PixelAddress
  <2>5. PlaceOf(b, px, y) + 2 = PlaceOf(b, px + 1, y)
    <3> DEFINE pa == y * x_coord_mask
    <3>1. pa \in Int /\ px \in Int
      BY <1>1, <2>1, ScreenSizes
    <3> HIDE DEF pa
    <3>2. Start(b) + (pa + px) * 2 + 2 = Start(b) + (pa + (px + 1)) * 2
      BY <1>1, <3>1
    <3> QED
      BY <3>2 DEF PlaceOf, pa
  <2> QED
    BY <2>3, <2>4, <2>5 DEF px
<1>4. ASSUME NEW px \in 0..m-1
      PROVE  \E x \in Lefts : px \in {x \div 2, x \div 2 + 1}
  <2> DEFINE k == px \div 2
             x == 4 * k
  <2>1. k \in Nat /\ px \in {2 * k, 2 * k + 1}
    BY <1>1
  <2> HIDE DEF k
  <2>2. x \in Nat /\ x % 4 = 0 /\ x \div 2 = 2 * k /\ x <= 2 * px
    BY <2>1
  <2>3. x \in Lefts
    BY <1>1, <2>2
  <2> QED
    BY <2>1, <2>2, <2>3
<1>5. clear_screen(b) = UNION {W(y, x) : y \in 0..y_resolution-1, x \in Lefts}
  BY DEF clear_screen
<1> HIDE DEF W, Lefts, m
<1>6. Picture(Screen, b) = {PlaceOf(b, p[1], p[2]) : p \in Screen}
  BY PictureIs
<1>7. ASSUME NEW a \in clear_screen(b)
      PROVE  a \in Picture(Screen, b)
  <2>1. PICK y \in 0..y_resolution-1, x \in Lefts : a \in W(y, x)
    BY <1>5
  <2>2. PICK px \in 0..m-1 : a = PlaceOf(b, px, y)
    BY <1>2, <1>3, <2>1
  <2>3. <<px, y>> \in Screen
    BY <2>1, <2>2 DEF Screen, m
  <2> QED
    BY <1>6, <2>2, <2>3
<1>8. ASSUME NEW a \in Picture(Screen, b)
      PROVE  a \in clear_screen(b)
  <2>1. PICK p \in Screen : a = PlaceOf(b, p[1], p[2])
    BY <1>6
  <2>2. p[1] \in 0..m-1 /\ p[2] \in 0..y_resolution-1
    BY DEF Screen, m
  <2>3. PICK x \in Lefts : p[1] \in {x \div 2, x \div 2 + 1}
    BY <1>4, <2>2
  <2>4. a \in W(p[2], x)
    BY <1>3, <2>1, <2>2, <2>3
  <2> QED
    BY <1>5, <2>2, <2>4
<1> QED
  BY <1>7, <1>8

-----------------------------------------------------------------------------
(* Texts. *)

\* j is the last newline among the first i characters.
LastIs(string, i, j) ==
  /\ j \in 1..i /\ string[j] = Newline
  /\ \A k \in j+1..i : string[k] # Newline

\* LastNewline is the last newline, or there is none.
LastFound(string, i) ==
  LET j == LastNewline(string, i)
  IN  \/ j = 0 /\ \A k \in 1..i : string[k] # Newline
      \/ LastIs(string, i, j)

LEMMA LastChosen ==
  ASSUME NEW string, NEW i \in Nat, NEW j, LastIs(string, i, j)
  PROVE  LastNewline(string, i) = j
<1> DEFINE L == LastNewline(string, i)
<1>1. \E k \in 1..i : string[k] = Newline
  BY DEF LastIs
<1>2. L = CHOOSE k \in 1..i : /\ string[k] = Newline
                              /\ \A l \in k+1..i : string[l] # Newline
  BY <1>1 DEF LastNewline
<1>3. \E k \in 1..i : /\ string[k] = Newline
                      /\ \A l \in k+1..i : string[l] # Newline
  BY DEF LastIs
<1>4. /\ L \in 1..i /\ string[L] = Newline
      /\ \A k \in L+1..i : string[k] # Newline
  <2> HIDE DEF L
  <2> QED
    BY <1>2, <1>3
<1>5. /\ j \in 1..i /\ string[j] = Newline
      /\ \A k \in j+1..i : string[k] # Newline
  BY DEF LastIs
<1> HIDE DEF L
<1>6. ~(L < j) /\ ~(j < L)
  <2>1. L < j => j \in L+1..i
    BY <1>4, <1>5
  <2>2. j < L => L \in j+1..i
    BY <1>4, <1>5
  <2> QED
    BY <2>1, <2>2, <1>4, <1>5
<1>7. L = j
  BY <1>4, <1>5, <1>6
<1> QED
  BY <1>7 DEF L

\* With one more character the last newline is this one, or the one before.
LEMMA LastMoves ==
  ASSUME NEW string, NEW i \in Nat \ {0}, LastFound(string, i - 1)
  PROVE  /\ LastFound(string, i)
         /\ LastNewline(string, i) = IF string[i] = Newline THEN i
                                     ELSE LastNewline(string, i - 1)
<1> DEFINE before == LastNewline(string, i - 1)
<1>1. i - 1 \in Nat /\ 1..i = (1..i-1) \cup {i} /\ i + 1 \in Nat
  OBVIOUS
<1>2. CASE string[i] = Newline
  <2>1. LastIs(string, i, i)
    BY <1>2 DEF LastIs
  <2>2. LastNewline(string, i) = i
    BY <2>1, LastChosen
  <2> QED
    BY <1>2, <2>1, <2>2 DEF LastFound
<1>3. CASE string[i] # Newline /\ LastIs(string, i - 1, before)
  <2>1. /\ before \in 1..i-1 /\ string[before] = Newline
        /\ \A k \in before+1..i-1 : string[k] # Newline
    BY <1>3 DEF LastIs
  <2> HIDE DEF before
  <2>2. \A k \in before+1..i : k = i \/ k \in before+1..i-1
    BY <2>1
  <2>3. LastIs(string, i, before)
    BY <1>1, <1>3, <2>1, <2>2 DEF LastIs
  <2>4. LastNewline(string, i) = before
    BY <2>3, LastChosen
  <2> QED
    BY <1>3, <2>3, <2>4 DEF LastFound, before
<1>4. CASE string[i] # Newline /\ ~LastIs(string, i - 1, before)
  <2>1. before = 0 /\ \A k \in 1..i-1 : string[k] # Newline
    BY <1>4 DEF LastFound
  <2>2. \A k \in 1..i : string[k] # Newline
    BY <1>1, <1>4, <2>1
  <2>3. LastNewline(string, i) = 0
    BY <2>2 DEF LastNewline
  <2> QED
    BY <1>4, <2>1, <2>2, <2>3 DEF LastFound
<1> QED
  BY <1>2, <1>3, <1>4

LEMMA LastAlwaysFound ==
  ASSUME NEW string, NEW N \in Nat
  PROVE  \A i \in 0..N : LastFound(string, i)
<1> DEFINE T == {i \in 0..N : LastFound(string, i)}
<1>1. 0 \in T
  <2>1. LastNewline(string, 0) = 0
    BY DEF LastNewline
  <2> QED
    BY <2>1 DEF LastFound
<1>2. ASSUME NEW n \in 1..N, n - 1 \in T
      PROVE  n \in T
  BY <1>2, LastMoves
<1> HIDE DEF T
<1>3. 0..N \subseteq T
  BY <1>1, <1>2, UpTo
<1> QED
  BY <1>3 DEF T

\* Lines are counted one at a time.
LEMMA TextLines ==
  ASSUME NEW string, NEW i \in Nat
  PROVE  /\ TextLine(string, i) \in 0..i
         /\ i = 0 => TextLine(string, i) = 0
         /\ i > 0 => TextLine(string, i) = IF string[i] = Newline
                                           THEN TextLine(string, i - 1) + 1
                                           ELSE TextLine(string, i - 1)
<1> DEFINE S(n) == {j \in 1..n : string[j] = Newline}
<1>1. ASSUME NEW n \in Nat
      PROVE  IsFiniteSet(S(n)) /\ Cardinality(S(n)) \in 0..n
  <2>1. IsFiniteSet(1..n) /\ Cardinality(1..n) = n
    BY FS_Interval
  <2>2. S(n) \in SUBSET (1..n)
    OBVIOUS
  <2> HIDE DEF S
  <2>3. IsFiniteSet(S(n)) /\ Cardinality(S(n)) <= Cardinality(1..n)
    BY <2>1, <2>2, FS_Subset
  <2>4. Cardinality(S(n)) \in Nat
    BY <2>3, FS_CardinalityType
  <2> QED
    BY <2>1, <2>3, <2>4
<1>2. i = 0 => S(i) = {}
  OBVIOUS
<1>3. ASSUME i > 0
      PROVE  Cardinality(S(i)) = IF string[i] = Newline THEN Cardinality(S(i - 1)) + 1
                                 ELSE Cardinality(S(i - 1))
  <2>1. i - 1 \in Nat /\ 1..i = (1..i-1) \cup {i} /\ i \notin 1..i-1
    BY <1>3
  <2>2. CASE string[i] = Newline
    <3>1. S(i) = S(i - 1) \cup {i} /\ i \notin S(i - 1)
      BY <2>1, <2>2
    <3>2. IsFiniteSet(S(i - 1))
      BY <1>1, <2>1
    <3> HIDE DEF S
    <3> QED
      BY <2>2, <3>1, <3>2, FS_AddElement
  <2>3. CASE string[i] # Newline
    <3>1. S(i) = S(i - 1)
      BY <2>1, <2>3
    <3> QED
      BY <2>3, <3>1
  <2> QED
    BY <2>2, <2>3
<1>4. \A n : TextLine(string, n) = Cardinality(S(n))
  BY DEF TextLine
<1> HIDE DEF S
<1> QED
  BY <1>1, <1>2, <1>3, <1>4, FS_EmptySet

\* Where a character belongs: after those that stand before it in its line.
PlaceIn(x, y, string, i) ==
  <<x + (i - LastNewline(string, i) - 1) * CharWidth,
    y + TextLine(string, i) * LineHeight>>

\* A newline is put where the next character of its line would be.
PlaceAfter(x, y, string, i) ==
  <<x + (i - LastNewline(string, i)) * CharWidth,
    y + TextLine(string, i) * LineHeight>>

LEMMA FirstPlaceIs ==
  ASSUME NEW x \in Int, NEW y \in Int, NEW string
  PROVE  PlaceAfter(x, y, string, 0) = <<x, y>>
<1>1. LastNewline(string, 0) = 0 /\ TextLine(string, 0) = 0
  BY TextLines DEF LastNewline
<1>2. /\ CharWidth \in Int /\ LineHeight \in Int
      /\ x + (0 - 0) * CharWidth = x /\ y + 0 * LineHeight = y
  BY CallsAssumption DEF CallsAssumption
<1> QED
  BY <1>1, <1>2 DEF PlaceAfter

LEMMA PlacesFollow ==
  ASSUME NEW x \in Int, NEW y \in Int, NEW string, NEW i \in Nat \ {0}
  PROVE  /\ LET before == PlaceAfter(x, y, string, i - 1)
            IN  PlaceAfter(x, y, string, i)
                  = IF string[i] = Newline
                    THEN <<x, before[2] + LineHeight>>
                    ELSE <<before[1] + CharWidth, before[2]>>
         /\ string[i] # Newline =>
              PlaceAfter(x, y, string, i - 1) = PlaceIn(x, y, string, i)
<1> DEFINE last == LastNewline(string, i)
           last1 == LastNewline(string, i - 1)
           lines == TextLine(string, i)
           lines1 == TextLine(string, i - 1)
<1>1. CharWidth \in Int /\ LineHeight \in Int
  BY CallsAssumption DEF CallsAssumption
<1>2. i - 1 \in Nat /\ i - 1 \in 0..i-1
  OBVIOUS
<1>3. LastFound(string, i - 1)
  BY <1>2, LastAlwaysFound
<1>4. last1 \in Nat
  <2>1. last1 = 0 \/ LastIs(string, i - 1, last1)
    BY <1>3 DEF LastFound
  <2> HIDE DEF last1
  <2>2. LastIs(string, i - 1, last1) => last1 \in 1..i-1
    BY DEF LastIs
  <2> QED
    BY <2>1, <2>2
<1>5. last = IF string[i] = Newline THEN i ELSE last1
  BY <1>3, LastMoves
<1>6. lines1 \in Nat /\ lines = IF string[i] = Newline THEN lines1 + 1 ELSE lines1
  BY <1>2, TextLines
<1> HIDE DEF last, last1, lines, lines1
<1>7. /\ PlaceAfter(x, y, string, i - 1)
           = <<x + (i - 1 - last1) * CharWidth, y + lines1 * LineHeight>>
      /\ PlaceAfter(x, y, string, i)
           = <<x + (i - last) * CharWidth, y + lines * LineHeight>>
      /\ PlaceIn(x, y, string, i)
           = <<x + (i - last - 1) * CharWidth, y + lines * LineHeight>>
  BY DEF PlaceAfter, PlaceIn, last, last1, lines, lines1
<1>8. CASE string[i] = Newline
  <2>1. (i - last) * CharWidth = 0 /\ (lines1 + 1) * LineHeight = lines1 * LineHeight + LineHeight
    BY <1>1, <1>5, <1>6, <1>8
  <2> DEFINE ll == lines1 * LineHeight
  <2>2. ll \in Int
    BY <1>1, <1>6
  <2>3. /\ PlaceAfter(x, y, string, i) = <<x + 0, y + (ll + LineHeight)>>
        /\ PlaceAfter(x, y, string, i - 1)[2] = y + ll
    BY <1>6, <1>7, <1>8, <2>1
  <2> HIDE DEF ll
  <2>4. x + 0 = x /\ y + (ll + LineHeight) = (y + ll) + LineHeight
    BY <1>1, <2>2
  <2> QED
    BY <1>8, <2>3, <2>4
<1>9. CASE string[i] # Newline
  <2> DEFINE k == i - 1 - last1
             kw == k * CharWidth
  <2>1. k \in Int /\ i - last = k + 1 /\ i - last - 1 = k
    BY <1>4, <1>5, <1>9
  <2>2. (k + 1) * CharWidth = k * CharWidth + CharWidth
    <3> HIDE DEF k
    <3> QED
      BY <1>1, <2>1
  <2>3. kw \in Int
    <3> HIDE DEF k
    <3> QED
      BY <1>1, <2>1
  <2>4. /\ PlaceAfter(x, y, string, i - 1) = <<x + kw, y + lines1 * LineHeight>>
        /\ PlaceAfter(x, y, string, i) = <<x + (kw + CharWidth), y + lines1 * LineHeight>>
        /\ PlaceIn(x, y, string, i) = <<x + kw, y + lines1 * LineHeight>>
    <3> HIDE DEF k
    <3> QED
      BY <1>6, <1>7, <1>9, <2>1, <2>2 DEF k
  <2> HIDE DEF kw, k
  <2>5. x + (kw + CharWidth) = (x + kw) + CharWidth
    BY <1>1, <2>3
  <2> QED
    BY <1>9, <2>4, <2>5
<1> QED
  BY <1>8, <1>9

\* Every character is put where it belongs.
LEMMA PlacesAre ==
  ASSUME NEW x \in Int, NEW y \in Int, NEW string, Len(string) \in Nat,
         NEW i \in 1..Len(string), string[i] # Newline
  PROVE  Places(x, y, string)[i] = PlaceIn(x, y, string, i)
<1> DEFINE N == Len(string) + 1
           At(k) == PlaceAfter(x, y, string, k - 1)
           h == [k \in 1..N |-> At(k)]
           Rule(place, k) ==
             IF k = 1 THEN <<x, y>>
             ELSE LET before == place[k - 1]
                  IN  IF string[k - 1] = Newline
                      THEN <<x, before[2] + LineHeight>>
                      ELSE <<before[1] + CharWidth, before[2]>>
<1>1. N \in Nat
  OBVIOUS
<1>2. At(1) = <<x, y>>
  <2>1. 1 \in Nat \ {0} /\ 1 - 1 = 0
    OBVIOUS
  <2>2. PlaceAfter(x, y, string, 0) = <<x, y>>
    BY FirstPlaceIs
  <2> QED
    BY <2>1, <2>2
<1>3. ASSUME NEW place, NEW k \in 1..N, k # 1, place[k - 1] = At(k - 1)
      PROVE  Rule(place, k) = At(k)
  <2> DEFINE j == k - 1
  <2>1. j \in Nat \ {0}
    BY <1>1, <1>3
  <2> HIDE DEF j
  <2>2. PlaceAfter(x, y, string, j)
          = LET before == PlaceAfter(x, y, string, j - 1)
            IN  IF string[j] = Newline
                THEN <<x, before[2] + LineHeight>>
                ELSE <<before[1] + CharWidth, before[2]>>
    BY <2>1, PlacesFollow
  <2>3. place[j] = PlaceAfter(x, y, string, j - 1)
    BY <1>3 DEF j
  <2>4. Rule(place, k) = LET before == place[j]
                         IN  IF string[j] = Newline
                             THEN <<x, before[2] + LineHeight>>
                             ELSE <<before[1] + CharWidth, before[2]>>
    BY <1>3 DEF j
  <2> HIDE DEF Rule
  <2> QED
    BY <2>2, <2>3, <2>4 DEF j
<1>4. ASSUME NEW k \in 1..N, k # 1
      PROVE  k - 1 \in 1..N /\ k - 1 < k
  BY <1>1, <1>4
<1>5. h = [k \in 1..N |-> Rule(h, k)]
  <2>1. ASSUME NEW k \in 1..N
        PROVE  h[k] = Rule(h, k)
    <3>1. CASE k = 1
      BY <1>2, <3>1
    <3>2. CASE k # 1
      <4>1. h[k - 1] = At(k - 1)
        BY <1>4, <3>2
      <4> HIDE DEF Rule, At
      <4>2. h[k] = At(k)
        OBVIOUS
      <4> QED
        BY <1>3, <3>2, <4>1, <4>2
    <3> QED
      BY <3>1, <3>2
  <2> HIDE DEF Rule, At
  <2> QED
    BY <2>1
<1> DEFINE W == Places(x, y, string)
<1>6. W = [k \in 1..N |-> Rule(W, k)]
  <2>1. W = CHOOSE place : place = [k \in 1..N |-> Rule(place, k)]
    BY DEF Places
  <2> HIDE DEF h, Rule, W
  <2>2. \E place : place = [k \in 1..N |-> Rule(place, k)]
    BY <1>5
  <2> QED
    BY <2>1, <2>2, Zenon
<1> HIDE DEF W
<1>7. ASSUME NEW k \in 1..N
       PROVE  W[k] = Rule(W, k)
  <2> HIDE DEF N, h, Rule
  <2> QED
    BY <1>6
<1>8. ASSUME NEW j \in 1..N, W[j] # At(j)
      PROVE  FALSE
  <2> DEFINE S == {k \in 1..N : W[k] # At(k)}
  <2>1. S \in SUBSET Nat /\ S # {}
    BY <1>1, <1>8
  <2>2. PICK m \in S : \A k \in S : m <= k
    BY <2>1, Lowest
  <2>3. m \in 1..N /\ W[m] # At(m) /\ W[m] = Rule(W, m)
    <3> HIDE DEF N, Rule, At
    <3>1. m \in 1..N /\ W[m] # At(m)
      BY <2>2
    <3>2. W[m] = Rule(W, m)
      BY <1>7, <3>1
    <3> QED
      BY <3>1, <3>2
  <2>4. CASE m = 1
    BY <1>2, <2>3, <2>4
  <2>5. CASE m # 1
    <3>1. m - 1 \in 1..N /\ m - 1 < m
      BY <1>4, <2>3, <2>5
    <3>2. m - 1 \notin S
      BY <1>1, <2>2, <2>3, <3>1
    <3> HIDE DEF Rule, At
    <3>3. W[m - 1] = At(m - 1)
      BY <3>1, <3>2
    <3> QED
      BY <1>3, <2>3, <2>5, <3>3
  <2> QED
    BY <2>4, <2>5
<1>9. i \in 1..N /\ i \in Nat \ {0}
  BY <1>1
<1>10. At(i) = PlaceIn(x, y, string, i)
  BY <1>9, PlacesFollow
<1> QED
  BY <1>8, <1>9, <1>10 DEF W

\* A text is its characters' glyphs, each in its place and cut at the edges.
LEMMA StringIs ==
  ASSUME NEW corner \in Corners, NEW string \in Strings
  PROVE  vid_print_string(corner[1], corner[2], string)
           = UNION {Picture(Cell(corner[1], corner[2], string, i), 1) :
                      i \in {n \in 1..Len(string) : string[n] # Newline}}
<1> DEFINE x == corner[1]
           y == corner[2]
           L == Len(string)
           Glyphs == {n \in 1..L : string[n] # Newline}
           place == Places(x, y, string)
<1>1. /\ x \in Ints /\ y \in Ints /\ L \in Nat
      /\ CharWidth \in Nat /\ CharHeight \in Nat /\ LineHeight \in Nat
      /\ x + (L + 1) * CharWidth \in Ints
      /\ y + L * LineHeight + CharHeight \in Ints
      /\ string \in Seq({Newline} \cup SUBSET ((0..CharWidth-1) \X (0..CharHeight-1)))
  BY CallsAssumption DEF CallsAssumption
<1>2. /\ \A n \in Ints : n \in Int
      /\ \A m \in Ints, n \in Ints, k \in Int : m <= k /\ k <= n => k \in Ints
  BY ScreenSizes DEF Ints
<1>3. ASSUME NEW i \in Glyphs
      PROVE  string[i] \in SUBSET ((0..CharWidth-1) \X (0..CharHeight-1))
  <2> DEFINE G == SUBSET ((0..CharWidth-1) \X (0..CharHeight-1))
  <2>1. string \in Seq({Newline} \cup G) /\ i \in 1..Len(string) /\ string[i] # Newline
    BY <1>1
  <2> HIDE DEF G
  <2>2. string[i] \in {Newline} \cup G
    BY <2>1, ElementOfSeq
  <2>3. string[i] \in G
    BY <2>1, <2>2
  <2> QED
    BY <2>3 DEF G
<1>4. ASSUME NEW m \in Nat, NEW n \in Nat, NEW k \in Nat, m <= n
      PROVE  m * k \in Nat /\ n * k \in Nat /\ m * k <= n * k
  <2>1. PICK j \in Nat : n = m + j
    <3>1. n - m \in Nat /\ n = m + (n - m)
      BY <1>4
    <3> QED
      BY <3>1
  <2>2. n * k = m * k + j * k /\ m * k \in Nat /\ j * k \in Nat
    BY <2>1
  <2> QED
    BY <2>2
<1>5. ASSUME NEW i \in Glyphs
      PROVE  vid_print_char(place[i][1], place[i][2], string[i])
               = Picture(Cell(x, y, string, i), 1)
  <2> DEFINE glyph == string[i]
             last == LastNewline(string, i)
             lines == TextLine(string, i)
             px == x + (i - last - 1) * CharWidth
             py == y + lines * LineHeight
  <2>1. i \in 1..L /\ string[i] # Newline /\ i \in Nat
    OBVIOUS
  <2>2. glyph \in SUBSET ((0..CharWidth-1) \X (0..CharHeight-1))
    BY <1>3
  <2>3. place[i] = <<px, py>>
    <3>1. x \in Int /\ y \in Int
      BY <1>1, <1>2
    <3> HIDE DEF x, y
    <3>2. place[i] = PlaceIn(x, y, string, i)
      BY <1>1, <2>1, <3>1, PlacesAre
    <3> QED
      BY <3>2 DEF PlaceIn
  <2>4. last \in 0..i-1
    <3>1. LastFound(string, i)
      BY <2>1, LastAlwaysFound
    <3>2. last = 0 \/ LastIs(string, i, last)
      BY <3>1 DEF LastFound
    <3>3. LastIs(string, i, last) => last \in 1..i /\ string[last] = Newline
      BY DEF LastIs
    <3> HIDE DEF last
    <3> QED
      BY <2>1, <3>2, <3>3
  <2>5. lines \in 0..i
    BY <2>1, TextLines
  <2> HIDE DEF last, lines, glyph, x, y, L, place
  <2>6. /\ px \in Int /\ py \in Int
        /\ x <= px /\ px <= x + L * CharWidth /\ y <= py /\ py <= y + L * LineHeight
        /\ x + (L + 1) * CharWidth = x + L * CharWidth + CharWidth
    <3> DEFINE k == i - last - 1
    <3>1. k \in Nat /\ k <= L /\ lines \in Nat /\ lines <= L
      BY <1>1, <2>1, <2>4, <2>5 DEF L
    <3> HIDE DEF k
    <3>2. /\ k * CharWidth \in Nat /\ k * CharWidth <= L * CharWidth
          /\ lines * LineHeight \in Nat /\ lines * LineHeight <= L * LineHeight
          /\ L * CharWidth \in Nat /\ L * LineHeight \in Nat
      BY <1>1, <1>4, <3>1
    <3>3. (L + 1) * CharWidth = L * CharWidth + CharWidth
      BY <1>1
    <3> DEFINE kw == k * CharWidth
               lh == lines * LineHeight
               lw == L * CharWidth
               ll == L * LineHeight
    <3>4. /\ kw \in Nat /\ kw <= lw /\ lh \in Nat /\ lh <= ll /\ lw \in Nat /\ ll \in Nat
          /\ px = x + kw /\ py = y + lh
          /\ x + (L + 1) * CharWidth = x + (lw + CharWidth)
      BY <3>2, <3>3 DEF k
    <3>5. x \in Int /\ y \in Int
      BY <1>1, <1>2
    <3> HIDE DEF kw, lh, lw, ll
    <3>6. x + (lw + CharWidth) = (x + lw) + CharWidth
      BY <1>1, <3>4, <3>5
    <3>7. x <= x + kw /\ x + kw <= x + lw /\ y <= y + lh /\ y + lh <= y + ll
      BY <3>4, <3>5
    <3>8. x + kw \in Int /\ y + lh \in Int
      BY <3>4, <3>5
    <3> QED
      BY <3>4, <3>6, <3>7, <3>8 DEF lw, ll
  <2> DEFINE right == x + L * CharWidth
             below == y + L * LineHeight
  <2>7. right \in Int /\ below \in Int
    BY <1>1, <1>2, <1>4
  <2>8. /\ right + CharWidth \in Ints /\ below + CharHeight \in Ints
        /\ px <= right /\ py <= below
    BY <1>1, <2>6
  <2>9. x <= px /\ y <= py /\ px \in Int /\ py \in Int
    BY <2>6
  <2> HIDE DEF px, py, right, below
  <2>10. ASSUME NEW d \in glyph
         PROVE  px + d[1] \in Ints /\ py + d[2] \in Ints
    <3>1. d[1] \in 0..CharWidth-1 /\ d[2] \in 0..CharHeight-1
      BY <2>2
    <3> DEFINE dx1 == d[1]
               dy1 == d[2]
    <3>2. dx1 \in 0..CharWidth-1 /\ dy1 \in 0..CharHeight-1
      BY <3>1
    <3>3. x \in Int /\ y \in Int
      BY <1>1, <1>2
    <3> HIDE DEF dx1, dy1
    <3>4. /\ x <= px + dx1 /\ px + dx1 <= right + CharWidth /\ px + dx1 \in Int
          /\ y <= py + dy1 /\ py + dy1 <= below + CharHeight /\ py + dy1 \in Int
      BY <1>1, <2>7, <2>8, <2>9, <3>2, <3>3
    <3>5. px + dx1 \in Ints /\ py + dy1 \in Ints
      BY <1>1, <1>2, <2>8, <3>4
    <3> QED
      BY <3>5 DEF dx1, dy1
  <2>11. {d \in glyph : d[1] < CharWidth /\ d[2] < CharHeight} = glyph
    <3>1. ASSUME NEW d \in glyph
          PROVE  d[1] < CharWidth /\ d[2] < CharHeight
      <4>1. d[1] \in 0..CharWidth-1 /\ d[2] \in 0..CharHeight-1
        BY <2>2
      <4> QED
        BY <1>1, <4>1
    <3> QED
      BY <3>1
  <2>12. glyph \in SUBSET (Int \X Int)
    <3>1. 0..CharWidth-1 \subseteq Int /\ 0..CharHeight-1 \subseteq Int
      OBVIOUS
    <3> QED
      BY <2>2, <3>1
  <2>13. Plot(px, py, glyph) = Picture(Moved(glyph, px, py), 1)
    BY <2>9, <2>10, <2>12, PlotIs
  <2>14. vid_print_char(px, py, glyph) = Plot(px, py, glyph)
    BY <2>11 DEF vid_print_char
  <2>15. Cell(x, y, string, i) = Moved(glyph, px, py)
    BY DEF Cell, glyph, px, py, last, lines
  <2> QED
    BY <2>3, <2>13, <2>14, <2>15 DEF glyph
<1>6. vid_print_string(x, y, string)
        = UNION {vid_print_char(place[i][1], place[i][2], string[i]) : i \in Glyphs}
  BY DEF vid_print_string
<1> HIDE DEF Glyphs, place, x, y
<1>7. UNION {vid_print_char(place[i][1], place[i][2], string[i]) : i \in Glyphs}
        = UNION {Picture(Cell(x, y, string, i), 1) : i \in Glyphs}
  BY <1>5
<1> QED
  BY <1>6, <1>7 DEF Glyphs, x, y

-----------------------------------------------------------------------------
(* The calls. *)

\* What FiguresExact says of a call and what it wrote.
CallRight(c, addresses) ==
  /\ addresses \subseteq
       Picture(Screen, IF "backbuffer" \in DOMAIN c THEN c.backbuffer ELSE 1)
  /\ c.function = "clear_screen" => Picture(Screen, c.backbuffer) \subseteq addresses
  /\ /\ c.function \in {"draw_box", "draw_hline", "draw_vline", "draw_rectangle"}
     /\ \A n \in {c.x0, c.y0, c.x1, c.y1} : n >= 0
     => addresses =
          Picture(IF c.function = "draw_rectangle"
                  THEN {p \in Between(c.x0, c.x1) \X Between(c.y0, c.y1) :
                          p[1] \in {c.x0, c.x1} \/ p[2] \in {c.y0, c.y1}}
                  ELSE Between(c.x0, c.x1) \X Between(c.y0, c.y1), c.backbuffer)
  /\ c.function = "draw_line" =>
       LineStraight(c.x0, c.y0, c.x1, c.y1, c.backbuffer, addresses)
  /\ c.function = "vid_draw_circle" =>
       CircleRound(c.x, c.y, c.radius, c.fill, addresses)
  /\ c.function = "vid_print_string" =>
       addresses = UNION {Picture(Cell(c.x, c.y, c.string, i), 1) :
                            i \in {n \in 1..Len(c.string) : c.string[n] # Newline}}

FigureRight == CallRight(call, written)

LEMMA FiguresAre == FiguresExact <=> FigureRight
<1>1. StaysInPicture <=>
        written \subseteq
          Picture(Screen, IF "backbuffer" \in DOMAIN call THEN call.backbuffer ELSE 1)
  BY DEF StaysInPicture
<1>2. ClearsEveryPixel <=>
        (call.function = "clear_screen" =>
           Picture(Screen, call.backbuffer) \subseteq written)
  BY DEF ClearsEveryPixel
<1>3. BoxesExact <=>
        (/\ call.function \in {"draw_box", "draw_hline", "draw_vline", "draw_rectangle"}
         /\ \A n \in {call.x0, call.y0, call.x1, call.y1} : n >= 0
         => written =
              Picture(IF call.function = "draw_rectangle"
                      THEN {p \in Between(call.x0, call.x1) \X Between(call.y0, call.y1) :
                              p[1] \in {call.x0, call.x1} \/ p[2] \in {call.y0, call.y1}}
                      ELSE Between(call.x0, call.x1) \X Between(call.y0, call.y1),
                      call.backbuffer))
  BY Zenon DEF BoxesExact, Box, Edges
<1>4. LinesStraight <=>
        (call.function = "draw_line" =>
           LineStraight(call.x0, call.y0, call.x1, call.y1, call.backbuffer, written))
  BY DEF LinesStraight, LineStraight, Box
<1>5. CirclesRound <=>
        (call.function = "vid_draw_circle" =>
           CircleRound(call.x, call.y, call.radius, call.fill, written))
  BY DEF CirclesRound, CircleRound
<1>6. TextInCells <=>
        (call.function = "vid_print_string" =>
           written = UNION {Picture(Cell(call.x, call.y, call.string, i), 1) :
                              i \in {n \in 1..Len(call.string) : call.string[n] # Newline}})
  BY DEF TextInCells
<1> QED
  BY <1>1, <1>2, <1>3, <1>4, <1>5, <1>6, Zenon
  DEF FiguresExact, FigureRight, CallRight

LEMMA PixelRight ==
  ASSUME NEW x \in Ints, NEW y \in Ints
  PROVE  CallRight([function |-> "draw", x |-> x, y |-> y], draw(x, y))
<1> DEFINE c == [function |-> "draw", x |-> x, y |-> y]
<1>1. /\ c.function = "draw" /\ "backbuffer" \notin DOMAIN c
  OBVIOUS
<1>2. draw(x, y) \subseteq Picture(Screen, 1)
  <2>1. draw(x, y) = IF <<x, y>> \in Screen THEN {PlaceOf(1, x, y)} ELSE {}
    BY DrawIs
  <2>2. ASSUME <<x, y>> \in Screen
        PROVE  PlaceOf(1, x, y) \in Picture(Screen, 1)
    <3>1. <<x, y>>[1] = x /\ <<x, y>>[2] = y
      OBVIOUS
    <3> QED
      BY <2>2, <3>1, PictureIs
  <2> QED
    BY <2>1, <2>2
<1> HIDE DEF c
<1>3. CallRight(c, draw(x, y))
  BY <1>1, <1>2 DEF CallRight
<1> QED
  BY <1>3 DEF c

LEMMA ClearRight ==
  ASSUME NEW b
  PROVE  CallRight([function |-> "clear_screen", backbuffer |-> b], clear_screen(b))
<1> DEFINE c == [function |-> "clear_screen", backbuffer |-> b]
<1>1. c.function = "clear_screen" /\ "backbuffer" \in DOMAIN c /\ c.backbuffer = b
  OBVIOUS
<1>2. clear_screen(b) = Picture(Screen, b)
  BY ClearIs
<1> HIDE DEF c
<1>3. CallRight(c, clear_screen(b))
  BY <1>1, <1>2 DEF CallRight
<1> QED
  BY <1>3 DEF c

LEMMA BoxRight ==
  ASSUME NEW f \in {"draw_box", "draw_hline", "draw_vline"},
         NEW x0 \in Ints, NEW y0 \in Ints, NEW x1 \in Ints, NEW y1 \in Ints, NEW b
  PROVE  CallRight([function |-> f, x0 |-> x0, y0 |-> y0, x1 |-> x1, y1 |-> y1,
                    backbuffer |-> b], draw_box(x0, y0, x1, y1, b))
<1> DEFINE c == [function |-> f, x0 |-> x0, y0 |-> y0, x1 |-> x1, y1 |-> y1,
                 backbuffer |-> b]
           addresses == draw_box(x0, y0, x1, y1, b)
<1>1. /\ c.function = f /\ "backbuffer" \in DOMAIN c /\ c.backbuffer = b
      /\ c.x0 = x0 /\ c.y0 = y0 /\ c.x1 = x1 /\ c.y1 = y1
  OBVIOUS
<1>2. FigureTrue(addresses, Between(x0, x1) \X Between(y0, y1), x0, y0, x1, y1, b)
  BY BoxIs
<1> HIDE DEF c, addresses
<1>3. CallRight(c, addresses)
  BY <1>1, <1>2 DEF CallRight, FigureTrue
<1> QED
  BY <1>3 DEF c, addresses

LEMMA RectangleRight ==
  ASSUME NEW x0 \in Ints, NEW y0 \in Ints, NEW x1 \in Ints, NEW y1 \in Ints, NEW b
  PROVE  CallRight([function |-> "draw_rectangle", x0 |-> x0, y0 |-> y0, x1 |-> x1,
                    y1 |-> y1, backbuffer |-> b], draw_rectangle(x0, y0, x1, y1, b))
<1> DEFINE c == [function |-> "draw_rectangle", x0 |-> x0, y0 |-> y0, x1 |-> x1,
                 y1 |-> y1, backbuffer |-> b]
           addresses == draw_rectangle(x0, y0, x1, y1, b)
           edges == {p \in Between(x0, x1) \X Between(y0, y1) :
                       p[1] \in {x0, x1} \/ p[2] \in {y0, y1}}
<1>1. /\ c.function = "draw_rectangle" /\ "backbuffer" \in DOMAIN c /\ c.backbuffer = b
      /\ c.x0 = x0 /\ c.y0 = y0 /\ c.x1 = x1 /\ c.y1 = y1
  OBVIOUS
<1>2. FigureTrue(addresses, edges, x0, y0, x1, y1, b)
  BY RectangleIs
<1> HIDE DEF c, addresses
<1>3. CallRight(c, addresses)
  BY <1>1, <1>2 DEF CallRight, FigureTrue
<1> QED
  BY <1>3 DEF c, addresses

LEMMA LineRight ==
  ASSUME NEW x0, NEW y0, NEW x1, NEW y1, NEW b,
         <<x0, y0>> \in Screen, <<x1, y1>> \in Screen
  PROVE  CallRight([function |-> "draw_line", x0 |-> x0, y0 |-> y0, x1 |-> x1,
                    y1 |-> y1, backbuffer |-> b], draw_line(x0, y0, x1, y1, b))
<1> DEFINE c == [function |-> "draw_line", x0 |-> x0, y0 |-> y0, x1 |-> x1,
                 y1 |-> y1, backbuffer |-> b]
           addresses == draw_line(x0, y0, x1, y1, b)
<1>1. /\ c.function = "draw_line" /\ "backbuffer" \in DOMAIN c /\ c.backbuffer = b
      /\ c.x0 = x0 /\ c.y0 = y0 /\ c.x1 = x1 /\ c.y1 = y1
  OBVIOUS
<1>2. LineStraight(x0, y0, x1, y1, b, addresses)
  BY LineIsStraight
<1>3. PICK points : addresses = Picture(points, b)
  <2> HIDE DEF addresses
  <2> QED
    BY <1>2 DEF LineStraight
<1> HIDE DEF c, addresses
<1>4. addresses \subseteq Picture(Screen, b)
  BY <1>3, PictureOfScreen
<1>5. CallRight(c, addresses)
  BY <1>1, <1>2, <1>4 DEF CallRight
<1> QED
  BY <1>5 DEF c, addresses

LEMMA CircleRight ==
  ASSUME NEW x \in Int, NEW y \in Int, NEW radius \in Nat, NEW fill \in {0, 1},
         \A n \in {-radius, radius} : x + n \in Ints /\ y + n \in Ints
  PROVE  CallRight([function |-> "vid_draw_circle", x |-> x, y |-> y, radius |-> radius,
                    fill |-> fill], vid_draw_circle(x, y, radius, fill))
<1> DEFINE c == [function |-> "vid_draw_circle", x |-> x, y |-> y, radius |-> radius,
                 fill |-> fill]
           addresses == vid_draw_circle(x, y, radius, fill)
<1>1. /\ c.function = "vid_draw_circle" /\ "backbuffer" \notin DOMAIN c
      /\ c.x = x /\ c.y = y /\ c.radius = radius /\ c.fill = fill
  OBVIOUS
<1>2. CircleRound(x, y, radius, fill, addresses)
  BY CircleIsRound
<1>3. PICK points : addresses = Picture(points, 1)
  <2> HIDE DEF addresses
  <2> QED
    BY <1>2 DEF CircleRound
<1> HIDE DEF c, addresses
<1>4. addresses \subseteq Picture(Screen, 1)
  BY <1>3, PictureOfScreen
<1>5. CallRight(c, addresses)
  BY <1>1, <1>2, <1>4 DEF CallRight
<1> QED
  BY <1>5 DEF c, addresses

LEMMA TextRight ==
  ASSUME NEW corner \in Corners, NEW string \in Strings
  PROVE  CallRight([function |-> "vid_print_string", x |-> corner[1], y |-> corner[2],
                    string |-> string],
                   vid_print_string(corner[1], corner[2], string))
<1> DEFINE c == [function |-> "vid_print_string", x |-> corner[1], y |-> corner[2],
                 string |-> string]
           addresses == vid_print_string(corner[1], corner[2], string)
<1>1. /\ c.function = "vid_print_string" /\ "backbuffer" \notin DOMAIN c
      /\ c.x = corner[1] /\ c.y = corner[2] /\ c.string = string
  OBVIOUS
<1>2. addresses = UNION {Picture(Cell(corner[1], corner[2], string, i), 1) :
                           i \in {n \in 1..Len(string) : string[n] # Newline}}
  BY StringIs
<1> HIDE DEF c, addresses
<1>3. addresses \subseteq Picture(Screen, 1)
  BY <1>2, PictureOfScreen
<1>4. CallRight(c, addresses)
  BY <1>1, <1>2, <1>3 DEF CallRight
<1> QED
  BY <1>4 DEF c, addresses

LEMMA NoneRight == CallRight(NoCall, {})
<1>1. NoCall.function = "none"
  BY DEF NoCall
<1> QED
  BY <1>1 DEF CallRight

\* Every call draws what it was asked for and nothing else (FiguresExact), for every
\* screen and any arguments the functions accept.  The ways the driver and the DMA
\* compute the address of a pixel agree; sorting and clipping leave the part of a box
\* that is on the screen; clearing by words leaves out no pixel, as a line has an
\* even number of them; Bresenham's walk keeps its error within a step and the loops
\* of the circles the distance of their next pixel from the radius within half a
\* pixel; and a character's place depends on what stands before it in its line only.
THEOREM FiguresAlwaysExact == CallsSpec => []FiguresExact
<1>1. CallsInit => FigureRight
  BY NoneRight DEF CallsInit, FigureRight
<1>2. FigureRight /\ [CallsNext]_callVars => FigureRight'
  <2> SUFFICES ASSUME FigureRight, [CallsNext]_callVars
               PROVE  CallRight(call', written')
    BY DEF FigureRight
  <2>1. Xs \subseteq Ints /\ Ys \subseteq Ints /\ Ends \subseteq Screen
    BY CallsAssumption DEF CallsAssumption
  <2>2. CASE DrawPixel
    BY <2>1, <2>2, PixelRight DEF DrawPixel, Returns
  <2>3. CASE ClearScreen
    BY <2>3, ClearRight DEF ClearScreen, Returns
  <2>4. CASE DrawBox
    BY <2>1, <2>4, BoxRight DEF DrawBox, Returns
  <2>5. CASE DrawHline
    <3>1. PICK x0 \in Xs, x1 \in Xs, y \in Ys, b \in BufferNumbers :
            Returns([function |-> "draw_hline", x0 |-> x0, y0 |-> y,
                     x1 |-> x1, y1 |-> y, backbuffer |-> b],
                    draw_hline(x0, x1, y, b))
      BY <2>5 DEF DrawHline
    <3>2. draw_hline(x0, x1, y, b)
            = draw_box(x0, y, x1, y, b)
      BY LinesAreBoxes
    <3>3. CallRight([function |-> "draw_hline", x0 |-> x0, y0 |-> y,
                     x1 |-> x1, y1 |-> y, backbuffer |-> b],
                    draw_box(x0, y, x1, y, b))
      BY <2>1, BoxRight
    <3> QED
      BY <3>1, <3>2, <3>3 DEF Returns
  <2>6. CASE DrawVline
    <3>1. PICK x \in Xs, y0 \in Ys, y1 \in Ys, b \in BufferNumbers :
            Returns([function |-> "draw_vline", x0 |-> x, y0 |-> y0,
                     x1 |-> x, y1 |-> y1, backbuffer |-> b],
                    draw_vline(x, y0, y1, b))
      BY <2>6 DEF DrawVline
    <3>2. draw_vline(x, y0, y1, b)
            = draw_box(x, y0, x, y1, b)
      BY LinesAreBoxes
    <3>3. CallRight([function |-> "draw_vline", x0 |-> x, y0 |-> y0,
                     x1 |-> x, y1 |-> y1, backbuffer |-> b],
                    draw_box(x, y0, x, y1, b))
      BY <2>1, BoxRight
    <3> QED
      BY <3>1, <3>2, <3>3 DEF Returns
  <2>7. CASE DrawRectangle
    BY <2>1, <2>7, RectangleRight DEF DrawRectangle, Returns
  <2>8. CASE DrawLine
    <3>1. PICK p \in Ends, q \in Ends, b \in BufferNumbers :
            Returns([function |-> "draw_line", x0 |-> p[1], y0 |-> p[2],
                     x1 |-> q[1], y1 |-> q[2], backbuffer |-> b],
                    draw_line(p[1], p[2], q[1], q[2], b))
      BY <2>8 DEF DrawLine
    <3>2. <<p[1], p[2]>> \in Screen /\ <<q[1], q[2]>> \in Screen
      BY <2>1 DEF Screen
    <3> QED
      BY <3>1, <3>2, LineRight DEF Returns
  <2>9. CASE DrawCircle
    <3>1. PICK c \in Corners, radius \in Radii, fill \in {0, 1} :
            Returns([function |-> "vid_draw_circle", x |-> c[1], y |-> c[2],
                     radius |-> radius, fill |-> fill],
                    vid_draw_circle(c[1], c[2], radius, fill))
      BY <2>9 DEF DrawCircle
    <3>2. /\ c[1] \in Int /\ c[2] \in Int /\ radius \in Nat
          /\ \A n \in {-radius, radius} : c[1] + n \in Ints /\ c[2] + n \in Ints
      <4>1. /\ Corners \subseteq Ints \X Ints /\ Radii \subseteq Nat
            /\ \A n \in {-radius, radius} : c[1] + n \in Ints /\ c[2] + n \in Ints
        BY CallsAssumption DEF CallsAssumption
      <4>2. Ints \subseteq Int
        BY ScreenSizes DEF Ints
      <4> QED
        BY <4>1, <4>2
    <3> DEFINE x == c[1]
               y == c[2]
    <3>3. /\ x \in Int /\ y \in Int
          /\ \A n \in {-radius, radius} : x + n \in Ints /\ y + n \in Ints
      BY <3>2
    <3> HIDE DEF x, y
    <3>4. CallRight([function |-> "vid_draw_circle", x |-> x, y |-> y,
                     radius |-> radius, fill |-> fill],
                    vid_draw_circle(x, y, radius, fill))
      BY <3>2, <3>3, CircleRight
    <3> QED
      BY <3>1, <3>4 DEF Returns, x, y
  <2>10. CASE PrintString
    BY <2>10, TextRight DEF PrintString, Returns
  <2>11. CASE NextCall
    BY <2>11, NoneRight DEF NextCall
  <2>12. CASE UNCHANGED callVars
    <3>1. CallRight(call, written)
      BY DEF FigureRight
    <3>2. call' = call /\ written' = written
      BY <2>12 DEF callVars
    <3> QED
      BY <3>1, <3>2
  <2> QED
    BY <2>2, <2>3, <2>4, <2>5, <2>6, <2>7, <2>8, <2>9, <2>10, <2>11, <2>12
    DEF CallsNext
<1> QED
  BY <1>1, <1>2, FiguresAre, PTL DEF CallsSpec

-----------------------------------------------------------------------------
(* The other driver. *)

\* The registers of a controller, and their values at any time.
Held(r, front_, back_, swap) ==
  [front |-> front_, back |-> back_, swap |-> swap,
   addressing_mode |-> r.addressing_mode,
   x_resolution |-> r.x_resolution, y_resolution |-> r.y_resolution,
   color_bits |-> r.color_bits, color_planes |-> r.color_planes,
   wiw |-> r.wiw, hiw |-> r.hiw]

Generated ==
  \E r \in Registers, b \in Addresses, f \in Addresses, swap \in BOOLEAN :
    registers = Held(r, f, b, swap)

\* The registers as the driver knows them: it has already exchanged what the
\* controller will exchange at the end of the screen.
Exchanged == IF registers.swap THEN [registers EXCEPT !.front = registers.back,
                                                      !.back = registers.front]
                               ELSE registers

\* What holds while the program may draw.
Ready == Generated /\ ~registers.swap /\ device = Opened(registers)

\* Pixels from a row to the next, and the buffers, as the controller has them.
Row == IF registers.addressing_mode = 0 THEN 2^registers.wiw ELSE registers.x_resolution

Buffer(b) == IF b = 1 THEN registers.back ELSE registers.front

\* The screen of the other controller.
VideoScreen == (0..registers.x_resolution-1) \X (0..registers.y_resolution-1)

\* The writes of whole pixels at some points.
WriteAt(x, y, b) == <<PixelAt(x, y, b), DataWidth(registers)>>

Writes(points, b) == {WriteAt(p[1], p[2], b) : p \in points}

\* The registers' sizes.
LEMMA GeneratedSizes ==
  ASSUME Generated
  PROVE  /\ registers.x_resolution \in Nat \ {0} /\ registers.y_resolution \in Nat \ {0}
         /\ 2^registers.wiw \in Nat /\ 2^registers.hiw \in Nat
         /\ registers.x_resolution <= 2^registers.wiw
         /\ registers.y_resolution <= 2^registers.hiw
         /\ registers.wiw \in Nat
         /\ registers.front \in Nat /\ registers.back \in Nat
         /\ DataWidth(registers) \in {1, 2, 4}
         /\ \A n \in 0..2 : 2^(registers.wiw + n) = 2^registers.wiw * 2^n
<1>1. PICK r \in Registers, b \in Addresses, f \in Addresses, swap \in BOOLEAN :
             registers = Held(r, f, b, swap)
  BY DEF Generated
<1>2. /\ registers.x_resolution = r.x_resolution
      /\ registers.y_resolution = r.y_resolution
      /\ registers.wiw = r.wiw /\ registers.hiw = r.hiw
      /\ registers.front = f /\ registers.back = b
  BY <1>1 DEF Held
<1>3. /\ r.wiw \in Nat /\ r.hiw \in Nat
      /\ r.x_resolution \in 1..2^r.wiw /\ r.y_resolution \in 1..2^r.hiw
      /\ f \in Nat /\ b \in Nat
  BY VideoDMAAssumption DEF VideoDMAAssumption
<1>4. \A n \in 0..2 : 2^(r.wiw + n) = 2^r.wiw * 2^n
  BY ShiftAssumption DEF ShiftAssumption
<1>5. \A n \in Nat : 2^n \in Int
  BY Z3
<1>6. DataWidth(registers) \in {1, 2, 4}
  BY DEF DataWidth
<1> DEFINE wide == 2^r.wiw
           high == 2^r.hiw
<1>7. /\ wide \in Int /\ high \in Int
      /\ r.x_resolution \in 1..wide /\ r.y_resolution \in 1..high
  BY <1>3, <1>5
<1> HIDE DEF wide, high
<1>8. /\ r.x_resolution \in Nat \ {0} /\ r.y_resolution \in Nat \ {0}
      /\ r.x_resolution <= wide /\ r.y_resolution <= high
      /\ wide \in Nat /\ high \in Nat
  BY <1>7
<1> QED
  BY <1>2, <1>3, <1>4, <1>6, <1>8 DEF wide, high

\* What the driver's structure says of them.
LEMMA Geometry ==
  ASSUME Ready
  PROVE  /\ Row \in Nat /\ registers.x_resolution <= Row
         /\ y_inc = DataWidth(registers) * Row /\ line_size = Row
         /\ 2^device.x_coord_offset = DataWidth(registers)
         /\ device.data_width = DataWidth(registers)
         /\ registers.addressing_mode = 0
              => 2^device.y_coord_offset = DataWidth(registers) * Row
         /\ device.x_resolution = registers.x_resolution
         /\ device.y_resolution = registers.y_resolution
         /\ device.x_coord_mask = 2^registers.wiw
         /\ device.y_coord_mask = 2^registers.hiw
         /\ \A b : BufferStart(b) = Buffer(b) /\ Buffer(b) \in Nat
<1> DEFINE w == DataWidth(registers)
           c == CoordOffset(w)
           a == 2^registers.wiw
<1>1. /\ device.data_width = w
      /\ device.x_resolution = registers.x_resolution
      /\ device.y_resolution = registers.y_resolution
      /\ device.addressing_mode = registers.addressing_mode
      /\ device.x_coord_offset = c /\ device.y_coord_offset = registers.wiw + c
      /\ device.x_coord_mask = a /\ device.y_coord_mask = 2^registers.hiw
      /\ device.back_buffer_start_address = registers.back
      /\ device.buffer_start_address = registers.front
  BY DEF Ready, Opened
<1>2. /\ registers.x_resolution \in Nat /\ a \in Nat /\ registers.x_resolution <= a
      /\ registers.wiw \in Nat
      /\ registers.front \in Nat /\ registers.back \in Nat
      /\ w \in {1, 2, 4}
  BY GeneratedSizes DEF Ready
<1>3. \A n \in 0..2 : 2^(registers.wiw + n) = a * 2^n
  BY GeneratedSizes DEF Ready
<1>4. c \in 0..2 /\ 2^c = w
  <2>1. 2^0 = 1 /\ 2^1 = 2 /\ 2^2 = 4
    OBVIOUS
  <2>2. \/ w = 1 /\ c = 0
        \/ w = 2 /\ c = 1
        \/ w = 4 /\ c = 2
    <3>1. CoordOffset(1) = 0 /\ CoordOffset(2) = 1 /\ CoordOffset(4) = 2
      BY DEF CoordOffset
    <3> HIDE DEF w
    <3> QED
      BY <1>2, <3>1
  <2> HIDE DEF w, c
  <2>3. ASSUME NEW n, NEW v, w = v, c = n, n \in 0..2, 2^n = v
        PROVE  c \in 0..2 /\ 2^c = w
    BY <2>3
  <2>4. 0 \in 0..2 /\ 1 \in 0..2 /\ 2 \in 0..2
    OBVIOUS
  <2> QED
    BY <2>1, <2>2, <2>3, <2>4
<1>5. 2^(registers.wiw + c) = w * a
  <2>1. 2^(registers.wiw + c) = a * 2^c
    BY <1>3, <1>4
  <2>2. a * w = w * a
    BY <1>2
  <2> QED
    BY <1>4, <2>1, <2>2
<1>6. 2^device.x_coord_offset = w /\ 2^device.y_coord_offset = w * a
  BY <1>1, <1>4, <1>5
<1>7. device.y_coord_offset - device.x_coord_offset = registers.wiw
  <2> HIDE DEF c
  <2> QED
    BY <1>1, <1>2, <1>4
<1>8. Row = IF registers.addressing_mode = 0 THEN a ELSE registers.x_resolution
  BY DEF Row
<1>9. IsXY <=> registers.addressing_mode = 0
  BY <1>1 DEF IsXY, ALT_UP_VIDEO_DMA_XY_ADDRESS_MODE
<1>10. y_inc = w * Row /\ line_size = Row
  <2>1. y_inc = IF IsXY THEN w * a ELSE registers.x_resolution * w
    BY <1>1, <1>6 DEF y_inc
  <2>2. registers.x_resolution * w = w * registers.x_resolution
    BY <1>2
  <2>3. line_size = IF IsXY THEN a ELSE registers.x_resolution
    BY <1>1, <1>7 DEF line_size
  <2> QED
    BY <1>8, <1>9, <2>1, <2>2, <2>3
<1>11. \A b : BufferStart(b) = Buffer(b) /\ Buffer(b) \in Nat
  BY <1>1, <1>2 DEF BufferStart, Buffer
<1>12. Row \in Nat /\ registers.x_resolution <= Row
  BY <1>2, <1>8
<1> HIDE DEF w, a
<1> QED
  BY <1>1, <1>6, <1>8, <1>10, <1>11, <1>12 DEF w, a

\* Where a pixel is, in these terms.
LEMMA PixelIs ==
  ASSUME NEW x, NEW y, NEW b
  PROVE  PixelAt(x, y, b) = Buffer(b) + DataWidth(registers) * (x + y * Row)
BY DEF PixelAt, Buffer, Row

\* No two pixels of the screen share an address.
LEMMA VideoPixelsApart ==
  ASSUME Ready, NEW b, NEW p \in VideoScreen, NEW q \in VideoScreen,
         PixelAt(p[1], p[2], b) = PixelAt(q[1], q[2], b)
  PROVE  p = q
<1> DEFINE start == Buffer(b)
           w == DataWidth(registers)
           a == Row
           px == p[1]
           py == p[2]
           qx == q[1]
           qy == q[2]
           pa == py * a
           qa == qy * a
<1>1. /\ start \in Nat /\ a \in Nat /\ w \in {1, 2, 4}
      /\ px \in Nat /\ py \in Nat /\ qx \in Nat /\ qy \in Nat
      /\ px < a /\ qx < a /\ p = <<px, py>> /\ q = <<qx, qy>>
  <2>1. /\ Row \in Nat /\ registers.x_resolution <= Row /\ Buffer(b) \in Nat
        /\ registers.x_resolution \in Nat /\ registers.y_resolution \in Nat
        /\ w \in {1, 2, 4}
    BY Geometry, GeneratedSizes DEF Ready
  <2>2. /\ px \in 0..registers.x_resolution-1 /\ qx \in 0..registers.x_resolution-1
        /\ py \in 0..registers.y_resolution-1 /\ qy \in 0..registers.y_resolution-1
        /\ p = <<px, py>> /\ q = <<qx, qy>>
    BY DEF VideoScreen
  <2> HIDE DEF start, px, py, qx, qy, w
  <2> QED
    BY <2>1, <2>2 DEF start
<1>2. pa + px = qa + qx /\ pa \in Nat /\ qa \in Nat
  <2>1. start + w * (px + pa) = start + w * (qx + qa)
    BY PixelIs
  <2>2. pa \in Nat /\ qa \in Nat
    BY <1>1
  <2> HIDE DEF start, w, pa, qa, px, qx
  <2> QED
    BY <1>1, <2>1, <2>2
<1>3. ASSUME NEW m \in Nat, NEW n \in Nat, m < n
      PROVE  m * a + a <= n * a
  <2> HIDE DEF a
  <2>1. (m + 1) * a <= n * a
    BY <1>1, <1>3
  <2>2. (m + 1) * a = m * a + a
    BY <1>1
  <2> QED
    BY <2>1, <2>2
<1>4. ~(py < qy)
  <2>1. py < qy => pa + a <= qa
    BY <1>1, <1>3
  <2> HIDE DEF pa, qa, px, py, qx, qy, a
  <2> QED
    BY <1>1, <1>2, <2>1
<1>5. ~(qy < py)
  <2>1. qy < py => qa + a <= pa
    BY <1>1, <1>3
  <2> HIDE DEF pa, qa, px, py, qx, qy, a
  <2> QED
    BY <1>1, <1>2, <2>1
<1>6. py = qy
  <2> HIDE DEF pa, qa, px, py, qx, qy
  <2> QED
    BY <1>1, <1>4, <1>5
<1>7. px = qx
  <2>1. pa = qa
    BY <1>6
  <2> HIDE DEF pa, qa, px, py, qx, qy
  <2> QED
    BY <1>1, <1>2, <2>1
<1> QED
  BY <1>1, <1>6, <1>7

\* A write of the driver to a pixel, by any of its ways to the offset.
LEMMA HelperIs ==
  ASSUME Ready, NEW b, NEW x, NEW y, NEW offset,
         offset = DataWidth(registers) * (x + y * Row)
  PROVE  draw_helper(BufferStart(b), offset) = WriteAt(x, y, b)
<1>1. BufferStart(b) = Buffer(b) /\ device.data_width = DataWidth(registers)
  BY Geometry
<1>2. PixelAt(x, y, b) = Buffer(b) + offset
  BY PixelIs
<1> QED
  BY <1>1, <1>2 DEF draw_helper, WriteAt

\* The ways: of the rows, of the columns, and of the lines.
LEMMA OffsetsAgree ==
  ASSUME Ready, NEW x \in Nat, NEW y \in Nat
  PROVE  /\ y * y_inc + x * device.data_width = DataWidth(registers) * (x + y * Row)
         /\ x * 2^device.x_coord_offset + y * y_inc
              = DataWidth(registers) * (x + y * Row)
         /\ (line_size * y + x) * 2^device.x_coord_offset
              = DataWidth(registers) * (x + y * Row)
<1> DEFINE w == DataWidth(registers)
           a == Row
           ya == y * a
<1>1. w \in Nat /\ a \in Nat /\ ya \in Nat
  <2>1. w \in {1, 2, 4} /\ a \in Nat
    BY Geometry, GeneratedSizes DEF Ready
  <2> HIDE DEF w, a
  <2> QED
    BY <2>1
<1>2. /\ y_inc = w * a /\ line_size = a /\ device.data_width = w
      /\ 2^device.x_coord_offset = w
  BY Geometry
<1> HIDE DEF w, a
<1>3. y * (w * a) = w * ya /\ a * y = ya
  BY <1>1
<1> HIDE DEF ya
<1>4. /\ w * ya + x * w = w * (x + ya) /\ x * w + w * ya = w * (x + ya)
      /\ (ya + x) * w = w * (x + ya)
  BY <1>1
<1> QED
  BY <1>2, <1>3, <1>4 DEF w, a, ya

\* A row and a column of a figure.
LEMMA RowWritten ==
  ASSUME NEW S, NEW y, NEW b
  PROVE  Writes(S \X {y}, b) = {WriteAt(x, y, b) : x \in S}
<1>1. ASSUME NEW p \in S \X {y}
      PROVE  p[1] \in S /\ p[2] = y
  OBVIOUS
<1>2. ASSUME NEW x \in S
      PROVE  <<x, y>> \in S \X {y} /\ <<x, y>>[1] = x /\ <<x, y>>[2] = y
  OBVIOUS
<1> QED
  BY <1>1, <1>2 DEF Writes

LEMMA ColumnWritten ==
  ASSUME NEW S, NEW x, NEW b
  PROVE  Writes({x} \X S, b) = {WriteAt(x, y, b) : y \in S}
<1>1. ASSUME NEW p \in {x} \X S
      PROVE  p[2] \in S /\ p[1] = x
  OBVIOUS
<1>2. ASSUME NEW y \in S
      PROVE  <<x, y>> \in {x} \X S /\ <<x, y>>[1] = x /\ <<x, y>>[2] = y
  OBVIOUS
<1> QED
  BY <1>1, <1>2 DEF Writes

LEMMA HlineIs ==
  ASSUME Ready, NEW b, NEW x0 \in Nat, NEW x1 \in Nat, NEW y \in Nat
  PROVE  video_hline(x0, x1, y, b) = Writes((x0..x1) \X {y}, b)
<1>1. ASSUME NEW x \in x0..x1
      PROVE  draw_helper(BufferStart(b), y * y_inc + x * device.data_width)
               = WriteAt(x, y, b)
  <2>1. x \in Nat
    OBVIOUS
  <2> QED
    BY <2>1, HelperIs, OffsetsAgree
<1>2. video_hline(x0, x1, y, b) = {WriteAt(x, y, b) : x \in x0..x1}
  BY <1>1 DEF video_hline
<1>3. Writes((x0..x1) \X {y}, b) = {WriteAt(x, y, b) : x \in x0..x1}
  <2> DEFINE S == x0..x1
  <2> HIDE DEF S
  <2>1. Writes(S \X {y}, b) = {WriteAt(x, y, b) : x \in S}
    BY RowWritten
  <2> QED
    BY <2>1 DEF S
<1> QED
  BY <1>2, <1>3

LEMMA VlineIs ==
  ASSUME Ready, NEW b, NEW x \in Nat, NEW y0 \in Nat, NEW y1 \in Nat
  PROVE  video_vline(x, y0, y1, b) = Writes({x} \X (y0..y1), b)
<1>1. ASSUME NEW y \in y0..y1
      PROVE  draw_helper(BufferStart(b), x * 2^device.x_coord_offset + y * y_inc)
               = WriteAt(x, y, b)
  <2>1. y \in Nat
    OBVIOUS
  <2> QED
    BY <2>1, HelperIs, OffsetsAgree
<1>2. video_vline(x, y0, y1, b) = {WriteAt(x, y, b) : y \in y0..y1}
  BY <1>1 DEF video_vline
<1>3. Writes({x} \X (y0..y1), b) = {WriteAt(x, y, b) : y \in y0..y1}
  <2> DEFINE S == y0..y1
  <2> HIDE DEF S
  <2>1. Writes({x} \X S, b) = {WriteAt(x, y, b) : y \in S}
    BY ColumnWritten
  <2> QED
    BY <2>1 DEF S
<1> QED
  BY <1>2, <1>3

\* What a call asks for, as Asked has it.
Span(m, n, limit) == Low(m, n)..Low(High(m, n), limit - 1)

Wanted(this) ==
  LET xs == Span(this.x0, this.x1, registers.x_resolution)
      ys == Span(this.y0, this.y1, registers.y_resolution)
  IN  IF this.function = "draw_box" /\ this.fill = 0
      THEN {p \in xs \X ys :
              \/ \E n \in {this.x0, this.x1} :
                   p[1] = Low(n, registers.x_resolution - 1)
              \/ \E n \in {this.y0, this.y1} :
                   p[2] = Low(n, registers.y_resolution - 1)}
      ELSE xs \X ys

LEMMA SpanOfOne ==
  ASSUME NEW n \in Nat, NEW limit \in Nat \ {0}
  PROVE  Span(n, n, limit) = IF n < limit THEN {n} ELSE {}
<1>1. Span(n, n, limit) = n..Low(n, limit - 1)
  BY DEF Span, Low, High
<1>2. CASE n < limit
  <2>1. Low(n, limit - 1) = n
    BY <1>2 DEF Low
  <2> QED
    BY <1>1, <1>2, <2>1
<1>3. CASE ~(n < limit)
  <2>1. Low(n, limit - 1) = limit - 1
    BY <1>3 DEF Low
  <2>2. n..limit - 1 = {}
    BY <1>3
  <2> QED
    BY <1>1, <1>3, <2>1, <2>2
<1> QED
  BY <1>2, <1>3

LEMMA AskedIs == Asked = Wanted(drawing)
BY DEF Asked, Wanted, Span

\* The functions write what the calls ask for: a pixel,
LEMMA VideoPointIs ==
  ASSUME Ready, NEW b, NEW x \in Nat, NEW y \in Nat
  PROVE  video_draw(x, y, b) = Writes(Wanted(Call("draw", x, y, x, y, b, 0, 0)), b)
<1> DEFINE sx == registers.x_resolution
           sy == registers.y_resolution
           off == (x % device.x_coord_mask) * 2^device.x_coord_offset
                    + (y % device.y_coord_mask) * y_inc
<1>1. sx \in Nat \ {0} /\ sy \in Nat \ {0}
  BY GeneratedSizes DEF Ready
<1>2. OnScreen(x, y) <=> x < sx /\ y < sy
  BY Geometry DEF OnScreen
<1>3. Wanted(Call("draw", x, y, x, y, b, 0, 0)) = Span(x, x, sx) \X Span(y, y, sy)
  BY DEF Wanted, Call
<1>4. /\ Span(x, x, sx) = IF x < sx THEN {x} ELSE {}
      /\ Span(y, y, sy) = IF y < sy THEN {y} ELSE {}
  <2> HIDE DEF sx, sy
  <2> QED
    BY <1>1, SpanOfOne
<1>5. CASE x < sx /\ y < sy
  <2>1. x % device.x_coord_mask = x /\ y % device.y_coord_mask = y
    <3>1. /\ device.x_coord_mask \in Nat /\ device.y_coord_mask \in Nat
          /\ sx <= device.x_coord_mask /\ sy <= device.y_coord_mask
      BY Geometry, GeneratedSizes DEF Ready
    <3> HIDE DEF sx, sy
    <3>2. x < device.x_coord_mask /\ y < device.y_coord_mask
      BY <1>1, <1>5, <3>1
    <3> QED
      BY <3>1, <3>2, Within
  <2>2. off = DataWidth(registers) * (x + y * Row)
    BY <2>1, OffsetsAgree
  <2>3. draw_helper(BufferStart(b), off) = WriteAt(x, y, b)
    <3> HIDE DEF off
    <3> QED
      BY <2>2, HelperIs
  <2>4. video_draw(x, y, b) = {draw_helper(BufferStart(b), off)}
    BY <1>2, <1>5 DEF video_draw
  <2>5. Wanted(Call("draw", x, y, x, y, b, 0, 0)) = {<<x, y>>}
    BY <1>3, <1>4, <1>5
  <2>6. Writes({<<x, y>>}, b) = {WriteAt(x, y, b)}
    BY DEF Writes
  <2> HIDE DEF off
  <2> QED
    BY <2>3, <2>4, <2>5, <2>6
<1>6. CASE ~(x < sx /\ y < sy)
  <2>1. video_draw(x, y, b) = {}
    BY <1>2, <1>6 DEF video_draw
  <2>2. Wanted(Call("draw", x, y, x, y, b, 0, 0)) = {}
    BY <1>3, <1>4, <1>6
  <2> QED
    BY <2>1, <2>2 DEF Writes
<1> QED
  BY <1>5, <1>6

\* a box, filled or framed,
LEMMA VideoBoxIs ==
  ASSUME Ready, NEW b, NEW x0 \in Nat, NEW y0 \in Nat, NEW x1 \in Nat, NEW y1 \in Nat,
         NEW fill, fill \in {0, 1}
  PROVE  video_box(x0, y0, x1, y1, b, fill)
           = Writes(Wanted(Call("draw_box", x0, y0, x1, y1, b, 0, fill)), b)
<1> DEFINE sx == registers.x_resolution
           sy == registers.y_resolution
           l == Low(x0, x1)
           t == Low(y0, y1)
           r == Low(High(x0, x1), sx - 1)
           d == Low(High(y0, y1), sy - 1)
           W == Wanted(Call("draw_box", x0, y0, x1, y1, b, 0, fill))
<1>1. sx \in Nat \ {0} /\ sy \in Nat \ {0}
  BY GeneratedSizes DEF Ready
<1>2. /\ device.x_resolution = sx /\ device.y_resolution = sy
      /\ OnScreen(l, t) <=> l < sx /\ t < sy
  BY Geometry DEF OnScreen
<1>3. l \in Nat /\ t \in Nat /\ r \in Nat /\ d \in Nat
  <2> HIDE DEF sx, sy
  <2> QED
    BY <1>1 DEF Low, High
<1>4. W = IF fill = 0
          THEN {p \in (l..r) \X (t..d) : \/ \E n \in {x0, x1} : p[1] = Low(n, sx - 1)
                                       \/ \E n \in {y0, y1} : p[2] = Low(n, sy - 1)}
          ELSE (l..r) \X (t..d)
  BY DEF Wanted, Call, Span
<1>5. ~(l < sx) => l..r = {}
  <2> HIDE DEF sx, sy
  <2> QED
    BY <1>1 DEF Low, High
<1>6. ~(t < sy) => t..d = {}
  <2> HIDE DEF sx, sy
  <2> QED
    BY <1>1 DEF Low, High
<1>7. CASE ~OnScreen(l, t)
  <2>1. video_box(x0, y0, x1, y1, b, fill) = {}
    BY <1>2, <1>7 DEF video_box
  <2>2. W = {}
    <3> HIDE DEF l, r, t, d, W, sx, sy
    <3> QED
      BY <1>2, <1>4, <1>5, <1>6, <1>7
  <2> QED
    BY <2>1, <2>2 DEF Writes
<1>8. CASE OnScreen(l, t) /\ fill = 0
  <2>1. video_box(x0, y0, x1, y1, b, fill) = video_rectangle(l, t, r, d, b)
    BY <1>2, <1>8 DEF video_box
  <2> DEFINE E == ((l..r) \X {t}) \cup ((l..r) \X {d})
                    \cup ({l} \X (t..d)) \cup ({r} \X (t..d))
  <2>2. video_rectangle(l, t, r, d, b) = Writes(E, b)
    <3> HIDE DEF l, t, r, d
    <3>1. /\ video_hline(l, r, t, b) = Writes((l..r) \X {t}, b)
          /\ video_hline(l, r, d, b) = Writes((l..r) \X {d}, b)
          /\ video_vline(l, t, d, b) = Writes({l} \X (t..d), b)
          /\ video_vline(r, t, d, b) = Writes({r} \X (t..d), b)
      BY <1>3, HlineIs, VlineIs
    <3> HIDE DEF E
    <3>2. ASSUME NEW A, NEW B, NEW C, NEW D
          PROVE  Writes(A, b) \cup Writes(B, b) \cup Writes(C, b) \cup Writes(D, b)
                   = Writes(A \cup B \cup C \cup D, b)
      BY DEF Writes
    <3> DEFINE A == (l..r) \X {t}
               B == (l..r) \X {d}
               C == {l} \X (t..d)
               D == {r} \X (t..d)
    <3>3. video_rectangle(l, t, r, d, b)
            = Writes(A, b) \cup Writes(B, b) \cup Writes(C, b) \cup Writes(D, b)
      BY <3>1 DEF video_rectangle
    <3> HIDE DEF A, B, C, D
    <3>4. video_rectangle(l, t, r, d, b) = Writes(A \cup B \cup C \cup D, b)
      BY <3>2, <3>3
    <3> QED
      BY <3>4 DEF A, B, C, D, E
  <2>3. /\ {Low(x0, sx - 1), Low(x1, sx - 1)} = {l, r}
        /\ {Low(y0, sy - 1), Low(y1, sy - 1)} = {t, d}
    <3> HIDE DEF sx, sy
    <3>1. x0 <= x1 => Low(x0, sx - 1) = l /\ Low(x1, sx - 1) = r
      BY <1>1, <1>2, <1>8 DEF Low, High
    <3>2. ~(x0 <= x1) => Low(x1, sx - 1) = l /\ Low(x0, sx - 1) = r
      BY <1>1, <1>2, <1>8 DEF Low, High
    <3>3. y0 <= y1 => Low(y0, sy - 1) = t /\ Low(y1, sy - 1) = d
      BY <1>1, <1>2, <1>8 DEF Low, High
    <3>4. ~(y0 <= y1) => Low(y1, sy - 1) = t /\ Low(y0, sy - 1) = d
      BY <1>1, <1>2, <1>8 DEF Low, High
    <3> HIDE DEF l, r, t, d
    <3> QED
      BY <3>1, <3>2, <3>3, <3>4
  <2>4. l <= r /\ t <= d
    <3> HIDE DEF sx, sy
    <3> QED
      BY <1>1, <1>2, <1>8 DEF Low, High
  <2>5. W = {p \in (l..r) \X (t..d) : p[1] \in {l, r} \/ p[2] \in {t, d}}
    <3> DEFINE xl == Low(x0, sx - 1)
               xr == Low(x1, sx - 1)
               yt == Low(y0, sy - 1)
               yd == Low(y1, sy - 1)
    <3>1. W = {p \in (l..r) \X (t..d) : p[1] \in {xl, xr} \/ p[2] \in {yt, yd}}
      BY <1>4, <1>8
    <3> HIDE DEF W, l, r, t, d, xl, xr, yt, yd
    <3> QED
      BY <2>3, <3>1 DEF xl, xr, yt, yd
  <2>6. W = E
    <3> HIDE DEF W, l, r, t, d
    <3> QED
      BY <1>3, <2>4, <2>5
  <2> QED
    BY <2>1, <2>2, <2>6
<1>9. CASE OnScreen(l, t) /\ fill # 0
  <2>1. video_box(x0, y0, x1, y1, b, fill)
          = UNION {video_hline(l, r, y, b) : y \in t..d}
    BY <1>2, <1>9 DEF video_box
  <2> HIDE DEF l, t, r, d, W
  <2>2. ASSUME NEW y \in t..d
        PROVE  video_hline(l, r, y, b) = Writes((l..r) \X {y}, b)
    <3>1. y \in Nat
      BY <1>3
    <3> QED
      BY <1>3, <3>1, HlineIs
  <2>3. video_box(x0, y0, x1, y1, b, fill)
          = UNION {Writes((l..r) \X {y}, b) : y \in t..d}
    BY <2>1, <2>2
  <2>4. UNION {Writes((l..r) \X {y}, b) : y \in t..d} = Writes((l..r) \X (t..d), b)
    BY DEF Writes
  <2>5. W = (l..r) \X (t..d)
    BY <1>4, <1>9
  <2> QED
    BY <2>3, <2>4, <2>5 DEF W
<1> HIDE DEF l, t
<1> QED
  BY <1>7, <1>8, <1>9

\* The driver's columns are the other driver's.
LEMMA WalksAgree ==
  ASSUME NEW first, NEW last, first[2] \in Int, last[2] \in Int
  PROVE  VideoColumns(first, last) = Columns(first, last)
<1>1. Distance(last[2], first[2]) = Abs(last[2] - first[2])
  BY DEF Distance, Abs
<1>2. \A y, m, n, k : VideoWalk(y, m, n, k) = Walk(y, m, n, k)
  BY DEF VideoWalk, Walk
<1> QED
  BY <1>1, <1>2 DEF VideoColumns, Columns

\* and a line, if both its ends are on the screen.
LEMMA VideoLineIs ==
  ASSUME Ready, NEW b, NEW x0 \in Nat, NEW y0 \in Nat, NEW x1 \in Nat, NEW y1 \in Nat
  PROVE  video_line(x0, y0, x1, y1, b)
           = IF OnScreen(x0, y0) /\ OnScreen(x1, y1)
             THEN Writes(LinePoints(x0, y0, x1, y1), b) ELSE {}
<1> DEFINE steep == Abs(y1 - y0) > Abs(x1 - x0)
           Turn(p) == IF steep THEN <<p[2], p[1]>> ELSE p
           swap  == Turn(<<x0, y0>>)[1] > Turn(<<x1, y1>>)[1]
           first == Turn(IF swap THEN <<x1, y1>> ELSE <<x0, y0>>)
           last  == Turn(IF swap THEN <<x0, y0>> ELSE <<x1, y1>>)
           F(p) == draw_helper(BufferStart(b),
                               (line_size * p[2] + p[1]) * 2^device.x_coord_offset)
           P == LinePoints(x0, y0, x1, y1)
           inside == OnScreen(x0, y0) /\ OnScreen(x1, y1)
<1>1. P = {Turn(p) : p \in Columns(first, last)}
  BY DEF LinePoints
<1>2. \A m, n \in Int : Distance(m, n) = Abs(m - n)
  BY DEF Distance, Abs
<1>3. video_line(x0, y0, x1, y1, b)
        = IF inside THEN {F(Turn(p)) : p \in VideoColumns(first, last)} ELSE {}
  <2> DEFINE Turning(s, p) == IF s THEN <<p[2], p[1]>> ELSE p
             swapping(s) == Turning(s, <<x0, y0>>)[1] > Turning(s, <<x1, y1>>)[1]
             left(s) == Turning(s, IF swapping(s) THEN <<x1, y1>> ELSE <<x0, y0>>)
             right(s) == Turning(s, IF swapping(s) THEN <<x0, y0>> ELSE <<x1, y1>>)
             DrawnBy(s) ==
               IF ~OnScreen(x0, y0) \/ ~OnScreen(x1, y1) THEN {}
               ELSE {F(Turning(s, p)) : p \in VideoColumns(left(s), right(s))}
             distant == Distance(y1, y0) > Distance(x1, x0)
  <2>1. video_line(x0, y0, x1, y1, b) = DrawnBy(distant)
    BY DEF video_line
  <2>2. distant = steep
    BY <1>2
  <2>3. DrawnBy(distant) = DrawnBy(steep)
    <3> HIDE DEF distant, steep, DrawnBy
    <3> QED
      BY <2>2
  <2>4. DrawnBy(steep)
          = IF inside THEN {F(Turn(p)) : p \in VideoColumns(first, last)} ELSE {}
    <3>1. CASE inside
      <4> HIDE DEF steep, F
      <4> QED
        BY <3>1
    <3>2. CASE ~inside
      <4> HIDE DEF steep, F
      <4> QED
        BY <3>2
    <3> HIDE DEF inside, DrawnBy
    <3> QED
      BY <3>1, <3>2
  <2> HIDE DEF DrawnBy, distant, steep, F, inside
  <2> QED
    BY <2>1, <2>3, <2>4
<1>4. VideoColumns(first, last) = Columns(first, last)
  <2>1. first[2] \in Int /\ last[2] \in Int
    <3> HIDE DEF steep
    <3> QED
      OBVIOUS
  <2> HIDE DEF first, last
  <2> QED
    BY <2>1, WalksAgree
<1>5. {F(Turn(p)) : p \in Columns(first, last)} = {F(p) : p \in P}
  <2> DEFINE L == Columns(first, last)
  <2> HIDE DEF L, Turn, F, P
  <2>1. P = {Turn(p) : p \in L}
    BY <1>1 DEF L
  <2>2. {F(Turn(p)) : p \in L} = {F(p) : p \in P}
    BY <2>1
  <2> QED
    BY <2>2 DEF L
<1>6. ASSUME NEW p \in P
      PROVE  F(p) = WriteAt(p[1], p[2], b)
  <2>1. P \subseteq Between(x0, x1) \X Between(y0, y1)
    <3>1. /\ <<x0, y0>>[1] = x0 /\ <<x0, y0>>[2] = y0
          /\ <<x1, y1>>[1] = x1 /\ <<x1, y1>>[2] = y1
      OBVIOUS
    <3>2. Joins(P, <<x0, y0>>, <<x1, y1>>, LongAxis(x0, y0, x1, y1))
      BY PointsJoin
    <3> HIDE DEF P
    <3> QED
      BY <3>1, <3>2 DEF Joins
  <2>2. \A m, n \in Nat : Between(m, n) \subseteq Nat
    BY DEF Between
  <2>3. p[1] \in Nat /\ p[2] \in Nat
    <3> HIDE DEF P
    <3> QED
      BY <2>1, <2>2
  <2> DEFINE m == p[1]
             n == p[2]
  <2> HIDE DEF m, n
  <2>4. (line_size * n + m) * 2^device.x_coord_offset
          = DataWidth(registers) * (m + n * Row)
    BY <2>3, OffsetsAgree DEF m, n
  <2>5. draw_helper(BufferStart(b), (line_size * n + m) * 2^device.x_coord_offset)
          = WriteAt(m, n, b)
    BY <2>4, HelperIs
  <2> QED
    BY <2>5 DEF m, n
<1>7. {F(p) : p \in P} = Writes(P, b)
  <2> HIDE DEF F, P
  <2> QED
    BY <1>6 DEF Writes
<1> HIDE DEF F, P, Turn, first, last, inside
<1> QED
  BY <1>3, <1>4, <1>5, <1>7 DEF P, inside

CountedAlong(P, axis, count) ==
  Cardinality(P) = count /\ Cardinality({p[axis] : p \in P}) = count

\* What joins two points has a point for each step between them.
LEMMA JoinsCount ==
  ASSUME NEW a \in Int \X Int, NEW e \in Int \X Int, NEW axis \in {1, 2}, NEW P,
         Joins(P, a, e, axis)
  PROVE  CountedAlong(P, axis, Abs(e[axis] - a[axis]) + 1)
<1> DEFINE m == a[axis]
           n == e[axis]
           S == Between(m, n)
           f == [k \in S |-> CHOOSE p \in P : p[axis] = k]
<1>1. m \in Int /\ n \in Int
  <2>1. a[1] \in Int /\ a[2] \in Int /\ e[1] \in Int /\ e[2] \in Int
    OBVIOUS
  <2> QED
    BY <2>1
<1>2. IsFiniteSet(S) /\ Cardinality(S) = Abs(n - m) + 1
  <2> HIDE DEF m, n
  <2>1. CASE m <= n
    <3>1. /\ IsFiniteSet(m..n)
          /\ Cardinality(m..n) = IF m > n THEN 0 ELSE n - m + 1
      BY <1>1, FS_Interval
    <3> QED
      BY <1>1, <2>1, <3>1 DEF Between, Abs
  <2>2. CASE ~(m <= n)
    <3>1. /\ IsFiniteSet(n..m)
          /\ Cardinality(n..m) = IF n > m THEN 0 ELSE m - n + 1
      BY <1>1, FS_Interval
    <3> QED
      BY <1>1, <2>2, <3>1 DEF Between, Abs
  <2> QED
    BY <2>1, <2>2
<1>3. \A p \in P : p[axis] \in S
  <2>1. P \subseteq Between(a[1], e[1]) \X Between(a[2], e[2])
    BY DEF Joins
  <2>2. \A p \in P : p[1] \in Between(a[1], e[1]) /\ p[2] \in Between(a[2], e[2])
    BY <2>1
  <2> QED
    BY <2>2
<1>4. /\ \A k \in S : \E p \in P : p[axis] = k
      /\ \A p, q \in P : p[axis] = q[axis] => p = q
  BY DEF Joins
<1> HIDE DEF S
<1>5. {p[axis] : p \in P} = S
  BY <1>3, <1>4
<1>6. f \in Bijection(S, P)
  <2>1. \A k \in S : f[k] \in P /\ f[k][axis] = k
    BY <1>4
  <2>2. f \in [S -> P]
    BY <2>1
  <2>3. \A k, l \in S : f[k] = f[l] => k = l
    BY <2>1
  <2>4. \A p \in P : \E k \in S : f[k] = p
    <3>1. ASSUME NEW p \in P
          PROVE  f[p[axis]] = p
      <4>1. p[axis] \in S
        BY <1>3
      <4>2. f[p[axis]] \in P /\ f[p[axis]][axis] = p[axis]
        BY <2>1, <4>1
      <4> HIDE DEF f
      <4> QED
        BY <1>4, <4>2
    <3> HIDE DEF f
    <3> QED
      BY <1>3, <3>1
  <2> HIDE DEF f
  <2> QED
    BY <2>2, <2>3, <2>4 DEF Bijection, Injection, Surjection, IsInjective
<1>7. Cardinality(P) = Cardinality(S)
  BY <1>2, <1>6, FS_Bijection DEF ExistsBijection
<1> QED
  BY <1>2, <1>5, <1>7 DEF CountedAlong

\* VideoLineExact of a call.
AskedLineRight(this, writes) ==
  LET run == this.x1 - this.x0
      rise == this.y1 - this.y0
      long == High(Distance(run, 0), Distance(rise, 0))
      points == {p \in Wanted(this) : Writes({p}, this.backbuffer) \subseteq writes}
      ends == {<<this.x0, this.y0>>, <<this.x1, this.y1>>}
  IN  IF \E p \in ends : \/ p[1] >= registers.x_resolution
                         \/ p[2] >= registers.y_resolution
      THEN writes = {}
      ELSE /\ writes = Writes(points, this.backbuffer) /\ ends \subseteq points
           /\ Cardinality(points) = long + 1
           /\ \E i \in 1..2 : Cardinality({p[i] : p \in points}) = long + 1
           /\ \A p \in points :
                2 * Distance((p[1] - this.x0) * rise,
                             (p[2] - this.y0) * run) <= long

\* Such a line is exact.
LEMMA VideoLineRight ==
  ASSUME Ready, NEW b, NEW x0 \in Nat, NEW y0 \in Nat, NEW x1 \in Nat, NEW y1 \in Nat
  PROVE  AskedLineRight(Call("draw_line", x0, y0, x1, y1, b, 0, 0),
                   video_line(x0, y0, x1, y1, b))
<1> DEFINE this == Call("draw_line", x0, y0, x1, y1, b, 0, 0)
           sx == registers.x_resolution
           sy == registers.y_resolution
           a == <<x0, y0>>
           e == <<x1, y1>>
           out == video_line(x0, y0, x1, y1, b)
           P == LinePoints(x0, y0, x1, y1)
           run == x1 - x0
           rise == y1 - y0
           long == High(Distance(run, 0), Distance(rise, 0))
           box == Wanted(this)
           points == {p \in box : Writes({p}, b) \subseteq out}
           axis == LongAxis(x0, y0, x1, y1)
<1>1. AskedLineRight(this, out) <=>
        IF \E p \in {a, e} : p[1] >= sx \/ p[2] >= sy
        THEN out = {}
        ELSE /\ out = Writes(points, b) /\ {a, e} \subseteq points
             /\ Cardinality(points) = long + 1
             /\ \E i \in 1..2 : Cardinality({p[i] : p \in points}) = long + 1
             /\ \A p \in points :
                  2 * Distance((p[1] - x0) * rise, (p[2] - y0) * run) <= long
  <2>1. /\ this.x0 = x0 /\ this.y0 = y0 /\ this.x1 = x1 /\ this.y1 = y1
        /\ this.backbuffer = b
    BY DEF Call
  <2> HIDE DEF this, out
  <2> QED
    BY <2>1 DEF AskedLineRight
<1>2. sx \in Nat \ {0} /\ sy \in Nat \ {0}
  BY GeneratedSizes DEF Ready
<1>3. /\ OnScreen(x0, y0) <=> x0 < sx /\ y0 < sy
      /\ OnScreen(x1, y1) <=> x1 < sx /\ y1 < sy
  BY Geometry DEF OnScreen
<1>4. (\E p \in {a, e} : p[1] >= sx \/ p[2] >= sy)
        <=> ~(OnScreen(x0, y0) /\ OnScreen(x1, y1))
  <2>1. a[1] = x0 /\ a[2] = y0 /\ e[1] = x1 /\ e[2] = y1
    OBVIOUS
  <2> HIDE DEF a, e, sx, sy
  <2>2. (\E p \in {a, e} : p[1] >= sx \/ p[2] >= sy)
          <=> x0 >= sx \/ y0 >= sy \/ x1 >= sx \/ y1 >= sy
    BY <2>1
  <2> QED
    BY <1>2, <1>3, <2>2
<1>5. out = IF OnScreen(x0, y0) /\ OnScreen(x1, y1) THEN Writes(P, b) ELSE {}
  BY VideoLineIs
<1>6. CASE ~(OnScreen(x0, y0) /\ OnScreen(x1, y1))
  <2> HIDE DEF out, P, box, points, long, a, e, sx, sy
  <2>1. out = {}
    BY <1>5, <1>6
  <2>2. AskedLineRight(this, out)
    BY <1>1, <1>4, <1>6, <2>1
  <2> QED
    BY <2>2 DEF out
<1>7. CASE OnScreen(x0, y0) /\ OnScreen(x1, y1)
  <2>1. out = Writes(P, b)
    BY <1>5, <1>7
  <2>2. box = Between(x0, x1) \X Between(y0, y1)
    <3>1. box = Span(x0, x1, sx) \X Span(y0, y1, sy)
      BY DEF Wanted, Call
    <3> HIDE DEF box, sx, sy
    <3>2. /\ High(x0, x1) < sx /\ High(y0, y1) < sy
          /\ High(x0, x1) \in Nat /\ High(y0, y1) \in Nat
      BY <1>2, <1>3, <1>7 DEF High
    <3>3. /\ Low(High(x0, x1), sx - 1) = High(x0, x1)
          /\ Low(High(y0, y1), sy - 1) = High(y0, y1)
      BY <1>2, <3>2 DEF Low
    <3>4. /\ Span(x0, x1, sx) = Low(x0, x1)..High(x0, x1)
          /\ Span(y0, y1, sy) = Low(y0, y1)..High(y0, y1)
      BY <3>3 DEF Span
    <3>5. \A m, n \in Nat : Low(m, n)..High(m, n) = Between(m, n)
      BY DEF Low, High, Between
    <3> QED
      BY <3>1, <3>4, <3>5
  <2>3. box \subseteq VideoScreen
    <3>1. Between(x0, x1) \subseteq 0..sx-1 /\ Between(y0, y1) \subseteq 0..sy-1
      <4> HIDE DEF sx, sy
      <4> QED
        BY <1>2, <1>3, <1>7 DEF Between
    <3> HIDE DEF box
    <3> QED
      BY <2>2, <3>1 DEF VideoScreen
  <2>4. axis \in {1, 2} /\ Joins(P, a, e, axis)
    <3>1. axis \in {1, 2}
      BY DEF LongAxis
    <3> HIDE DEF axis
    <3> QED
      BY <3>1, PointsJoin DEF axis
  <2>5. P \subseteq box /\ {a, e} \subseteq P
    <3>1. a[1] = x0 /\ a[2] = y0 /\ e[1] = x1 /\ e[2] = y1
      OBVIOUS
    <3> HIDE DEF a, e, P, box, axis
    <3> QED
      BY <2>2, <2>4, <3>1 DEF Joins
  <2>6. points = P
    <3> HIDE DEF box, P, out
    <3>1. ASSUME NEW p \in points
          PROVE  p \in P
      <4>1. WriteAt(p[1], p[2], b) \in Writes(P, b)
        BY <2>1 DEF Writes
      <4>2. PICK q \in P : WriteAt(p[1], p[2], b) = WriteAt(q[1], q[2], b)
        BY <4>1 DEF Writes
      <4>3. PixelAt(p[1], p[2], b) = PixelAt(q[1], q[2], b)
        BY <4>2 DEF WriteAt
      <4>4. p \in VideoScreen /\ q \in VideoScreen
        BY <2>3, <2>5
      <4> QED
        BY <4>3, <4>4, VideoPixelsApart
    <3>2. ASSUME NEW p \in P
          PROVE  p \in points
      BY <2>1, <2>5 DEF Writes
    <3> QED
      BY <3>1, <3>2
  <2>7. long = Abs(e[axis] - a[axis])
    <3>1. a[1] = x0 /\ a[2] = y0 /\ e[1] = x1 /\ e[2] = y1
      OBVIOUS
    <3>2. Distance(run, 0) = Abs(x1 - x0) /\ Distance(rise, 0) = Abs(y1 - y0)
      BY DEF Distance, Abs
    <3>3. Abs(x1 - x0) \in Int /\ Abs(y1 - y0) \in Int
      BY DEF Abs
    <3>4. long = IF Abs(x1 - x0) > Abs(y1 - y0) THEN Abs(x1 - x0) ELSE Abs(y1 - y0)
      BY <3>2 DEF High
    <3>5. axis = IF Abs(x1 - x0) >= Abs(y1 - y0) THEN 1 ELSE 2
      BY DEF LongAxis
    <3> HIDE DEF a, e, long, axis
    <3>6. Abs(e[axis] - a[axis])
            = IF Abs(x1 - x0) >= Abs(y1 - y0) THEN Abs(x1 - x0) ELSE Abs(y1 - y0)
      BY <3>1, <3>5
    <3> DEFINE dist1 == Abs(x1 - x0)
               dist2 == Abs(y1 - y0)
    <3> HIDE DEF dist1, dist2
    <3>7. dist1 \in Int /\ dist2 \in Int
      BY <3>3 DEF dist1, dist2
    <3>8. (IF dist1 > dist2 THEN dist1 ELSE dist2)
            = IF dist1 >= dist2 THEN dist1 ELSE dist2
      BY <3>7
    <3> QED
      BY <3>4, <3>6, <3>8 DEF dist1, dist2
  <2>8. Cardinality(P) = long + 1 /\ Cardinality({p[axis] : p \in P}) = long + 1
    <3>1. a \in Int \X Int /\ e \in Int \X Int
      OBVIOUS
    <3> HIDE DEF a, e, P, long, axis, out, box, points, this
    <3>2. CountedAlong(P, axis, Abs(e[axis] - a[axis]) + 1)
      BY <2>4, <3>1, JoinsCount
    <3> QED
      BY <2>7, <3>2 DEF CountedAlong
  <2>9. ASSUME NEW p \in P
        PROVE  2 * Distance((p[1] - x0) * rise, (p[2] - y0) * run) <= long
    <3>1. p[1] \in Int /\ p[2] \in Int
      <4>1. \A m, n \in Nat : Between(m, n) \subseteq Int
        BY DEF Between
      <4> HIDE DEF P, box
      <4> QED
        BY <2>2, <2>5, <4>1
    <3> DEFINE m == (p[1] - x0) * rise
               n == (p[2] - y0) * run
    <3>2. m \in Int /\ n \in Int
      BY <3>1
    <3>3. Cross(p, a, e) = m - n
      BY DEF Cross
    <3>4. 2 * Abs(Cross(p, a, e)) <= Abs(e[axis] - a[axis])
      <4> HIDE DEF a, e, P, axis
      <4> QED
        BY <2>4 DEF Joins
    <3> HIDE DEF m, n, a, e, P, long, axis
    <3>5. Distance(m, n) = Abs(m - n)
      BY <3>2 DEF Distance, Abs
    <3>6. 2 * Distance(m, n) <= long
      BY <2>7, <3>3, <3>4, <3>5
    <3> QED
      BY <3>6 DEF m, n
  <2>10. \E i \in 1..2 : Cardinality({p[i] : p \in P}) = long + 1
    <3> HIDE DEF P, long, axis
    <3>1. axis \in 1..2
      BY <2>4
    <3> QED
      BY <2>8, <3>1
  <2> HIDE DEF out, P, points, long, a, e, box, axis, run, rise, sx, sy
  <2>11. AskedLineRight(this, out)
    <3>1. out = Writes(points, b) /\ {a, e} \subseteq points
      BY <2>1, <2>5, <2>6
    <3>2. /\ Cardinality(points) = long + 1
          /\ \E i \in 1..2 : Cardinality({p[i] : p \in points}) = long + 1
          /\ \A p \in points :
               2 * Distance((p[1] - x0) * rise, (p[2] - y0) * run) <= long
      BY <2>6, <2>8, <2>9, <2>10
    <3> HIDE DEF this
    <3> QED
      BY <1>1, <1>4, <1>7, <3>1, <3>2
  <2> QED
    BY <2>11 DEF out
<1> QED
  BY <1>6, <1>7

\* The characters of a string, as VideoStringExact has them.
StringPut(x, y, n, b, writes) ==
  {w[1] : w \in writes} = {PixelAt(k, y, b) : k \in {m \in x..x + n - 1 :
                                                    /\ m < registers.x_resolution
                                                    /\ y < registers.y_resolution}}

LEMMA VideoStringRight ==
  ASSUME Ready, NEW b, NEW x \in Nat, NEW y \in Nat, NEW n \in Nat,
         registers.addressing_mode = 0
  PROVE  StringPut(x, y, n, b, video_string(x, y, n, b))
<1> DEFINE sx == registers.x_resolution
           sy == registers.y_resolution
           w == DataWidth(registers)
           stride == Row
           off == y * 2^device.y_coord_offset + x * 2^device.x_coord_offset
           from == BufferStart(b)
           size == IF device.data_width = 2 THEN 2 ELSE 1
           last == Low(n, sx - x) - 1
           K == {m \in x..x + n - 1 : m < sx /\ y < sy}
<1>1. sx \in Nat \ {0} /\ sy \in Nat \ {0} /\ w \in Nat
  <2>1. w \in {1, 2, 4}
    BY GeneratedSizes DEF Ready
  <2>2. sx \in Nat \ {0} /\ sy \in Nat \ {0}
    BY GeneratedSizes DEF Ready
  <2> HIDE DEF w
  <2> QED
    BY <2>1, <2>2
<1>2. /\ from = Buffer(b) /\ Buffer(b) \in Nat /\ stride \in Nat
      /\ device.data_width = w
      /\ off = y * (w * stride) + x * w
      /\ OnScreen(x, y) <=> x < sx /\ y < sy
      /\ device.x_resolution = sx
  BY Geometry DEF OnScreen
<1> SUFFICES {v[1] : v \in video_string(x, y, n, b)} = {PixelAt(k, y, b) : k \in K}
  BY DEF StringPut
<1>3. CASE OnScreen(x, y)
  <2>1. video_string(x, y, n, b)
          = {<<from + off + i * device.data_width, size>> : i \in 0..last}
    BY <1>2, <1>3 DEF video_string
  <2>2. ASSUME NEW i \in 0..last
        PROVE  from + off + i * device.data_width = PixelAt(x + i, y, b)
    <3>1. PixelAt(x + i, y, b) = Buffer(b) + w * ((x + i) + y * stride)
      BY PixelIs
    <3> HIDE DEF w, stride, off, from, last
    <3>2. i \in Int
      OBVIOUS
    <3> DEFINE ys == y * stride
    <3>3. y * (w * stride) = w * ys /\ ys \in Int
      BY <1>1, <1>2
    <3> HIDE DEF ys
    <3>4. w * ((x + i) + ys) = (w * ys + x * w) + i * w
      BY <1>1, <3>2, <3>3
    <3>5. off \in Int /\ i * w \in Int /\ off = w * ys + x * w
      BY <1>1, <1>2, <3>2, <3>3
    <3>6. PixelAt(x + i, y, b) = from + (off + i * w)
      BY <1>2, <3>1, <3>4, <3>5 DEF ys
    <3>7. from + (off + i * w) = (from + off) + i * w
      BY <1>2, <3>5
    <3> QED
      BY <1>2, <3>6, <3>7
  <2>3. {v[1] : v \in video_string(x, y, n, b)} = {PixelAt(x + i, y, b) : i \in 0..last}
    <3> DEFINE Put(i) == <<from + off + i * device.data_width, size>>
    <3>1. ASSUME NEW i \in 0..last
          PROVE  Put(i)[1] = PixelAt(x + i, y, b)
      BY <2>2
    <3>2. video_string(x, y, n, b) = {Put(i) : i \in 0..last}
      BY <2>1
    <3> HIDE DEF last, Put
    <3>3. {v[1] : v \in video_string(x, y, n, b)} = {Put(i)[1] : i \in 0..last}
      BY <3>2
    <3> QED
      BY <3>1, <3>3
  <2>4. ASSUME NEW i \in 0..last
        PROVE  x + i \in K
    <3> HIDE DEF sx, sy
    <3> QED
      BY <1>1, <1>2, <1>3 DEF Low
  <2>5. ASSUME NEW k \in K
        PROVE  k - x \in 0..last /\ x + (k - x) = k
    <3> HIDE DEF sx, sy
    <3> QED
      BY <1>1, <1>2, <1>3 DEF Low
  <2>6. {PixelAt(x + i, y, b) : i \in 0..last} = {PixelAt(k, y, b) : k \in K}
    <3> HIDE DEF last, K
    <3>1. ASSUME NEW k \in K
          PROVE  \E i \in 0..last : PixelAt(k, y, b) = PixelAt(x + i, y, b)
      BY <2>5
    <3>2. ASSUME NEW i \in 0..last
          PROVE  \E k \in K : PixelAt(x + i, y, b) = PixelAt(k, y, b)
      BY <2>4
    <3> QED
      BY <3>1, <3>2
  <2> QED
    BY <2>3, <2>6
<1>4. CASE ~OnScreen(x, y)
  <2>1. video_string(x, y, n, b) = {}
    BY <1>4 DEF video_string
  <2>2. K = {}
    <3> HIDE DEF sx, sy
    <3> QED
      BY <1>1, <1>2, <1>4
  <2> QED
    BY <2>1, <2>2
<1> QED
  BY <1>3, <1>4

\* VideoFiguresExact of a call.
DrawingRight(this, writes) ==
  /\ this.function \in {"draw", "draw_box"}
       => writes = Writes(Wanted(this), this.backbuffer)
  /\ this.function = "draw_line" => AskedLineRight(this, writes)
  /\ this.function = "draw_string" /\ registers.addressing_mode = 0
       => StringPut(this.x0, this.y0, this.length, this.backbuffer, writes)

LEMMA ExactIsRight == VideoFiguresExact <=> DrawingRight(drawing, output)
<1>1. \A points : Pixels(points) = Writes(points, drawing.backbuffer)
  BY DEF Pixels, Writes, WriteAt
<1>2. FigureExact <=> output = Writes(Wanted(drawing), drawing.backbuffer)
  BY <1>1, AskedIs DEF FigureExact
<1>3. VideoLineExact <=> AskedLineRight(drawing, output)
  BY <1>1, AskedIs DEF VideoLineExact, AskedLineRight
<1> QED
  BY <1>2, <1>3 DEF VideoFiguresExact, VideoStringExact, DrawingRight, StringPut

\* The structure of the driver and the registers agree, except for an exchange that
\* both will have made once the program draws again.
VideoInv ==
  /\ Generated
  /\ device = Opened(Exchanged)
  /\ registers.swap => waiting
  /\ drawing # NoDrawing => ~waiting
  /\ VideoFiguresExact

\* The structure, field by field.
Structure(r, front_, back_) ==
  [buffer_start_address |-> front_, back_buffer_start_address |-> back_,
   addressing_mode |-> r.addressing_mode, data_width |-> DataWidth(r),
   x_resolution |-> r.x_resolution, y_resolution |-> r.y_resolution,
   x_coord_offset |-> CoordOffset(DataWidth(r)), x_coord_mask |-> 2^r.wiw,
   y_coord_offset |-> r.wiw + CoordOffset(DataWidth(r)), y_coord_mask |-> 2^r.hiw]

LEMMA StructureIs ==
  ASSUME NEW r, NEW f, NEW b, NEW swap
  PROVE  Opened(Held(r, f, b, swap)) = Structure(r, f, b)
<1>1. DataWidth(Held(r, f, b, swap)) = DataWidth(r)
  BY DEF Held, DataWidth
<1>2. LET h == Held(r, f, b, swap)
      IN  /\ h.front = f /\ h.back = b /\ h.addressing_mode = r.addressing_mode
          /\ h.x_resolution = r.x_resolution /\ h.y_resolution = r.y_resolution
          /\ h.wiw = r.wiw /\ h.hiw = r.hiw
  BY DEF Held
<1> QED
  BY <1>1, <1>2 DEF Opened, Structure

LEMMA VideoInvInit == VideoInit => VideoInv
<1> SUFFICES ASSUME VideoInit PROVE VideoInv
  OBVIOUS
<1>1. PICK r \in Registers, b \in Addresses, f \in Addresses :
             registers = Controller(r, f, b)
  BY DEF VideoInit
<1>2. Generated
  <2>1. Controller(r, f, b) = Held(r, f, b, FALSE)
    BY DEF Controller, Held
  <2> QED
    BY <1>1, <2>1 DEF Generated
<1>3. registers.swap = FALSE
  BY <1>1 DEF Controller
<1>4. VideoFiguresExact
  BY DEF VideoInit, VideoFiguresExact, NoDrawing
<1> QED
  BY <1>2, <1>3, <1>4 DEF VideoInit, VideoInv, Exchanged

\* A call draws what it should,
LEMMA DrawsKeeps ==
  ASSUME VideoInv, NEW this, NEW writes, Draws(this, writes),
         Ready => DrawingRight(this, writes)
  PROVE  VideoInv'
<1>1. ~registers.swap /\ Exchanged = registers
  BY DEF VideoInv, Draws, Exchanged
<1>2. Ready
  BY <1>1 DEF VideoInv, Ready
<1>3. /\ registers' = registers /\ device' = device /\ waiting' = waiting
      /\ drawing' = this /\ output' = writes /\ ~waiting
  BY DEF Draws
<1>4. DrawingRight(drawing, output)'
  <2>1. \A x, y, b : PixelAt(x, y, b)' = PixelAt(x, y, b)
    BY <1>3 DEF PixelAt
  <2>2. ASSUME NEW points, NEW b
        PROVE  Writes(points, b)' = Writes(points, b)
    BY <1>3, <2>1 DEF Writes, WriteAt
  <2>3. Wanted(this)' = Wanted(this)
    BY <1>3 DEF Wanted
  <2>4. AskedLineRight(this, writes)' <=> AskedLineRight(this, writes)
    <3> DEFINE points == {p \in Wanted(this) :
                            Writes({p}, this.backbuffer) \subseteq writes}
    <3>1. points' = points
      BY <2>2, <2>3
    <3> QED
      BY <1>3, <2>2, <3>1 DEF AskedLineRight
  <2>5. ASSUME NEW x, NEW y, NEW n, NEW b
        PROVE  StringPut(x, y, n, b, writes)' <=> StringPut(x, y, n, b, writes)
    BY <1>3, <2>1 DEF StringPut
  <2>6. DrawingRight(this, writes)' <=> DrawingRight(this, writes)
    BY <1>3, <2>2, <2>3, <2>4, <2>5 DEF DrawingRight
  <2> QED
    BY <1>2, <1>3, <2>6
<1>5. VideoFiguresExact'
  <2>1. (VideoFiguresExact <=> DrawingRight(drawing, output))'
    BY ExactIsRight, PTL
  <2> QED
    BY <1>4, <2>1
<1>6. Generated' /\ Exchanged' = Exchanged
  BY <1>3 DEF VideoInv, Generated, Exchanged
<1> QED
  BY <1>3, <1>5, <1>6 DEF VideoInv

LEMMA DrawVideoKeeps == VideoInv /\ DrawVideo => VideoInv'
<1> SUFFICES ASSUME VideoInv, DrawVideo PROVE VideoInv'
  OBVIOUS
<1>1. PICK x0 \in VideoXs, y0 \in VideoYs, b \in {0, 1} :
      \/ Draws(Call("draw", x0, y0, x0, y0, b, 0, 0), video_draw(x0, y0, b))
      \/ \E n \in Lengths :
           Draws(Call("draw_string", x0, y0, x0, y0, b, n, 0),
                 video_string(x0, y0, n, b))
      \/ \E x1 \in VideoXs, y1 \in VideoYs :
           \/ Draws(Call("draw_line", x0, y0, x1, y1, b, 0, 0),
                    video_line(x0, y0, x1, y1, b))
           \/ \E fill \in {0, 1} :
                Draws(Call("draw_box", x0, y0, x1, y1, b, 0, fill),
                      video_box(x0, y0, x1, y1, b, fill))
  BY DEF DrawVideo
<1>2. VideoXs \subseteq Nat /\ VideoYs \subseteq Nat /\ Lengths \subseteq Nat
  BY VideoDMAAssumption DEF VideoDMAAssumption
<1>3. x0 \in Nat /\ y0 \in Nat
  BY <1>2
<1>4. CASE Draws(Call("draw", x0, y0, x0, y0, b, 0, 0), video_draw(x0, y0, b))
  <2> DEFINE this == Call("draw", x0, y0, x0, y0, b, 0, 0)
  <2>1. this.function = "draw" /\ this.backbuffer = b
    BY DEF Call
  <2> HIDE DEF this
  <2>2. ASSUME Ready
        PROVE  DrawingRight(this, video_draw(x0, y0, b))
    <3>1. video_draw(x0, y0, b) = Writes(Wanted(this), b)
      BY <1>3, <2>2, VideoPointIs DEF this
    <3> QED
      BY <2>1, <3>1 DEF DrawingRight
  <2> QED
    BY <1>4, <2>2, DrawsKeeps DEF this
<1>5. ASSUME NEW n \in Lengths,
             Draws(Call("draw_string", x0, y0, x0, y0, b, n, 0),
                   video_string(x0, y0, n, b))
      PROVE  VideoInv'
  <2> DEFINE this == Call("draw_string", x0, y0, x0, y0, b, n, 0)
  <2>1. /\ this.function = "draw_string" /\ this.backbuffer = b /\ this.length = n
        /\ this.x0 = x0 /\ this.y0 = y0
    BY DEF Call
  <2> HIDE DEF this
  <2>2. ASSUME Ready
        PROVE  DrawingRight(this, video_string(x0, y0, n, b))
    <3>1. n \in Nat
      BY <1>2
    <3>2. ASSUME registers.addressing_mode = 0
          PROVE  StringPut(x0, y0, n, b, video_string(x0, y0, n, b))
      BY <1>3, <2>2, <3>1, <3>2, VideoStringRight
    <3> QED
      BY <2>1, <3>2 DEF DrawingRight
  <2> QED
    BY <1>5, <2>2, DrawsKeeps DEF this
<1>6. ASSUME NEW x1 \in VideoXs, NEW y1 \in VideoYs,
             Draws(Call("draw_line", x0, y0, x1, y1, b, 0, 0),
                   video_line(x0, y0, x1, y1, b))
      PROVE  VideoInv'
  <2> DEFINE this == Call("draw_line", x0, y0, x1, y1, b, 0, 0)
  <2>1. this.function = "draw_line"
    BY DEF Call
  <2> HIDE DEF this
  <2>2. ASSUME Ready
        PROVE  DrawingRight(this, video_line(x0, y0, x1, y1, b))
    <3>1. x1 \in Nat /\ y1 \in Nat
      BY <1>2
    <3>2. AskedLineRight(this, video_line(x0, y0, x1, y1, b))
      BY <1>3, <2>2, <3>1, VideoLineRight DEF this
    <3> QED
      BY <2>1, <3>2 DEF DrawingRight
  <2> QED
    BY <1>6, <2>2, DrawsKeeps DEF this
<1>7. ASSUME NEW x1 \in VideoXs, NEW y1 \in VideoYs, NEW fill \in {0, 1},
             Draws(Call("draw_box", x0, y0, x1, y1, b, 0, fill),
                   video_box(x0, y0, x1, y1, b, fill))
      PROVE  VideoInv'
  <2> DEFINE this == Call("draw_box", x0, y0, x1, y1, b, 0, fill)
  <2>1. this.function = "draw_box" /\ this.backbuffer = b
    BY DEF Call
  <2> HIDE DEF this
  <2>2. ASSUME Ready
        PROVE  DrawingRight(this, video_box(x0, y0, x1, y1, b, fill))
    <3>1. x1 \in Nat /\ y1 \in Nat
      BY <1>2
    <3>2. video_box(x0, y0, x1, y1, b, fill) = Writes(Wanted(this), b)
      BY <1>3, <2>2, <3>1, VideoBoxIs DEF this
    <3> QED
      BY <2>1, <3>2 DEF DrawingRight
  <2> QED
    BY <1>7, <2>2, DrawsKeeps DEF this
<1> QED
  BY <1>1, <1>4, <1>5, <1>6, <1>7

LEMMA FillScreenKeeps == VideoInv /\ FillScreen => VideoInv'
<1> SUFFICES ASSUME VideoInv, FillScreen PROVE VideoInv'
  OBVIOUS
<1> DEFINE r == registers.x_resolution - 1
           d == registers.y_resolution - 1
<1>1. PICK b \in {0, 1} : Draws(Call("draw_box", 0, 0, r, d, b, 0, 1), screen_fill(b))
  BY DEF FillScreen
<1> DEFINE this == Call("draw_box", 0, 0, r, d, b, 0, 1)
<1>2. this.function = "draw_box" /\ this.backbuffer = b
  BY DEF Call
<1> HIDE DEF this
<1>3. ASSUME Ready
      PROVE  DrawingRight(this, screen_fill(b))
  <2>1. r \in Nat /\ d \in Nat
    BY <1>3, GeneratedSizes DEF Ready
  <2>2. screen_fill(b) = video_box(0, 0, r, d, b, 1)
    BY <1>3, Geometry DEF screen_fill
  <2> HIDE DEF r, d
  <2>3. video_box(0, 0, r, d, b, 1) = Writes(Wanted(this), b)
    BY <1>3, <2>1, VideoBoxIs DEF this
  <2> QED
    BY <1>2, <2>2, <2>3 DEF DrawingRight
<1> QED
  BY <1>1, <1>3, DrawsKeeps DEF this

\* and between two calls nothing can be wrong.
LEMMA NothingDrawn == drawing = NoDrawing => VideoFiguresExact
BY DEF NoDrawing, VideoFiguresExact

LEMMA VideoInvNext == VideoInv /\ [VideoNext]_videoVars => VideoInv'
<1> SUFFICES ASSUME VideoInv, [VideoNext]_videoVars PROVE VideoInv'
  OBVIOUS
<1>1. CASE DrawVideo
  BY <1>1, DrawVideoKeeps
<1>2. CASE FillScreen
  BY <1>2, FillScreenKeeps
<1>3. (drawing = NoDrawing => VideoFiguresExact)'
  BY NothingDrawn, PTL
<1>4. CASE NextDrawing
  <2>1. drawing' = NoDrawing /\ UNCHANGED <<registers, device, waiting>>
    BY <1>4 DEF NextDrawing
  <2>2. Generated' /\ Exchanged' = Exchanged /\ NoDrawing' = NoDrawing
    BY <2>1 DEF VideoInv, Generated, Exchanged, NoDrawing
  <2>3. VideoFiguresExact'
    BY <1>3, <2>1, <2>2
  <2> QED
    BY <2>1, <2>2, <2>3 DEF VideoInv
<1>5. PICK r \in Registers, b \in Addresses, f \in Addresses, swap \in BOOLEAN :
             registers = Held(r, f, b, swap)
  BY DEF VideoInv, Generated
<1>8. CASE set_bb_addr
  <2>1. PICK a \in Addresses :
          /\ registers' = [registers EXCEPT !.back = a]
          /\ device' = [device EXCEPT !.back_buffer_start_address = a]
    BY <1>8 DEF set_bb_addr
  <2>2. /\ UNCHANGED <<waiting, drawing, output>> /\ drawing = NoDrawing /\ ~waiting
    BY <1>8 DEF set_bb_addr
  <2>3. registers' = Held(r, f, a, swap)
    BY <1>5, <2>1 DEF Held
  <2>4. ~swap /\ registers.swap = swap /\ registers'.swap = swap
    BY <1>5, <2>2, <2>3 DEF Held, VideoInv
  <2>5. Generated'
    BY <2>3 DEF Generated
  <2>6. device = Opened(registers)
    BY <2>4 DEF VideoInv, Exchanged
  <2>7. device' = Opened(registers')
    BY <1>5, <2>1, <2>3, <2>6 DEF Held, Opened, DataWidth
  <2>8. (device = Opened(Exchanged))'
    BY <2>4, <2>7 DEF Exchanged
  <2>9. VideoFiguresExact'
    BY <1>3, <2>2 DEF NoDrawing
  <2> QED
    BY <2>2, <2>4, <2>5, <2>8, <2>9 DEF VideoInv
<1>9. CASE swap_buffers
  <2>1. /\ registers' = [registers EXCEPT !.swap = TRUE]
        /\ device' = [device EXCEPT
                        !.back_buffer_start_address = device.buffer_start_address,
                        !.buffer_start_address = device.back_buffer_start_address]
        /\ waiting' = TRUE /\ UNCHANGED <<drawing, output>> /\ drawing = NoDrawing
        /\ ~waiting
    BY <1>9 DEF swap_buffers
  <2>2. registers' = Held(r, f, b, TRUE)
    BY <1>5, <2>1 DEF Held
  <2>3. ~swap /\ registers.swap = swap /\ registers'.swap
    BY <1>5, <2>1, <2>2 DEF Held, VideoInv
  <2>4. Generated'
    BY <2>2 DEF Generated
  <2>5. device = Opened(registers)
    BY <2>3 DEF VideoInv, Exchanged
  <2>6. Exchanged' = Held(r, b, f, TRUE)
    BY <2>2, <2>3 DEF Held, Exchanged
  <2>7. (device = Opened(Exchanged))'
    <3>1. device = Structure(r, f, b)
      BY <1>5, <2>5, StructureIs
    <3>2. device' = Structure(r, b, f)
      BY <2>1, <3>1 DEF Structure
    <3>3. Opened(Exchanged)' = Structure(r, b, f)
      BY <2>6, StructureIs DEF Opened, DataWidth
    <3> QED
      BY <3>2, <3>3
  <2>8. VideoFiguresExact'
    BY <1>3, <2>1 DEF NoDrawing
  <2> QED
    BY <2>1, <2>4, <2>7, <2>8 DEF VideoInv
<1>10. CASE check_swap_status
  <2>1. /\ waiting /\ waiting' = registers.swap
        /\ UNCHANGED <<registers, device, drawing, output>>
    BY <1>10 DEF check_swap_status
  <2>2. drawing = NoDrawing
    BY <2>1 DEF VideoInv
  <2>3. Generated' /\ Exchanged' = Exchanged
    BY <2>1 DEF VideoInv, Generated, Exchanged
  <2>4. VideoFiguresExact'
    BY <1>3, <2>1, <2>2 DEF NoDrawing
  <2>5. registers'.swap => waiting'
    BY <2>1
  <2>6. drawing' = NoDrawing
    BY <2>1, <2>2
  <2> QED
    BY <2>1, <2>3, <2>4, <2>5, <2>6 DEF VideoInv, NoDrawing
<1>11. CASE EndOfScreen
  <2>1. /\ registers.swap
        /\ registers' = [registers EXCEPT !.front = registers.back,
                                          !.back = registers.front, !.swap = FALSE]
        /\ UNCHANGED <<device, waiting, drawing, output>>
    BY <1>11 DEF EndOfScreen
  <2>2. registers' = Held(r, b, f, FALSE) /\ Exchanged = Held(r, b, f, TRUE)
    BY <1>5, <2>1 DEF Held, Exchanged
  <2>3. Generated'
    BY <2>2 DEF Generated
  <2>4. drawing = NoDrawing
    BY <2>1 DEF VideoInv
  <2>5. Opened(Held(r, b, f, TRUE)) = Opened(Held(r, b, f, FALSE))
    BY DEF Held, Opened, DataWidth
  <2>6. Exchanged' = Held(r, b, f, FALSE)
    BY <2>2 DEF Held, Exchanged
  <2>7. (device = Opened(Exchanged))'
    <3>1. device = Opened(Held(r, b, f, TRUE))
      BY <2>2 DEF VideoInv
    <3> QED
      BY <2>1, <2>5, <2>6, <3>1 DEF Opened, DataWidth
  <2>8. VideoFiguresExact'
    BY <1>3, <2>1, <2>4 DEF NoDrawing
  <2> QED
    BY <2>1, <2>2, <2>3, <2>4, <2>7, <2>8 DEF Held, VideoInv, NoDrawing
<1>12. CASE UNCHANGED videoVars
  <2>1. UNCHANGED <<registers, device, waiting, drawing, output>>
    BY <1>12 DEF videoVars
  <2>2. VideoFiguresExact'
    BY <2>1 DEF VideoInv, VideoFiguresExact, FigureExact, VideoLineExact,
                VideoStringExact, Pixels, PixelAt, Asked
  <2>3. Generated' /\ Exchanged' = Exchanged
    BY <2>1 DEF VideoInv, Generated, Exchanged
  <2> QED
    BY <2>1, <2>2, <2>3 DEF VideoInv
<1> QED
  BY <1>1, <1>2, <1>4, <1>8, <1>9, <1>10, <1>11, <1>12 DEF VideoNext

\* The other driver's figures are right for every hardware it is generated for, any
\* arguments, and any sequence of calls that waits for its swaps.
THEOREM VideoFiguresAlwaysExact == VideoSpec => []VideoFiguresExact
<1>1. VideoInv => VideoFiguresExact
  BY DEF VideoInv
<1> QED
  BY VideoInvInit, VideoInvNext, <1>1, PTL DEF VideoSpec
=============================================================================
