------------------------------ MODULE ColourPath ------------------------------
(***************************************************************************)
(* What happens to a colour between the memory and the HDMI transmitter:   *)
(* sixteen bits are fetched, the RGB resampler makes eight of them, and    *)
(* RGB8_RGB24 makes a byte for each of the transmitter's channels.         *)
(***************************************************************************)
EXTENDS Integers

CONSTANT Colours          \* of the pixels in memory

ASSUME ColoursAssumption == Colours \subseteq 0..2^16-1

VARIABLES
  stream_in_data,         \* the pixel fetched
  stream_out_data         \* the resampler's output register

colourVars == <<stream_in_data, stream_out_data>>

Nothing == -1

-----------------------------------------------------------------------------
\* Bits high..low of a word.
Bits(word, high, low) == (word \div 2^low) % 2^(high - low + 1)

\* Five, six and five bits of red, green and blue.
Red(c)   == Bits(c, 15, 11)
Green(c) == Bits(c, 10, 5)
Blue(c)  == Bits(c, 4, 0)

converted_data(c) ==
  Bits(Red(c), 4, 2) * 32 + Bits(Green(c), 5, 3) * 4 + Bits(Blue(c), 4, 3)

RGB8_RGB24(byte) == [R |-> Bits(byte, 7, 5) * 32,
                     G |-> Bits(byte, 4, 3) * 64,
                     B |-> Bits(byte, 2, 0) * 32]

Init ==
  /\ stream_in_data \in Colours
  /\ stream_out_data = Nothing

Resample ==
  /\ stream_out_data' = converted_data(stream_in_data)
  /\ UNCHANGED stream_in_data

ColourSpec == Init /\ [][Resample]_colourVars

-----------------------------------------------------------------------------
\* The resampler's driver says what the eight bits are: three of red, three of
\* green and two of blue, the high ones of each.  So a channel shows at least
\* the two high bits of the colour in memory.
EveryChannelShown ==
  stream_out_data # Nothing =>
    LET RGB == RGB8_RGB24(stream_out_data)
    IN  /\ Bits(RGB.R, 7, 6) = Bits(Red(stream_in_data), 4, 3)
        /\ Bits(RGB.G, 7, 6) = Bits(Green(stream_in_data), 5, 4)
        /\ Bits(RGB.B, 7, 6) = Bits(Blue(stream_in_data), 4, 3)
=============================================================================
