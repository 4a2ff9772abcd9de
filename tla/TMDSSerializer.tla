---------------------------- MODULE TMDSSerializer ----------------------------
(***************************************************************************)
(* The serializer of one TMDS channel (HDMI_ANY in hdmi_any.v).  It runs   *)
(* in clk_TMDS2, five times the pixel clock, and sends two bits per edge:  *)
(* one shift register holds the even bits of a word, the other the odd     *)
(* ones, and an output cell sends the lowest bit of each.  A word is       *)
(* loaded every fifth edge, counted by TMDS_mod5; the encoder replaces it  *)
(* every fifth edge too, counted from wherever the PLL has put the pixel   *)
(* clock.  The input named reset stops everything while it is low.         *)
(*                                                                         *)
(* One step is one edge of clk_TMDS2.  The encoder's words are numbered,   *)
(* modulo Words, and a bit is a word and a place in it.                    *)
(***************************************************************************)
EXTENDS Integers, Sequences

CONSTANT Words

ASSUME SerializerAssumption == Words \in Nat /\ Words > 2

VARIABLES
  word_out,                  \* the encoder's output register (TMDS)
  phase,                     \* edges since the pixel clock's last edge
  TMDS_mod5,
  TMDS_shift_h, TMDS_shift_l,  \* lowest bit first
  loaded,                    \* history: the word loaded last
  steady                     \* history: edges since the input reset was low,
                             \* counted up to Steady

serializerVars == <<word_out, phase, TMDS_mod5, TMDS_shift_h, TMDS_shift_l,
                    loaded, steady>>

Steady == 10

NoBit == [word |-> -1, place |-> 0]

BitOf(word, place) == [word |-> word, place |-> place]

EvenBits(word) == [i \in 1..5 |-> BitOf(word, 2 * i - 2)]
OddBits(word)  == [i \in 1..5 |-> BitOf(word, 2 * i - 1)]

-----------------------------------------------------------------------------
SerializerInit ==
  /\ word_out = 0
  /\ phase \in 0..4
  /\ TMDS_mod5 = 0
  /\ TMDS_shift_h = [i \in 1..5 |-> NoBit]
  /\ TMDS_shift_l = [i \in 1..5 |-> NoBit]
  /\ loaded = -1
  /\ steady = 0

\* The encoder runs in the pixel clock, whatever reset says.
PixelClock ==
  /\ phase' = (phase + 1) % 5
  /\ word_out' = IF phase = 4 THEN (word_out + 1) % Words ELSE word_out

\* Mutant: a word is loaded every sixth edge.
LastPair_Late == TMDS_mod5 >= 5

LastPair == TMDS_mod5 >= 4

Shifted(register) == Append(Tail(register), NoBit)

\* Mutant: the even and the odd bits change places.
Load_Swapped ==
  /\ LastPair
  /\ TMDS_shift_h' = OddBits(word_out)
  /\ TMDS_shift_l' = EvenBits(word_out)
  /\ TMDS_mod5' = 0
  /\ loaded' = word_out

Load ==
  /\ LastPair
  /\ TMDS_shift_h' = EvenBits(word_out)
  /\ TMDS_shift_l' = OddBits(word_out)
  /\ TMDS_mod5' = 0
  /\ loaded' = word_out

Shift ==
  /\ ~LastPair
  /\ TMDS_shift_h' = Shifted(TMDS_shift_h)
  /\ TMDS_shift_l' = Shifted(TMDS_shift_l)
  /\ TMDS_mod5' = TMDS_mod5 + 1
  /\ UNCHANGED loaded

Run ==
  /\ PixelClock
  /\ Load \/ Shift
  /\ steady' = IF steady < Steady THEN steady + 1 ELSE steady

Hold ==
  /\ PixelClock
  /\ UNCHANGED <<TMDS_mod5, TMDS_shift_h, TMDS_shift_l, loaded>>
  /\ steady' = 0

SerializerNext == Run \/ Hold

SerializerSpec == SerializerInit /\ [][SerializerNext]_serializerVars

-----------------------------------------------------------------------------
(* Properties. *)

\* The two bits being sent are the next two of the word loaded last: a word is
\* sent whole and lowest bit first, even when it is interrupted.
BitsInOrder ==
  loaded # -1 =>
    /\ Head(TMDS_shift_h) = BitOf(loaded, 2 * TMDS_mod5)
    /\ Head(TMDS_shift_l) = BitOf(loaded, 2 * TMDS_mod5 + 1)

\* Every word of the encoder is sent exactly once, whatever the phase between
\* the two counts of five, from the second word after an interruption on.
NoWordSkippedOrRepeated ==
  [][Load /\ steady = Steady => loaded' = (loaded + 1) % Words]_serializerVars
=============================================================================
