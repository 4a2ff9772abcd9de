----------------------------- MODULE TMDSEncoder -----------------------------
(***************************************************************************)
(* The TMDS encoder of one channel (TMDS_encoder in hdmi_any.v).  At every *)
(* edge of the pixel clock it turns a byte of the picture, or two control  *)
(* bits while no picture is sent, into a word of ten bits.  A byte's word  *)
(* has few transitions, and the encoder inverts words so that as many ones *)
(* as zeros are sent over time, for which it keeps balance_acc, half the   *)
(* difference so far, in four bits of two's complement.                    *)
(*                                                                         *)
(* A byte or a word is the set of the numbers of its bits that are one.    *)
(***************************************************************************)
EXTENDS Integers, FiniteSets

CONSTANT Bytes            \* the bytes the picture is made of, in 0..255

ASSUME EncoderAssumption == Bytes \subseteq 0..255

VARIABLES
  TMDS, balance_acc,
  input,                  \* history: what TMDS is the word of
  disparity               \* history: ones minus zeros sent in this piece of
                          \* picture

encoderVars == <<TMDS, balance_acc, input, disparity>>

Byte(b)    == [VDE |-> TRUE, VD |-> b]
Control(c) == [VDE |-> FALSE, CD |-> c]

Inputs == {Byte(b) : b \in Bytes} \cup {Control(c) : c \in 0..3}

-----------------------------------------------------------------------------
(* Arithmetic on bits and on four-bit words. *)

Ones(n) == {i \in 0..9 : (n \div 2^i) % 2 = 1}

FourBits(n) == n % 16

Negative(n) == n >= 8

-----------------------------------------------------------------------------
(* Combinational logic; q is q_m(VD). *)

Nb1s(VD) == Cardinality(Ones(VD))

XNOR(VD) == Nb1s(VD) > 4 \/ (Nb1s(VD) = 4 /\ 0 \notin Ones(VD))

Chain(VD) ==
  LET bits == Ones(VD)
      flip == XNOR(VD)
      bit[i \in 0..7] == IF i = 0 THEN 0 \in bits
                                  ELSE (bit[i - 1] # (i \in bits)) # flip
  IN  {i \in 0..7 : bit[i]}

\* Mutant: bit 8 says the opposite of what was chosen.
q_m_WrongFlag(VD) == Chain(VD) \cup (IF XNOR(VD) THEN {8} ELSE {})

q_m(VD) == Chain(VD) \cup (IF XNOR(VD) THEN {} ELSE {8})

balance(q) == FourBits(Cardinality(q \ {8}) - 4)

Balanced(q) == balance(q) = 0 \/ balance_acc = 0

SameSign(q) == Negative(balance(q)) = Negative(balance_acc)

invert_q_m(q) == IF Balanced(q) THEN 8 \notin q ELSE SameSign(q)

\* Mutant: the two bits that say how the word was made are not counted.
balance_acc_inc_DataOnly(q) == balance(q)

\* What a word that is not inverted adds; the two bits that say how the word
\* was made count as one when they do not cancel.
balance_acc_inc(q) ==
  FourBits(IF ~Balanced(q) /\ (8 \in q) = SameSign(q) THEN balance(q) - 1
                                                      ELSE balance(q))

balance_acc_new(q) ==
  FourBits(IF invert_q_m(q) THEN balance_acc - balance_acc_inc(q)
                            ELSE balance_acc + balance_acc_inc(q))

TMDS_data(q) ==
  IF invert_q_m(q) THEN (0..7 \ q) \cup (q \cap {8}) \cup {9} ELSE q

\* 10'b1101010100, 10'b0010101011, 10'b0101010100, 10'b1010101011
TMDS_code(CD) ==
  Ones(CASE CD = 0 -> 852 [] CD = 1 -> 171 [] CD = 2 -> 340 [] CD = 3 -> 683)

-----------------------------------------------------------------------------
EncoderInit ==
  /\ TMDS = {}
  /\ balance_acc = 0
  /\ input = Control(0)
  /\ disparity = 0

EncodeByte(VD) ==
  LET q == q_m(VD)
  IN  /\ TMDS' = TMDS_data(q)
      /\ balance_acc' = balance_acc_new(q)
      /\ input' = Byte(VD)
      /\ disparity' = disparity + 2 * Cardinality(TMDS') - 10

EncodeControl(CD) ==
  /\ TMDS' = TMDS_code(CD)
  /\ balance_acc' = 0
  /\ input' = Control(CD)
  /\ disparity' = 0

EncoderNext ==
  \/ \E VD \in Bytes : EncodeByte(VD)
  \/ \E CD \in 0..3 : EncodeControl(CD)

EncoderSpec == EncoderInit /\ [][EncoderNext]_encoderVars

-----------------------------------------------------------------------------
(* Properties. *)

\* The receiver of a byte's word: undo the inversion, then the chain.
Decoded(word) ==
  LET q == IF 9 \in word THEN 0..7 \ word ELSE word
  IN  {i \in 0..7 : IF i = 0 THEN 0 \in q
                    ELSE ((i \in q) # (i - 1 \in q)) # (8 \notin word)}

Transitions(word) == Cardinality({i \in 0..8 : (i \in word) # (i + 1 \in word)})

\* A receiver gets back every byte of the picture, however the balance made
\* the encoder choose its word.
Decodable ==
  input.VDE => Decoded(TMDS) = Ones(input.VD)

\* A receiver can tell picture from control by the transitions alone.
Distinguishable ==
  TMDS # {} =>
    IF input.VDE THEN Transitions(TMDS) <= 5 ELSE Transitions(TMDS) >= 7

\* A receiver knows of every word what it is and which byte it stands for.
WordsUnderstood == Decodable /\ Distinguishable

\* The account is right: it is half the difference between the ones and zeros
\* that were really sent in this piece of picture, inversions and the two extra
\* bits included, and the four bits never overflow, so the difference stays
\* within what they can hold.
AccountIsTrue ==
  disparity = 2 * (IF Negative(balance_acc) THEN balance_acc - 16
                                            ELSE balance_acc)

\* Every word says what it should, and the line stays balanced meanwhile.
EncodingTrue == WordsUnderstood /\ AccountIsTrue
=============================================================================
