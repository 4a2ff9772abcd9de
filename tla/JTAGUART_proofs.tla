--------------------------- MODULE JTAGUART_proofs ---------------------------
(* That no character is lost and no wake-up missed, for rings, FIFOs and       *)
(* requests of any size; and that the HAL's log, which prints into the UART,   *)
(* can be read, for any numbers, widths and texts and any interrupts.          *)
EXTENDS JTAGUART, Logging, FiniteSetTheorems, SequenceTheorems, NaturalsInduction,
        WellFoundedInduction, TLAPS

B == BUF_LEN
Places == 0..B-1

RxUsed == (rx_in - rx_out) % B

\* Characters of the receive ring that the call has copied and not let go yet.
Copied == IF pc = "ReadAdvance" THEN n ELSE 0

DataOK ==
  /\ rfifo \in Seq(Nat) /\ wfifo \in Seq(Nat)
  /\ inputs \in Seq(Nat) /\ outputs \in Seq(Nat)
  /\ rx_buf \in [Places -> Nat] /\ tx_buf \in [Places -> Nat]
  /\ sent \in Nat /\ written \in Nat

\* The small driver has neither rings nor interrupts.
ModeInv ==
  IF small
  THEN /\ pc \in {"idle", "SmallWrite", "SmallRead"} /\ ~in_isr
       /\ rx_in = rx_out /\ tx_in = tx_out
  ELSE pc \notin {"SmallWrite", "SmallRead"}

\* The driver's copy of the device's interrupt mask is always true.
EnableInv == ien = irq_enable

\* What read() has looked up stays true while the interrupt routine adds to the
\* ring.
ReadInv ==
  /\ pc \in {"ReadCopy", "ReadAdvance"} =>
       out = rx_out /\ n >= 1 /\ n <= RxUsed /\ out + n <= B
  /\ pc \in {"WriteCopy", "ReadCopy"} => n <= left
  /\ pc = "ReadAdvance" => moved > 0
  /\ pc = "ReadWait" => moved = 0
  /\ pc = "ReadEnd" => moved > 0 \/ nonblock \/ left = 0

\* So does what write() has looked up while it takes from the ring.
WriteInv ==
  /\ pc \in {"WriteCopy", "WriteAdvance"} =>
       in = tx_in /\ n >= 1 /\ TxUsed + n <= B - 1 /\ in + n <= B
  /\ pc = "WriteAdvance" => \A i \in 0..n-1 : tx_buf[in + i] = written + 1 + i

\* Where every character is, by its number.
InputInv ==
  /\ sent = Len(inputs) - Copied + RxUsed + Len(rfifo)
  /\ \A i \in 1..Len(inputs) : inputs[i] = i
  /\ \A d \in Copied..RxUsed-1 :
       rx_buf[Plus(rx_out, d)] = Len(inputs) - Copied + d + 1
  /\ \A i \in 1..Len(rfifo) : rfifo[i] = Len(inputs) - Copied + RxUsed + i

OutputInv ==
  /\ written = Len(outputs) + Len(wfifo) + TxUsed
  /\ \A i \in 1..Len(outputs) : outputs[i] = i
  /\ \A i \in 1..Len(wfifo) : wfifo[i] = Len(outputs) + i
  /\ \A d \in 0..TxUsed-1 :
       tx_buf[Plus(tx_out, d)] = Len(outputs) + Len(wfifo) + d + 1

UARTInv ==
  /\ UARTTypeOK /\ DataOK /\ ModeInv /\ EnableInv
  /\ ReadInv /\ WriteInv
  /\ InputInv /\ OutputInv
  /\ WakeUpsKept

-----------------------------------------------------------------------------
(* The rings. *)

LEMMA Constants ==
  /\ B \in Nat /\ B > 1 /\ Places = 0..B-1 /\ 0 \in Places
  /\ RxDepth \in Nat /\ TxDepth \in Nat
  BY UARTAssumption DEF B, Places

\* How far one place of a ring is from another.
LEMMA Circle ==
  ASSUME NEW i \in Places, NEW o \in Places
  PROVE  /\ (i - o) % B = IF i >= o THEN i - o ELSE i - o + B
         /\ (i - o) % B \in 0..B-1
  BY Constants

LEMMA Moved ==
  ASSUME NEW i \in Places, NEW k \in 0..B-1
  PROVE  /\ Plus(i, k) = IF i + k < B THEN i + k ELSE i + k - B
         /\ Plus(i, k) \in Places
  BY Constants DEF Plus, B

\* The place that is never used tells a full ring from an empty one.
LEMMA Room ==
  ASSUME NEW i \in Places, NEW o \in Places
  PROVE  (o - i - 1) % B = B - 1 - ((i - o) % B)
<1>1. (o - i - 1) % B = IF o >= i + 1 THEN o - i - 1 ELSE o - i - 1 + B
  BY Constants
<1> QED
  BY <1>1, Circle, Constants

\* k more characters.
LEMMA Filled ==
  ASSUME NEW i \in Places, NEW o \in Places, NEW k \in 0..B-1,
         ((i - o) % B) + k <= B - 1
  PROVE  (Plus(i, k) - o) % B = ((i - o) % B) + k
<1> DEFINE p == Plus(i, k)
<1>1. p \in Places /\ p = IF i + k < B THEN i + k ELSE i + k - B
  BY Moved
<1> HIDE DEF p
<1>2. (p - o) % B = IF p >= o THEN p - o ELSE p - o + B
  BY <1>1, Circle
<1>3. (i - o) % B = IF i >= o THEN i - o ELSE i - o + B
  BY Circle
<1>4. (p - o) % B = ((i - o) % B) + k
  BY <1>1, <1>2, <1>3, Constants
<1> QED
  BY <1>4 DEF p

\* k fewer; and where those that remain are, counted from the new place.
LEMMA Emptied ==
  ASSUME NEW i \in Places, NEW o \in Places, NEW k \in 0..((i - o) % B)
  PROVE  /\ (i - Plus(o, k)) % B = ((i - o) % B) - k
         /\ \A d \in 0..((i - o) % B) - k : Plus(Plus(o, k), d) = Plus(o, k + d)
<1> DEFINE p == Plus(o, k)
           used == (i - o) % B
<1>1. used = (IF i >= o THEN i - o ELSE i - o + B) /\ used \in 0..B-1
  BY Circle
<1> HIDE DEF used
<1>2. k \in 0..B-1 /\ k <= used
  BY <1>1, Constants DEF used
<1>3. p \in Places /\ p = IF o + k < B THEN o + k ELSE o + k - B
  BY <1>2, Moved
<1> HIDE DEF p
<1>4. (i - p) % B = IF i >= p THEN i - p ELSE i - p + B
  BY <1>3, Circle
<1>5. (i - p) % B = used - k
  BY <1>1, <1>2, <1>3, <1>4, Constants
<1>6. ASSUME NEW d \in 0..used - k PROVE Plus(p, d) = Plus(o, k + d)
  <2>1. d \in 0..B-1 /\ k + d \in 0..B-1
    BY <1>1, <1>2, Constants
  <2>2. /\ Plus(p, d) = IF p + d < B THEN p + d ELSE p + d - B
        /\ Plus(o, k + d) = IF o + (k + d) < B THEN o + (k + d)
                                               ELSE o + (k + d) - B
    BY <1>3, <2>1, Moved
  <2> QED
    BY <1>3, <2>1, <2>2, Constants
<1> QED
  BY <1>5, <1>6 DEF p, used

\* A place d behind o, seen from i.
LEMMA SeenFrom ==
  ASSUME NEW i \in Places, NEW o \in Places, NEW d \in 0..B-1
  PROVE  (Plus(o, d) - i) % B = IF d >= (i - o) % B THEN d - ((i - o) % B)
                                ELSE d - ((i - o) % B) + B
<1> DEFINE p == Plus(o, d)
<1>1. p \in Places /\ p = IF o + d < B THEN o + d ELSE o + d - B
  BY Moved
<1> HIDE DEF p
<1>2. /\ (p - i) % B = IF p >= i THEN p - i ELSE p - i + B
      /\ (i - o) % B = IF i >= o THEN i - o ELSE i - o + B
  BY <1>1, Circle
<1>3. (p - i) % B = IF d >= (i - o) % B THEN d - ((i - o) % B)
                    ELSE d - ((i - o) % B) + B
  BY <1>1, <1>2, Constants
<1> QED
  BY <1>3 DEF p

LEMMA IsSequence ==
  ASSUME NEW S, NEW k \in Nat, NEW f \in [1..k -> S]
  PROVE  f \in Seq(S) /\ Len(f) = k
  OBVIOUS

-----------------------------------------------------------------------------
(* One pass of the interrupt routine. *)

LEMMA PassEffects ==
  ASSUME UARTInv, IsrPass
  PROVE  \E rx, tx \in Nat :
           /\ rx <= B - 1 - RxUsed /\ rx <= Len(rfifo)
           /\ tx <= TxDepth - Len(wfifo) /\ tx <= TxUsed
           /\ rx_in' = Plus(rx_in, rx)
           /\ rx_buf' \in [Places -> Nat]
           /\ \A i \in Places :
                rx_buf'[i] = IF (i - rx_in) % B < rx THEN rfifo[((i - rx_in) % B) + 1]
                             ELSE rx_buf[i]
           /\ rfifo' \in Seq(Nat) /\ Len(rfifo') = Len(rfifo) - rx
           /\ \A i \in 1..Len(rfifo) - rx : rfifo'[i] = rfifo[rx + i]
           /\ tx_out' = Plus(tx_out, tx)
           /\ wfifo' \in Seq(Nat) /\ Len(wfifo') = Len(wfifo) + tx
           /\ \A i \in 1..Len(wfifo) + tx :
                wfifo'[i] = IF i <= Len(wfifo) THEN wfifo[i]
                            ELSE tx_buf[Plus(tx_out, i - Len(wfifo) - 1)]
           /\ ien' = irq_enable' /\ irq_enable' \subseteq irq_enable
           /\ "RE" \in ien /\ "RE" \notin ien' => rx = B - 1 - RxUsed
           /\ "WE" \in ien /\ "WE" \notin ien' => tx = TxUsed
           /\ pause_irq' \in BOOLEAN
<1> DEFINE rx == IF RI THEN Least(RxRoom, Len(rfifo)) ELSE 0
           tx == IF WI THEN Least(WSPACE, TxUsed) ELSE 0
           off == (IF RI /\ ReceiverFull(rx) THEN {"RE"} ELSE {})
                    \cup (IF WI /\ WSPACE > tx THEN {"WE"} ELSE {})
<1>1. /\ rx_in \in Places /\ rx_out \in Places /\ tx_in \in Places /\ tx_out \in Places
      /\ rfifo \in Seq(Nat) /\ wfifo \in Seq(Nat)
      /\ rx_buf \in [Places -> Nat] /\ tx_buf \in [Places -> Nat]
      /\ Len(rfifo) \in Nat /\ Len(wfifo) \in Nat
      /\ Len(wfifo) <= TxDepth /\ pause_irq \in BOOLEAN /\ ien = irq_enable
  BY LenProperties DEF UARTInv, UARTTypeOK, DataOK, EnableInv, Places, B
<1>2. /\ IF RI THEN Receive(rx) ELSE UNCHANGED <<receiver, rfifo, pause_irq>>
      /\ Send(tx)
      /\ irq_enable' = irq_enable \ off
      /\ ien' = irq_enable \ off
  BY DEF IsrPass
<1>3. RxRoom = B - 1 - RxUsed /\ RxUsed \in 0..B-1 /\ TxUsed \in 0..B-1
  BY <1>1, Room, Circle DEF RxRoom, RxUsed, TxUsed, B
<1>4. WSPACE = TxDepth - Len(wfifo) /\ WSPACE \in Nat
  BY <1>1, Constants DEF WSPACE
<1>5. /\ rx \in Nat /\ rx <= B - 1 - RxUsed /\ rx <= Len(rfifo)
      /\ ~RI => rx = 0
  BY <1>1, <1>3, Constants DEF Least
<1>6. /\ tx \in Nat /\ tx <= TxDepth - Len(wfifo) /\ tx <= TxUsed
  BY <1>1, <1>3, <1>4, Constants DEF Least
<1>7. "RE" \in off => rx = B - 1 - RxUsed
  <2>1. "RE" \in off => RI /\ ReceiverFull(rx)
    OBVIOUS
  <2>2. RI /\ RxRoom = 0 => rx = 0
    BY <1>1 DEF Least
  <2> HIDE DEF rx
  <2> QED
    BY <1>3, <2>1, <2>2 DEF ReceiverFull
<1>8. "WE" \in off => tx = TxUsed
  BY <1>1, <1>3, <1>4, Constants DEF Least
<1> HIDE DEF rx, tx, off
<1>9. \A i \in Places : (i - rx_in) % B \in 0..B-1
  BY <1>1, Circle
<1>10. /\ rx_in' = Plus(rx_in, rx)
       /\ rx_buf' \in [Places -> Nat]
       /\ \A i \in Places :
            rx_buf'[i] = IF (i - rx_in) % B < rx THEN rfifo[((i - rx_in) % B) + 1]
                         ELSE rx_buf[i]
       /\ rfifo' \in Seq(Nat) /\ Len(rfifo') = Len(rfifo) - rx
       /\ \A i \in 1..Len(rfifo) - rx : rfifo'[i] = rfifo[rx + i]
       /\ pause_irq' \in BOOLEAN
  <2>1. CASE RI
    <3>1. /\ rx_buf' = [i \in DOMAIN rx_buf |->
                          IF (i - rx_in) % B < rx THEN rfifo[((i - rx_in) % B) + 1]
                          ELSE rx_buf[i]]
          /\ rx_in' = Plus(rx_in, rx)
          /\ rfifo' = SubSeq(rfifo, rx + 1, Len(rfifo))
          /\ pause_irq' \in BOOLEAN
      BY <1>1, <1>2, <2>1, Zenon DEF Receive, B
    <3>2. DOMAIN rx_buf = Places
      BY <1>1
    <3>3. \A i \in Places : (i - rx_in) % B < rx =>
            ((i - rx_in) % B) + 1 \in 1..Len(rfifo)
      <4>1. ASSUME NEW d \in 0..B-1, d < rx PROVE d + 1 \in 1..Len(rfifo)
        BY <1>1, <1>5, <4>1, Constants
      <4> QED
        BY <1>9, <4>1
    <3>4. rx_buf' \in [Places -> Nat]
      BY <1>1, <3>1, <3>2, <3>3, ElementOfSeq
    <3>5. \A i \in Places :
            rx_buf'[i] = IF (i - rx_in) % B < rx THEN rfifo[((i - rx_in) % B) + 1]
                         ELSE rx_buf[i]
      BY <3>1, <3>2
    <3>6. \A i \in rx + 1..Len(rfifo) : rfifo[i] \in Nat
      BY <1>1, <1>5
    <3>7. /\ rfifo' \in Seq(Nat)
          /\ Len(rfifo') = IF rx + 1 <= Len(rfifo) THEN Len(rfifo) - (rx + 1) + 1 ELSE 0
          /\ \A i \in 1..Len(rfifo) - (rx + 1) + 1 : rfifo'[i] = rfifo[(rx + 1) + i - 1]
      <4>1. rx + 1 \in Int /\ Len(rfifo) \in Int
        BY <1>1, <1>5
      <4> QED
        BY <3>1, <3>6, <4>1, SubSeqProperties
    <3>8. Len(rfifo') = Len(rfifo) - rx
      BY <1>1, <1>5, <3>7
    <3>9. \A i \in 1..Len(rfifo) - rx : rfifo'[i] = rfifo[rx + i]
      <4>1. \A i \in Int : /\ (rx + 1) + i - 1 = rx + i
                          /\ Len(rfifo) - (rx + 1) + 1 = Len(rfifo) - rx
        BY <1>1, <1>5
      <4> QED
        BY <1>1, <1>5, <3>7, <4>1
    <3> QED
      BY <3>1, <3>4, <3>5, <3>7, <3>8, <3>9
  <2>2. CASE ~RI
    <3>1. rx = 0 /\ UNCHANGED <<rx_in, rx_buf, rfifo, pause_irq>>
      BY <1>2, <1>5, <2>2 DEF receiver
    <3>2. Plus(rx_in, 0) = rx_in
      BY <1>1, Moved, Constants
    <3>3. \A i \in Places : ~((i - rx_in) % B < 0)
      BY <1>9
    <3>4. \A i \in 1..Len(rfifo) : 0 + i = i
      BY <1>1
    <3> QED
      BY <1>1, <3>1, <3>2, <3>3, <3>4
  <2> QED
    BY <2>1, <2>2
<1>11. /\ tx_out' = Plus(tx_out, tx)
       /\ wfifo' \in Seq(Nat) /\ Len(wfifo') = Len(wfifo) + tx
       /\ \A i \in 1..Len(wfifo) + tx :
            wfifo'[i] = IF i <= Len(wfifo) THEN wfifo[i]
                        ELSE tx_buf[Plus(tx_out, i - Len(wfifo) - 1)]
  <2> DEFINE taken == [i \in 1..tx |-> tx_buf[Plus(tx_out, i - 1)]]
  <2>1. wfifo' = wfifo \o taken /\ tx_out' = Plus(tx_out, tx)
    BY <1>2 DEF Send
  <2>2. tx \in 0..B-1
    BY <1>3, <1>6, Constants
  <2>7. taken = [i \in 1..tx |-> tx_buf[Plus(tx_out, i - 1)]]
    OBVIOUS
  <2> HIDE DEF taken
  <2>3. /\ taken \in Seq(Nat) /\ Len(taken) = tx
        /\ \A i \in 1..tx : taken[i] = tx_buf[Plus(tx_out, i - 1)]
    <3>1. \A i \in 1..tx : i - 1 \in 0..B-1
      BY <2>2, Constants
    <3>2. \A i \in 1..tx : tx_buf[Plus(tx_out, i - 1)] \in Nat
      BY <1>1, <3>1, Moved
    <3>3. taken \in [1..tx -> Nat]
      BY <2>7, <3>2
    <3>4. taken \in Seq(Nat) /\ Len(taken) = tx
      BY <1>6, <3>3, IsSequence
    <3> QED
      BY <2>7, <3>4
  <2>4. /\ wfifo' \in Seq(Nat) /\ Len(wfifo') = Len(wfifo) + tx
        /\ \A i \in 1..Len(wfifo) + tx :
             wfifo'[i] = IF i <= Len(wfifo) THEN wfifo[i] ELSE taken[i - Len(wfifo)]
    BY <1>1, <2>1, <2>3, ConcatProperties
  <2>5. \A i \in 1..Len(wfifo) + tx : i > Len(wfifo) =>
          i - Len(wfifo) \in 1..tx
    BY <1>1, <1>6
  <2> QED
    BY <1>1, <1>6, <2>1, <2>3, <2>4, <2>5
<1> QED
  BY <1>1, <1>2, <1>5, <1>6, <1>7, <1>8, <1>10, <1>11

-----------------------------------------------------------------------------
(* Types. *)

FifosOK ==
  /\ rfifo \in Seq(Nat) /\ Len(rfifo) <= RxDepth
  /\ wfifo \in Seq(Nat) /\ Len(wfifo) <= TxDepth

RegistersOK ==
  /\ ien \subseteq {"RE", "WE"} /\ irq_enable \subseteq {"RE", "WE"}
  /\ timeout \in 2..INT_MAX /\ host_inactive \in 0..INT_MAX-2

RingsOK ==
  /\ rx_in \in Places /\ rx_out \in Places /\ tx_in \in Places /\ tx_out \in Places
  /\ rx_buf \in [Places -> Nat] /\ tx_buf \in [Places -> Nat]

CallOK ==
  /\ in \in Places /\ out \in Places /\ n \in Places
  /\ left \in Nat /\ moved \in Nat /\ pc \in Labels

FlagsOK ==
  /\ ac \in BOOLEAN /\ pause_irq \in BOOLEAN /\ small \in BOOLEAN
  /\ in_isr \in BOOLEAN /\ nonblock \in BOOLEAN

EndsOK ==
  /\ inputs \in Seq(Nat) /\ outputs \in Seq(Nat) /\ sent \in Nat /\ written \in Nat

LEMMA Parts ==
  UARTTypeOK /\ DataOK <=>
    FifosOK /\ RegistersOK /\ RingsOK /\ CallOK /\ FlagsOK /\ EndsOK
  BY DEF UARTTypeOK, DataOK, FifosOK, RegistersOK, RingsOK, CallOK, FlagsOK, EndsOK,
     Places, B

LEMMA TypesInit == UARTInit => UARTTypeOK /\ DataOK
<1> SUFFICES ASSUME UARTInit
             PROVE  FifosOK /\ RegistersOK /\ RingsOK /\ CallOK /\ FlagsOK /\ EndsOK
  BY Parts
<1>1. FifosOK
  BY Constants DEF UARTInit, FifosOK
<1>2. RegistersOK
  BY UARTAssumption DEF UARTInit, RegistersOK
<1>3. RingsOK
  BY Constants DEF UARTInit, RingsOK, Places, B
<1>4. CallOK
  BY Constants DEF UARTInit, CallOK, Labels
<1>5. EndsOK
  BY DEF UARTInit, EndsOK
<1>6. FlagsOK
  BY Zenon DEF UARTInit, FlagsOK
<1> QED
  BY <1>1, <1>2, <1>3, <1>4, <1>5, <1>6

LEMMA TypesStep == UARTInv /\ UARTNext => (UARTTypeOK /\ DataOK)'
<1> SUFFICES ASSUME UARTInv, UARTNext
             PROVE  (FifosOK /\ RegistersOK /\ RingsOK /\ CallOK /\ FlagsOK /\ EndsOK)'
  BY Parts, PTL
<1>0. /\ FifosOK /\ RegistersOK /\ RingsOK /\ CallOK /\ FlagsOK /\ EndsOK
      /\ B \in Nat /\ B > 1 /\ Places = 0..B-1 /\ 0 \in Places
  BY Parts, Constants DEF UARTInv
<1>1. CASE HostSends
  <2>1. FifosOK'
    <3>1. rfifo \in Seq(Nat) /\ sent + 1 \in Nat /\ Len(rfifo) \in Nat
      BY <1>0, LenProperties DEF FifosOK, EndsOK
    <3>2. rfifo' = Append(rfifo, sent + 1) /\ Len(rfifo) < RxDepth /\ wfifo' = wfifo
      BY <1>1 DEF HostSends
    <3>3. rfifo' \in Seq(Nat) /\ Len(rfifo') = Len(rfifo) + 1
      BY <3>1, <3>2, AppendProperties
    <3> QED
      BY <1>0, <3>1, <3>2, <3>3, Constants DEF FifosOK
  <2>2. EndsOK'
    BY <1>0, <1>1 DEF HostSends, EndsOK, ends
  <2>3. FlagsOK'
    BY <1>0, <1>1, Zenon DEF HostSends, FlagsOK, device, call, Running, GoTo, Return
  <2>4. RegistersOK' /\ RingsOK' /\ CallOK'
    BY <1>0, <1>1 DEF HostSends, RegistersOK, RingsOK, CallOK,
         device, clock, receiver, transmitter, call, Running, GoTo, Return, Labels
  <2> QED
    BY <2>1, <2>2, <2>3, <2>4
<1>2. CASE HostPauses
  <2>1. FlagsOK'
    BY <1>0, <1>2, Zenon DEF HostPauses, FlagsOK, device, call, Running, GoTo, Return
  <2>2. FifosOK' /\ RegistersOK' /\ RingsOK' /\ CallOK' /\ EndsOK'
    BY <1>0, <1>2 DEF HostPauses, FifosOK, RegistersOK, RingsOK, CallOK, EndsOK,
         device, clock, receiver, transmitter, call, Running, GoTo, Return, Labels, ends
  <2> QED
    BY <2>1, <2>2
<1>3. CASE HostTakes
  <2>1. FifosOK'
    <3>1. wfifo \in Seq(Nat) /\ wfifo # <<>> /\ wfifo' = Tail(wfifo)
          /\ rfifo' = rfifo /\ Len(wfifo) \in Nat
      BY <1>0, <1>3, LenProperties DEF FifosOK, HostTakes
    <3>2. wfifo' \in Seq(Nat) /\ Len(wfifo') = Len(wfifo) - 1
      BY <3>1, HeadTailProperties
    <3> QED
      BY <1>0, <3>1, <3>2, Constants DEF FifosOK
  <2>2. EndsOK'
    <3>1. Head(wfifo) \in Nat /\ outputs' = Append(outputs, Head(wfifo))
      BY <1>0, <1>3, HeadTailProperties DEF FifosOK, HostTakes
    <3>2. outputs' \in Seq(Nat)
      BY <1>0, <3>1, AppendProperties DEF EndsOK
    <3> QED
      BY <1>0, <1>3, <3>2 DEF EndsOK, HostTakes
  <2>3. RegistersOK' /\ RingsOK' /\ CallOK' /\ FlagsOK'
    BY <1>0, <1>3 DEF HostTakes, RegistersOK, RingsOK, CallOK, FlagsOK,
         device, clock, receiver, transmitter, call, Running, GoTo, Return, Labels
  <2> QED
    BY <2>1, <2>2, <2>3
<1>4. CASE IsrEnter
  <2>1. FlagsOK'
    BY <1>0, <1>4, Zenon DEF IsrEnter, FlagsOK, device, call, Running, GoTo, Return
  <2>2. FifosOK' /\ RegistersOK' /\ RingsOK' /\ CallOK' /\ EndsOK'
    BY <1>0, <1>4 DEF IsrEnter, FifosOK, RegistersOK, RingsOK, CallOK, EndsOK,
         device, clock, receiver, transmitter, call, Running, GoTo, Return, Labels, ends
  <2> QED
    BY <2>1, <2>2
<1>5. CASE IsrPass
  <2>1. FifosOK'
    <3>1. PICK rx, tx \in Nat :
               /\ rx <= B - 1 - RxUsed /\ tx <= TxUsed
               /\ rx <= Len(rfifo) /\ tx <= TxDepth - Len(wfifo)
               /\ rx_in' = Plus(rx_in, rx) /\ tx_out' = Plus(tx_out, tx)
               /\ rx_buf' \in [Places -> Nat]
               /\ rfifo' \in Seq(Nat) /\ Len(rfifo') = Len(rfifo) - rx
               /\ wfifo' \in Seq(Nat) /\ Len(wfifo') = Len(wfifo) + tx
      BY <1>5, PassEffects
    <3>2. Len(rfifo) \in Nat /\ Len(wfifo) \in Nat
      BY <1>0, LenProperties DEF FifosOK
    <3> QED
      BY <1>0, <3>1, <3>2, Constants DEF FifosOK
  <2>2. RegistersOK'
    BY <1>0, <1>5 DEF IsrPass, RegistersOK, device, clock
  <2>3. RingsOK'
    <3>1. PICK rx, tx \in Nat :
               /\ rx <= B - 1 - RxUsed /\ tx <= TxUsed
               /\ rx <= Len(rfifo) /\ tx <= TxDepth - Len(wfifo)
               /\ rx_in' = Plus(rx_in, rx) /\ tx_out' = Plus(tx_out, tx)
               /\ rx_buf' \in [Places -> Nat]
               /\ rfifo' \in Seq(Nat) /\ Len(rfifo') = Len(rfifo) - rx
               /\ wfifo' \in Seq(Nat) /\ Len(wfifo') = Len(wfifo) + tx
      BY <1>5, PassEffects
    <3>2. RxUsed \in 0..B-1 /\ TxUsed \in 0..B-1
      BY <1>0, Circle DEF RingsOK, RxUsed, TxUsed, B
    <3>3. rx \in 0..B-1 /\ tx \in 0..B-1
      BY <1>0, <3>1, <3>2
    <3>4. rx_in' \in Places /\ tx_out' \in Places
      BY <1>0, <3>1, <3>3, Moved DEF RingsOK
    <3>5. UNCHANGED <<rx_out, tx_in, tx_buf>>
      BY <1>5 DEF IsrPass, Send
    <3> QED
      BY <1>0, <3>1, <3>4, <3>5 DEF RingsOK
  <2>4. FlagsOK'
    <3>1. pause_irq' \in BOOLEAN
      BY <1>5, PassEffects
    <3>2. UNCHANGED <<ac, small, in_isr, nonblock>>
      BY <1>5 DEF IsrPass, call
    <3> QED
      BY <1>0, <3>1, <3>2 DEF FlagsOK
  <2>5. CallOK' /\ EndsOK'
    BY <1>0, <1>5 DEF IsrPass, CallOK, EndsOK,
         call, Running, GoTo, Return, Labels, ends
  <2> QED
    BY <2>1, <2>2, <2>3, <2>4, <2>5
<1>6. CASE IsrReturn
  <2>1. FlagsOK'
    BY <1>0, <1>6, Zenon DEF IsrReturn, FlagsOK, device, call, Running, GoTo, Return
  <2>2. FifosOK' /\ RegistersOK' /\ RingsOK' /\ CallOK' /\ EndsOK'
    BY <1>0, <1>6 DEF IsrReturn, FifosOK, RegistersOK, RingsOK, CallOK, EndsOK,
         device, clock, receiver, transmitter, call, Running, GoTo, Return, Labels, ends
  <2> QED
    BY <2>1, <2>2
<1>7. CASE Timeout
  <2>1. RegistersOK'
    <3>1. INT_MAX \in Nat /\ INT_MAX > 4
      BY UARTAssumption
    <3>2. /\ UNCHANGED <<irq_enable, timeout>>
          /\ ien' = irq_enable \/ ien' = ien
          /\ \/ host_inactive' = 0
             \/ host_inactive < INT_MAX - 2 /\ host_inactive' = host_inactive + 1
      BY <1>7 DEF Timeout
    <3>3. host_inactive' \in 0..INT_MAX-2
      BY <1>0, <3>1, <3>2 DEF RegistersOK
    <3> QED
      BY <1>0, <3>2, <3>3 DEF RegistersOK
  <2>2. FlagsOK'
    BY <1>0, <1>7, Zenon DEF Timeout, FlagsOK, device, call, Running, GoTo, Return
  <2>3. FifosOK' /\ RingsOK' /\ CallOK' /\ EndsOK'
    BY <1>0, <1>7 DEF Timeout, FifosOK, RingsOK, CallOK, EndsOK,
         device, receiver, transmitter, call, Running, GoTo, Return, Labels, ends
  <2> QED
    BY <2>1, <2>2, <2>3
<1>8. CASE CallWrite
  <2>1. CallOK'
    BY <1>0, <1>8, UARTAssumption DEF CallWrite, Begin, CallOK, Labels
  <2>2. FlagsOK'
    BY <1>0, <1>8, Zenon DEF CallWrite, Begin, FlagsOK, device, call, Running, GoTo,
       Return
  <2>3. FifosOK' /\ RegistersOK' /\ RingsOK' /\ EndsOK'
    BY <1>0, <1>8 DEF CallWrite, Begin, FifosOK, RegistersOK, RingsOK, EndsOK,
         device, clock, receiver, transmitter, ends
  <2> QED
    BY <2>1, <2>2, <2>3
<1>9. CASE CallRead
  <2>1. CallOK'
    BY <1>0, <1>9, UARTAssumption DEF CallRead, Begin, CallOK, Labels
  <2>2. FlagsOK'
    BY <1>0, <1>9, Zenon DEF CallRead, Begin, FlagsOK, device, call, Running, GoTo, Return
  <2>3. FifosOK' /\ RegistersOK' /\ RingsOK' /\ EndsOK'
    BY <1>0, <1>9 DEF CallRead, Begin, FifosOK, RegistersOK, RingsOK, EndsOK,
         device, clock, receiver, transmitter, ends
  <2> QED
    BY <2>1, <2>2, <2>3
<1>10. CASE CallClose
  <2>1. CallOK'
    BY <1>0, <1>10 DEF CallClose, Begin, CallOK, call, Running, GoTo, Return, Labels
  <2>2. FlagsOK'
    BY <1>0, <1>10, Zenon DEF CallClose, Begin, FlagsOK, device, call, Running,
       GoTo, Return
  <2>3. FifosOK' /\ RegistersOK' /\ RingsOK' /\ EndsOK'
    BY <1>0, <1>10 DEF CallClose, Begin, FifosOK, RegistersOK, RingsOK, EndsOK,
         device, clock, receiver, transmitter, ends
  <2> QED
    BY <2>1, <2>2, <2>3
<1>11. CASE SetTimeout
  <2>1. RegistersOK'
    BY <1>0, <1>11, UARTAssumption DEF SetTimeout, RegistersOK, device
  <2>2. FifosOK' /\ RingsOK' /\ CallOK' /\ EndsOK' /\ FlagsOK'
    BY <1>0, <1>11 DEF SetTimeout, FifosOK, RingsOK, CallOK, EndsOK, FlagsOK,
         device, receiver, transmitter, call, Running, GoTo, Return, Labels, ends
  <2> QED
    BY <2>1, <2>2
<1>12. CASE WriteLoad
  <2>1. CallOK'
    <3>1. tx_in \in 0..B-1 /\ tx_out \in 0..B-1 /\ left \in Nat
      BY <1>0 DEF RingsOK, CallOK
    <3>2. WriteSpace(tx_in, tx_out) \in 0..B-1
      BY <1>0, <3>1 DEF WriteSpace, B
    <3>3. Least(WriteSpace(tx_in, tx_out), left) \in 0..B-1
      BY <3>1, <3>2, <1>0 DEF Least
    <3>4. /\ in' \in Places /\ out' \in Places /\ n' \in Places
          /\ UNCHANGED <<left, moved>> /\ pc' \in {"Kick", "WriteCopy"}
      BY <1>0, <1>12, <3>3 DEF WriteLoad, CallOK, RingsOK, GoTo
    <3> QED
      BY <1>0, <3>4 DEF CallOK, Labels
  <2>2. FifosOK' /\ RegistersOK' /\ RingsOK' /\ EndsOK' /\ FlagsOK'
    BY <1>0, <1>12 DEF WriteLoad, FifosOK, RegistersOK, RingsOK, EndsOK, FlagsOK,
         device, clock, receiver, transmitter, ends, call, Running, GoTo, Return
  <2> QED
    BY <2>1, <2>2
<1>13. CASE WriteCopy
  <2>1. RingsOK'
    <3>1. \A i \in in..in + n - 1 : written + 1 + (i - in) \in Nat
      BY <1>0 DEF CallOK, EndsOK
    <3>2. tx_buf' = [i \in Places |-> IF i \in in..in + n - 1
                                       THEN written + 1 + (i - in) ELSE tx_buf[i]]
      BY <1>0, <1>13 DEF WriteCopy, RingsOK
    <3>3. tx_buf' \in [Places -> Nat]
      BY <1>0, <3>1, <3>2 DEF RingsOK
    <3> QED
      BY <1>0, <1>13, <3>3 DEF WriteCopy, RingsOK, receiver
  <2>2. CallOK'
    BY <1>0, <1>13 DEF WriteCopy, CallOK, Running, Labels, UARTInv, ReadInv
  <2>3. FifosOK' /\ RegistersOK' /\ EndsOK' /\ FlagsOK'
    BY <1>0, <1>13 DEF WriteCopy, FifosOK, RegistersOK, EndsOK, FlagsOK,
         device, clock, ends, call, Running, GoTo, Return
  <2> QED
    BY <2>1, <2>2, <2>3
<1>14. CASE WriteAdvance
  <2>1. RingsOK'
    <3>1. in \in Places /\ n \in 0..B-1
      BY <1>0 DEF CallOK
    <3>2. Plus(in, n) \in Places
      BY <3>1, Moved
    <3> QED
      BY <1>0, <1>14, <3>2 DEF WriteAdvance, RingsOK, receiver
  <2>2. CallOK'
    BY <1>0, <1>14 DEF WriteAdvance, CallOK, call, Running, GoTo, Return, Labels
  <2>3. EndsOK'
    BY <1>0, <1>14 DEF WriteAdvance, EndsOK, CallOK
  <2>4. FifosOK' /\ RegistersOK' /\ FlagsOK'
    BY <1>0, <1>14 DEF WriteAdvance, FifosOK, RegistersOK, FlagsOK,
         device, clock, call, Running, GoTo, Return
  <2> QED
    BY <2>1, <2>2, <2>3, <2>4
<1>15. CASE Kick
  <2>1. RegistersOK'
    BY <1>0, <1>15 DEF Kick, RegistersOK, device, clock
  <2>2. CallOK'
    BY <1>0, <1>15 DEF Kick, CallOK, call, Running, GoTo, Return, Labels
  <2>3. FlagsOK'
    BY <1>0, <1>15, Zenon DEF Kick, FlagsOK, device, call, Running, GoTo, Return
  <2>4. FifosOK' /\ RingsOK' /\ EndsOK'
    BY <1>0, <1>15 DEF Kick, FifosOK, RingsOK, EndsOK,
         device, receiver, transmitter, ends
  <2> QED
    BY <2>1, <2>2, <2>3, <2>4
<1>16. CASE WriteWait
  <2>1. CallOK'
    BY <1>0, <1>16 DEF WriteWait, CallOK, call, Running, GoTo, Return, Labels
  <2>2. FlagsOK'
    BY <1>0, <1>16, Zenon DEF WriteWait, FlagsOK, device, call, Running, GoTo, Return
  <2>3. FifosOK' /\ RegistersOK' /\ RingsOK' /\ EndsOK'
    BY <1>0, <1>16 DEF WriteWait, FifosOK, RegistersOK, RingsOK, EndsOK,
         device, clock, receiver, transmitter, ends
  <2> QED
    BY <2>1, <2>2, <2>3
<1>17. CASE ReadLoad
  <2>1. CallOK'
    <3>1. CASE left = 0
      BY <1>0, <1>17, <3>1 DEF ReadLoad, CallOK, Running, GoTo, Labels
    <3>2. CASE left # 0
      BY <1>0, <1>17, <3>2, Constants
      DEF ReadLoad, CallOK, RingsOK, Running, GoTo, Labels, Least, ReadAvailable, B
    <3> QED
      BY <3>1, <3>2
  <2>2. FifosOK' /\ RegistersOK' /\ RingsOK' /\ EndsOK' /\ FlagsOK'
    BY <1>0, <1>17 DEF ReadLoad, FifosOK, RegistersOK, RingsOK, EndsOK, FlagsOK,
         device, clock, receiver, transmitter, ends, call, Running, GoTo, Return
  <2> QED
    BY <2>1, <2>2
<1>18. CASE ReadCopy
  <2>1. CallOK'
    BY <1>0, <1>18 DEF ReadCopy, CallOK, Running, Labels, UARTInv, ReadInv
  <2>2. EndsOK'
    <3> DEFINE copied == [i \in 1..n |-> rx_buf[out + i - 1]]
    <3>1. n \in Nat /\ out \in Nat /\ out + n <= B
      BY <1>0, <1>18 DEF CallOK, ReadCopy, Running, UARTInv, ReadInv
    <3>2. \A i \in 1..n : rx_buf[out + i - 1] \in Nat
      BY <1>0, <3>1 DEF RingsOK
    <3>3. copied \in [1..n -> Nat]
      BY <3>2
    <3>4. inputs' = inputs \o copied
      BY <1>18 DEF ReadCopy
    <3> HIDE DEF copied
    <3>5. copied \in Seq(Nat)
      BY <3>1, <3>3, IsSequence
    <3>6. inputs' \in Seq(Nat)
      BY <1>0, <3>4, <3>5, ConcatProperties DEF EndsOK
    <3> QED
      BY <1>0, <1>18, <3>6 DEF ReadCopy, EndsOK
  <2>3. FifosOK' /\ RegistersOK' /\ RingsOK' /\ FlagsOK'
    BY <1>0, <1>18 DEF ReadCopy, FifosOK, RegistersOK, RingsOK, FlagsOK,
         device, clock, receiver, transmitter, call, Running, GoTo, Return
  <2> QED
    BY <2>1, <2>2, <2>3
<1>19. CASE ReadAdvance
  <2>1. RingsOK'
    <3>1. out \in Places /\ n \in 0..B-1
      BY <1>0 DEF CallOK
    <3>2. Plus(out, n) \in Places
      BY <3>1, Moved
    <3> QED
      BY <1>0, <1>19, <3>2 DEF ReadAdvance, RingsOK, transmitter
  <2>2. CallOK'
    BY <1>0, <1>19 DEF ReadAdvance, CallOK, call, Running, GoTo, Return, Labels
  <2>3. FifosOK' /\ RegistersOK' /\ EndsOK' /\ FlagsOK'
    BY <1>0, <1>19 DEF ReadAdvance, FifosOK, RegistersOK, EndsOK, FlagsOK,
         device, clock, ends, call, Running, GoTo, Return
  <2> QED
    BY <2>1, <2>2, <2>3
<1>20. CASE ReadWait
  <2>1. CallOK'
    BY <1>0, <1>20 DEF ReadWait, CallOK, call, Running, GoTo, Return, Labels
  <2>2. FlagsOK'
    BY <1>0, <1>20, Zenon DEF ReadWait, FlagsOK, device, call, Running, GoTo, Return
  <2>3. FifosOK' /\ RegistersOK' /\ RingsOK' /\ EndsOK'
    BY <1>0, <1>20 DEF ReadWait, FifosOK, RegistersOK, RingsOK, EndsOK,
         device, clock, receiver, transmitter, ends
  <2> QED
    BY <2>1, <2>2, <2>3
<1>21. CASE ReadEnd
  <2>1. RegistersOK'
    BY <1>0, <1>21 DEF ReadEnd, RegistersOK, device, clock
  <2>2. CallOK'
    BY <1>0, <1>21 DEF ReadEnd, CallOK, call, Running, GoTo, Return, Labels
  <2>3. FlagsOK'
    BY <1>0, <1>21, Zenon DEF ReadEnd, FlagsOK, device, call, Running, GoTo, Return
  <2>4. FifosOK' /\ RingsOK' /\ EndsOK'
    BY <1>0, <1>21 DEF ReadEnd, FifosOK, RingsOK, EndsOK,
         device, receiver, transmitter, ends
  <2> QED
    BY <2>1, <2>2, <2>3, <2>4
<1>22. CASE Close
  <2>1. CallOK'
    BY <1>0, <1>22 DEF Close, CallOK, call, Running, GoTo, Return, Labels
  <2>2. FlagsOK'
    BY <1>0, <1>22, Zenon DEF Close, FlagsOK, device, call, Running, GoTo, Return
  <2>3. FifosOK' /\ RegistersOK' /\ RingsOK' /\ EndsOK'
    BY <1>0, <1>22 DEF Close, FifosOK, RegistersOK, RingsOK, EndsOK,
         device, clock, receiver, transmitter, ends
  <2> QED
    BY <2>1, <2>2, <2>3
<1>23. CASE SmallWrite
  <2>1. FifosOK'
    <3>1. wfifo \in Seq(Nat) /\ written + 1 \in Nat /\ Len(wfifo) \in Nat
      BY <1>0, LenProperties DEF FifosOK, EndsOK
    <3>2. /\ rfifo' = rfifo
          /\ \/ wfifo' = wfifo
             \/ wfifo' = Append(wfifo, written + 1) /\ TxDepth - Len(wfifo) # 0
      BY <1>23 DEF SmallWrite, WSPACE
    <3>3. CASE wfifo' = wfifo
      BY <1>0, <3>2, <3>3 DEF FifosOK
    <3>4. CASE wfifo' = Append(wfifo, written + 1) /\ TxDepth - Len(wfifo) # 0
      <4>1. wfifo' \in Seq(Nat) /\ Len(wfifo') = Len(wfifo) + 1
        BY <3>1, <3>4, AppendProperties
      <4>2. Len(wfifo) <= TxDepth /\ TxDepth - Len(wfifo) # 0
        BY <1>0, <3>4 DEF FifosOK
      <4>3. Len(wfifo') <= TxDepth
        BY <3>1, <4>1, <4>2, Constants
      <4> QED
        BY <1>0, <3>2, <4>1, <4>3 DEF FifosOK
    <3> QED
      BY <3>2, <3>3, <3>4
  <2>2. CallOK'
    BY <1>0, <1>23 DEF SmallWrite, CallOK, call, Running, GoTo, Return, Labels
  <2>3. EndsOK'
    BY <1>0, <1>23 DEF SmallWrite, EndsOK, ends
  <2>4. FlagsOK'
    BY <1>0, <1>23, Zenon DEF SmallWrite, FlagsOK, device, call, Running, GoTo, Return
  <2>5. RegistersOK' /\ RingsOK'
    BY <1>0, <1>23 DEF SmallWrite, RegistersOK, RingsOK,
         device, clock, receiver, transmitter
  <2> QED
    BY <2>1, <2>2, <2>3, <2>4, <2>5
<1>24. CASE SmallRead
  <2>1. FifosOK'
    <3>1. rfifo \in Seq(Nat) /\ Len(rfifo) \in Nat
      BY <1>0, LenProperties DEF FifosOK
    <3>2. /\ wfifo' = wfifo
          /\ rfifo' = rfifo \/ (rfifo' = Tail(rfifo) /\ rfifo # <<>>)
      BY <1>24 DEF SmallRead
    <3>3. CASE rfifo' = rfifo
      BY <1>0, <3>2, <3>3 DEF FifosOK
    <3>4. CASE rfifo' = Tail(rfifo) /\ rfifo # <<>>
      <4>1. rfifo' \in Seq(Nat) /\ Len(rfifo') = Len(rfifo) - 1
        BY <3>1, <3>4, HeadTailProperties
      <4>2. Len(rfifo) <= RxDepth
        BY <1>0 DEF FifosOK
      <4>3. Len(rfifo') <= RxDepth
        BY <3>1, <4>1, <4>2, Constants
      <4> QED
        BY <1>0, <3>2, <4>1, <4>3 DEF FifosOK
    <3> QED
      BY <3>2, <3>3, <3>4
  <2>2. CallOK'
    BY <1>0, <1>24 DEF SmallRead, CallOK, call, Running, GoTo, Return, Labels
  <2>3. EndsOK'
    <3>1. /\ UNCHANGED <<sent, written, outputs>>
          /\ inputs' = inputs \/ (rfifo # <<>> /\ inputs' = Append(inputs, Head(rfifo)))
      BY <1>24 DEF SmallRead
    <3>2. rfifo # <<>> => Head(rfifo) \in Nat
      BY <1>0, HeadTailProperties DEF FifosOK
    <3>3. rfifo # <<>> => Append(inputs, Head(rfifo)) \in Seq(Nat)
      BY <1>0, <3>2, AppendProperties DEF EndsOK
    <3> QED
      BY <1>0, <3>1, <3>3 DEF EndsOK
  <2>4. FlagsOK'
    BY <1>0, <1>24, Zenon DEF SmallRead, FlagsOK, device, call, Running, GoTo, Return
  <2>5. RegistersOK' /\ RingsOK'
    BY <1>0, <1>24 DEF SmallRead, RegistersOK, RingsOK,
         device, clock, receiver, transmitter
  <2> QED
    BY <2>1, <2>2, <2>3, <2>4, <2>5
<1> QED
  BY <1>1, <1>2, <1>3, <1>4, <1>5, <1>6, <1>7, <1>8, <1>9, <1>10, <1>11, <1>12,
     <1>13, <1>14, <1>15, <1>16, <1>17, <1>18, <1>19, <1>20, <1>21, <1>22, <1>23,
     <1>24
  DEF UARTNext, Host, Isr, Begins, Proceeds, Writing, Reading

-----------------------------------------------------------------------------
(* What the calls know. *)

LEMMA Facts ==
  ASSUME UARTInv
  PROVE  /\ ModeInv /\ EnableInv /\ ReadInv /\ WriteInv
         /\ FifosOK /\ RegistersOK /\ RingsOK /\ CallOK /\ EndsOK
         /\ B \in Nat /\ B > 1 /\ Places = 0..B-1 /\ 0 \in Places
         /\ RxUsed \in 0..B-1 /\ TxUsed \in 0..B-1
<1>1. /\ ModeInv /\ EnableInv /\ ReadInv /\ WriteInv
      /\ FifosOK /\ RegistersOK /\ RingsOK /\ CallOK /\ EndsOK
  BY Parts DEF UARTInv
<1>2. RxUsed \in 0..B-1 /\ TxUsed \in 0..B-1
  BY <1>1, Circle DEF RxUsed, TxUsed, RingsOK, B
<1> QED
  BY <1>1, <1>2, Constants

LEMMA ControlStep ==
  UARTInv /\ UARTNext => (ModeInv /\ EnableInv /\ ReadInv /\ WriteInv)'
<1> SUFFICES ASSUME UARTInv, UARTNext
             PROVE  (ModeInv /\ EnableInv /\ ReadInv /\ WriteInv)'
  OBVIOUS
<1>0. /\ ModeInv /\ EnableInv /\ ReadInv /\ WriteInv
      /\ FifosOK /\ RegistersOK /\ RingsOK /\ CallOK /\ EndsOK
      /\ B \in Nat /\ B > 1 /\ Places = 0..B-1 /\ 0 \in Places
      /\ RxUsed \in 0..B-1 /\ TxUsed \in 0..B-1
  BY Facts
<1>1. CASE HostSends
  <2>1. ModeInv'
    BY <1>0, <1>1 DEF HostSends, ModeInv, CallOK,
         device, receiver, transmitter, clock, call, ends, Running, GoTo, Return
  <2>2. EnableInv'
    BY <1>0, <1>1 DEF HostSends, EnableInv, CallOK,
         device, receiver, transmitter, clock, call, ends, Running, GoTo, Return
  <2>3. ReadInv'
    BY <1>0, <1>1 DEF HostSends, ReadInv, RxUsed, CallOK,
         device, receiver, transmitter, clock, call, ends, Running, GoTo, Return
  <2>4. WriteInv'
    BY <1>0, <1>1 DEF HostSends, WriteInv, TxUsed, CallOK,
         device, receiver, transmitter, clock, call, ends, Running, GoTo, Return
  <2> QED
    BY <2>1, <2>2, <2>3, <2>4
<1>2. CASE HostPauses
  <2>1. ModeInv'
    BY <1>0, <1>2 DEF HostPauses, ModeInv, CallOK,
         device, receiver, transmitter, clock, call, ends, Running, GoTo, Return
  <2>2. EnableInv'
    BY <1>0, <1>2 DEF HostPauses, EnableInv, CallOK,
         device, receiver, transmitter, clock, call, ends, Running, GoTo, Return
  <2>3. ReadInv'
    BY <1>0, <1>2 DEF HostPauses, ReadInv, RxUsed, CallOK,
         device, receiver, transmitter, clock, call, ends, Running, GoTo, Return
  <2>4. WriteInv'
    BY <1>0, <1>2 DEF HostPauses, WriteInv, TxUsed, CallOK,
         device, receiver, transmitter, clock, call, ends, Running, GoTo, Return
  <2> QED
    BY <2>1, <2>2, <2>3, <2>4
<1>3. CASE HostTakes
  <2>1. ModeInv'
    BY <1>0, <1>3 DEF HostTakes, ModeInv, CallOK,
         device, receiver, transmitter, clock, call, ends, Running, GoTo, Return
  <2>2. EnableInv'
    BY <1>0, <1>3 DEF HostTakes, EnableInv, CallOK,
         device, receiver, transmitter, clock, call, ends, Running, GoTo, Return
  <2>3. ReadInv'
    BY <1>0, <1>3 DEF HostTakes, ReadInv, RxUsed, CallOK,
         device, receiver, transmitter, clock, call, ends, Running, GoTo, Return
  <2>4. WriteInv'
    BY <1>0, <1>3 DEF HostTakes, WriteInv, TxUsed, CallOK,
         device, receiver, transmitter, clock, call, ends, Running, GoTo, Return
  <2> QED
    BY <2>1, <2>2, <2>3, <2>4
<1>4. CASE IsrEnter
  <2>1. ModeInv'
    BY <1>0, <1>4 DEF IsrEnter, ModeInv, CallOK,
         device, receiver, transmitter, clock, call, ends, Running, GoTo, Return
  <2>2. EnableInv'
    BY <1>0, <1>4 DEF IsrEnter, EnableInv, CallOK,
         device, receiver, transmitter, clock, call, ends, Running, GoTo, Return
  <2>3. ReadInv'
    BY <1>0, <1>4 DEF IsrEnter, ReadInv, RxUsed, CallOK,
         device, receiver, transmitter, clock, call, ends, Running, GoTo, Return
  <2>4. WriteInv'
    BY <1>0, <1>4 DEF IsrEnter, WriteInv, TxUsed, CallOK,
         device, receiver, transmitter, clock, call, ends, Running, GoTo, Return
  <2> QED
    BY <2>1, <2>2, <2>3, <2>4
<1>5. CASE IsrPass
  <2>1. ModeInv'
    BY <1>0, <1>5 DEF IsrPass, ModeInv, CallOK,
         device, receiver, transmitter, clock, call, ends, Running, GoTo, Return
  <2>2. EnableInv'
    BY <1>0, <1>5 DEF IsrPass, EnableInv, CallOK,
         device, receiver, transmitter, clock, call, ends, Running, GoTo, Return
  <2>3. ReadInv'
    <3>1. PICK rx \in Nat : rx <= B - 1 - RxUsed /\ rx_in' = Plus(rx_in, rx)
      BY <1>5, PassEffects
    <3>2. /\ UNCHANGED <<rx_out, pc, nonblock, in, out, n, left, moved>>
      BY <1>5 DEF IsrPass, call
    <3>3. RxUsed' = RxUsed + rx
      <4>1. rx \in 0..B-1 /\ RxUsed + rx <= B - 1
        BY <1>0, <3>1
      <4> QED
        BY <1>0, <3>1, <3>2, <4>1, Filled DEF RxUsed, RingsOK
    <3>4. n <= RxUsed => n <= RxUsed'
      BY <1>0, <3>1, <3>3 DEF CallOK
    <3> QED
      BY <1>0, <3>2, <3>4 DEF ReadInv
  <2>4. WriteInv'
    <3>1. PICK tx \in Nat : tx <= TxUsed /\ tx_out' = Plus(tx_out, tx)
      BY <1>5, PassEffects
    <3>2. UNCHANGED <<tx_in, tx_buf, written, pc, in, n>>
      BY <1>5 DEF IsrPass, Send, call, ends
    <3>3. TxUsed' = TxUsed - tx
      <4>1. tx \in 0..TxUsed
        BY <1>0, <3>1
      <4> QED
        BY <1>0, <3>1, <3>2, <4>1, Emptied DEF TxUsed, RingsOK, B
    <3>4. TxUsed + n <= B - 1 => TxUsed' + n <= B - 1
      BY <1>0, <3>1, <3>3 DEF CallOK
    <3> QED
      BY <1>0, <3>2, <3>4 DEF WriteInv
  <2> QED
    BY <2>1, <2>2, <2>3, <2>4
<1>6. CASE IsrReturn
  <2>1. ModeInv'
    BY <1>0, <1>6 DEF IsrReturn, ModeInv, CallOK,
         device, receiver, transmitter, clock, call, ends, Running, GoTo, Return
  <2>2. EnableInv'
    BY <1>0, <1>6 DEF IsrReturn, EnableInv, CallOK,
         device, receiver, transmitter, clock, call, ends, Running, GoTo, Return
  <2>3. ReadInv'
    BY <1>0, <1>6 DEF IsrReturn, ReadInv, RxUsed, CallOK,
         device, receiver, transmitter, clock, call, ends, Running, GoTo, Return
  <2>4. WriteInv'
    BY <1>0, <1>6 DEF IsrReturn, WriteInv, TxUsed, CallOK,
         device, receiver, transmitter, clock, call, ends, Running, GoTo, Return
  <2> QED
    BY <2>1, <2>2, <2>3, <2>4
<1>7. CASE Timeout
  <2>1. ModeInv'
    BY <1>0, <1>7 DEF Timeout, ModeInv, CallOK,
         device, receiver, transmitter, clock, call, ends, Running, GoTo, Return
  <2>2. EnableInv'
    BY <1>0, <1>7 DEF Timeout, EnableInv, CallOK,
         device, receiver, transmitter, clock, call, ends, Running, GoTo, Return
  <2>3. ReadInv'
    BY <1>0, <1>7 DEF Timeout, ReadInv, RxUsed, CallOK,
         device, receiver, transmitter, clock, call, ends, Running, GoTo, Return
  <2>4. WriteInv'
    BY <1>0, <1>7 DEF Timeout, WriteInv, TxUsed, CallOK,
         device, receiver, transmitter, clock, call, ends, Running, GoTo, Return
  <2> QED
    BY <2>1, <2>2, <2>3, <2>4
<1>8. CASE CallWrite
  <2>1. ModeInv'
    BY <1>0, <1>8 DEF CallWrite, Begin, ModeInv, CallOK,
         device, receiver, transmitter, clock, call, ends, Running, GoTo, Return
  <2>2. EnableInv'
    BY <1>0, <1>8 DEF CallWrite, Begin, EnableInv, CallOK,
         device, receiver, transmitter, clock, call, ends, Running, GoTo, Return
  <2>3. ReadInv'
    BY <1>0, <1>8, UARTAssumption DEF CallWrite, Begin, ReadInv, RxUsed, receiver
  <2>4. WriteInv'
    BY <1>0, <1>8 DEF CallWrite, Begin, WriteInv, TxUsed, CallOK,
         device, receiver, transmitter, clock, call, ends, Running, GoTo, Return
  <2> QED
    BY <2>1, <2>2, <2>3, <2>4
<1>9. CASE CallRead
  <2>1. ModeInv'
    BY <1>0, <1>9 DEF CallRead, Begin, ModeInv, CallOK,
         device, receiver, transmitter, clock, call, ends, Running, GoTo, Return
  <2>2. EnableInv'
    BY <1>0, <1>9 DEF CallRead, Begin, EnableInv, CallOK,
         device, receiver, transmitter, clock, call, ends, Running, GoTo, Return
  <2>3. ReadInv'
    BY <1>0, <1>9, UARTAssumption DEF CallRead, Begin, ReadInv, RxUsed, receiver
  <2>4. WriteInv'
    BY <1>0, <1>9 DEF CallRead, Begin, WriteInv, TxUsed, CallOK,
         device, receiver, transmitter, clock, call, ends, Running, GoTo, Return
  <2> QED
    BY <2>1, <2>2, <2>3, <2>4
<1>10. CASE CallClose
  <2>1. ModeInv'
    BY <1>0, <1>10 DEF CallClose, Begin, ModeInv, CallOK,
         device, receiver, transmitter, clock, call, ends, Running, GoTo, Return
  <2>2. EnableInv'
    BY <1>0, <1>10 DEF CallClose, Begin, EnableInv, CallOK,
         device, receiver, transmitter, clock, call, ends, Running, GoTo, Return
  <2>3. ReadInv'
    BY <1>0, <1>10 DEF CallClose, Begin, ReadInv, RxUsed, CallOK,
         device, receiver, transmitter, clock, call, ends, Running, GoTo, Return
  <2>4. WriteInv'
    BY <1>0, <1>10 DEF CallClose, Begin, WriteInv, TxUsed, CallOK,
         device, receiver, transmitter, clock, call, ends, Running, GoTo, Return
  <2> QED
    BY <2>1, <2>2, <2>3, <2>4
<1>11. CASE SetTimeout
  <2>1. ModeInv'
    BY <1>0, <1>11 DEF SetTimeout, ModeInv, CallOK,
         device, receiver, transmitter, clock, call, ends, Running, GoTo, Return
  <2>2. EnableInv'
    BY <1>0, <1>11 DEF SetTimeout, EnableInv, CallOK,
         device, receiver, transmitter, clock, call, ends, Running, GoTo, Return
  <2>3. ReadInv'
    BY <1>0, <1>11 DEF SetTimeout, ReadInv, RxUsed, CallOK,
         device, receiver, transmitter, clock, call, ends, Running, GoTo, Return
  <2>4. WriteInv'
    BY <1>0, <1>11 DEF SetTimeout, WriteInv, TxUsed, CallOK,
         device, receiver, transmitter, clock, call, ends, Running, GoTo, Return
  <2> QED
    BY <2>1, <2>2, <2>3, <2>4
<1>12. CASE WriteLoad
  <2>1. ModeInv'
    BY <1>0, <1>12 DEF WriteLoad, ModeInv, CallOK,
         device, receiver, transmitter, clock, call, ends, Running, GoTo, Return
  <2>2. EnableInv'
    BY <1>0, <1>12 DEF WriteLoad, EnableInv, CallOK,
         device, receiver, transmitter, clock, call, ends, Running, GoTo, Return
  <2>3. ReadInv'
    <3>1. /\ UNCHANGED <<left, moved>> /\ pc = "WriteLoad"
          /\ pc' \in {"Kick", "WriteCopy"}
          /\ pc' = "WriteCopy" => n' = Least(WriteSpace(tx_in, tx_out), left)
      BY <1>12 DEF WriteLoad, Running, GoTo
    <3>2. WriteSpace(tx_in, tx_out) \in 0..B-1
      BY <1>0 DEF WriteSpace, RingsOK, B
    <3>3. pc' = "WriteCopy" => n' <= left
      BY <1>0, <3>1, <3>2 DEF Least, CallOK
    <3> QED
      BY <1>0, <3>1, <3>3 DEF ReadInv
  <2>4. WriteInv'
    <3>1. /\ pc' \in {"Kick", "WriteCopy"} /\ UNCHANGED <<tx_in, tx_out>>
          /\ pc' = "WriteCopy" => /\ in' = tx_in
                                  /\ n' = Least(WriteSpace(tx_in, tx_out), left)
                                  /\ n' # 0
      BY <1>12 DEF WriteLoad, GoTo, transmitter
    <3>2. /\ TxUsed = IF tx_in >= tx_out THEN tx_in - tx_out ELSE tx_in - tx_out + B
          /\ tx_in \in 0..B-1 /\ tx_out \in 0..B-1 /\ left \in Nat
      BY <1>0, Circle DEF TxUsed, RingsOK, CallOK, B
    <3>3. pc' = "WriteCopy" => /\ n' >= 1 /\ TxUsed + n' <= B - 1
                               /\ tx_in + n' <= B
      BY <1>0, <3>1, <3>2 DEF Least, WriteSpace, B
    <3>4. TxUsed' = TxUsed
      BY <3>1 DEF TxUsed
    <3> QED
      BY <3>1, <3>3, <3>4 DEF WriteInv
  <2> QED
    BY <2>1, <2>2, <2>3, <2>4
<1>13. CASE WriteCopy
  <2>1. ModeInv'
    BY <1>0, <1>13 DEF WriteCopy, ModeInv, CallOK,
         device, receiver, transmitter, clock, call, ends, Running, GoTo, Return
  <2>2. EnableInv'
    BY <1>0, <1>13 DEF WriteCopy, EnableInv, CallOK,
         device, receiver, transmitter, clock, call, ends, Running, GoTo, Return
  <2>3. ReadInv'
    BY <1>0, <1>13 DEF WriteCopy, ReadInv, RxUsed, CallOK,
         device, receiver, transmitter, clock, call, ends, Running, GoTo, Return
  <2>4. WriteInv'
    <3>1. /\ in = tx_in /\ n >= 1 /\ TxUsed + n <= B - 1 /\ in + n <= B
          /\ UNCHANGED <<in, n, tx_in, tx_out, written>> /\ pc' = "WriteAdvance"
          /\ tx_buf' = [i \in Places |-> IF i \in in..in + n - 1
                                         THEN written + 1 + (i - in) ELSE tx_buf[i]]
      BY <1>0, <1>13 DEF WriteCopy, WriteInv, Running, RingsOK, ends
    <3>2. in \in Nat /\ n \in Nat /\ written \in Nat
      BY <1>0 DEF CallOK, EndsOK
    <3>3. ASSUME NEW i \in 0..n-1 PROVE tx_buf'[in + i] = written + 1 + i
      <4>1. in + i \in Places /\ in + i \in in..in + n - 1 /\ (in + i) - in = i
        BY <1>0, <3>1, <3>2
      <4> QED
        BY <3>1, <4>1
    <3>4. TxUsed' = TxUsed
      BY <3>1 DEF TxUsed
    <3> QED
      BY <3>1, <3>3, <3>4 DEF WriteInv
  <2> QED
    BY <2>1, <2>2, <2>3, <2>4
<1>14. CASE WriteAdvance
  <2>1. ModeInv'
    BY <1>0, <1>14 DEF WriteAdvance, ModeInv, CallOK,
         device, receiver, transmitter, clock, call, ends, Running, GoTo, Return
  <2>2. EnableInv'
    BY <1>0, <1>14 DEF WriteAdvance, EnableInv, CallOK,
         device, receiver, transmitter, clock, call, ends, Running, GoTo, Return
  <2>3. ReadInv'
    BY <1>0, <1>14 DEF WriteAdvance, ReadInv, RxUsed, CallOK,
         device, receiver, transmitter, clock, call, ends, Running, GoTo, Return
  <2>4. WriteInv'
    BY <1>0, <1>14 DEF WriteAdvance, WriteInv, TxUsed, CallOK,
         device, receiver, transmitter, clock, call, ends, Running, GoTo, Return
  <2> QED
    BY <2>1, <2>2, <2>3, <2>4
<1>15. CASE Kick
  <2>1. ModeInv'
    BY <1>0, <1>15 DEF Kick, ModeInv, CallOK,
         device, receiver, transmitter, clock, call, ends, Running, GoTo, Return
  <2>2. EnableInv'
    BY <1>0, <1>15 DEF Kick, EnableInv, CallOK,
         device, receiver, transmitter, clock, call, ends, Running, GoTo, Return
  <2>3. ReadInv'
    BY <1>0, <1>15 DEF Kick, ReadInv, RxUsed, CallOK,
         device, receiver, transmitter, clock, call, ends, Running, GoTo, Return
  <2>4. WriteInv'
    BY <1>0, <1>15 DEF Kick, WriteInv, TxUsed, CallOK,
         device, receiver, transmitter, clock, call, ends, Running, GoTo, Return
  <2> QED
    BY <2>1, <2>2, <2>3, <2>4
<1>16. CASE WriteWait
  <2>1. ModeInv'
    BY <1>0, <1>16 DEF WriteWait, ModeInv, CallOK,
         device, receiver, transmitter, clock, call, ends, Running, GoTo, Return
  <2>2. EnableInv'
    BY <1>0, <1>16 DEF WriteWait, EnableInv, CallOK,
         device, receiver, transmitter, clock, call, ends, Running, GoTo, Return
  <2>3. ReadInv'
    BY <1>0, <1>16 DEF WriteWait, ReadInv, RxUsed, CallOK,
         device, receiver, transmitter, clock, call, ends, Running, GoTo, Return
  <2>4. WriteInv'
    BY <1>0, <1>16 DEF WriteWait, WriteInv, TxUsed, CallOK,
         device, receiver, transmitter, clock, call, ends, Running, GoTo, Return
  <2> QED
    BY <2>1, <2>2, <2>3, <2>4
<1>17. CASE ReadLoad
  <2>1. ModeInv'
    BY <1>0, <1>17 DEF ReadLoad, ModeInv, CallOK,
         device, receiver, transmitter, clock, call, ends, Running, GoTo, Return
  <2>2. EnableInv'
    BY <1>0, <1>17 DEF ReadLoad, EnableInv, CallOK,
         device, receiver, transmitter, clock, call, ends, Running, GoTo, Return
  <2>3. ReadInv'
    <3>1. CASE left = 0
      BY <1>0, <1>17, <3>1 DEF ReadLoad, Running, GoTo, receiver, ReadInv
    <3>2. CASE left # 0
      <4>1. /\ out' = rx_out /\ n' = Least(ReadAvailable(rx_in, rx_out), left)
            /\ pc' = IF n' > 0 THEN "ReadCopy"
                     ELSE IF moved > 0 \/ nonblock THEN "ReadEnd" ELSE "ReadWait"
            /\ UNCHANGED <<rx_in, rx_out, left, moved, nonblock>> /\ pc = "ReadLoad"
        BY <1>17, <3>2 DEF ReadLoad, Running, GoTo, receiver
      <4>2. /\ RxUsed = IF rx_in >= rx_out THEN rx_in - rx_out ELSE rx_in - rx_out + B
            /\ rx_in \in 0..B-1 /\ rx_out \in 0..B-1 /\ left \in Nat /\ moved \in Nat
        BY <1>0, Circle DEF RxUsed, RingsOK, CallOK, B
      <4>3. /\ n' \in Nat /\ n' <= RxUsed /\ rx_out + n' <= B /\ n' <= left
        BY <1>0, <4>1, <4>2 DEF Least, ReadAvailable, B
      <4>4. RxUsed' = RxUsed
        BY <4>1 DEF RxUsed
      <4>5. /\ pc' = "ReadCopy" => n' >= 1
            /\ pc' = "ReadWait" => moved = 0
            /\ pc' = "ReadEnd" => moved > 0 \/ nonblock
            /\ pc' \in {"ReadCopy", "ReadEnd", "ReadWait"}
        BY <4>1, <4>2, <4>3
      <4>6. /\ pc' = "ReadEnd" => moved' > 0 \/ nonblock'
            /\ n' <= left' /\ (pc' = "ReadWait" => moved' = 0)
        BY <4>1, <4>3, <4>5, Zenon
      <4> QED
        BY <4>1, <4>3, <4>4, <4>5, <4>6 DEF ReadInv
    <3> QED
      BY <3>1, <3>2
  <2>4. WriteInv'
    BY <1>0, <1>17 DEF ReadLoad, WriteInv, TxUsed, CallOK,
         device, receiver, transmitter, clock, call, ends, Running, GoTo, Return
  <2> QED
    BY <2>1, <2>2, <2>3, <2>4
<1>18. CASE ReadCopy
  <2>1. ModeInv'
    BY <1>0, <1>18 DEF ReadCopy, ModeInv, CallOK,
         device, receiver, transmitter, clock, call, ends, Running, GoTo, Return
  <2>2. EnableInv'
    BY <1>0, <1>18 DEF ReadCopy, EnableInv, CallOK,
         device, receiver, transmitter, clock, call, ends, Running, GoTo, Return
  <2>3. ReadInv'
    BY <1>0, <1>18 DEF ReadCopy, ReadInv, RxUsed, CallOK,
         device, receiver, transmitter, clock, call, ends, Running, GoTo, Return
  <2>4. WriteInv'
    BY <1>0, <1>18 DEF ReadCopy, WriteInv, TxUsed, CallOK,
         device, receiver, transmitter, clock, call, ends, Running, GoTo, Return
  <2> QED
    BY <2>1, <2>2, <2>3, <2>4
<1>19. CASE ReadAdvance
  <2>1. ModeInv'
    BY <1>0, <1>19 DEF ReadAdvance, ModeInv, CallOK,
         device, receiver, transmitter, clock, call, ends, Running, GoTo, Return
  <2>2. EnableInv'
    BY <1>0, <1>19 DEF ReadAdvance, EnableInv, CallOK,
         device, receiver, transmitter, clock, call, ends, Running, GoTo, Return
  <2>3. ReadInv'
    BY <1>0, <1>19 DEF ReadAdvance, ReadInv, RxUsed, CallOK,
         device, receiver, transmitter, clock, call, ends, Running, GoTo, Return
  <2>4. WriteInv'
    BY <1>0, <1>19 DEF ReadAdvance, WriteInv, TxUsed, CallOK,
         device, receiver, transmitter, clock, call, ends, Running, GoTo, Return
  <2> QED
    BY <2>1, <2>2, <2>3, <2>4
<1>20. CASE ReadWait
  <2>1. ModeInv'
    BY <1>0, <1>20 DEF ReadWait, ModeInv, CallOK,
         device, receiver, transmitter, clock, call, ends, Running, GoTo, Return
  <2>2. EnableInv'
    BY <1>0, <1>20 DEF ReadWait, EnableInv, CallOK,
         device, receiver, transmitter, clock, call, ends, Running, GoTo, Return
  <2>3. ReadInv'
    BY <1>0, <1>20 DEF ReadWait, ReadInv, RxUsed, CallOK,
         device, receiver, transmitter, clock, call, ends, Running, GoTo, Return
  <2>4. WriteInv'
    BY <1>0, <1>20 DEF ReadWait, WriteInv, TxUsed, CallOK,
         device, receiver, transmitter, clock, call, ends, Running, GoTo, Return
  <2> QED
    BY <2>1, <2>2, <2>3, <2>4
<1>21. CASE ReadEnd
  <2>1. ModeInv'
    BY <1>0, <1>21 DEF ReadEnd, ModeInv, CallOK,
         device, receiver, transmitter, clock, call, ends, Running, GoTo, Return
  <2>2. EnableInv'
    BY <1>0, <1>21 DEF ReadEnd, EnableInv, CallOK,
         device, receiver, transmitter, clock, call, ends, Running, GoTo, Return
  <2>3. ReadInv'
    BY <1>0, <1>21 DEF ReadEnd, ReadInv, RxUsed, CallOK,
         device, receiver, transmitter, clock, call, ends, Running, GoTo, Return
  <2>4. WriteInv'
    BY <1>0, <1>21 DEF ReadEnd, WriteInv, TxUsed, CallOK,
         device, receiver, transmitter, clock, call, ends, Running, GoTo, Return
  <2> QED
    BY <2>1, <2>2, <2>3, <2>4
<1>22. CASE Close
  <2>1. ModeInv'
    BY <1>0, <1>22 DEF Close, ModeInv, CallOK,
         device, receiver, transmitter, clock, call, ends, Running, GoTo, Return
  <2>2. EnableInv'
    BY <1>0, <1>22 DEF Close, EnableInv, CallOK,
         device, receiver, transmitter, clock, call, ends, Running, GoTo, Return
  <2>3. ReadInv'
    BY <1>0, <1>22 DEF Close, ReadInv, RxUsed, CallOK,
         device, receiver, transmitter, clock, call, ends, Running, GoTo, Return
  <2>4. WriteInv'
    BY <1>0, <1>22 DEF Close, WriteInv, TxUsed, CallOK,
         device, receiver, transmitter, clock, call, ends, Running, GoTo, Return
  <2> QED
    BY <2>1, <2>2, <2>3, <2>4
<1>23. CASE SmallWrite
  <2>1. ModeInv'
    BY <1>0, <1>23 DEF SmallWrite, ModeInv, CallOK,
         device, receiver, transmitter, clock, call, ends, Running, GoTo, Return
  <2>2. EnableInv'
    BY <1>0, <1>23 DEF SmallWrite, EnableInv, CallOK,
         device, receiver, transmitter, clock, call, ends, Running, GoTo, Return
  <2>3. ReadInv'
    BY <1>0, <1>23 DEF SmallWrite, ReadInv, RxUsed, CallOK,
         device, receiver, transmitter, clock, call, ends, Running, GoTo, Return
  <2>4. WriteInv'
    BY <1>0, <1>23 DEF SmallWrite, WriteInv, TxUsed, CallOK,
         device, receiver, transmitter, clock, call, ends, Running, GoTo, Return
  <2> QED
    BY <2>1, <2>2, <2>3, <2>4
<1>24. CASE SmallRead
  <2>1. ModeInv'
    BY <1>0, <1>24 DEF SmallRead, ModeInv, CallOK,
         device, receiver, transmitter, clock, call, ends, Running, GoTo, Return
  <2>2. EnableInv'
    BY <1>0, <1>24 DEF SmallRead, EnableInv, CallOK,
         device, receiver, transmitter, clock, call, ends, Running, GoTo, Return
  <2>3. ReadInv'
    BY <1>0, <1>24 DEF SmallRead, ReadInv, RxUsed, CallOK,
         device, receiver, transmitter, clock, call, ends, Running, GoTo, Return
  <2>4. WriteInv'
    BY <1>0, <1>24 DEF SmallRead, WriteInv, TxUsed, CallOK,
         device, receiver, transmitter, clock, call, ends, Running, GoTo, Return
  <2> QED
    BY <2>1, <2>2, <2>3, <2>4
<1> QED
  BY <1>1, <1>2, <1>3, <1>4, <1>5, <1>6, <1>7, <1>8, <1>9, <1>10, <1>11, <1>12,
     <1>13, <1>14, <1>15, <1>16, <1>17, <1>18, <1>19, <1>20, <1>21, <1>22, <1>23,
     <1>24
  DEF UARTNext, Host, Isr, Begins, Proceeds, Writing, Reading

-----------------------------------------------------------------------------
(* Where the characters are that come in. *)

InputVars == <<sent, inputs, rx_in, rx_out, rx_buf, rfifo>>

LEMMA InputKept ==
  ASSUME InputInv, UNCHANGED InputVars, Copied' = Copied
  PROVE  InputInv'
<1>1. RxUsed' = RxUsed
  BY DEF RxUsed, InputVars
<1> QED
  BY <1>1 DEF InputInv, InputVars

\* The numbers an input step computes with.
LEMMA InputNumbers ==
  ASSUME UARTInv
  PROVE  /\ Len(inputs) \in Nat /\ Len(rfifo) \in Nat /\ Copied \in 0..RxUsed
         /\ rx_in \in Places /\ rx_out \in Places /\ RxUsed \in 0..B-1
         /\ B \in Nat /\ B > 1 /\ Places = 0..B-1
         /\ inputs \in Seq(Nat) /\ rfifo \in Seq(Nat) /\ n \in 0..B-1 /\ InputInv
<1>1. /\ inputs \in Seq(Nat) /\ rfifo \in Seq(Nat) /\ n \in 0..B-1
      /\ rx_in \in Places /\ rx_out \in Places /\ RxUsed \in 0..B-1
      /\ B \in Nat /\ B > 1 /\ Places = 0..B-1
  BY Facts DEF FifosOK, RingsOK, CallOK, EndsOK
<1>2. Copied \in 0..RxUsed
  BY <1>1, Facts DEF Copied, ReadInv
<1>3. Len(inputs) \in Nat /\ Len(rfifo) \in Nat
  BY <1>1, LenProperties
<1> QED
  BY <1>1, <1>2, <1>3 DEF UARTInv

LEMMA HostSendsInput == UARTInv /\ HostSends => InputInv'
<1> SUFFICES ASSUME UARTInv, HostSends PROVE InputInv'
  OBVIOUS
<1>1. InputInv /\ Len(inputs) \in Nat /\ Len(rfifo) \in Nat /\ rfifo \in Seq(Nat)
      /\ Copied \in Nat /\ RxUsed \in Nat /\ sent \in Nat
  BY InputNumbers, Facts DEF EndsOK
<1>2. /\ rfifo' = Append(rfifo, sent + 1) /\ sent' = sent + 1
      /\ UNCHANGED <<inputs, rx_in, rx_out, rx_buf, pc, n>>
  BY DEF HostSends, receiver, call
<1>3. RxUsed' = RxUsed /\ Copied' = Copied
  BY <1>2 DEF RxUsed, Copied
<1>4. /\ Len(rfifo') = Len(rfifo) + 1
      /\ \A i \in 1..Len(rfifo) : rfifo'[i] = rfifo[i]
      /\ rfifo'[Len(rfifo) + 1] = sent + 1
  <2>1. sent + 1 \in Nat
    BY <1>1
  <2> QED
    BY <1>1, <1>2, <2>1, AppendProperties
<1>5. ASSUME NEW i \in 1..Len(rfifo')
      PROVE  rfifo'[i] = Len(inputs) - Copied + RxUsed + i
  <2>1. CASE i \in 1..Len(rfifo)
    BY <1>1, <1>4, <2>1 DEF InputInv
  <2>2. CASE i = Len(rfifo) + 1
    BY <1>1, <1>4, <2>2 DEF InputInv
  <2> QED
    BY <1>1, <1>4, <2>1, <2>2
<1>6. sent' = Len(inputs) - Copied + RxUsed + Len(rfifo')
  BY <1>1, <1>2, <1>4 DEF InputInv
<1> QED
  BY <1>1, <1>2, <1>3, <1>5, <1>6 DEF InputInv

LEMMA PassInput == UARTInv /\ IsrPass => InputInv'
<1> SUFFICES ASSUME UARTInv, IsrPass PROVE InputInv'
  OBVIOUS
<1>1. /\ Len(inputs) \in Nat /\ Len(rfifo) \in Nat /\ Copied \in 0..RxUsed
      /\ rx_in \in Places /\ rx_out \in Places /\ RxUsed \in 0..B-1
      /\ B \in Nat /\ B > 1 /\ Places = 0..B-1 /\ InputInv
  BY InputNumbers
<1>2. PICK rx \in Nat :
        /\ rx <= B - 1 - RxUsed /\ rx <= Len(rfifo)
        /\ rx_in' = Plus(rx_in, rx)
        /\ \A i \in Places :
             rx_buf'[i] = IF (i - rx_in) % B < rx THEN rfifo[((i - rx_in) % B) + 1]
                          ELSE rx_buf[i]
        /\ Len(rfifo') = Len(rfifo) - rx
        /\ \A i \in 1..Len(rfifo) - rx : rfifo'[i] = rfifo[rx + i]
  BY PassEffects
<1>3. UNCHANGED <<rx_out, sent, inputs, pc, n>>
  BY DEF IsrPass, call, ends
<1>4. Copied' = Copied
  BY <1>3 DEF Copied
<1>5. RxUsed' = RxUsed + rx
  <2>1. rx \in 0..B-1 /\ RxUsed + rx <= B - 1
    BY <1>1, <1>2
  <2> QED
    BY <1>1, <1>2, <1>3, <2>1, Filled DEF RxUsed
<1> DEFINE base == Len(inputs) - Copied
           used == RxUsed
<1>6. base \in Int /\ used \in 0..B-1 /\ Copied \in 0..used
  BY <1>1
<1>7. /\ sent = base + used + Len(rfifo)
      /\ \A d \in Copied..used-1 : rx_buf[Plus(rx_out, d)] = base + d + 1
      /\ \A i \in 1..Len(rfifo) : rfifo[i] = base + used + i
  BY <1>1 DEF InputInv
<1> HIDE DEF base
<1>8. sent = base + (used + rx) + Len(rfifo')
  BY <1>1, <1>2, <1>6, <1>7
<1>9. ASSUME NEW i \in 1..Len(rfifo')
      PROVE  rfifo'[i] = base + (used + rx) + i
  <2>1. i \in 1..Len(rfifo) - rx /\ rx + i \in 1..Len(rfifo)
    BY <1>1, <1>2
  <2>2. rfifo'[i] = base + used + (rx + i)
    BY <1>2, <1>7, <2>1
  <2> QED
    BY <1>1, <1>6, <2>1, <2>2
<1>10. ASSUME NEW d \in Copied..(used + rx) - 1
       PROVE  rx_buf'[Plus(rx_out, d)] = base + d + 1
  <2>1. d \in 0..B-1
    BY <1>1, <1>2, <1>6
  <2> DEFINE p == Plus(rx_out, d)
             q == (p - rx_in) % B
  <2>2. p \in Places
    BY <1>1, <2>1, Moved
  <2>3. q = IF d >= used THEN d - used ELSE d - used + B
    BY <1>1, <2>1, SeenFrom DEF RxUsed
  <2>4. rx_buf'[p] = IF q < rx THEN rfifo[q + 1] ELSE rx_buf[p]
    BY <1>2, <2>2
  <2> HIDE DEF q
  <2>5. CASE d >= used
    <3>1. q = d - used /\ q < rx /\ q + 1 \in 1..Len(rfifo)
      BY <1>1, <1>2, <1>6, <2>1, <2>3, <2>5
    <3>2. rx_buf'[p] = base + used + (q + 1)
      BY <1>7, <2>4, <3>1
    <3> QED
      BY <1>1, <1>6, <2>1, <3>1, <3>2
  <2>6. CASE d < used
    <3>1. ~(q < rx) /\ d \in Copied..used-1
      BY <1>1, <1>2, <1>6, <2>1, <2>3, <2>6
    <3> QED
      BY <1>7, <2>4, <3>1
  <2> QED
    BY <1>1, <2>1, <2>5, <2>6
<1> QED
  BY <1>1, <1>3, <1>4, <1>5, <1>8, <1>9, <1>10 DEF InputInv, base

LEMMA ReadCopyInput == UARTInv /\ ReadCopy => InputInv'
<1> SUFFICES ASSUME UARTInv, ReadCopy PROVE InputInv'
  OBVIOUS
<1>1. /\ Len(inputs) \in Nat /\ Len(rfifo) \in Nat /\ inputs \in Seq(Nat)
      /\ rx_out \in Places /\ RxUsed \in 0..B-1
      /\ B \in Nat /\ B > 1 /\ Places = 0..B-1 /\ InputInv /\ n \in 0..B-1
  BY InputNumbers
<1>2. /\ pc = "ReadCopy" /\ pc' = "ReadAdvance"
      /\ UNCHANGED <<n, out, sent, rfifo, rx_in, rx_out, rx_buf>>
      /\ inputs' = inputs \o [i \in 1..n |-> rx_buf[out + i - 1]]
  BY DEF ReadCopy, Running, device, receiver
<1>3. out = rx_out /\ n >= 1 /\ n <= RxUsed /\ out + n <= B
  BY <1>2, Facts DEF ReadInv
<1>4. Copied = 0 /\ Copied' = n /\ RxUsed' = RxUsed
  BY <1>2 DEF Copied, RxUsed
<1> DEFINE copied == [i \in 1..n |-> rx_buf[out + i - 1]]
<1>5. ASSUME NEW i \in 1..n PROVE rx_buf[out + i - 1] = Len(inputs) + i
  <2>1. i - 1 \in Copied..RxUsed-1 /\ i - 1 \in 0..B-1
    BY <1>1, <1>3, <1>4
  <2>2. Plus(rx_out, i - 1) = out + i - 1
    BY <1>1, <1>3, <2>1, Moved
  <2>3. rx_buf[Plus(rx_out, i - 1)] = Len(inputs) - Copied + (i - 1) + 1
    BY <1>1, <2>1 DEF InputInv
  <2> QED
    BY <1>1, <1>4, <2>2, <2>3
<1>6. /\ copied \in [1..n -> Nat]
      /\ \A i \in 1..n : copied[i] = Len(inputs) + i
  BY <1>1, <1>5
<1>7. inputs' = inputs \o copied
  BY <1>2
<1> HIDE DEF copied
<1>8. copied \in Seq(Nat) /\ Len(copied) = n
  BY <1>1, <1>6, IsSequence
<1>9. /\ Len(inputs') = Len(inputs) + n
      /\ \A i \in 1..Len(inputs) + n :
           inputs'[i] = IF i <= Len(inputs) THEN inputs[i] ELSE copied[i - Len(inputs)]
  BY <1>1, <1>7, <1>8, ConcatProperties
<1>10. ASSUME NEW i \in 1..Len(inputs') PROVE inputs'[i] = i
  <2>1. i \in 1..Len(inputs) + n
    BY <1>9
  <2>2. CASE i <= Len(inputs)
    BY <1>1, <1>9, <2>1, <2>2 DEF InputInv
  <2>3. CASE i > Len(inputs)
    <3>1. i - Len(inputs) \in 1..n
      BY <1>1, <2>1, <2>3
    <3>2. inputs'[i] = Len(inputs) + (i - Len(inputs))
      BY <1>1, <1>6, <1>9, <2>1, <2>3, <3>1
    <3> QED
      BY <1>1, <2>1, <3>2
  <2> QED
    BY <1>1, <2>1, <2>2, <2>3
<1>11. Len(inputs') - Copied' = Len(inputs) - Copied
  BY <1>1, <1>4, <1>9
<1>12. \A d \in Copied'..RxUsed'-1 : d \in Copied..RxUsed-1
  BY <1>1, <1>4
<1> QED
  BY <1>1, <1>2, <1>4, <1>10, <1>11, <1>12 DEF InputInv

LEMMA ReadAdvanceInput == UARTInv /\ ReadAdvance => InputInv'
<1> SUFFICES ASSUME UARTInv, ReadAdvance PROVE InputInv'
  OBVIOUS
<1>1. /\ Len(inputs) \in Nat /\ Len(rfifo) \in Nat
      /\ rx_in \in Places /\ rx_out \in Places /\ RxUsed \in 0..B-1
      /\ B \in Nat /\ B > 1 /\ Places = 0..B-1 /\ InputInv /\ n \in 0..B-1
  BY InputNumbers
<1>2. /\ pc = "ReadAdvance" /\ pc' # "ReadAdvance" /\ rx_out' = Plus(out, n)
      /\ UNCHANGED <<n, sent, rfifo, rx_in, rx_buf, inputs>>
  BY DEF ReadAdvance, Running, GoTo, device, ends
<1>3. out = rx_out /\ n \in 0..RxUsed
  BY <1>1, <1>2, Facts DEF ReadInv
<1>4. Copied = n /\ Copied' = 0
  BY <1>2 DEF Copied
<1>5. /\ RxUsed' = RxUsed - n
      /\ \A d \in 0..RxUsed - n : Plus(rx_out', d) = Plus(rx_out, n + d)
  BY <1>1, <1>2, <1>3, Emptied DEF RxUsed
<1>6. ASSUME NEW d \in 0..RxUsed'-1
      PROVE  rx_buf'[Plus(rx_out', d)] = Len(inputs) + d + 1
  <2>1. n + d \in Copied..RxUsed-1 /\ d \in 0..RxUsed - n
    BY <1>1, <1>3, <1>4, <1>5
  <2>2. rx_buf[Plus(rx_out, n + d)] = Len(inputs) - Copied + (n + d) + 1
    BY <1>1, <2>1 DEF InputInv
  <2>3. rx_buf'[Plus(rx_out', d)] = Len(inputs) - Copied + (n + d) + 1
    BY <1>2, <1>5, <2>1, <2>2
  <2> QED
    BY <1>1, <1>4, <2>1, <2>3
<1>7. Len(inputs) - Copied + RxUsed = Len(inputs) + RxUsed'
  BY <1>1, <1>3, <1>4, <1>5
<1>8. Len(inputs') - Copied' = Len(inputs)
  BY <1>1, <1>2, <1>4
<1> QED
  BY <1>1, <1>2, <1>4, <1>6, <1>7, <1>8 DEF InputInv

LEMMA SmallReadInput == UARTInv /\ SmallRead => InputInv'
<1> SUFFICES ASSUME UARTInv, SmallRead PROVE InputInv'
  OBVIOUS
<1>1. /\ Len(inputs) \in Nat /\ Len(rfifo) \in Nat /\ inputs \in Seq(Nat)
      /\ rx_in \in Places /\ rx_out \in Places /\ rfifo \in Seq(Nat)
      /\ B \in Nat /\ B > 1 /\ Places = 0..B-1 /\ InputInv
  BY InputNumbers
<1>2. /\ pc = "SmallRead" /\ pc' # "ReadAdvance"
      /\ UNCHANGED <<sent, rx_in, rx_out, rx_buf>>
  BY DEF SmallRead, Running, Return, call, receiver
<1>3. Copied = 0 /\ Copied' = 0
  BY <1>2 DEF Copied
<1>4. rx_in = rx_out
  BY <1>2, Facts DEF ModeInv
<1>5. RxUsed = 0 /\ RxUsed' = 0
  BY <1>1, <1>2, <1>4, Circle DEF RxUsed
<1>6. CASE UNCHANGED <<inputs, rfifo>>
  BY <1>1, <1>2, <1>3, <1>5, <1>6 DEF InputInv
<1>7. CASE /\ rfifo # <<>> /\ inputs' = Append(inputs, Head(rfifo))
           /\ rfifo' = Tail(rfifo)
  <2>1. /\ Len(rfifo) >= 1 /\ Head(rfifo) = rfifo[1] /\ Head(rfifo) \in Nat
    BY <1>1, <1>7, HeadTailProperties, EmptySeq
  <2>2. /\ Len(rfifo') = Len(rfifo) - 1
        /\ \A i \in 1..Len(rfifo') : rfifo'[i] = rfifo[i + 1]
    BY <1>1, <1>7, HeadTailProperties
  <2>3. /\ Len(inputs') = Len(inputs) + 1
        /\ \A i \in 1..Len(inputs) : inputs'[i] = inputs[i]
        /\ inputs'[Len(inputs) + 1] = rfifo[1]
    BY <1>1, <1>7, <2>1, AppendProperties
  <2>4. rfifo[1] = Len(inputs) + 1
    BY <1>1, <1>3, <1>5, <2>1 DEF InputInv
  <2>5. ASSUME NEW i \in 1..Len(inputs') PROVE inputs'[i] = i
    <3>1. CASE i \in 1..Len(inputs)
      BY <1>1, <2>3, <3>1 DEF InputInv
    <3>2. CASE i = Len(inputs) + 1
      BY <2>3, <2>4, <3>2
    <3> QED
      BY <1>1, <2>3, <3>1, <3>2
  <2>6. ASSUME NEW i \in 1..Len(rfifo')
        PROVE  rfifo'[i] = Len(inputs') - Copied' + RxUsed' + i
    <3>1. i + 1 \in 1..Len(rfifo)
      BY <1>1, <2>2
    <3>2. rfifo[i + 1] = Len(inputs) - Copied + RxUsed + (i + 1)
      BY <1>1, <3>1 DEF InputInv
    <3> QED
      BY <1>1, <1>3, <1>5, <2>2, <2>3, <3>1, <3>2
  <2>7. sent' = Len(inputs') - Copied' + RxUsed' + Len(rfifo')
    BY <1>1, <1>2, <1>3, <1>5, <2>2, <2>3 DEF InputInv
  <2> QED
    BY <1>3, <1>5, <2>5, <2>6, <2>7 DEF InputInv
<1> QED
  BY <1>6, <1>7 DEF SmallRead

LEMMA InputStep == UARTInv /\ UARTNext => InputInv'
<1> SUFFICES ASSUME UARTInv, UARTNext PROVE InputInv'
  OBVIOUS
<1>1. CASE HostSends \/ IsrPass \/ ReadCopy \/ ReadAdvance \/ SmallRead
  BY <1>1, HostSendsInput, PassInput, ReadCopyInput, ReadAdvanceInput,
     SmallReadInput
<1>2. CASE HostPauses \/ HostTakes \/ IsrEnter \/ IsrReturn \/ Timeout \/ SetTimeout
  <2>1. UNCHANGED <<InputVars, pc, n>>
    BY <1>2 DEF HostPauses, HostTakes, IsrEnter, IsrReturn, Timeout, SetTimeout,
         InputVars, device, receiver, call, ends
  <2> QED
    BY <2>1, InputKept DEF Copied, UARTInv
<1>3. CASE CallWrite \/ CallRead \/ CallClose
  <2>1. /\ UNCHANGED InputVars /\ pc = "idle"
        /\ pc' \in {"SmallWrite", "WriteLoad", "SmallRead", "ReadLoad", "Close"}
    BY <1>3 DEF CallWrite, CallRead, CallClose, Begin, InputVars, device, receiver,
         ends
  <2> QED
    BY <2>1, InputKept DEF Copied, UARTInv
<1>4. CASE Writing \/ SmallWrite
  <2>1. /\ UNCHANGED InputVars /\ pc # "ReadAdvance" /\ pc' # "ReadAdvance"
    BY <1>4 DEF Writing, WriteLoad, WriteCopy, WriteAdvance, Kick, WriteWait,
         SmallWrite, Running, GoTo, Return, InputVars, device, receiver, call, ends
  <2> QED
    BY <2>1, InputKept DEF Copied, UARTInv
<1>5. CASE ReadLoad \/ ReadWait \/ ReadEnd \/ Close
  <2>1. /\ UNCHANGED InputVars /\ pc # "ReadAdvance" /\ pc' # "ReadAdvance"
    BY <1>5 DEF ReadLoad, ReadWait, ReadEnd, Close, Running, GoTo, Return,
         InputVars, device, receiver, ends
  <2> QED
    BY <2>1, InputKept DEF Copied, UARTInv
<1> QED
  BY <1>1, <1>2, <1>3, <1>4, <1>5 DEF UARTNext, Host, Isr, Begins, Proceeds, Reading

-----------------------------------------------------------------------------
(* Where the characters are that go out. *)

OutputVars == <<written, outputs, wfifo, tx_in, tx_out, tx_buf>>

LEMMA OutputKept ==
  ASSUME OutputInv, UNCHANGED OutputVars
  PROVE  OutputInv'
<1>1. TxUsed' = TxUsed
  BY DEF TxUsed, OutputVars
<1> QED
  BY <1>1 DEF OutputInv, OutputVars

LEMMA OutputNumbers ==
  ASSUME UARTInv
  PROVE  /\ Len(outputs) \in Nat /\ Len(wfifo) \in Nat /\ written \in Nat
         /\ tx_in \in Places /\ tx_out \in Places /\ TxUsed \in 0..B-1
         /\ B \in Nat /\ B > 1 /\ Places = 0..B-1 /\ n \in 0..B-1
         /\ outputs \in Seq(Nat) /\ wfifo \in Seq(Nat)
         /\ tx_buf \in [Places -> Nat] /\ OutputInv
<1>1. /\ outputs \in Seq(Nat) /\ wfifo \in Seq(Nat) /\ n \in 0..B-1
      /\ tx_in \in Places /\ tx_out \in Places /\ TxUsed \in 0..B-1
      /\ B \in Nat /\ B > 1 /\ Places = 0..B-1 /\ written \in Nat
      /\ tx_buf \in [Places -> Nat]
  BY Facts DEF FifosOK, RingsOK, CallOK, EndsOK
<1>2. Len(outputs) \in Nat /\ Len(wfifo) \in Nat
  BY <1>1, LenProperties
<1> QED
  BY <1>1, <1>2 DEF UARTInv

LEMMA HostTakesOutput == UARTInv /\ HostTakes => OutputInv'
<1> SUFFICES ASSUME UARTInv, HostTakes PROVE OutputInv'
  OBVIOUS
<1>1. /\ Len(outputs) \in Nat /\ Len(wfifo) \in Nat /\ OutputInv
      /\ outputs \in Seq(Nat) /\ wfifo \in Seq(Nat) /\ TxUsed \in 0..B-1
      /\ B \in Nat
  BY OutputNumbers
<1>2. /\ wfifo # <<>> /\ outputs' = Append(outputs, Head(wfifo))
      /\ wfifo' = Tail(wfifo)
      /\ UNCHANGED <<written, tx_in, tx_out, tx_buf>>
  BY DEF HostTakes, transmitter
<1>3. TxUsed' = TxUsed
  BY <1>2 DEF TxUsed
<1>4. /\ Len(wfifo) >= 1 /\ Head(wfifo) = wfifo[1] /\ Head(wfifo) \in Nat
  BY <1>1, <1>2, HeadTailProperties, EmptySeq
<1>5. /\ Len(wfifo') = Len(wfifo) - 1
      /\ \A i \in 1..Len(wfifo') : wfifo'[i] = wfifo[i + 1]
  BY <1>1, <1>2, HeadTailProperties
<1>6. /\ Len(outputs') = Len(outputs) + 1
      /\ \A i \in 1..Len(outputs) : outputs'[i] = outputs[i]
      /\ outputs'[Len(outputs) + 1] = wfifo[1]
  BY <1>1, <1>2, <1>4, AppendProperties
<1>7. wfifo[1] = Len(outputs) + 1
  BY <1>1, <1>4 DEF OutputInv
<1>8. ASSUME NEW i \in 1..Len(outputs') PROVE outputs'[i] = i
  <2>1. CASE i \in 1..Len(outputs)
    BY <1>1, <1>6, <2>1 DEF OutputInv
  <2>2. CASE i = Len(outputs) + 1
    BY <1>6, <1>7, <2>2
  <2> QED
    BY <1>1, <1>6, <2>1, <2>2
<1>9. ASSUME NEW i \in 1..Len(wfifo') PROVE wfifo'[i] = Len(outputs') + i
  <2>1. i + 1 \in 1..Len(wfifo)
    BY <1>1, <1>5
  <2>2. wfifo[i + 1] = Len(outputs) + (i + 1)
    BY <1>1, <2>1 DEF OutputInv
  <2> QED
    BY <1>1, <1>5, <1>6, <2>1, <2>2
<1>10. Len(outputs') + Len(wfifo') = Len(outputs) + Len(wfifo)
  BY <1>1, <1>5, <1>6
<1> QED
  BY <1>1, <1>2, <1>3, <1>8, <1>9, <1>10 DEF OutputInv

LEMMA PassOutput == UARTInv /\ IsrPass => OutputInv'
<1> SUFFICES ASSUME UARTInv, IsrPass PROVE OutputInv'
  OBVIOUS
<1>1. /\ Len(outputs) \in Nat /\ Len(wfifo) \in Nat /\ OutputInv
      /\ tx_in \in Places /\ tx_out \in Places /\ TxUsed \in 0..B-1
      /\ B \in Nat /\ B > 1 /\ Places = 0..B-1
  BY OutputNumbers
<1>2. PICK tx \in Nat :
        /\ tx <= TxUsed /\ tx_out' = Plus(tx_out, tx)
        /\ Len(wfifo') = Len(wfifo) + tx
        /\ \A i \in 1..Len(wfifo) + tx :
             wfifo'[i] = IF i <= Len(wfifo) THEN wfifo[i]
                         ELSE tx_buf[Plus(tx_out, i - Len(wfifo) - 1)]
  BY PassEffects
<1>3. UNCHANGED <<tx_in, tx_buf, written, outputs>>
  BY DEF IsrPass, Send, ends
<1>4. /\ TxUsed' = TxUsed - tx
      /\ \A d \in 0..TxUsed - tx : Plus(tx_out', d) = Plus(tx_out, tx + d)
  <2>1. tx \in 0..TxUsed
    BY <1>1, <1>2
  <2> QED
    BY <1>1, <1>2, <1>3, <2>1, Emptied DEF TxUsed, B
<1>5. ASSUME NEW i \in 1..Len(wfifo') PROVE wfifo'[i] = Len(outputs) + i
  <2>1. CASE i <= Len(wfifo)
    BY <1>1, <1>2, <2>1 DEF OutputInv
  <2>2. CASE i > Len(wfifo)
    <3>1. i - Len(wfifo) - 1 \in 0..TxUsed-1
      BY <1>1, <1>2, <2>2
    <3>2. tx_buf[Plus(tx_out, i - Len(wfifo) - 1)] =
            Len(outputs) + Len(wfifo) + (i - Len(wfifo) - 1) + 1
      BY <1>1, <3>1 DEF OutputInv
    <3>3. wfifo'[i] = tx_buf[Plus(tx_out, i - Len(wfifo) - 1)]
      BY <1>1, <1>2, <2>2
    <3> QED
      BY <1>1, <1>2, <3>2, <3>3
  <2> QED
    BY <1>1, <1>2, <2>1, <2>2
<1>6. ASSUME NEW d \in 0..TxUsed'-1
      PROVE  tx_buf'[Plus(tx_out', d)] = Len(outputs') + Len(wfifo') + d + 1
  <2>1. tx + d \in 0..TxUsed-1 /\ d \in 0..TxUsed - tx
    BY <1>1, <1>2, <1>4
  <2>2. tx_buf[Plus(tx_out, tx + d)] = Len(outputs) + Len(wfifo) + (tx + d) + 1
    BY <1>1, <2>1 DEF OutputInv
  <2>3. tx_buf'[Plus(tx_out', d)] = Len(outputs) + Len(wfifo) + (tx + d) + 1
    BY <1>3, <1>4, <2>1, <2>2
  <2> QED
    BY <1>1, <1>2, <1>3, <2>1, <2>3
<1>7. written = Len(outputs) + Len(wfifo') + TxUsed'
  BY <1>1, <1>2, <1>4 DEF OutputInv
<1> QED
  BY <1>1, <1>3, <1>5, <1>6, <1>7 DEF OutputInv

LEMMA WriteCopyOutput == UARTInv /\ WriteCopy => OutputInv'
<1> SUFFICES ASSUME UARTInv, WriteCopy PROVE OutputInv'
  OBVIOUS
<1>1. /\ OutputInv /\ n \in 0..B-1 /\ tx_buf \in [Places -> Nat]
      /\ tx_in \in Places /\ tx_out \in Places /\ TxUsed \in 0..B-1
      /\ B \in Nat /\ B > 1 /\ Places = 0..B-1
  BY OutputNumbers
<1>2. /\ pc = "WriteCopy" /\ UNCHANGED <<tx_in, tx_out, wfifo, written, outputs>>
      /\ tx_buf' = [i \in Places |-> IF i \in in..in + n - 1
                                     THEN written + 1 + (i - in) ELSE tx_buf[i]]
  BY <1>1 DEF WriteCopy, Running, device, ends
<1>3. in = tx_in /\ TxUsed + n <= B - 1
  BY <1>2, Facts DEF WriteInv
<1>4. TxUsed' = TxUsed
  BY <1>2 DEF TxUsed
<1>5. ASSUME NEW d \in 0..TxUsed-1
      PROVE  tx_buf'[Plus(tx_out, d)] = tx_buf[Plus(tx_out, d)]
  <2> DEFINE p == Plus(tx_out, d)
  <2>1. p \in Places /\ (p - tx_in) % B = d - TxUsed + B
    <3>1. d \in 0..B-1 /\ ~(d >= TxUsed)
      BY <1>1
    <3> QED
      BY <1>1, <3>1, Moved, SeenFrom DEF TxUsed, B
  <2>2. (p - tx_in) % B = IF p >= tx_in THEN p - tx_in ELSE p - tx_in + B
    BY <1>1, <2>1, Circle
  <2> HIDE DEF p
  <2>3. p \notin in..in + n - 1
    BY <1>1, <1>3, <2>1, <2>2
  <2> QED
    BY <1>2, <2>1, <2>3 DEF p
<1> QED
  BY <1>1, <1>2, <1>4, <1>5 DEF OutputInv

LEMMA WriteAdvanceOutput == UARTInv /\ WriteAdvance => OutputInv'
<1> SUFFICES ASSUME UARTInv, WriteAdvance PROVE OutputInv'
  OBVIOUS
<1>1. /\ Len(outputs) \in Nat /\ Len(wfifo) \in Nat /\ written \in Nat
      /\ OutputInv /\ n \in 0..B-1
      /\ tx_in \in Places /\ tx_out \in Places /\ TxUsed \in 0..B-1
      /\ B \in Nat /\ B > 1 /\ Places = 0..B-1
  BY OutputNumbers
<1>2. /\ pc = "WriteAdvance" /\ tx_in' = Plus(in, n) /\ written' = written + n
      /\ UNCHANGED <<tx_out, tx_buf, wfifo, outputs>>
  BY DEF WriteAdvance, Running, device
<1>3. /\ in = tx_in /\ TxUsed + n <= B - 1 /\ in + n <= B
      /\ \A i \in 0..n-1 : tx_buf[in + i] = written + 1 + i
  BY <1>2, Facts DEF WriteInv
<1>4. TxUsed' = TxUsed + n
  BY <1>1, <1>2, <1>3, Filled DEF TxUsed, B
<1>5. written = Len(outputs) + Len(wfifo) + TxUsed
  BY <1>1 DEF OutputInv
<1>6. ASSUME NEW d \in 0..TxUsed'-1
      PROVE  tx_buf[Plus(tx_out, d)] = Len(outputs) + Len(wfifo) + d + 1
  <2>1. CASE d \in 0..TxUsed-1
    BY <1>1, <2>1 DEF OutputInv
  <2>2. CASE d >= TxUsed
    <3> DEFINE p == Plus(tx_out, d)
    <3>1. d \in 0..B-1 /\ d - TxUsed \in 0..n-1
      BY <1>1, <1>3, <1>4, <2>2
    <3>2. p \in Places /\ (p - tx_in) % B = d - TxUsed
      BY <1>1, <2>2, <3>1, Moved, SeenFrom DEF TxUsed, B
    <3>3. (p - tx_in) % B = IF p >= tx_in THEN p - tx_in ELSE p - tx_in + B
      BY <1>1, <3>2, Circle
    <3> HIDE DEF p
    <3>4. p = in + (d - TxUsed)
      BY <1>1, <1>3, <3>1, <3>2, <3>3
    <3>5. tx_buf[p] = written + 1 + (d - TxUsed)
      BY <1>3, <3>1, <3>4
    <3>6. tx_buf[p] = Len(outputs) + Len(wfifo) + d + 1
      BY <1>1, <1>5, <3>1, <3>5
    <3> QED
      BY <3>6 DEF p
  <2> QED
    BY <1>1, <1>4, <2>1, <2>2
<1>7. written' = Len(outputs) + Len(wfifo) + TxUsed'
  BY <1>1, <1>2, <1>4, <1>5
<1> QED
  BY <1>1, <1>2, <1>6, <1>7 DEF OutputInv

LEMMA SmallWriteOutput == UARTInv /\ SmallWrite => OutputInv'
<1> SUFFICES ASSUME UARTInv, SmallWrite PROVE OutputInv'
  OBVIOUS
<1>1. /\ Len(outputs) \in Nat /\ Len(wfifo) \in Nat /\ written \in Nat
      /\ OutputInv /\ wfifo \in Seq(Nat) /\ B \in Nat /\ B > 1
      /\ tx_in \in Places /\ tx_out \in Places /\ Places = 0..B-1
  BY OutputNumbers
<1>2. pc = "SmallWrite" /\ UNCHANGED <<tx_in, tx_out, tx_buf, outputs>>
  BY DEF SmallWrite, Running, transmitter
<1>3. tx_in = tx_out
  BY <1>2, Facts DEF ModeInv
<1>4. TxUsed = 0 /\ TxUsed' = 0
  BY <1>1, <1>2, <1>3, Circle DEF TxUsed, B
<1>5. CASE UNCHANGED <<wfifo, written>>
  BY <1>2, <1>5, OutputKept DEF OutputVars, UARTInv
<1>6. CASE wfifo' = Append(wfifo, written + 1) /\ written' = written + 1
  <2>1. written + 1 \in Nat /\ written = Len(outputs) + Len(wfifo)
    BY <1>1, <1>4 DEF OutputInv
  <2>2. /\ Len(wfifo') = Len(wfifo) + 1
        /\ \A i \in 1..Len(wfifo) : wfifo'[i] = wfifo[i]
        /\ wfifo'[Len(wfifo) + 1] = written + 1
    BY <1>1, <1>6, <2>1, AppendProperties
  <2>3. ASSUME NEW i \in 1..Len(wfifo') PROVE wfifo'[i] = Len(outputs) + i
    <3>1. CASE i \in 1..Len(wfifo)
      BY <1>1, <2>2, <3>1 DEF OutputInv
    <3>2. CASE i = Len(wfifo) + 1
      BY <1>1, <2>1, <2>2, <3>2
    <3> QED
      BY <1>1, <2>2, <3>1, <3>2
  <2>4. written' = Len(outputs) + Len(wfifo') + TxUsed'
    BY <1>1, <1>4, <1>6, <2>1, <2>2
  <2> QED
    BY <1>1, <1>2, <1>4, <2>3, <2>4 DEF OutputInv
<1> QED
  BY <1>5, <1>6 DEF SmallWrite

LEMMA OutputStep == UARTInv /\ UARTNext => OutputInv'
<1> SUFFICES ASSUME UARTInv, UARTNext PROVE OutputInv'
  OBVIOUS
<1>1. CASE HostTakes \/ IsrPass \/ WriteCopy \/ WriteAdvance \/ SmallWrite
  BY <1>1, HostTakesOutput, PassOutput, WriteCopyOutput, WriteAdvanceOutput,
     SmallWriteOutput
<1>2. CASE HostSends \/ HostPauses \/ IsrEnter \/ IsrReturn \/ Timeout \/ Begins
  <2>1. UNCHANGED OutputVars
    BY <1>2 DEF HostSends, HostPauses, IsrEnter, IsrReturn, Timeout, Begins,
         CallWrite, CallRead, CallClose, SetTimeout, Begin, OutputVars, device,
         transmitter, ends
  <2> QED
    BY <2>1, OutputKept DEF UARTInv
<1>3. CASE WriteLoad \/ Kick \/ WriteWait \/ Reading \/ SmallRead \/ Close
  <2>1. UNCHANGED OutputVars
    BY <1>3 DEF WriteLoad, Kick, WriteWait, Reading, ReadLoad, ReadCopy,
         ReadAdvance, ReadWait, ReadEnd, SmallRead, Close, OutputVars, device,
         transmitter, ends
  <2> QED
    BY <2>1, OutputKept DEF UARTInv
<1> QED
  BY <1>1, <1>2, <1>3 DEF UARTNext, Host, Isr, Proceeds, Writing

-----------------------------------------------------------------------------
(* Neither side sleeps through its work. *)

\* A ring from which everything is taken is empty.
LEMMA AllTaken ==
  ASSUME NEW i \in Places, NEW o \in Places
  PROVE  Plus(o, (i - o) % B) = i
<1> DEFINE k == (i - o) % B
           p == Plus(o, k)
<1>1. k \in 0..B-1 /\ k = IF i >= o THEN i - o ELSE i - o + B
  BY Circle
<1> HIDE DEF k
<1>2. p = IF o + k < B THEN o + k ELSE o + k - B
  BY <1>1, Moved
<1>3. p = i
  BY <1>1, <1>2, Constants
<1> QED
  BY <1>3 DEF k, p

LEMMA ReceiverStep == UARTInv /\ UARTNext => ReceiverAwake'
<1> SUFFICES ASSUME UARTInv, UARTNext PROVE ReceiverAwake'
  OBVIOUS
<1>0. /\ ReceiverAwake /\ ien = irq_enable /\ moved \in Nat
      /\ rx_in \in Places /\ rx_out \in Places /\ RxUsed \in 0..B-1
      /\ B \in Nat /\ B > 1 /\ Places = 0..B-1
  BY Facts DEF UARTInv, WakeUpsKept, EnableInv, CallOK, RingsOK
<1>1. CASE IsrPass
  <2>1. PICK rx \in Nat :
          /\ rx <= B - 1 - RxUsed /\ rx_in' = Plus(rx_in, rx)
          /\ ien' = irq_enable' /\ irq_enable' \subseteq irq_enable
          /\ "RE" \in ien /\ "RE" \notin ien' => rx = B - 1 - RxUsed
    BY <1>1, PassEffects
  <2>2. UNCHANGED <<small, rx_out, pc, moved>>
    BY <1>1 DEF IsrPass, call
  <2>3. rx_in' \in Places /\ RxUsed' = RxUsed + rx
    <3>1. rx \in 0..B-1 /\ RxUsed + rx <= B - 1
      BY <1>0, <2>1
    <3>2. ((rx_in - rx_out) % B) + rx <= B - 1
      BY <3>1 DEF RxUsed
    <3>3. Plus(rx_in, rx) \in Places
      BY <1>0, <3>1, Moved, Zenon
    <3>4. (Plus(rx_in, rx) - rx_out) % B = ((rx_in - rx_out) % B) + rx
      BY <1>0, <3>1, <3>2, Filled, Zenon
    <3>5. rx_in' = Plus(rx_in, rx) /\ rx_out' = rx_out
      BY <2>1, <2>2
    <3>6. RxUsed' = (rx_in' - rx_out') % B
      BY DEF RxUsed, B
    <3> QED
      BY <3>3, <3>4, <3>5, <3>6 DEF RxUsed
  <2>4. RxRoom = B - 1 - RxUsed /\ RxRoom' = B - 1 - RxUsed'
    BY <1>0, <2>2, <2>3, Room DEF RxRoom, RxUsed, B
  <2>5. rx = B - 1 - RxUsed => RxRoom' = 0
    BY <1>0, <2>1, <2>3, <2>4
  <2>6. RxRoom = 0 => rx = B - 1 - RxUsed
    BY <1>0, <2>1, <2>4
  <2> QED
    BY <1>0, <2>1, <2>2, <2>5, <2>6 DEF ReceiverAwake
<1>2. CASE ReadCopy
  <2>1. n >= 1 /\ n \in Nat
    BY <1>2, Facts DEF ReadCopy, Running, ReadInv, CallOK
  <2>2. pc' = "ReadAdvance" /\ moved' > 0
    BY <1>0, <1>2, <2>1 DEF ReadCopy
  <2> QED
    BY <2>2 DEF ReceiverAwake
<1>3. CASE ReadAdvance
  <2>1. moved > 0
    BY <1>3, Facts DEF ReadAdvance, Running, ReadInv
  <2>2. pc' \in {"ReadLoad", "ReadEnd"} /\ moved' = moved
    BY <1>3 DEF ReadAdvance, GoTo
  <2> QED
    BY <2>1, <2>2 DEF ReceiverAwake
<1>4. CASE ReadLoad
  <2>1. /\ UNCHANGED <<small, ien, rx_in, rx_out, moved>>
        /\ moved > 0 => pc' \in {"ReadCopy", "ReadEnd"}
    BY <1>4 DEF ReadLoad, GoTo, device, receiver
  <2>2. RxRoom' = RxRoom
    BY <2>1 DEF RxRoom
  <2> QED
    BY <1>0, <2>1, <2>2 DEF ReceiverAwake
<1>5. CASE ReadEnd
  <2>1. /\ UNCHANGED <<small, rx_in, rx_out>>
        /\ moved > 0 => "RE" \in ien'
        /\ ~(moved > 0) => ien' = ien
    BY <1>5 DEF ReadEnd, receiver
  <2>2. RxRoom' = RxRoom
    BY <2>1 DEF RxRoom
  <2> QED
    BY <1>0, <2>1, <2>2 DEF ReceiverAwake
<1>6. CASE HostSends \/ HostPauses \/ HostTakes \/ IsrEnter \/ IsrReturn \/ Timeout
           \/ SetTimeout
  <2>1. UNCHANGED <<small, ien, rx_in, rx_out, pc, moved>>
    BY <1>0, <1>6 DEF HostSends, HostPauses, HostTakes, IsrEnter, IsrReturn,
         Timeout, SetTimeout, device, receiver, call
  <2>2. RxRoom' = RxRoom
    BY <2>1 DEF RxRoom
  <2> QED
    BY <1>0, <2>1, <2>2 DEF ReceiverAwake
<1>7. CASE CallWrite \/ CallRead \/ CallClose \/ Writing \/ SmallWrite \/ ReadWait
           \/ Close \/ SmallRead
  <2>1. /\ UNCHANGED <<small, rx_in, rx_out>>
        /\ "RE" \in ien => "RE" \in ien'
        /\ pc \notin {"ReadLoad", "ReadCopy", "ReadAdvance", "ReadEnd"}
    BY <1>0, <1>7 DEF CallWrite, CallRead, CallClose, Begin, Writing, WriteLoad,
         WriteCopy, WriteAdvance, Kick, WriteWait, SmallWrite, ReadWait, Close,
         SmallRead, Running, device, receiver
  <2>2. RxRoom' = RxRoom
    BY <2>1 DEF RxRoom
  <2> QED
    BY <1>0, <2>1, <2>2 DEF ReceiverAwake
<1> QED
  BY <1>1, <1>2, <1>3, <1>4, <1>5, <1>6, <1>7
  DEF UARTNext, Host, Isr, Begins, Proceeds, Reading

LEMMA TransmitterStep == UARTInv /\ UARTNext => TransmitterAwake'
<1> SUFFICES ASSUME UARTInv, UARTNext PROVE TransmitterAwake'
  OBVIOUS
<1>0. /\ TransmitterAwake /\ ien = irq_enable
      /\ tx_in \in Places /\ tx_out \in Places /\ TxUsed \in 0..B-1
      /\ B \in Nat /\ B > 1 /\ Places = 0..B-1
  BY Facts DEF UARTInv, WakeUpsKept, EnableInv, RingsOK
<1>1. CASE IsrPass
  <2>1. PICK tx \in Nat :
          /\ tx <= TxUsed /\ tx_out' = Plus(tx_out, tx)
          /\ ien' = irq_enable' /\ irq_enable' \subseteq irq_enable
          /\ "WE" \in ien /\ "WE" \notin ien' => tx = TxUsed
    BY <1>1, PassEffects
  <2>2. UNCHANGED <<tx_in, pc>>
    BY <1>1 DEF IsrPass, Send, call
  <2>3. tx = TxUsed => tx_out' = tx_in'
    BY <1>0, <2>1, <2>2, AllTaken DEF TxUsed, B
  <2>4. tx_in = tx_out => tx = TxUsed
    <3>1. tx_in = tx_out => TxUsed = 0
      BY <1>0, Circle DEF TxUsed, B
    <3> QED
      BY <2>1, <3>1
  <2> QED
    BY <1>0, <2>1, <2>2, <2>3, <2>4 DEF TransmitterAwake
<1>2. CASE WriteLoad \/ WriteCopy \/ WriteAdvance
  <2>1. pc' \in {"WriteLoad", "WriteCopy", "WriteAdvance", "Kick"}
    BY <1>2 DEF WriteLoad, WriteCopy, WriteAdvance, GoTo
  <2> QED
    BY <2>1 DEF TransmitterAwake
<1>3. CASE Kick
  BY <1>3 DEF Kick, TransmitterAwake
<1>4. CASE HostSends \/ HostPauses \/ HostTakes \/ IsrEnter \/ IsrReturn \/ Timeout
           \/ SetTimeout
  <2>1. UNCHANGED <<ien, tx_in, tx_out, pc>>
    BY <1>0, <1>4 DEF HostSends, HostPauses, HostTakes, IsrEnter, IsrReturn,
         Timeout, SetTimeout, device, transmitter, call
  <2> QED
    BY <1>0, <2>1 DEF TransmitterAwake
<1>5. CASE CallWrite \/ CallRead \/ CallClose \/ WriteWait \/ Reading \/ SmallWrite
           \/ Close \/ SmallRead
  <2>1. /\ UNCHANGED <<tx_in, tx_out>>
        /\ "WE" \in ien => "WE" \in ien'
        /\ pc \notin {"WriteLoad", "WriteCopy", "WriteAdvance", "Kick"}
    BY <1>0, <1>5 DEF CallWrite, CallRead, CallClose, Begin, WriteWait, Reading,
         ReadLoad, ReadCopy, ReadAdvance, ReadEnd, SmallWrite, ReadWait, Close,
         SmallRead, Running, device, transmitter
  <2> QED
    BY <1>0, <2>1 DEF TransmitterAwake
<1> QED
  BY <1>1, <1>2, <1>3, <1>4, <1>5 DEF UARTNext, Host, Isr, Begins, Proceeds, Writing

-----------------------------------------------------------------------------
(* The invariant. *)

LEMMA CountedSequence ==
  ASSUME NEW k \in Nat, NEW s \in Seq(Nat), Len(s) = k, \A i \in 1..k : s[i] = i
  PROVE  s = UpTo(k)
<1>1. UpTo(k) \in [1..k -> Nat] /\ \A i \in 1..k : UpTo(k)[i] = i
  BY DEF UpTo
<1>2. UpTo(k) \in Seq(Nat) /\ Len(UpTo(k)) = k
  BY <1>1, IsSequence
<1> QED
  BY <1>1, <1>2, SeqEqual

LEMMA InvInit == UARTInit => UARTInv
<1> SUFFICES ASSUME UARTInit PROVE UARTInv
  OBVIOUS
<1>1. UARTTypeOK /\ DataOK
  BY TypesInit
<1>2. rx_in = 0 /\ rx_out = 0 /\ tx_in = 0 /\ tx_out = 0 /\ pc = "idle"
      /\ sent = 0 /\ written = 0 /\ rfifo = <<>> /\ wfifo = <<>>
      /\ inputs = <<>> /\ outputs = <<>>
  BY DEF UARTInit
<1>3. RxUsed = 0 /\ TxUsed = 0 /\ Copied = 0
  BY <1>2, Circle, Constants DEF RxUsed, TxUsed, Copied, B
<1>4. ModeInv /\ EnableInv
  BY <1>2 DEF UARTInit, ModeInv, EnableInv
<1>5. ReadInv /\ WriteInv
  BY <1>2 DEF ReadInv, WriteInv
<1>6. InputInv /\ OutputInv
  BY <1>2, <1>3 DEF InputInv, OutputInv
<1>7. WakeUpsKept
  <2>1. small \/ "RE" \in ien
    BY DEF UARTInit
  <2> QED
    BY <1>2, <2>1 DEF WakeUpsKept, ReceiverAwake, TransmitterAwake
<1> QED
  BY <1>1, <1>4, <1>5, <1>6, <1>7 DEF UARTInv

LEMMA InvNext == UARTInv /\ [UARTNext]_uartVars => UARTInv'
<1> SUFFICES ASSUME UARTInv, [UARTNext]_uartVars PROVE UARTInv'
  OBVIOUS
<1>1. CASE UARTNext
  <2>1. WakeUpsKept'
    BY <1>1, ReceiverStep, TransmitterStep DEF WakeUpsKept
  <2> QED
    BY <1>1, <2>1, TypesStep, ControlStep, InputStep, OutputStep DEF UARTInv
<1>2. CASE UNCHANGED uartVars
  <2> USE <1>2 DEF uartVars, device, clock, receiver, transmitter, call, ends
  <2>1. /\ RxUsed' = RxUsed /\ TxUsed' = TxUsed /\ RxRoom' = RxRoom
        /\ Copied' = Copied
    BY DEF RxUsed, TxUsed, RxRoom, Copied
  <2>2. UARTTypeOK' /\ DataOK'
    BY DEF UARTInv, UARTTypeOK, DataOK
  <2>3. ModeInv' /\ EnableInv'
    BY DEF UARTInv, ModeInv, EnableInv
  <2>4. ReadInv'
    BY <2>1 DEF UARTInv, ReadInv
  <2>5. WriteInv'
    BY <2>1 DEF UARTInv, WriteInv
  <2>6. InputInv' /\ OutputInv'
    BY <2>1, InputKept, OutputKept DEF UARTInv, InputVars, OutputVars
  <2>7. WakeUpsKept'
    BY <2>1 DEF UARTInv, WakeUpsKept, ReceiverAwake, TransmitterAwake
  <2> QED
    BY <2>2, <2>3, <2>4, <2>5, <2>6, <2>7 DEF UARTInv
<1> QED
  BY <1>1, <1>2

\* Places of characters and interrupts enabled fit together in every reachable
\* state.
THEOREM UARTInvariant == UARTSpec => []UARTInv
<1> QED
  BY InvInit, InvNext, PTL DEF UARTSpec

\* Indices stay in the rings and counts within their bounds, in both forms of the
\* driver (altera_avalon_jtag_uart_{init,read,write,ioctl}.c).
THEOREM UARTTypeCorrect == UARTSpec => []UARTTypeOK
<1>1. UARTInv => UARTTypeOK
  BY DEF UARTInv
<1> QED
  BY <1>1, UARTInvariant, PTL

\* No wake-up is lost between read(), write() and the interrupt routine, which look
\* at a ring and then write the same copy of the enable bits.
THEOREM NoWakeUpLost == UARTSpec => []WakeUpsKept
<1>1. UARTInv => WakeUpsKept
  BY DEF UARTInv
<1> QED
  BY <1>1, UARTInvariant, PTL

\* No character is lost, repeated or overtaken in either direction, whatever the
\* interrupt routine does between two accesses of read() and write().
THEOREM CharactersArrive == UARTSpec => []CharactersIntact
<1>1. ASSUME UARTInv PROVE InputIntact
  <2> DEFINE copied == IF pc = "ReadAdvance" THEN n ELSE 0
             k == ((rx_in - rx_out) % BUF_LEN) - copied
             buffered == [i \in 1..k |-> rx_buf[Plus(rx_out, copied + i - 1)]]
             base == Len(inputs)
             all == inputs \o buffered \o rfifo
  <2>1. /\ base \in Nat /\ Len(rfifo) \in Nat /\ copied \in 0..RxUsed
        /\ k = RxUsed - copied /\ Copied = copied
        /\ rx_out \in Places /\ RxUsed \in 0..B-1
        /\ B \in Nat /\ B > 1 /\ Places = 0..B-1
        /\ inputs \in Seq(Nat) /\ rfifo \in Seq(Nat)
        /\ rx_buf \in [Places -> Nat] /\ sent \in Nat
    BY <1>1, InputNumbers, Facts DEF Copied, RxUsed, B, RingsOK, EndsOK
  <2>2. /\ sent = base - copied + RxUsed + Len(rfifo)
        /\ \A i \in 1..base : inputs[i] = i
        /\ \A d \in copied..RxUsed-1 : rx_buf[Plus(rx_out, d)] = base - copied + d + 1
        /\ \A i \in 1..Len(rfifo) : rfifo[i] = base - copied + RxUsed + i
    BY <1>1, <2>1 DEF UARTInv, InputInv
  <2> HIDE DEF copied, k, base
  <2>3. k \in Nat
    BY <2>1
  <2>4. ASSUME NEW i \in 1..k
        PROVE  rx_buf[Plus(rx_out, copied + i - 1)] = base + i /\ base + i \in Nat
    <3>1. copied + i - 1 \in copied..RxUsed-1
      BY <2>1, <2>3
    <3>2. rx_buf[Plus(rx_out, copied + i - 1)] = base - copied + (copied + i - 1) + 1
      BY <2>2, <3>1
    <3> QED
      BY <2>1, <2>3, <3>2
  <2>5. buffered \in [1..k -> Nat] /\ \A i \in 1..k : buffered[i] = base + i
    BY <2>4
  <2> HIDE DEF buffered
  <2>6. buffered \in Seq(Nat) /\ Len(buffered) = k
    BY <2>3, <2>5, IsSequence
  <2> DEFINE front == inputs \o buffered
  <2>7. /\ front \in Seq(Nat) /\ Len(front) = base + k
        /\ \A i \in 1..base + k :
             front[i] = IF i <= base THEN inputs[i] ELSE buffered[i - base]
    BY <2>1, <2>6, ConcatProperties DEF base
  <2> HIDE DEF front
  <2>8. \A i \in 1..base + k : front[i] = i
    <3>1. ASSUME NEW i \in 1..base + k PROVE front[i] = i
      <4>1. CASE i <= base
        BY <2>1, <2>2, <2>3, <2>7, <4>1
      <4>2. CASE i > base
        <5>1. i - base \in 1..k
          BY <2>1, <2>3, <4>2
        <5>2. front[i] = IF i <= base THEN inputs[i] ELSE buffered[i - base]
          BY <2>7, Zenon
        <5>3. ~(i <= base)
          BY <2>1, <2>3, <4>2
        <5>4. front[i] = buffered[i - base]
          BY <5>2, <5>3, Zenon
        <5>5. front[i] = base + (i - base)
          BY <2>5, <5>1, <5>4
        <5> QED
          BY <2>1, <2>3, <5>5
      <4> QED
        BY <2>1, <2>3, <4>1, <4>2
    <3> QED
      BY <3>1
  <2>9. all = front \o rfifo
    BY DEF front
  <2> HIDE DEF all
  <2>10. /\ all \in Seq(Nat) /\ Len(all) = base + k + Len(rfifo)
         /\ \A i \in 1..base + k + Len(rfifo) :
              all[i] = IF i <= base + k THEN front[i] ELSE rfifo[i - (base + k)]
    <3>1. /\ all \in Seq(Nat) /\ Len(all) = Len(front) + Len(rfifo)
          /\ \A i \in 1..Len(front) + Len(rfifo) :
               all[i] = IF i <= Len(front) THEN front[i] ELSE rfifo[i - Len(front)]
      BY <2>1, <2>7, <2>9, ConcatProperties
    <3> QED
      BY <2>7, <3>1
  <2>11. Len(all) = sent
    BY <2>1, <2>2, <2>10
  <2>12. \A i \in 1..sent : all[i] = i
    <3>1. ASSUME NEW i \in 1..sent PROVE all[i] = i
      <4> i \in 1..base + k + Len(rfifo)
        BY <2>10, <2>11
      <4>1. CASE i <= base + k
        <5>1. all[i] = front[i]
          BY <2>10, <4>1
        <5>2. i \in 1..base + k
          BY <2>1, <2>3, <4>1
        <5> QED
          BY <2>8, <5>1, <5>2
      <4>2. CASE i > base + k
        <5>1. i - (base + k) \in 1..Len(rfifo)
          BY <2>1, <2>3, <4>2
        <5>2. all[i] = rfifo[i - (base + k)]
          <6>1. ~(i <= base + k)
            BY <2>1, <2>3, <4>2
          <6> QED
            BY <2>10, <6>1
        <5>3. all[i] = base - copied + RxUsed + (i - (base + k))
          BY <2>2, <5>1, <5>2
        <5> QED
          BY <2>1, <2>3, <5>3
      <4> QED
        BY <2>1, <2>3, <4>1, <4>2
    <3> QED
      BY <3>1
  <2>13. all = UpTo(sent)
    BY <2>1, <2>10, <2>11, <2>12, CountedSequence
  <2> QED
    BY <2>13 DEF InputIntact, all, buffered, k, copied
<1>2. ASSUME UARTInv PROVE OutputIntact
  <2> DEFINE k == TxUsed
             buffered == [i \in 1..k |-> tx_buf[Plus(tx_out, i - 1)]]
             base == Len(outputs) + Len(wfifo)
             front == outputs \o wfifo
             all == front \o buffered
  <2>1. /\ Len(outputs) \in Nat /\ Len(wfifo) \in Nat /\ k \in 0..B-1
        /\ tx_out \in Places /\ B \in Nat /\ B > 1 /\ Places = 0..B-1
        /\ outputs \in Seq(Nat) /\ wfifo \in Seq(Nat)
        /\ tx_buf \in [Places -> Nat] /\ written \in Nat
    BY <1>2, OutputNumbers
  <2>2. /\ written = base + k
        /\ \A i \in 1..Len(outputs) : outputs[i] = i
        /\ \A i \in 1..Len(wfifo) : wfifo[i] = Len(outputs) + i
        /\ \A d \in 0..k-1 : tx_buf[Plus(tx_out, d)] = base + d + 1
    BY <1>2 DEF UARTInv, OutputInv
  <2> HIDE DEF k
  <2>3. ASSUME NEW i \in 1..k
        PROVE  tx_buf[Plus(tx_out, i - 1)] = base + i
    <3>1. i - 1 \in 0..k-1
      BY <2>1
    <3>2. tx_buf[Plus(tx_out, i - 1)] = base + (i - 1) + 1
      BY <2>2, <3>1
    <3> QED
      BY <2>1, <3>2
  <2>4. buffered \in [1..k -> Nat] /\ \A i \in 1..k : buffered[i] = base + i
    BY <2>1, <2>3
  <2> HIDE DEF buffered
  <2>5. buffered \in Seq(Nat) /\ Len(buffered) = k
    BY <2>1, <2>4, IsSequence
  <2>6. /\ front \in Seq(Nat) /\ Len(front) = base
        /\ \A i \in 1..base :
             front[i] = IF i <= Len(outputs) THEN outputs[i]
                        ELSE wfifo[i - Len(outputs)]
    BY <2>1, ConcatProperties
  <2> HIDE DEF front
  <2>7. \A i \in 1..base : front[i] = i
    <3>1. ASSUME NEW i \in 1..base PROVE front[i] = i
      <4>1. CASE i <= Len(outputs)
        <5>1. front[i] = outputs[i] /\ i \in 1..Len(outputs)
          BY <2>1, <2>6, <4>1
        <5> QED
          BY <2>2, <5>1
      <4>2. CASE i > Len(outputs)
        <5>1. i - Len(outputs) \in 1..Len(wfifo) /\ ~(i <= Len(outputs))
          BY <2>1, <4>2
        <5>2. front[i] = wfifo[i - Len(outputs)]
          BY <2>6, <5>1
        <5>3. front[i] = Len(outputs) + (i - Len(outputs))
          BY <2>2, <5>1, <5>2
        <5> QED
          BY <2>1, <5>3
      <4> QED
        BY <2>1, <4>1, <4>2
    <3> QED
      BY <3>1
  <2>8. base \in Nat
    BY <2>1
  <2> HIDE DEF base
  <2>9. /\ all \in Seq(Nat) /\ Len(all) = base + k
        /\ \A i \in 1..base + k :
             all[i] = IF i <= base THEN front[i] ELSE buffered[i - base]
    BY <2>5, <2>6, ConcatProperties
  <2> HIDE DEF all
  <2>10. \A i \in 1..written : all[i] = i
    <3>1. ASSUME NEW i \in 1..written PROVE all[i] = i
      <4> i \in 1..base + k
        BY <2>2
      <4>1. CASE i <= base
        <5>1. all[i] = front[i] /\ i \in 1..base
          BY <2>1, <2>8, <2>9, <4>1
        <5> QED
          BY <2>7, <5>1
      <4>2. CASE i > base
        <5>1. i - base \in 1..k /\ ~(i <= base)
          BY <2>1, <2>8, <4>2
        <5>2. all[i] = buffered[i - base]
          BY <2>9, <5>1
        <5>3. all[i] = base + (i - base)
          BY <2>4, <5>1, <5>2
        <5> QED
          BY <2>1, <2>8, <5>3
      <4> QED
        BY <2>1, <2>8, <4>1, <4>2
    <3> QED
      BY <3>1
  <2>11. all = UpTo(written)
    BY <2>1, <2>2, <2>9, <2>10, CountedSequence
  <2> QED
    BY <2>11 DEF OutputIntact, all, front, buffered, k
<1>3. UARTInv => CharactersIntact
  BY <1>1, <1>2 DEF CharactersIntact, UARTInv
<1> QED
  BY <1>3, UARTInvariant, PTL

\* A call that may block and asked for something reports an error only when the
\* host has been silent.
THEOREM ErrorsMeanSilent == UARTSpec => ErrorsMeanSilence
<1> DEFINE A == pc \notin {"idle", "Close"} /\ pc' = "idle" /\ Outcome = "EIO"
                  => host_inactive > 0 \/ AskedForNothing
<1>1. UARTInv /\ [UARTNext]_uartVars => [A]_uartVars
  <2> SUFFICES ASSUME UARTInv, UARTNext, pc \notin {"idle", "Close"}, pc' = "idle",
                      ~(moved > 0), ~nonblock, pc # "SmallWrite"
               PROVE  host_inactive > 0 \/ AskedForNothing
    BY Zenon DEF Outcome
  <2>1. /\ moved = 0 /\ left \in Nat /\ (left = 0 => AskedForNothing)
        /\ pc = "ReadEnd" => nonblock \/ left = 0
        /\ host_inactive \in Nat /\ timeout >= 2 /\ timeout \in Int
    BY Facts DEF ReadInv, CallOK, RegistersOK, AskedForNothing
  <2>2. CASE Writing \/ SmallWrite \/ ReadWait
    BY <2>1, <2>2 DEF Writing, WriteLoad, WriteCopy, WriteAdvance, Kick, WriteWait,
         SmallWrite, Running, ReadWait, GoTo, HostGone, call
  <2>3. CASE ReadLoad \/ ReadCopy \/ ReadAdvance \/ ReadEnd \/ SmallRead
    BY <2>1, <2>3 DEF ReadLoad, ReadCopy, ReadAdvance, ReadEnd, SmallRead, GoTo,
         Running
  <2>4. CASE Close \/ Host \/ Isr \/ Timeout \/ Begins
    BY <2>4 DEF Close, Running, Host, HostSends, HostPauses, HostTakes, Isr,
         IsrEnter, IsrPass, IsrReturn, Timeout, Begins, CallWrite, CallRead,
         CallClose, SetTimeout, Begin, call
  <2> QED
    BY <2>2, <2>3, <2>4 DEF UARTNext, Proceeds, Reading
<1> QED
  BY <1>1, UARTInvariant, PTL DEF UARTSpec, ErrorsMeanSilence

-----------------------------------------------------------------------------
(***************************************************************************)
(* The log, which prints into the UART: what is printed, and what of it    *)
(* the host gets.                                                          *)
(***************************************************************************)

Below == {mn \in Nat \X Nat : mn[1] < mn[2]}

\* Numbers have a least one.
LEMMA Lowest ==
  ASSUME NEW S \in SUBSET Nat, S # {}
  PROVE  \E m \in S : \A z \in S : m <= z
<1>1. IsWellFoundedOn(Below, Nat)
  <2>1. Below = OpToRel(<, Nat)
    BY DEF OpToRel, Below
  <2> QED
    BY <2>1, NatLessThanWellFounded
<1>2. PICK m \in S : \A z \in S : <<z, m>> \notin Below
  BY <1>1, WFMin, Zenon
<1>3. ASSUME NEW z \in S
      PROVE  m <= z
  <2>1. <<z, m>> \notin Below /\ z \in Nat /\ m \in Nat
    BY <1>2
  <2>2. ~(z < m)
    BY <2>1 DEF Below
  <2> QED
    BY <2>1, <2>2
<1> QED
  BY <1>2, <1>3

Bases == {8, 10, 16}

\* The digits that are enough in every base.
MostDigits == LongBits \div 3 + 1

LEMMA DigitsEnough ==
  /\ MostDigits \in Nat \ {0} /\ LongNibbles \in 1..MostDigits
BY LoggingAssumption DEF LoggingAssumption, MostDigits

LEMMA PowersAre ==
  ASSUME NEW base \in Bases
  PROVE  /\ \A z \in 0..MostDigits : base^z \in Nat \ {0}
         /\ base^0 = 1 /\ base^MostDigits >= LongMod
         /\ \A z \in 1..MostDigits : base^z = base * base^(z - 1)
<1>1. MostDigits \in Nat \ {0} /\ base \in Nat /\ base > 0
  BY DigitsEnough DEF Bases
<1>2. base^0 = 1 /\ base^MostDigits >= LongMod
  BY PowersAssumption DEF PowersAssumption, Bases, MostDigits
<1>3. ASSUME NEW z \in 1..MostDigits
      PROVE  base^z = base * base^(z - 1)
  <2>1. z - 1 \in 0..LongBits \div 3 /\ z = (z - 1) + 1
    <3>1. LongBits \in Nat
      BY LoggingAssumption DEF LoggingAssumption
    <3> DEFINE most == LongBits \div 3
    <3>2. most \in Int /\ z \in 1..most + 1
      BY <3>1 DEF MostDigits
    <3> HIDE DEF most
    <3>3. z - 1 \in 0..most /\ z = (z - 1) + 1
      BY <3>2
    <3> QED
      BY <3>3 DEF most
  <2>2. base^((z - 1) + 1) = base * base^(z - 1)
    BY <2>1, PowersAssumption DEF PowersAssumption, Bases
  <2> QED
    BY <2>1, <2>2
<1> DEFINE Bad == {z \in 0..MostDigits : base^z \notin Nat \ {0}}
<1>4. ASSUME Bad # {}
      PROVE  FALSE
  <2>1. Bad \in SUBSET Nat
    BY <1>1
  <2>2. PICK m \in Bad : \A z \in Bad : m <= z
    <3> HIDE DEF Bad
    <3> QED
      BY <1>4, <2>1, Lowest
  <2>3. m # 0
    BY <1>2, <2>2
  <2>4. m \in 1..MostDigits /\ m - 1 \in 0..MostDigits /\ ~(m <= m - 1)
    BY <1>1, <2>2, <2>3
  <2>5. m - 1 \notin Bad
    BY <2>2, <2>4
  <2> DEFINE p == base^(m - 1)
  <2>6. p \in Nat \ {0}
    BY <2>4, <2>5
  <2>7. base^m = base * p
    BY <1>3, <2>4
  <2> HIDE DEF p
  <2>8. base * p \in Nat \ {0}
    BY <1>1, <2>6
  <2> QED
    BY <2>2, <2>7, <2>8
<1> QED
  BY <1>2, <1>3, <1>4

LEMMA PowersGrow ==
  ASSUME NEW base \in Bases, NEW m \in 0..MostDigits, NEW z \in 0..MostDigits, m <= z
  PROVE  base^m <= base^z
<1>1. /\ MostDigits \in Nat /\ base \in Nat /\ base > 0
      /\ \A k \in 0..MostDigits : base^k \in Nat \ {0}
      /\ \A k \in 1..MostDigits : base^k = base * base^(k - 1)
  BY DigitsEnough, PowersAre DEF Bases
<1> DEFINE Bad == {k \in m..MostDigits : ~(base^m <= base^k)}
<1>2. ASSUME Bad # {}
      PROVE  FALSE
  <2>1. Bad \in SUBSET Nat
    BY <1>1
  <2>2. PICK l \in Bad : \A k \in Bad : l <= k
    <3> HIDE DEF Bad
    <3> QED
      BY <1>2, <2>1, Lowest
  <2>3. l # m
    BY <1>1, <2>2
  <2>4. /\ l \in 1..MostDigits /\ l - 1 \in m..MostDigits /\ l - 1 \in 0..MostDigits
        /\ ~(l <= l - 1)
    BY <1>1, <2>2, <2>3
  <2>5. l - 1 \notin Bad
    BY <2>2, <2>4
  <2> DEFINE p == base^(l - 1)
             q == base^m
  <2>6. p \in Nat /\ q \in Nat /\ q <= p
    BY <1>1, <2>4, <2>5
  <2>7. base^l = base * p
    BY <1>1, <2>4
  <2> HIDE DEF p, q
  <2>8. p <= base * p
    BY <1>1, <2>6
  <2>9. q <= base * p
    BY <1>1, <2>6, <2>8
  <2>10. base^m <= base^l
    BY <2>7, <2>9 DEF q
  <2> QED
    BY <2>2, <2>10
<1>3. z \in m..MostDigits
  BY <1>1
<1> QED
  BY <1>2, <1>3

\* A quotient and its remainder.
LEMMA Quotient ==
  ASSUME NEW v \in Nat, NEW p \in Nat \ {0}
  PROVE  /\ v \div p \in Nat /\ v % p \in 0..p - 1 /\ v = p * (v \div p) + (v % p)
         /\ v < p => v \div p = 0
         /\ p <= v => v \div p > 0
<1>1. v \div p \in Int /\ v % p \in 0..p - 1 /\ v = p * (v \div p) + (v % p)
  OBVIOUS
<1> DEFINE q == v \div p
           r == v % p
<1>2. q \in Int /\ r \in 0..p - 1 /\ v = p * q + r
  BY <1>1
<1> HIDE DEF q, r
<1>3. q < 0 => p * q <= -p
  BY <1>2
<1>4. q > 0 => p * q >= p
  BY <1>2
<1>5. q = 0 => p * q = 0
  BY <1>2
<1> DEFINE pq == p * q
<1>6. pq \in Int
  BY <1>2
<1> HIDE DEF pq
<1>7. q >= 0 /\ (v < p => q = 0) /\ (p <= v => q > 0)
  BY <1>2, <1>3, <1>4, <1>5, <1>6 DEF pq
<1> QED
  BY <1>1, <1>2, <1>7 DEF q, r

\* Dividing twice is dividing by the product.
LEMMA QuotientTwice ==
  ASSUME NEW v \in Nat, NEW p \in Nat \ {0}, NEW b \in Nat \ {0}
  PROVE  (v \div p) \div b = v \div (b * p)
<1> DEFINE q == v \div p
           r == v % p
           s == q \div b
           t == q % b
           k == b * p
           w == p * t + r
<1>1. q \in Nat /\ r \in 0..p - 1 /\ v = p * q + r
  BY Quotient
<1>2. s \in Nat /\ t \in 0..b - 1 /\ q = b * s + t
  BY <1>1, Quotient
<1> HIDE DEF q, r, s, t
<1>3. k \in Nat \ {0}
  OBVIOUS
<1>4. p * t \in Nat /\ p * t <= p * (b - 1) /\ p * (b - 1) = k - p
  BY <1>2
<1>5. w \in 0..k - 1
  <2> DEFINE pt == p * t
             pb == p * (b - 1)
  <2>1. pt \in Nat /\ pb \in Int /\ pt <= pb /\ pb = k - p /\ w = pt + r
    BY <1>4
  <2> HIDE DEF pt, pb, k, w
  <2> QED
    BY <1>1, <1>3, <2>1
<1>6. v = k * s + w
  <2>1. p * q = p * (b * s) + p * t
    BY <1>2
  <2>2. p * (b * s) = k * s
    BY <1>2
  <2> DEFINE pq == p * q
             ks == k * s
             pt == p * t
  <2>3. /\ pq \in Int /\ ks \in Int /\ pt \in Int
        /\ pq = ks + pt /\ v = pq + r /\ w = pt + r
    BY <1>1, <1>2, <1>3, <2>1, <2>2
  <2> HIDE DEF pq, pt, ks, w
  <2>4. v = ks + w
    BY <1>1, <2>3
  <2> QED
    BY <2>4 DEF ks
<1> DEFINE x == v \div k
           y == v % k
<1> HIDE DEF k, w
<1>7. x \in Nat /\ y \in 0..k - 1 /\ v = k * x + y
  BY <1>3, Quotient
<1> HIDE DEF x, y
<1> DEFINE kx == k * x
           ks == k * s
<1>8. (x < s => kx + k <= ks) /\ (s < x => ks + k <= kx) /\ kx \in Int /\ ks \in Int
  BY <1>2, <1>3, <1>7
<1>9. v = kx + y /\ v = ks + w
  BY <1>6, <1>7
<1> HIDE DEF kx, ks
<1>10. x = s
  BY <1>2, <1>3, <1>5, <1>7, <1>8, <1>9
<1> QED
  BY <1>10 DEF x, k, s, q

LEMMA DigitIs ==
  /\ Len(Digit) = 16 /\ DOMAIN Digit = 1..16
  /\ \A z \in 1..16 : Digit[z] \notin {" ", "-"} /\ (Digit[z] = "0" <=> z = 1)
  /\ \A m, z \in 1..16 : Digit[m] = Digit[z] => m = z
<1>1. Len(Digit) = 16 /\ DOMAIN Digit = 1..16
  BY DEF Digit
<1>2. /\ Digit[1] = "0" /\ Digit[2] = "1" /\ Digit[3] = "2" /\ Digit[4] = "3"
      /\ Digit[5] = "4" /\ Digit[6] = "5" /\ Digit[7] = "6" /\ Digit[8] = "7"
      /\ Digit[9] = "8" /\ Digit[10] = "9" /\ Digit[11] = "a" /\ Digit[12] = "b"
      /\ Digit[13] = "c" /\ Digit[14] = "d" /\ Digit[15] = "e" /\ Digit[16] = "f"
  BY DEF Digit
<1>3. \A z \in 1..16 : \/ z = 1 \/ z = 2 \/ z = 3 \/ z = 4 \/ z = 5 \/ z = 6 \/ z = 7
                       \/ z = 8 \/ z = 9 \/ z = 10 \/ z = 11 \/ z = 12 \/ z = 13
                       \/ z = 14 \/ z = 15 \/ z = 16
  OBVIOUS
<1>4. \A z \in 1..16 : Digit[z] \notin {" ", "-"} /\ (Digit[z] = "0" <=> z = 1)
  BY <1>2, <1>3
<1>5. \A m, z \in 1..16 : Digit[m] = Digit[z] => m = z
  BY <1>2, <1>3
<1> QED
  BY <1>1, <1>4, <1>5

\* What Value computes, digit by digit.
LEMMA ValueIs ==
  ASSUME NEW S, NEW digits \in Seq(S), NEW base \in Nat, NEW w \in [1..Len(digits) -> 0..15],
         \A i \in 1..Len(digits) : digits[i] = Digit[w[i] + 1],
         NEW q \in [0..Len(digits) -> Nat], q[0] = 0,
         \A i \in 1..Len(digits) : q[i] = q[i - 1] * base + w[i]
  PROVE  Value(digits, base) = q[Len(digits)]
<1> DEFINE z == Len(digits)
           Worth(d) == CHOOSE k \in 0..15 : Digit[k + 1] = d
           Step(f, i) == IF i = 0 THEN 0 ELSE f[i - 1] * base + Worth(digits[i])
           value == CHOOSE f : f = [i \in 0..z |-> Step(f, i)]
<1>1. z \in Nat
  OBVIOUS
<1>2. \A i \in 1..z : Worth(digits[i]) = w[i]
  <2> SUFFICES ASSUME NEW i \in 1..z PROVE Worth(digits[i]) = w[i]
    OBVIOUS
  <2>1. w[i] \in 0..15 /\ digits[i] = Digit[w[i] + 1]
    OBVIOUS
  <2>2. \A k \in 0..15 : Digit[k + 1] = digits[i] => k = w[i]
    <3> SUFFICES ASSUME NEW k \in 0..15, Digit[k + 1] = digits[i] PROVE k = w[i]
      OBVIOUS
    <3> DEFINE m == w[i]
    <3>1. m \in 0..15 /\ Digit[k + 1] = Digit[m + 1]
      BY <2>1
    <3> HIDE DEF m
    <3>2. k + 1 \in 1..16 /\ m + 1 \in 1..16
      BY <3>1
    <3>3. k + 1 = m + 1
      BY <3>1, <3>2, DigitIs
    <3>4. k = m
      BY <3>1, <3>3
    <3> QED
      BY <3>4 DEF m
  <2> QED
    BY <2>1, <2>2
<1>3. q = [i \in 0..z |-> Step(q, i)]
  <2>1. \A i \in 0..z : q[i] = Step(q, i)
    <3>1. \A i \in 0..z : i = 0 \/ i \in 1..z
      BY <1>1
    <3> QED
      BY <1>2, <3>1
  <2> QED
    BY <2>1
<1>4. value = [i \in 0..z |-> Step(value, i)]
  BY <1>3
<1>5. Value(digits, base) = value[z]
  BY DEF Value
<1> DEFINE Bad == {i \in 0..z : value[i] # q[i]}
<1> HIDE DEF value
<1>6. ASSUME Bad # {}
      PROVE  FALSE
  <2>1. PICK m \in Bad : \A k \in Bad : m <= k
    <3>1. Bad \in SUBSET Nat
      BY <1>1
    <3> HIDE DEF Bad
    <3> QED
      BY <1>6, <3>1, Lowest
  <2>2. value[m] = Step(value, m) /\ q[m] = Step(q, m)
    BY <1>3, <1>4, <2>1
  <2>3. m # 0
    BY <2>1, <2>2
  <2>4. m - 1 \in 0..z /\ ~(m <= m - 1)
    BY <1>1, <2>1, <2>3
  <2>5. value[m - 1] = q[m - 1]
    BY <2>1, <2>4
  <2> QED
    BY <2>1, <2>2, <2>3, <2>5
<1>7. z \in 0..z
  BY <1>1
<1> QED
  BY <1>5, <1>6, <1>7

\* What is left of v when its digits but the first i are cut off.
Cutoff(v, base, z, i) == v \div base^(z - i)

LEMMA CutoffsAre ==
  ASSUME NEW base \in Bases, NEW v \in Nat, NEW z \in 1..MostDigits, v < base^z
  PROVE  /\ base \in 8..16 /\ \A i \in 0..z : Cutoff(v, base, z, i) \in Nat
         /\ Cutoff(v, base, z, 0) = 0 /\ Cutoff(v, base, z, z) = v
         /\ \A i \in 1..z :
              /\ Cutoff(v, base, z, i) % base \in 0..base - 1
              /\ Cutoff(v, base, z, i)
                   = Cutoff(v, base, z, i - 1) * base + (Cutoff(v, base, z, i) % base)
<1>1. base \in 8..16 /\ base \in Nat \ {0} /\ MostDigits \in Nat /\ z \in Nat
  BY DigitsEnough DEF Bases
<1>2. /\ \A m \in 0..MostDigits : base^m \in Nat \ {0}
      /\ \A m \in 1..MostDigits : base^m = base * base^(m - 1)
      /\ base^0 = 1
  BY PowersAre
<1>3. \A i \in 0..z : z - i \in 0..MostDigits
  BY <1>1
<1>4. \A i \in 0..z : Cutoff(v, base, z, i) \in Nat
  BY <1>2, <1>3, Quotient DEF Cutoff
<1>5. Cutoff(v, base, z, 0) = 0
  <2>1. z - 0 = z /\ z \in 0..MostDigits
    BY <1>1
  <2> QED
    BY <1>2, <2>1, Quotient DEF Cutoff
<1>6. Cutoff(v, base, z, z) = v
  <2>1. z - z = 0 /\ v \div 1 = v
    BY <1>1
  <2> QED
    BY <1>2, <2>1 DEF Cutoff
<1>7. ASSUME NEW i \in 1..z
      PROVE  /\ Cutoff(v, base, z, i) % base \in 0..base - 1
             /\ Cutoff(v, base, z, i)
                  = Cutoff(v, base, z, i - 1) * base + (Cutoff(v, base, z, i) % base)
  <2> DEFINE p == base^(z - i)
             c == Cutoff(v, base, z, i)
             d == Cutoff(v, base, z, i - 1)
  <2>1. z - i \in 0..MostDigits /\ z - (i - 1) \in 1..MostDigits /\ (z - (i - 1)) - 1 = z - i
        /\ i \in 0..z /\ i - 1 \in 0..z
    BY <1>1
  <2>2. p \in Nat \ {0} /\ base^(z - (i - 1)) = base * p
    BY <1>2, <2>1
  <2>3. d = v \div (base * p) /\ c = v \div p
    BY <2>2 DEF Cutoff
  <2>4. c \in Nat /\ d \in Nat
    BY <1>4, <2>1
  <2> HIDE DEF p, c, d
  <2>5. c \div base = d
    <3>1. (v \div p) \div base = v \div (base * p)
      BY <1>1, <2>2, QuotientTwice
    <3> QED
      BY <2>3, <3>1
  <2>6. c % base \in 0..base - 1 /\ c = base * (c \div base) + (c % base)
    BY <1>1, <2>4, Quotient
  <2>7. base * d = d * base
    BY <1>1, <2>4
  <2>8. c % base \in 0..base - 1 /\ c = d * base + (c % base)
    BY <2>5, <2>6, <2>7
  <2> QED
    BY <2>8 DEF c, d
<1> QED
  BY <1>1, <1>4, <1>5, <1>6, <1>7

\* The digits of v by the powers of the base, after k zeros.
Writes(digits, k, base, v, z) ==
  /\ Len(digits) = k + z /\ DOMAIN digits = 1..k + z
  /\ \A i \in 1..k : digits[i] = "0"
  /\ \A i \in 1..z : digits[k + i] = Digit[1 + (Cutoff(v, base, z, i) % base)]

\* Some of them are worth what is between two cut-offs.
Worths(base, v, k, z) ==
  [i \in 1..k + z |-> IF i <= k THEN 0 ELSE Cutoff(v, base, z, i - k) % base]
Partial(base, v, k, z) ==
  [i \in 0..k + z |-> IF i <= k THEN 0 ELSE Cutoff(v, base, z, i - k)]

Weighed(w, q, base, v, k, z) ==
  /\ w \in [1..k + z -> 0..15] /\ q \in [0..k + z -> Nat]
  /\ q[0] = 0 /\ q[k + z] = v
  /\ \A i \in 1..k + z : q[i] = q[i - 1] * base + w[i]
  /\ \A i \in 1..k : w[i] = 0
  /\ \A i \in 1..z : w[k + i] = Cutoff(v, base, z, i) % base

LEMMA WorthsAre ==
  ASSUME NEW base \in Bases, NEW v \in Nat, NEW z \in 1..MostDigits, v < base^z, NEW k \in Nat
  PROVE  Weighed(Worths(base, v, k, z), Partial(base, v, k, z), base, v, k, z)
<1> DEFINE C(i) == Cutoff(v, base, z, i)
           w == Worths(base, v, k, z)
           q == Partial(base, v, k, z)
<1>1. /\ base \in 8..16 /\ \A i \in 0..z : C(i) \in Nat
      /\ C(0) = 0 /\ C(z) = v
      /\ \A i \in 1..z : C(i) % base \in 0..base - 1 /\ C(i) = C(i - 1) * base + (C(i) % base)
  BY CutoffsAre
<1>2. z \in Nat /\ z > 0
  BY DigitsEnough
<1>3. /\ \A i \in 1..k + z : w[i] = IF i <= k THEN 0 ELSE C(i - k) % base
      /\ \A i \in 0..k + z : q[i] = IF i <= k THEN 0 ELSE C(i - k)
      /\ DOMAIN w = 1..k + z /\ DOMAIN q = 0..k + z
      /\ w = [i \in 1..k + z |-> w[i]] /\ q = [i \in 0..k + z |-> q[i]]
  BY DEF Worths, Partial
<1> HIDE DEF w, q, C
<1>4. ASSUME NEW i \in 1..k + z
      PROVE  w[i] \in 0..15 /\ q[i] = q[i - 1] * base + w[i]
  <2>1. i \in 0..k + z /\ i - 1 \in 0..k + z
    BY <1>2
  <2>2. CASE i <= k
    <3>1. i - 1 <= k /\ i \in 1..k
      BY <2>2
    <3>2. w[i] = 0 /\ q[i] = 0 /\ q[i - 1] = 0
      BY <1>3, <2>1, <2>2, <3>1
    <3>3. 0 * base + 0 = 0 /\ 0 \in 0..15
      BY <1>1
    <3> QED
      BY <3>2, <3>3
  <2>3. CASE ~(i <= k)
    <3>1. i - k \in 1..z /\ (i - k) - 1 = (i - 1) - k
      BY <1>2, <2>3
    <3>2. w[i] = C(i - k) % base /\ q[i] = C(i - k)
      BY <1>3, <2>1, <2>3
    <3>3. q[i - 1] = C((i - k) - 1)
      <4>1. CASE i - k = 1
        <5>1. i - 1 <= k /\ (i - k) - 1 = 0
          BY <4>1
        <5> QED
          BY <1>1, <1>3, <2>1, <5>1
      <4>2. CASE i - k # 1
        <5>1. ~(i - 1 <= k)
          BY <1>2, <3>1, <4>2
        <5> QED
          BY <1>3, <2>1, <3>1, <5>1
      <4> QED
        BY <4>1, <4>2
    <3> DEFINE j == i - k
               c == C(j)
               d == C(j - 1)
               r == c % base
    <3>4. r \in 0..base - 1 /\ c = d * base + r
      BY <1>1, <3>1
    <3>5. w[i] = r /\ q[i] = c /\ q[i - 1] = d
      BY <3>2, <3>3
    <3> HIDE DEF c, d, r, j
    <3>6. r \in 0..15
      BY <1>1, <3>4
    <3> QED
      BY <3>4, <3>5, <3>6
  <2> QED
    BY <2>2, <2>3
<1>5. w \in [1..k + z -> 0..15]
  BY <1>3, <1>4
<1>6. q \in [0..k + z -> Nat] /\ q[0] = 0 /\ q[k + z] = v
  <2>1. ASSUME NEW i \in 0..k + z
        PROVE  q[i] \in Nat
    <3>1. ~(i <= k) => i - k \in 0..z
      BY <1>2
    <3> QED
      BY <1>1, <1>3, <3>1
  <2>2. 0 \in 0..k + z /\ 0 <= k
    BY <1>2
  <2>3. ~(k + z <= k) /\ (k + z) - k = z /\ k + z \in 0..k + z
    BY <1>2
  <2>4. q[k + z] = v
    BY <1>1, <1>3, <2>3
  <2>5. q[0] = 0
    BY <1>3, <2>2
  <2> QED
    BY <1>3, <2>1, <2>4, <2>5
<1>7. \A i \in 1..k : w[i] = 0
  <2>1. \A i \in 1..k : i \in 1..k + z /\ i <= k
    BY <1>2
  <2> QED
    BY <1>3, <2>1
<1>8. ASSUME NEW i \in 1..z
      PROVE  w[k + i] = C(i) % base
  <2>1. k + i \in 1..k + z /\ ~(k + i <= k) /\ (k + i) - k = i
    BY <1>2
  <2> QED
    BY <1>3, <2>1
<1>9. Weighed(w, q, base, v, k, z)
  BY <1>4, <1>5, <1>6, <1>7, <1>8 DEF Weighed, C
<1> QED
  BY <1>9 DEF w, q

LEMMA FirstCutoff ==
  ASSUME NEW base \in Bases, NEW v \in Nat, NEW z \in 1..MostDigits, v < base^z
  PROVE  Cutoff(v, base, z, 1) \in 0..base - 1
<1>1. 1 \in 1..z /\ 1 - 1 = 0
  BY DigitsEnough
<1> DEFINE x == Cutoff(v, base, z, 1)
           r == x % base
<1>2. r \in 0..base - 1 /\ x = Cutoff(v, base, z, 1 - 1) * base + r
  BY <1>1, CutoffsAre
<1>3. Cutoff(v, base, z, 0) = 0 /\ base \in Nat
  BY CutoffsAre DEF Bases
<1> HIDE DEF x, r
<1>4. x = 0 * base + r
  BY <1>1, <1>2, <1>3
<1>5. x = r
  BY <1>2, <1>3, <1>4
<1> QED
  BY <1>2, <1>5 DEF x

\* Digits by the powers of the base, zeros in front or none, are worth the number.
LEMMA Padded ==
  ASSUME NEW base \in Bases, NEW v \in Nat, NEW z \in 1..MostDigits, v < base^z,
         NEW k \in Nat, NEW S, NEW digits \in Seq(S), Writes(digits, k, base, v, z)
  PROVE  Value(digits, base) = v /\ \A i \in 1..k + z : digits[i] \in ToSet(Digit)
<1> DEFINE w == Worths(base, v, k, z)
           q == Partial(base, v, k, z)
<1>1. /\ w \in [1..k + z -> 0..15] /\ q \in [0..k + z -> Nat]
      /\ q[0] = 0 /\ q[k + z] = v
      /\ \A i \in 1..k + z : q[i] = q[i - 1] * base + w[i]
      /\ \A i \in 1..k : w[i] = 0
      /\ \A i \in 1..z : w[k + i] = Cutoff(v, base, z, i) % base
  <2>1. Weighed(w, q, base, v, k, z)
    BY WorthsAre
  <2> HIDE DEF w, q
  <2> QED
    BY <2>1 DEF Weighed
<1> HIDE DEF w, q
<1>2. base \in Nat /\ z \in Nat /\ z > 0
  BY DigitsEnough DEF Bases
<1>3. Len(digits) = k + z /\ DOMAIN digits = 1..k + z
  BY DEF Writes
<1>4. ASSUME NEW i \in 1..k + z
      PROVE  digits[i] = Digit[w[i] + 1] /\ w[i] + 1 \in 1..16
  <2> DEFINE r == w[i]
  <2>1. r \in 0..15
    BY <1>1
  <2>2. CASE i \in 1..k
    <3>1. w[i] = 0 /\ digits[i] = "0"
      BY <1>1, <2>2 DEF Writes
    <3>2. Digit[1] = "0" /\ 0 + 1 = 1
      BY DEF Digit
    <3> QED
      BY <3>1, <3>2
  <2>3. CASE i \notin 1..k
    <3> DEFINE j == i - k
    <3>1. j \in 1..z /\ k + j = i
      BY <1>2, <2>3
    <3> HIDE DEF j
    <3> DEFINE x == Cutoff(v, base, z, j) % base
    <3>2. w[i] = x /\ digits[i] = Digit[1 + x]
      BY <1>1, <3>1 DEF Writes
    <3> HIDE DEF x
    <3>3. 1 + x = x + 1
      BY <2>1, <3>2
    <3> QED
      BY <2>1, <3>2, <3>3
  <2> QED
    BY <2>2, <2>3
<1>5. Value(digits, base) = v
  <2>1. w \in [1..Len(digits) -> 0..15] /\ q \in [0..Len(digits) -> Nat] /\ q[0] = 0
    BY <1>1, <1>3
  <2>2. \A i \in 1..Len(digits) : digits[i] = Digit[w[i] + 1]
    BY <1>3, <1>4
  <2>3. \A i \in 1..Len(digits) : q[i] = q[i - 1] * base + w[i]
    BY <1>1, <1>3
  <2>4. Value(digits, base) = q[Len(digits)]
    BY <1>2, <2>1, <2>2, <2>3, ValueIs, Zenon
  <2> QED
    BY <1>1, <1>3, <2>4
<1>6. ASSUME NEW i \in 1..k + z
      PROVE  digits[i] \in ToSet(Digit)
  <2>1. w[i] + 1 \in DOMAIN Digit /\ digits[i] = Digit[w[i] + 1]
    BY <1>4, DigitIs
  <2> QED
    BY <2>1 DEF ToSet
<1> QED
  BY <1>5, <1>6

\* The digits a number has, most significant first.
IsDigits(digits, base, v, z) ==
  /\ z \in 1..MostDigits /\ v < base^z /\ (z = 1 \/ base^(z - 1) <= v)
  /\ digits = [i \in 1..z |-> Digit[1 + (Cutoff(v, base, z, i) % base)]]

LEMMA LongModIs == LongMod \in Nat /\ LongMod > 1
<1>1. /\ LongNibbles \in 1..MostDigits /\ LongNibbles \in 0..MostDigits /\ 0 \in 0..MostDigits
      /\ 0 \in Nat /\ 16 \in Bases /\ 1 \in 0..MostDigits /\ 1 <= LongNibbles
      /\ 1 \in 1..MostDigits /\ 1 - 1 = 0
  BY DigitsEnough DEF Bases
<1>2. LongMod = 16^LongNibbles
  BY LoggingAssumption DEF LoggingAssumption
<1>3. 16^0 = 1 /\ 16^1 = 16 * 16^(1 - 1)
  BY <1>1, PowersAre
<1>4. 16^1 = 16
  BY <1>1, <1>3
<1>5. 16^1 <= 16^LongNibbles /\ 16^LongNibbles \in Nat
  BY <1>1, PowersAre, PowersGrow
<1> QED
  BY <1>2, <1>4, <1>5

LEMMA DigitsAre ==
  ASSUME NEW base \in Bases, NEW v \in Nat, v < LongMod
  PROVE  \E z : IsDigits(Digits(v, base), base, v, z)
<1> DEFINE Enough(z) == v < base^z /\ (z = 1 \/ base^(z - 1) <= v)
           S == {z \in 1..MostDigits : v < base^z}
           count == CHOOSE z \in 1..MostDigits : Enough(z)
<1>1. MostDigits \in Nat \ {0} /\ LongMod \in Nat
  BY DigitsEnough, LongModIs
<1>2. base^MostDigits >= LongMod /\ \A z \in 0..MostDigits : base^z \in Nat
  BY PowersAre
<1>3. MostDigits \in S
  BY <1>1, <1>2
<1>4. PICK m \in S : \A z \in S : m <= z
  <2>1. S \in SUBSET Nat
    OBVIOUS
  <2> HIDE DEF S
  <2> QED
    BY <1>3, <2>1, Lowest
<1>5. m \in 1..MostDigits /\ Enough(m)
  <2>1. m \in 1..MostDigits /\ v < base^m
    BY <1>4
  <2>2. CASE m # 1
    <3>1. m - 1 \in 1..MostDigits /\ ~(m <= m - 1) /\ m - 1 \in 0..MostDigits
      BY <1>1, <2>1, <2>2
    <3>2. ~(v < base^(m - 1))
      BY <1>4, <3>1
    <3> QED
      BY <1>2, <2>1, <3>1, <3>2
  <2> QED
    BY <2>1, <2>2
<1>6. count \in 1..MostDigits /\ Enough(count)
  BY <1>5
<1>7. Digits(v, base) = [i \in 1..count |-> Digit[1 + (Cutoff(v, base, count, i) % base)]]
  BY DEF Digits, MostDigits, Cutoff
<1> HIDE DEF count
<1> QED
  BY <1>6, <1>7 DEF IsDigits

\* The first one counts, unless the number is nothing.
LEMMA DigitsRead ==
  ASSUME NEW base \in Bases, NEW v \in Nat, NEW z, NEW digits, IsDigits(digits, base, v, z)
  PROVE  /\ z \in 1..MostDigits /\ v < base^z /\ digits \in Seq(ToSet(Digit))
         /\ Writes(digits, 0, base, v, z)
         /\ \A i \in 1..z : digits[i] \in ToSet(Digit)
         /\ v > 0 => digits[1] # "0"
         /\ z > 1 => v > 0
<1>1. /\ z \in 1..MostDigits /\ v < base^z /\ (z = 1 \/ base^(z - 1) <= v)
      /\ digits = [i \in 1..z |-> Digit[1 + (Cutoff(v, base, z, i) % base)]]
  BY DEF IsDigits
<1>2. z \in Nat /\ z > 0 /\ MostDigits \in Nat /\ base \in Nat
  BY <1>1, DigitsEnough DEF Bases
<1>3. /\ base \in 8..16 /\ Cutoff(v, base, z, 0) = 0
      /\ \A i \in 1..z :
           /\ Cutoff(v, base, z, i) % base \in 0..base - 1
           /\ Cutoff(v, base, z, i)
                = Cutoff(v, base, z, i - 1) * base + (Cutoff(v, base, z, i) % base)
  BY <1>1, CutoffsAre
<1>4. /\ DOMAIN digits = 1..z
      /\ \A i \in 1..z : digits[i] = Digit[1 + (Cutoff(v, base, z, i) % base)]
  BY <1>1
<1>5. ASSUME NEW i \in 1..z
      PROVE  digits[i] \in ToSet(Digit)
  <2> DEFINE x == Cutoff(v, base, z, i) % base
  <2>1. x \in 0..base - 1 /\ digits[i] = Digit[1 + x]
    BY <1>3, <1>4
  <2> HIDE DEF x
  <2>2. 1 + x \in 1..16
    BY <1>3, <2>1
  <2> QED
    BY <2>1, <2>2, DigitIs DEF ToSet
<1>6. digits \in Seq(ToSet(Digit)) /\ Len(digits) = z
  <2>1. digits \in [1..z -> ToSet(Digit)]
    BY <1>1, <1>4, <1>5
  <2> QED
    BY <1>2, <2>1
<1>7. Writes(digits, 0, base, v, z)
  <2>1. 0 + z = z /\ \A i \in 1..z : 0 + i = i
    BY <1>2
  <2>2. \A i \in 1..0 : FALSE
    OBVIOUS
  <2> QED
    BY <1>4, <1>6, <2>1, <2>2 DEF Writes
<1>8. v > 0 => base^(z - 1) <= v
  <2>1. base^0 = 1
    BY PowersAre
  <2>2. z = 1 => z - 1 = 0
    OBVIOUS
  <2> QED
    BY <1>1, <2>1, <2>2
<1>9. z - 1 \in 0..MostDigits /\ base^(z - 1) \in Nat \ {0}
  <2>1. z - 1 \in 0..MostDigits
    BY <1>1, <1>2
  <2> QED
    BY <2>1, PowersAre
<1>10. z > 1 => v > 0
  BY <1>1, <1>9
<1>11. ASSUME v > 0
       PROVE  digits[1] # "0"
  <2> DEFINE x == Cutoff(v, base, z, 1)
             r == x % base
             p == base^(z - 1)
  <2>1. 1 \in 1..z /\ 1 - 1 = 0
    BY <1>2
  <2>2. r \in 0..base - 1 /\ x = Cutoff(v, base, z, 0) * base + r /\ digits[1] = Digit[1 + r]
    BY <1>3, <1>4, <2>1
  <2>3. x = v \div p /\ p \in Nat \ {0} /\ p <= v
    BY <1>8, <1>9, <1>11 DEF Cutoff
  <2> HIDE DEF x, r, p
  <2>4. x > 0 /\ x \in Nat
    BY <2>3, Quotient
  <2>5. x = r
    BY <1>2, <1>3, <2>2, <2>4
  <2>6. 1 + r \in 1..16 /\ 1 + r # 1
    BY <1>3, <2>2, <2>4, <2>5
  <2> QED
    BY <2>2, <2>6, DigitIs
<1> QED
  BY <1>1, <1>5, <1>6, <1>7, <1>10, <1>11

\* alt_printf finds the same digits from the top of the word.
LEMMA HexadecimalIs ==
  ASSUME NEW v \in Nat, v < LongMod
  PROVE  \E z : IsDigits(Hexadecimal(v), 16, v, z)
<1> DEFINE Nibble(z) == (v \div 16^z) % 16
           N == {z \in 0..LongNibbles-1 : Nibble(z) # 0}
<1>1. /\ 16 \in Bases /\ MostDigits \in Nat
      /\ LongNibbles \in 1..MostDigits /\ LongNibbles \in Nat
  BY DigitsEnough DEF Bases
<1>2. CASE v = 0
  <2>1. Hexadecimal(v) = <<"0">>
    BY <1>2 DEF Hexadecimal
  <2>2. 16^0 = 1 /\ 1 \in 1..MostDigits /\ 0 \in 0..MostDigits /\ 1 \in 0..MostDigits
    BY <1>1, PowersAre
  <2>3. v < 16^1
    <3>1. 16^1 \in Nat \ {0}
      BY <1>1, <2>2, PowersAre
    <3> QED
      BY <1>2, <3>1
  <2>4. Cutoff(v, 16, 1, 1) % 16 = 0
    <3>1. Cutoff(v, 16, 1, 1) = 0
      BY <1>1, <1>2, <2>2, <2>3, CutoffsAre
    <3>2. 0 % 16 = 0
      OBVIOUS
    <3> QED
      BY <3>1, <3>2
  <2>5. <<"0">> = [i \in 1..1 |-> Digit[1 + (Cutoff(v, 16, 1, i) % 16)]]
    <3>1. Digit[1] = "0" /\ 1 + 0 = 1
      BY DEF Digit
    <3>2. \A i \in 1..1 : Digit[1 + (Cutoff(v, 16, 1, i) % 16)] = "0"
      BY <2>4, <3>1
    <3> DEFINE D(i) == Digit[1 + (Cutoff(v, 16, 1, i) % 16)]
    <3>3. \A i \in 1..1 : D(i) = "0"
      BY <3>2
    <3> HIDE DEF D
    <3>4. <<"0">> = [i \in 1..1 |-> D(i)]
      BY <3>3
    <3> QED
      BY <3>4 DEF D
  <2> QED
    BY <2>1, <2>2, <2>3, <2>5 DEF IsDigits
<1>3. CASE v # 0
  <2>1. PICK z : IsDigits(Digits(v, 16), 16, v, z)
    BY <1>1, DigitsAre
  <2>2. z \in 1..MostDigits /\ v < 16^z /\ (z = 1 \/ 16^(z - 1) <= v)
    BY <2>1 DEF IsDigits
  <2>3. /\ \A k \in 0..MostDigits : 16^k \in Nat \ {0}
        /\ 16^0 = 1
    BY <1>1, PowersAre
  <2>4. z - 1 \in 0..MostDigits /\ 16^(z - 1) <= v /\ z \in 0..MostDigits
    <3>1. z - 1 \in 0..MostDigits /\ z \in 0..MostDigits /\ (z = 1 => z - 1 = 0)
      BY <1>1, <2>2
    <3>2. CASE z = 1
      <4>1. 16^(z - 1) = 1
        BY <2>3, <3>1, <3>2
      <4>2. 1 <= v
        BY <1>3
      <4> QED
        BY <3>1, <4>1, <4>2
    <3>3. CASE z # 1
      BY <2>2, <3>1, <3>3
    <3> QED
      BY <3>2, <3>3
  <2>5. z - 1 \in 0..LongNibbles-1
    <3>1. LongMod = 16^LongNibbles
      BY LoggingAssumption DEF LoggingAssumption
    <3>2. ASSUME LongNibbles <= z - 1
          PROVE  FALSE
      <4>1. 16^LongNibbles <= 16^(z - 1)
        BY <1>1, <2>4, <3>2, PowersGrow
      <4>2. LongMod \in Nat /\ 16^(z - 1) \in Nat
        BY <2>3, <2>4, LongModIs
      <4> QED
        BY <2>4, <3>1, <4>1, <4>2
    <3> QED
      BY <1>1, <2>2, <2>4, <3>2
  <2>6. z - 1 \in N
    <3> DEFINE x == v \div 16^(z - 1)
    <3>1. x > 0 /\ x \in Nat
      BY <2>3, <2>4, Quotient
    <3>2. Cutoff(v, 16, z, 1) = x
      BY DEF Cutoff
    <3>3. x < 16
      <4>1. Cutoff(v, 16, z, 1) \in 0..16 - 1
        BY <1>1, <2>2, FirstCutoff
      <4> QED
        BY <3>2, <4>1
    <3> HIDE DEF x
    <3>4. x % 16 = x
      BY <3>1, <3>3
    <3>5. Nibble(z - 1) # 0
      BY <3>1, <3>4 DEF x
    <3> QED
      BY <2>5, <3>5
  <2>7. \A k \in N : k <= z - 1
    <3> SUFFICES ASSUME NEW k \in 0..LongNibbles-1, ~(k <= z - 1)
                 PROVE  Nibble(k) = 0
      OBVIOUS
    <3>1. z <= k /\ k \in 0..MostDigits
      BY <1>1, <2>2
    <3>2. 16^z <= 16^k
      BY <1>1, <2>4, <3>1, PowersGrow
    <3>3. 16^k \in Nat \ {0} /\ 16^z \in Nat
      BY <2>3, <2>4, <3>1
    <3>4. v < 16^k
      BY <2>2, <3>2, <3>3
    <3>5. v \div 16^k = 0
      BY <3>3, <3>4, Quotient
    <3>6. 0 % 16 = 0
      OBVIOUS
    <3> QED
      BY <3>5, <3>6
  <2>8. Max(N) = z - 1
    <3>1. N \in SUBSET Int
      BY <1>1
    <3> DEFINE top == z - 1
    <3>2. top \in N /\ top \in Int /\ \A k \in N : k <= top
      BY <2>2, <2>6, <2>7
    <3> HIDE DEF N, top
    <3>3. \A x \in N : (\A y \in N : x >= y) => x = top
      BY <3>1, <3>2
    <3>4. \A y \in N : top >= y
      BY <3>1, <3>2
    <3>5. Max(N) = top
      BY <3>2, <3>3, <3>4 DEF Max
    <3> QED
      BY <3>5 DEF top
  <2>9. Hexadecimal(v) = [i \in 1..Max(N)+1 |-> Digit[1 + Nibble(Max(N) + 1 - i)]]
    BY <1>3 DEF Hexadecimal
  <2>10. (z - 1) + 1 = z
    BY <2>2
  <2>11. Hexadecimal(v) = [i \in 1..z |-> Digit[1 + Nibble(z - i)]]
    <3> DEFINE top == Max(N)
    <3>1. top + 1 = z /\ top \in Int
      BY <2>2, <2>8, <2>10
    <3>2. Hexadecimal(v) = [i \in 1..top+1 |-> Digit[1 + Nibble(top + 1 - i)]]
      BY <2>9
    <3> HIDE DEF top, Nibble
    <3>3. \A i \in 1..z : top + 1 - i = z - i
      BY <2>2, <3>1
    <3>4. Hexadecimal(v) = [i \in 1..z |-> Digit[1 + Nibble(top + 1 - i)]]
      BY <3>1, <3>2, Zenon
    <3> QED
      BY <3>3, <3>4, Zenon
  <2>12. Hexadecimal(v) = [i \in 1..z |-> Digit[1 + (Cutoff(v, 16, z, i) % 16)]]
    BY <2>11 DEF Cutoff
  <2> QED
    BY <2>2, <2>12 DEF IsDigits
<1> QED
  BY <1>2, <1>3

\* What is in a message.
Characters == STRING \cup ToSet(Digit) \cup {" ", "-", "D", "LF", "CR"}

Joined(S, abd, a, b, d) ==
  /\ abd \in Seq(S) /\ Len(abd) = Len(a) + Len(b) + Len(d)
  /\ \A i \in 1..Len(a) : abd[i] = a[i]
  /\ \A i \in 1..Len(b) : abd[Len(a) + i] = b[i]
  /\ \A i \in 1..Len(d) : abd[Len(a) + Len(b) + i] = d[i]

LEMMA ThreeParts ==
  ASSUME NEW S, NEW a \in Seq(S), NEW b \in Seq(S), NEW d \in Seq(S)
  PROVE  Joined(S, a \o b \o d, a, b, d)
<1> DEFINE ab == a \o b
           abd == ab \o d
<1>1. /\ ab \in Seq(S) /\ Len(ab) = Len(a) + Len(b)
      /\ \A i \in 1..Len(a) + Len(b) : ab[i] = IF i <= Len(a) THEN a[i] ELSE b[i - Len(a)]
  BY ConcatProperties
<1> HIDE DEF ab
<1>2. /\ abd \in Seq(S) /\ Len(abd) = Len(ab) + Len(d)
      /\ \A i \in 1..Len(ab) + Len(d) : abd[i] = IF i <= Len(ab) THEN ab[i] ELSE d[i - Len(ab)]
  <2>1. ab \in Seq(S)
    BY <1>1
  <2> QED
    BY <2>1, ConcatProperties, Zenon
<1>3. Len(a) \in Nat /\ Len(b) \in Nat /\ Len(d) \in Nat
  OBVIOUS
<1> HIDE DEF abd
<1>4. ASSUME NEW i \in 1..Len(a)
      PROVE  abd[i] = a[i]
  <2>1. i \in 1..Len(ab) + Len(d) /\ i <= Len(ab) /\ i \in 1..Len(a) + Len(b) /\ i <= Len(a)
    BY <1>1, <1>3
  <2> QED
    BY <1>1, <1>2, <2>1
<1>5. ASSUME NEW i \in 1..Len(b)
      PROVE  abd[Len(a) + i] = b[i]
  <2> DEFINE j == Len(a) + i
  <2>1. j \in 1..Len(ab) + Len(d) /\ j <= Len(ab) /\ j \in 1..Len(a) + Len(b) /\ ~(j <= Len(a))
        /\ j - Len(a) = i
    BY <1>1, <1>3
  <2> HIDE DEF j
  <2>2. abd[j] = b[i]
    BY <1>1, <1>2, <2>1
  <2> QED
    BY <2>2 DEF j
<1>6. ASSUME NEW i \in 1..Len(d)
      PROVE  abd[Len(a) + Len(b) + i] = d[i]
  <2> DEFINE j == Len(a) + Len(b) + i
  <2>1. j \in 1..Len(ab) + Len(d) /\ ~(j <= Len(ab)) /\ j - Len(ab) = i
    BY <1>1, <1>3
  <2> HIDE DEF j
  <2>2. abd[j] = d[i]
    BY <1>2, <2>1
  <2> QED
    BY <2>2 DEF j
<1> QED
  <2>1. Len(abd) = Len(a) + Len(b) + Len(d)
    BY <1>1, <1>2
  <2>2. Joined(S, abd, a, b, d)
    BY <1>2, <1>4, <1>5, <1>6, <2>1, Zenon DEF Joined
  <2> QED
    BY <2>2 DEF abd, ab

LEMMA RepeatedIs ==
  ASSUME NEW S, NEW c \in S, NEW room \in Int
  PROVE  \E r \in Nat : /\ r = IF room > 0 THEN room ELSE 0
                        /\ alt_log_repchar(c, room) \in Seq(S)
                        /\ Len(alt_log_repchar(c, room)) = r
                        /\ \A i \in 1..r : alt_log_repchar(c, room)[i] = c
<1> DEFINE r == IF room > 0 THEN room ELSE 0
           s == alt_log_repchar(c, room)
<1>1. r \in Nat /\ s = [i \in 1..r |-> c]
  BY DEF alt_log_repchar
<1>2. s \in [1..r -> S]
  BY <1>1
<1> HIDE DEF s
<1>3. s \in Seq(S) /\ Len(s) = r /\ \A i \in 1..r : s[i] = c
  <2> HIDE DEF r
  <2> QED
    BY <1>1, <1>2
<1> QED
  BY <1>1, <1>3 DEF s

\* The layout of a number: s signs, r zeros or blanks, z digits.
Sign(minus) == IF minus THEN <<"-">> ELSE <<>>
SignLength(minus) == IF minus THEN 1 ELSE 0
Blank(zero) == IF zero THEN "0" ELSE " "

Layout(zero, minus, room, digits) ==
  IF zero THEN Sign(minus) \o alt_log_repchar("0", room) \o digits
          ELSE alt_log_repchar(" ", room) \o Sign(minus) \o digits

Laid(text, zero, s, r, z, digits) ==
  /\ text \in Seq(Characters) /\ Len(text) = s + r + z
  /\ \A i \in 1..z : text[s + r + i] = digits[i]
  /\ zero => /\ \A i \in 1..s : text[i] = "-"
             /\ \A i \in 1..r : text[s + i] = "0"
  /\ ~zero => /\ \A i \in 1..r : text[i] = " "
              /\ \A i \in 1..s : text[r + i] = "-"

LEMMA CharactersAre ==
  /\ ToSet(Digit) \subseteq Characters /\ {"0", " ", "-", "D", "LF", "CR"} \subseteq Characters
  /\ STRING \subseteq Characters
<1>1. "0" \in ToSet(Digit)
  <2>1. Digit[1] = "0" /\ 1 \in DOMAIN Digit
    <3>1. Digit[1] = "0"
      BY DEF Digit
    <3>2. 1 \in DOMAIN Digit
      <4>1. DOMAIN Digit = 1..16
        BY DigitIs, Zenon
      <4> QED
        BY <4>1
    <3> QED
      BY <3>1, <3>2
  <2> QED
    BY <2>1, Zenon DEF ToSet
<1>2. ToSet(Digit) \subseteq Characters /\ {" ", "-", "D", "LF", "CR"} \subseteq Characters
      /\ STRING \subseteq Characters
  BY Zenon DEF Characters
<1> QED
  BY <1>1, <1>2

LEMMA SignIs ==
  ASSUME NEW minus \in BOOLEAN
  PROVE  /\ Sign(minus) \in Seq(Characters) /\ SignLength(minus) \in 0..1
         /\ Len(Sign(minus)) = SignLength(minus)
         /\ \A i \in 1..SignLength(minus) : Sign(minus)[i] = "-"
<1>1. CASE minus
  <2>1. Sign(minus) = <<"-">> /\ SignLength(minus) = 1
    BY <1>1 DEF Sign, SignLength
  <2>2. "-" \in Characters
    BY CharactersAre
  <2>3. <<"-">> \in Seq(Characters) /\ Len(<<"-">>) = 1
    BY <2>2
  <2>4. \A i \in 1..1 : <<"-">>[i] = "-"
    OBVIOUS
  <2> QED
    BY <2>1, <2>3, <2>4
<1>2. CASE ~minus
  <2>1. Sign(minus) = <<>> /\ SignLength(minus) = 0
    BY <1>2 DEF Sign, SignLength
  <2>2. <<>> \in Seq(Characters) /\ Len(<<>>) = 0 /\ \A i \in 1..0 : FALSE
    OBVIOUS
  <2> QED
    BY <2>1, <2>2
<1> QED
  BY <1>1, <1>2

LEMMA LaidOut ==
  ASSUME NEW zero \in BOOLEAN, NEW minus \in BOOLEAN, NEW room \in Int,
         NEW digits \in Seq(ToSet(Digit))
  PROVE  \E r \in Nat : /\ r = IF room > 0 THEN room ELSE 0
                        /\ Laid(Layout(zero, minus, room, digits), zero,
                                SignLength(minus), r, Len(digits), digits)
<1> DEFINE sign == Sign(minus)
           text == Layout(zero, minus, room, digits)
           s == SignLength(minus)
           z == Len(digits)
           blank == Blank(zero)
           pad == alt_log_repchar(blank, room)
<1>1. z \in Nat /\ digits \in Seq(Characters)
  <2>1. digits \in Seq(Characters)
    BY CharactersAre, SeqMonotonic, Zenon
  <2> QED
    BY <2>1
<1>2. sign \in Seq(Characters) /\ Len(sign) = s /\ s \in 0..1 /\ \A i \in 1..s : sign[i] = "-"
  BY SignIs
<1>3. blank \in Characters
  BY CharactersAre DEF Blank
<1>4. text = IF zero THEN sign \o pad \o digits ELSE pad \o sign \o digits
  BY Zenon DEF Layout, Blank
<1> HIDE DEF sign, s, z, blank, text
<1>5. PICK r \in Nat : /\ r = IF room > 0 THEN room ELSE 0
                       /\ pad \in Seq(Characters) /\ Len(pad) = r
                       /\ \A i \in 1..r : pad[i] = blank
  BY <1>3, RepeatedIs
<1> HIDE DEF pad
<1>6. CASE zero
  <2>1. text = sign \o pad \o digits /\ blank = "0"
    BY <1>4, <1>6 DEF blank, Blank
  <2>2. Joined(Characters, text, sign, pad, digits)
    BY <1>1, <1>2, <1>5, <2>1, ThreeParts, Zenon
  <2>3. Laid(text, zero, s, r, z, digits)
    BY <1>2, <1>5, <1>6, <2>1, <2>2 DEF Laid, z, Joined
  <2> QED
    BY <1>5, <2>3 DEF text, s, z
<1>7. CASE ~zero
  <2>1. text = pad \o sign \o digits /\ blank = " "
    BY <1>4, <1>7 DEF blank, Blank
  <2>2. Joined(Characters, text, pad, sign, digits)
    BY <1>1, <1>2, <1>5, <2>1, ThreeParts, Zenon
  <2>3. r + s = s + r /\ Len(digits) = z
    BY <1>2 DEF z
  <2>4. Laid(text, zero, s, r, z, digits)
    <3>1. /\ text \in Seq(Characters) /\ Len(text) = r + s + z
          /\ \A i \in 1..r : text[i] = " "
          /\ \A i \in 1..s : text[r + i] = "-"
          /\ \A i \in 1..z : text[r + s + i] = digits[i]
      BY <1>2, <1>5, <2>1, <2>2, <2>3 DEF Joined
    <3> QED
      BY <1>7, <2>3, <3>1 DEF Laid
  <2> QED
    BY <1>5, <2>4 DEF text, s, z
<1> QED
  BY <1>6, <1>7

\* What stands in a number: e signs and blanks, k zeros, z digits.
Stands(text, minus, e, k, z, digits) ==
  /\ text \in Seq(Characters) /\ Len(text) = e + k + z
  /\ \A i \in 1..e : text[i] \in {" ", "-"} /\ (text[i] = "-" <=> minus /\ i = e)
  /\ \A i \in 1..k : text[e + i] = "0"
  /\ \A i \in 1..z : text[e + k + i] = digits[i]

LEMMA LaidStands ==
  ASSUME NEW zero \in BOOLEAN, NEW minus \in BOOLEAN, NEW r \in Nat, NEW z \in Nat,
         NEW digits, NEW text, Laid(text, zero, SignLength(minus), r, z, digits)
  PROVE  Stands(text, minus, IF zero THEN SignLength(minus) ELSE SignLength(minus) + r,
                IF zero THEN r ELSE 0, z, digits)
<1> DEFINE s == SignLength(minus)
<1>1. s \in 0..1 /\ (minus <=> s = 1)
  BY DEF SignLength
<1>2. Laid(text, zero, s, r, z, digits)
  OBVIOUS
<1> HIDE DEF s
<1>3. CASE zero
  <2>1. text \in Seq(Characters) /\ Len(text) = s + r + z
    BY <1>2 DEF Laid
  <2>2. \A i \in 1..z : text[s + r + i] = digits[i]
    BY <1>2 DEF Laid
  <2>3. \A i \in 1..s : text[i] = "-"
    BY <1>2, <1>3, Zenon DEF Laid
  <2>4. \A i \in 1..r : text[s + i] = "0"
    BY <1>2, <1>3, Zenon DEF Laid
  <2>5. ASSUME NEW i \in 1..s
        PROVE  text[i] \in {" ", "-"} /\ (text[i] = "-" <=> minus /\ i = s)
    <3>1. i = s /\ minus
      BY <1>1
    <3>2. text[i] = "-"
      BY <2>3
    <3> QED
      BY <3>1, <3>2
  <2>6. Stands(text, minus, s, r, z, digits)
    BY <2>1, <2>2, <2>4, <2>5, Zenon DEF Stands
  <2> QED
    BY <1>3, <2>6 DEF s
<1>4. CASE ~zero
  <2>1. text \in Seq(Characters) /\ Len(text) = s + r + z
    BY <1>2 DEF Laid
  <2>2. \A i \in 1..z : text[s + r + i] = digits[i]
    BY <1>2 DEF Laid
  <2>3. \A i \in 1..r : text[i] = " "
    BY <1>2, <1>4, Zenon DEF Laid
  <2>4. \A i \in 1..s : text[r + i] = "-"
    BY <1>2, <1>4, Zenon DEF Laid
  <2>5. s + r + 0 = s + r /\ s + r \in Nat
    BY <1>1
  <2>6. ASSUME NEW i \in 1..s + r
        PROVE  text[i] \in {" ", "-"} /\ (text[i] = "-" <=> minus /\ i = s + r)
    <3>1. CASE i <= r
      <4>1. i \in 1..r /\ ~(minus /\ i = s + r)
        BY <1>1, <3>1
      <4>2. text[i] = " "
        BY <2>3, <4>1
      <4> QED
        BY <4>1, <4>2
    <3>2. CASE ~(i <= r)
      <4>1. 1 \in 1..s /\ i = r + 1 /\ i = s + r /\ minus
        BY <1>1, <3>2
      <4>2. text[r + 1] = "-"
        BY <2>4, <4>1
      <4> QED
        BY <4>1, <4>2
    <3> QED
      BY <3>1, <3>2
  <2>7. \A i \in 1..0 : text[s + r + i] = "0"
    OBVIOUS
  <2>8. \A i \in 1..z : text[s + r + 0 + i] = digits[i]
    BY <2>2, <2>5
  <2>9. Len(text) = s + r + 0 + z
    BY <2>1, <2>5
  <2>10. Stands(text, minus, s + r, 0, z, digits)
    BY <2>1, <2>6, <2>7, <2>8, <2>9, Zenon DEF Stands
  <2> QED
    BY <1>4, <2>10 DEF s
<1> QED
  BY <1>3, <1>4

\* The number that is read from it.
Reads(text, minus, base, v, e, k, z, digits, all) ==
  /\ ToSet(all) \subseteq ToSet(Digit) /\ Value(all, base) = v /\ Len(all) = k + z
  /\ \A i \in 1..e : text[i] = "-" <=> minus /\ i = e
  /\ k = 0 => all[1] = digits[1]

LEMMA NoSign == \A d \in ToSet(Digit) : d \notin {" ", "-"}
<1> SUFFICES ASSUME NEW i \in DOMAIN Digit PROVE Digit[i] \notin {" ", "-"}
  BY DEF ToSet
<1>1. DOMAIN Digit = 1..16
  BY DigitIs, Zenon
<1>2. i \in 1..16
  BY <1>1
<1> QED
  BY <1>2, DigitIs, Zenon

Rest(s, e, t, S) ==
  /\ t \in Seq(S) /\ Len(t) = Len(s) - e
  /\ \A i \in 1..Len(s) - e : t[i] = s[e + i]

LEMMA TailIs ==
  ASSUME NEW S, NEW s \in Seq(S), NEW e \in Nat, e <= Len(s)
  PROVE  Rest(s, e, SubSeq(s, e + 1, Len(s)), S)
<1>1. Len(s) \in Nat /\ \A i \in 1..Len(s) - e : e + i \in 1..Len(s) /\ s[e + i] \in S
  OBVIOUS
<1> DEFINE t == SubSeq(s, e + 1, Len(s))
<1>2. t = [i \in 1..Len(s) - e |-> s[e + i]]
  OBVIOUS
<1> HIDE DEF t
<1>3. t \in [1..Len(s) - e -> S] /\ Len(s) - e \in Nat
  BY <1>1, <1>2
<1>4. t \in Seq(S) /\ Len(t) = Len(s) - e
  BY <1>3
<1> QED
  BY <1>2, <1>4 DEF Rest, t

LEMMA StandsReads ==
  ASSUME NEW text, NEW minus \in BOOLEAN, NEW e \in Nat, NEW k \in Nat,
         NEW base \in Bases, NEW v \in Nat, NEW z, NEW digits, IsDigits(digits, base, v, z),
         Stands(text, minus, e, k, z, digits)
  PROVE  /\ e + 1 = Min({i \in DOMAIN text : text[i] \notin {" ", "-"}})
         /\ Reads(text, minus, base, v, e, k, z, digits, SubSeq(text, e + 1, Len(text)))
<1>1. z \in 1..MostDigits /\ v < base^z /\ Writes(digits, 0, base, v, z)
  BY DigitsRead
<1>2. \A i \in 1..z : digits[i] \in ToSet(Digit)
  BY DigitsRead
<1>3. z \in Nat /\ z > 0
  BY <1>1, DigitsEnough
<1>4. text \in Seq(Characters) /\ Len(text) = e + k + z /\ DOMAIN text = 1..e + k + z
  <2>1. text \in Seq(Characters) /\ Len(text) = e + k + z
    BY Zenon DEF Stands
  <2> QED
    BY <2>1
<1>5. \A i \in 1..e : text[i] \in {" ", "-"} /\ (text[i] = "-" <=> minus /\ i = e)
  BY Zenon DEF Stands
<1>6. \A i \in 1..k : text[e + i] = "0"
  BY Zenon DEF Stands
<1>7. \A i \in 1..z : text[e + k + i] = digits[i]
  BY Zenon DEF Stands
<1>8. text[e + 1] \notin {" ", "-"}
  <2>1. CASE k = 0
    <3>1. e + k + 1 = e + 1 /\ 1 \in 1..z
      BY <1>3, <2>1
    <3>2. text[e + 1] = digits[1] /\ digits[1] \in ToSet(Digit)
      BY <1>2, <1>7, <3>1
    <3> QED
      BY <3>2, NoSign
  <2>2. CASE k # 0
    <3>1. 1 \in 1..k
      BY <2>2
    <3>2. text[e + 1] = "0"
      BY <1>6, <3>1
    <3> QED
      BY <3>2
  <2> QED
    BY <2>1, <2>2
<1>9. e + 1 = Min({i \in DOMAIN text : text[i] \notin {" ", "-"}})
  <2> DEFINE S == {i \in DOMAIN text : text[i] \notin {" ", "-"}}
             f == e + 1
  <2>1. S \subseteq Int /\ f \in Int
    <3>1. S \subseteq DOMAIN text
      OBVIOUS
    <3>2. DOMAIN text \subseteq Int
      BY <1>3, <1>4
    <3>3. f \in Int
      OBVIOUS
    <3> HIDE DEF S, f
    <3> QED
      BY <3>1, <3>2, <3>3
  <2>2. f \in S
    <3>1. f \in DOMAIN text
      BY <1>3, <1>4
    <3> QED
      BY <1>8, <3>1, Zenon
  <2>3. \A i \in S : f <= i
    <3> SUFFICES ASSUME NEW i \in DOMAIN text, ~(f <= i)
                 PROVE  text[i] \in {" ", "-"}
      OBVIOUS
    <3>1. i \in 1..e
      BY <1>4
    <3> QED
      BY <1>5, <3>1, Zenon
  <2> HIDE DEF S, f
  <2>4. \A x \in S : (\A y \in S : x <= y) => x = f
    BY <2>1, <2>2, <2>3
  <2>5. f = Min(S)
    BY <2>2, <2>3, <2>4 DEF Min
  <2> QED
    BY <2>5 DEF S, f
<1> DEFINE all == SubSeq(text, e + 1, Len(text))
<1>10. /\ all \in Seq(Characters) /\ Len(all) = k + z
       /\ \A i \in 1..k + z : all[i] = text[e + i]
  <2>1. e <= Len(text) /\ Len(text) - e = k + z
    BY <1>3, <1>4
  <2>2. Rest(text, e, all, Characters)
    BY <1>4, <2>1, TailIs
  <2> QED
    BY <2>1, <2>2 DEF Rest
<1> HIDE DEF all
<1>11. \A i \in 1..k : all[i] = "0"
  <2>1. \A i \in 1..k : i \in 1..k + z
    BY <1>3
  <2> QED
    BY <1>6, <1>10, <2>1
<1>12. \A i \in 1..z : all[k + i] = digits[i]
  <2>1. \A i \in 1..z : k + i \in 1..k + z /\ e + (k + i) = e + k + i
    BY <1>3
  <2> QED
    BY <1>7, <1>10, <2>1
<1>13. Writes(all, k, base, v, z)
  <2>1. DOMAIN all = 1..k + z /\ Len(all) = k + z
    BY <1>10
  <2>2. ASSUME NEW i \in 1..z
        PROVE  all[k + i] = Digit[1 + (Cutoff(v, base, z, i) % base)]
    <3>1. 0 + i = i
      BY <1>3
    <3>2. digits[0 + i] = Digit[1 + (Cutoff(v, base, z, i) % base)]
      BY <1>1, Zenon DEF Writes
    <3> QED
      BY <1>12, <3>1, <3>2
  <2> QED
    BY <1>11, <2>1, <2>2, Zenon DEF Writes
<1>14. Value(all, base) = v /\ \A i \in 1..k + z : all[i] \in ToSet(Digit)
  BY <1>1, <1>10, <1>13, Padded
<1>15. ToSet(all) \subseteq ToSet(Digit)
  <2>1. DOMAIN all = 1..k + z
    BY <1>10
  <2> DEFINE T == ToSet(Digit)
  <2>2. \A i \in 1..k + z : all[i] \in T
    BY <1>14
  <2> HIDE DEF T
  <2>3. ToSet(all) \subseteq T
    BY <2>1, <2>2 DEF ToSet
  <2> QED
    BY <2>3 DEF T
<1>16. k = 0 => all[1] = digits[1]
  <2> SUFFICES ASSUME k = 0 PROVE all[1] = digits[1]
    OBVIOUS
  <2>1. 1 \in 1..z /\ k + 1 = 1
    BY <1>3
  <2> QED
    BY <1>12, <2>1
<1>17. \A i \in 1..e : text[i] = "-" <=> minus /\ i = e
  BY <1>5, Zenon
<1>18. Len(all) = k + z
  BY <1>10
<1>19. Reads(text, minus, base, v, e, k, z, digits, all)
  BY <1>14, <1>15, <1>16, <1>17, <1>18, Zenon DEF Reads
<1> QED
  BY <1>9, <1>19 DEF all

-----------------------------------------------------------------------------
(* What the log says of a number. *)

Minus(c, v) == c.signed /\ v >= LongMod \div 2
Size(c, v) == IF Minus(c, v) THEN LongMod - v ELSE v

NumberConversions == [zero : BOOLEAN, width : Int, base : {8, 10, 16}, signed : BOOLEAN]

LEMMA SizeIs ==
  ASSUME NEW c \in NumberConversions, NEW v \in 0..LongMod-1
  PROVE  /\ c.zero \in BOOLEAN /\ c.width \in Int /\ c.base \in Bases
         /\ Minus(c, v) \in BOOLEAN /\ Size(c, v) \in Nat /\ Size(c, v) < LongMod
<1>1. c.zero \in BOOLEAN /\ c.width \in Int /\ c.base \in Bases /\ c.signed \in BOOLEAN
  BY DEF NumberConversions, Bases
<1>2. LongMod \in Nat /\ LongMod > 1
  BY LongModIs
<1>3. LongMod \div 2 \in Nat /\ LongMod \div 2 > 0
  BY <1>2, Quotient
<1>4. Minus(c, v) \in BOOLEAN
  BY DEF Minus
<1>5. CASE Minus(c, v)
  <2>1. v > 0
    <3>1. v >= LongMod \div 2
      BY <1>5 DEF Minus
    <3> HIDE DEF Minus
    <3> QED
      BY <1>3, <3>1
  <2> QED
    BY <1>1, <1>2, <1>4, <1>5, <2>1 DEF Size
<1>6. CASE ~Minus(c, v)
  BY <1>1, <1>2, <1>4, <1>6 DEF Size
<1> QED
  BY <1>5, <1>6

LEMMA IntegerIs ==
  ASSUME NEW c \in NumberConversions, NEW v \in 0..LongMod-1
  PROVE  Integer(c, v) =
           Layout(c.zero, Minus(c, v),
                  c.width - (Len(Digits(Size(c, v), c.base)) + SignLength(Minus(c, v))),
                  Digits(Size(c, v), c.base))
<1> DEFINE digits == Digits(Size(c, v), c.base)
           sign == Sign(Minus(c, v))
           room == c.width - Len(digits) - Len(sign)
           narrow == c.width - (Len(digits) + SignLength(Minus(c, v)))
<1>1. Integer(c, v) = IF c.zero THEN sign \o alt_log_repchar("0", room) \o digits
                                ELSE alt_log_repchar(" ", room) \o sign \o digits
  BY Zenon DEF Integer, Size, Minus, Sign
<1>2. room = narrow
  <2>1. c.width \in Int /\ Minus(c, v) \in BOOLEAN /\ c.base \in Bases
        /\ Size(c, v) \in Nat /\ Size(c, v) < LongMod
    BY SizeIs
  <2>2. Len(sign) = SignLength(Minus(c, v)) /\ SignLength(Minus(c, v)) \in 0..1
    BY <2>1, SignIs
  <2>3. Len(digits) \in Nat
    <3>1. PICK z : IsDigits(digits, c.base, Size(c, v), z)
      BY <2>1, DigitsAre
    <3> HIDE DEF digits
    <3>2. digits \in Seq(ToSet(Digit))
      BY <2>1, <3>1, DigitsRead
    <3> QED
      BY <3>2
  <2> HIDE DEF digits, sign
  <2> QED
    BY <2>1, <2>2, <2>3
<1>3. Integer(c, v) = Layout(c.zero, Minus(c, v), room, digits)
  <2> HIDE DEF room, digits
  <2> QED
    BY <1>1, Zenon DEF Layout
<1> HIDE DEF room, digits
<1>4. Integer(c, v) = Layout(c.zero, Minus(c, v), narrow, digits)
  BY <1>2, <1>3, Zenon
<1> QED
  BY <1>4, Zenon DEF digits

\* A number reads as what it is.
NumberRight(c, v) ==
  LET text == Integer(c, v)
      least == Len(Digits(Size(c, v), c.base)) + SignLength(Minus(c, v))
      first == Min({i \in DOMAIN text : text[i] \notin {" ", "-"}})
      digits == SubSeq(text, first, Len(text))
  IN  /\ ToSet(digits) \subseteq ToSet(Digit) /\ Value(digits, c.base) = Size(c, v)
      /\ Len(text) = IF c.width > least THEN c.width ELSE least
      /\ \A i \in 1..first - 1 : text[i] = "-" <=> Minus(c, v) /\ i = first - 1
      /\ ~c.zero /\ Len(digits) > 1 => digits[1] # "0"

LEMMA IntegerReads ==
  ASSUME NEW c \in NumberConversions, NEW v \in 0..LongMod-1
  PROVE  NumberRight(c, v) /\ Integer(c, v) \in Seq(Characters) /\ Integer(c, v) # <<>>
<1> DEFINE minus == Minus(c, v)
           size == Size(c, v)
           D == Digits(size, c.base)
           s == SignLength(minus)
           least == Len(D) + s
           text == Integer(c, v)
           first == Min({i \in DOMAIN text : text[i] \notin {" ", "-"}})
           digits == SubSeq(text, first, Len(text))
<1>1. /\ c.zero \in BOOLEAN /\ c.width \in Int /\ c.base \in Bases
      /\ minus \in BOOLEAN /\ size \in Nat /\ size < LongMod
  BY SizeIs
<1>2. s \in 0..1
  BY DEF SignLength
<1>3. PICK z : IsDigits(D, c.base, size, z)
  BY <1>1, DigitsAre
<1>4. text = Layout(c.zero, minus, c.width - least, D)
  BY IntegerIs
<1> HIDE DEF minus, size, D, s, text
<1>5. /\ z \in 1..MostDigits /\ D \in Seq(ToSet(Digit)) /\ Writes(D, 0, c.base, size, z)
      /\ (size > 0 => D[1] # "0") /\ (z > 1 => size > 0)
  BY <1>1, <1>3, DigitsRead
<1>6. z \in Nat /\ z > 0 /\ Len(D) = z
  <2>1. Len(D) = 0 + z
    BY <1>5, Zenon DEF Writes
  <2> QED
    BY <1>5, <2>1, DigitsEnough
<1>7. least \in Nat /\ least = z + s /\ c.width - least \in Int
  BY <1>1, <1>2, <1>6
<1> HIDE DEF least
<1>8. PICK r \in Nat : /\ r = IF c.width - least > 0 THEN c.width - least ELSE 0
                       /\ Laid(text, c.zero, s, r, z, D)
  <2> DEFINE room == c.width - least
  <2>1. room \in Int
    BY <1>7
  <2> HIDE DEF room
  <2>2. \E r \in Nat : /\ r = IF room > 0 THEN room ELSE 0
                       /\ Laid(Layout(c.zero, minus, room, D), c.zero, SignLength(minus), r,
                               Len(D), D)
    BY <1>1, <1>5, <2>1, LaidOut
  <2> QED
    BY <1>4, <1>6, <2>2 DEF room, s
<1> DEFINE e == IF c.zero THEN s ELSE s + r
           k == IF c.zero THEN r ELSE 0
<1>9. Stands(text, minus, e, k, z, D)
  BY <1>1, <1>6, <1>8, LaidStands DEF s
<1>10. e \in Nat /\ k \in Nat /\ e + k = s + r /\ (e + 1) - 1 = e /\ (~c.zero => k = 0)
  BY <1>1, <1>2
<1> HIDE DEF e, k
<1>11. first = e + 1 /\ Reads(text, minus, c.base, size, e, k, z, D, digits)
  <2>1. /\ e + 1 = first
        /\ Reads(text, minus, c.base, size, e, k, z, D, SubSeq(text, e + 1, Len(text)))
    BY <1>1, <1>3, <1>9, <1>10, StandsReads
  <2> HIDE DEF first
  <2> QED
    BY <2>1
<1> HIDE DEF first, digits
<1>12. /\ ToSet(digits) \subseteq ToSet(Digit) /\ Value(digits, c.base) = size
       /\ Len(digits) = k + z
       /\ \A i \in 1..e : text[i] = "-" <=> minus /\ i = e
       /\ k = 0 => digits[1] = D[1]
  BY <1>11, Zenon DEF Reads
<1>13. text \in Seq(Characters) /\ Len(text) = e + k + z
  BY <1>9, Zenon DEF Stands
<1>14. Len(text) = IF c.width > least THEN c.width ELSE least
  BY <1>1, <1>2, <1>6, <1>7, <1>8, <1>10, <1>13
<1>15. \A i \in 1..first - 1 : text[i] = "-" <=> minus /\ i = first - 1
  <2>1. first - 1 = e
    BY <1>10, <1>11
  <2> QED
    BY <1>12, <2>1, Zenon
<1>16. ~c.zero /\ Len(digits) > 1 => digits[1] # "0"
  <2> SUFFICES ASSUME ~c.zero, Len(digits) > 1
               PROVE  digits[1] # "0"
    OBVIOUS
  <2>1. k = 0 /\ z > 1
    BY <1>6, <1>10, <1>12
  <2> QED
    BY <1>5, <1>12, <2>1
<1>17. NumberRight(c, v)
  BY <1>12, <1>14, <1>15, <1>16, Zenon
     DEF NumberRight, digits, first, text, least, D, s, size, minus
<1>18. text # <<>>
  <2>1. Len(text) > 0
    BY <1>6, <1>10, <1>13
  <2> QED
    BY <2>1
<1> QED
  BY <1>13, <1>17, <1>18 DEF text

LEMMA HexadecimalReads ==
  ASSUME NEW v \in 0..LongMod-1
  PROVE  /\ Value(Hexadecimal(v), 16) = v
         /\ v > 0 => Hexadecimal(v)[1] # "0"
<1>1. v \in Nat /\ v < LongMod /\ 16 \in Bases
  BY LongModIs DEF Bases
<1> DEFINE digits == Hexadecimal(v)
<1>2. PICK z : IsDigits(digits, 16, v, z)
  BY <1>1, HexadecimalIs
<1> HIDE DEF digits
<1>3. /\ z \in 1..MostDigits /\ v < 16^z /\ digits \in Seq(ToSet(Digit))
      /\ Writes(digits, 0, 16, v, z) /\ (v > 0 => digits[1] # "0")
  BY <1>1, <1>2, DigitsRead
<1>4. Value(digits, 16) = v
  BY <1>1, <1>3, Padded
<1> QED
  BY <1>3, <1>4 DEF digits

-----------------------------------------------------------------------------
(* The messages. *)

Messages == {NoMessage} \cup [kind : {"number"}, conversion : Conversions, value : Values]
                        \cup [kind : {"write"}, text : Texts]

LEMMA MessagesAre ==
  ASSUME NEW m \in Messages
  PROVE  /\ m.kind \in {"none", "number", "write"}
         /\ m.kind = "number" => m.conversion \in NumberConversions /\ m.value \in 0..LongMod-1
         /\ m.kind = "write" => m.text \in Seq(STRING)
<1>1. CASE m = NoMessage
  BY <1>1 DEF NoMessage
<1>2. CASE m \in [kind : {"number"}, conversion : Conversions, value : Values]
  <2>1. m.kind = "number" /\ m.conversion \in Conversions /\ m.value \in Values
    BY <1>2
  <2>2. Conversions \subseteq NumberConversions /\ Values \subseteq 0..LongMod-1
    BY LoggingAssumption, Zenon DEF LoggingAssumption, NumberConversions
  <2> QED
    BY <2>1, <2>2
<1>3. CASE m \in [kind : {"write"}, text : Texts]
  <2>1. m.kind = "write" /\ m.text \in Texts
    BY <1>3
  <2>2. Texts \subseteq Seq(STRING)
    BY LoggingAssumption, Zenon DEF LoggingAssumption
  <2> QED
    BY <2>1, <2>2
<1> QED
  BY <1>1, <1>2, <1>3 DEF Messages

LEMMA EchoIs ==
  ASSUME NEW text \in Seq(STRING)
  PROVE  /\ Echo(text) \in Seq(Characters)
         /\ Len(Echo(text)) <= ALT_LOG_WRITE_ECHO_LEN + 1
         /\ \A i \in DOMAIN Echo(text) : Echo(text)[i] # "EOT"
<1> DEFINE length == IF ALT_LOG_WRITE_ECHO_LEN > Len(text) THEN Len(text)
                                                           ELSE ALT_LOG_WRITE_ECHO_LEN
           start == [i \in 1..length-1 |-> IF text[i] = "EOT" THEN "D" ELSE text[i]]
           end == <<"LF", "CR">>
<1>1. ALT_LOG_WRITE_ECHO_LEN \in Nat
  BY LoggingAssumption, Zenon DEF LoggingAssumption
<1>2. length \in Nat /\ length <= ALT_LOG_WRITE_ECHO_LEN /\ length <= Len(text)
  BY <1>1
<1>3. Echo(text) = IF length < 2 THEN <<>> ELSE start \o end
  BY Zenon DEF Echo
<1> HIDE DEF length
<1>4. CASE length < 2
  <2>1. Echo(text) = <<>>
    BY <1>3, <1>4
  <2>2. <<>> \in Seq(Characters) /\ Len(<<>>) = 0 /\ DOMAIN <<>> = {}
    OBVIOUS
  <2> QED
    BY <1>1, <2>1, <2>2
<1>5. CASE ~(length < 2)
  <2>1. DOMAIN start = 1..length-1 /\ \A i \in 1..length-1 :
          start[i] = IF text[i] = "EOT" THEN "D" ELSE text[i]
    OBVIOUS
  <2>2. start = [i \in 1..length-1 |-> start[i]]
    OBVIOUS
  <2> HIDE DEF start
  <2>3. ASSUME NEW i \in 1..length-1
        PROVE  start[i] \in Characters \ {"EOT"}
    <3>1. text[i] \in STRING
      BY <1>2
    <3>2. start[i] = IF text[i] = "EOT" THEN "D" ELSE text[i]
      BY <2>1
    <3>3. "D" \in Characters /\ text[i] \in Characters
      BY <3>1, CharactersAre
    <3> QED
      BY <3>2, <3>3
  <2>4. start \in Seq(Characters) /\ Len(start) = length - 1
    <3>1. start \in [1..length-1 -> Characters]
      BY <2>2, <2>3
    <3> QED
      BY <1>2, <1>5, <2>1, <3>1
  <2>5. end \in Seq(Characters) /\ Len(end) = 2 /\ \A i \in 1..2 : end[i] # "EOT"
    <3>1. "LF" \in Characters /\ "CR" \in Characters
      BY CharactersAre
    <3>2. \A i \in 1..2 : i = 1 \/ i = 2
      OBVIOUS
    <3> QED
      BY <3>1, <3>2
  <2>6. Echo(text) = start \o end
    BY <1>3, <1>5
  <2> HIDE DEF end
  <2> DEFINE echo == start \o end
  <2>7. /\ echo \in Seq(Characters) /\ Len(echo) = (length - 1) + 2
        /\ \A i \in 1..(length - 1) + 2 :
             echo[i] = IF i <= length - 1 THEN start[i] ELSE end[i - (length - 1)]
    <3>1. start \in Seq(Characters) /\ end \in Seq(Characters)
      BY <2>4, <2>5
    <3>2. /\ echo \in Seq(Characters) /\ Len(echo) = Len(start) + Len(end)
          /\ \A i \in 1..Len(start) + Len(end) :
               echo[i] = IF i <= Len(start) THEN start[i] ELSE end[i - Len(start)]
      BY <3>1, ConcatProperties, Zenon
    <3> HIDE DEF echo
    <3> QED
      BY <2>4, <2>5, <3>2
  <2> HIDE DEF echo
  <2>8. ASSUME NEW i \in DOMAIN echo
        PROVE  echo[i] # "EOT"
    <3>1. i \in 1..(length - 1) + 2
      BY <1>2, <2>7
    <3>2. CASE i <= length - 1
      <4>1. i \in 1..length-1
        BY <1>2, <3>1, <3>2
      <4> QED
        BY <2>3, <2>7, <3>1, <3>2, <4>1
    <3>3. CASE ~(i <= length - 1)
      <4>1. i - (length - 1) \in 1..2
        BY <1>2, <3>1, <3>3
      <4> QED
        BY <2>5, <2>7, <3>1, <3>3, <4>1
    <3> QED
      BY <3>2, <3>3
  <2>9. Len(echo) <= ALT_LOG_WRITE_ECHO_LEN + 1
    BY <1>1, <1>2, <2>7
  <2> QED
    BY <2>6, <2>7, <2>8, <2>9 DEF echo
<1> QED
  BY <1>4, <1>5

LEMMA TextIs ==
  ASSUME NEW m \in Messages
  PROVE  Text(m) \in Seq(Characters)
<1>1. /\ m.kind \in {"none", "number", "write"}
      /\ m.kind = "number" => m.conversion \in NumberConversions /\ m.value \in 0..LongMod-1
      /\ m.kind = "write" => m.text \in Seq(STRING)
  BY MessagesAre
<1>2. <<>> \in Seq(Characters)
  OBVIOUS
<1>3. CASE m.kind = "number"
  <2>1. Integer(m.conversion, m.value) \in Seq(Characters)
    BY <1>1, <1>3, IntegerReads
  <2>2. Text(m) = Integer(m.conversion, m.value)
    BY <1>3 DEF Text
  <2> QED
    BY <2>1, <2>2
<1>4. CASE m.kind = "write"
  <2>1. Echo(m.text) \in Seq(Characters)
    BY <1>1, <1>4, EchoIs
  <2>2. Text(m) \in {Echo(m.text), <<>>}
    BY <1>4 DEF Text
  <2> QED
    BY <1>2, <2>1, <2>2
<1>5. CASE m.kind = "none"
  <2>1. Text(m) = <<>>
    BY <1>5 DEF Text
  <2> QED
    BY <1>2, <2>1
<1> QED
  BY <1>1, <1>3, <1>4, <1>5

LEMMA NumbersRead ==
  ASSUME message \in Messages
  PROVE  NumberReads
<1> SUFFICES ASSUME message.kind = "number" PROVE NumberReads
  BY DEF NumberReads
<1> DEFINE c == message.conversion
           v == message.value
<1>1. c \in NumberConversions /\ v \in 0..LongMod-1
  BY MessagesAre
<1> HIDE DEF c, v
<1>2. NumberRight(c, v)
  BY <1>1, IntegerReads
<1>3. Value(Hexadecimal(v), 16) = v /\ (v > 0 => Hexadecimal(v)[1] # "0")
  BY <1>1, HexadecimalReads
<1> QED
  BY <1>2, <1>3, Zenon DEF NumberReads, NumberRight, Minus, Size, SignLength, c, v

LEMMA EchoesSafe ==
  ASSUME message \in Messages
  PROVE  EchoSafe
<1> SUFFICES ASSUME message.kind = "write" PROVE EchoSafe
  BY DEF EchoSafe
<1> DEFINE text == message.text
<1>1. text \in Seq(STRING)
  BY MessagesAre
<1> HIDE DEF text
<1>2. /\ Len(Echo(text)) <= ALT_LOG_WRITE_ECHO_LEN + 1
      /\ \A i \in DOMAIN Echo(text) : Echo(text)[i] # "EOT"
  BY <1>1, EchoIs
<1>3. "EOT" \notin {Echo(text)[i] : i \in DOMAIN Echo(text)}
  BY <1>2
<1> QED
  BY <1>2, <1>3 DEF EchoSafe, text

-----------------------------------------------------------------------------
(* What is in order. *)

\* The numbers of a set, counted from the least.
Till(S, c) == {d \in S : d <= c}
Rank(S, c) == Cardinality(Till(S, c))

LEMMA RankType ==
  ASSUME NEW S \in SUBSET Nat, IsFiniteSet(S), NEW c \in Nat
  PROVE  /\ Rank(S, c) \in 0..Cardinality(S) /\ IsFiniteSet(Till(S, c))
         /\ c \in S => Rank(S, c) # 0
<1>1. Till(S, c) \in SUBSET S
  BY DEF Till
<1>2. IsFiniteSet(Till(S, c)) /\ Rank(S, c) <= Cardinality(S)
  BY <1>1, FS_Subset DEF Rank
<1>3. Rank(S, c) \in Nat /\ Cardinality(S) \in Nat
  BY <1>2, FS_CardinalityType DEF Rank
<1>4. c \in S => c \in Till(S, c)
  BY DEF Till
<1> QED
  BY <1>2, <1>3, <1>4, FS_EmptySet DEF Rank

LEMMA RankGrows ==
  ASSUME NEW S \in SUBSET Nat, IsFiniteSet(S), NEW c \in Nat, NEW d \in Nat, c <= d
  PROVE  /\ Rank(S, c) <= Rank(S, d)
         /\ d \in S /\ c < d => Rank(S, c) < Rank(S, d)
<1>1. Till(S, c) \in SUBSET Till(S, d)
  <2> SUFFICES ASSUME NEW x \in Till(S, c) PROVE x \in Till(S, d)
    OBVIOUS
  <2>1. x \in S /\ x \in Nat /\ x <= c
    BY DEF Till
  <2>2. x <= d
    BY <2>1
  <2> QED
    BY <2>1, <2>2 DEF Till
<1>2. d \in S /\ c < d => d \in Till(S, d) /\ d \notin Till(S, c)
  BY DEF Till
<1>3. IsFiniteSet(Till(S, d)) /\ Rank(S, d) \in Nat /\ Rank(S, c) \in Nat
  BY RankType
<1>4. /\ Cardinality(Till(S, c)) <= Cardinality(Till(S, d))
      /\ Cardinality(Till(S, d)) = Cardinality(Till(S, c)) => Till(S, d) = Till(S, c)
  BY <1>1, <1>3, FS_Subset
<1> QED
  BY <1>2, <1>3, <1>4 DEF Rank

Ordered(s, places, t, others) ==
  /\ Cardinality(places) = Cardinality(others)
  /\ \A i \in places, j \in others : Rank(places, i) = Rank(others, j) => s[i].c = t[j]

LEMMA OrderedIs ==
  ASSUME NEW s, NEW places, NEW t, NEW others, Ordered(s, places, t, others)
  PROVE  InOrder(s, places, t, others)
BY Zenon DEF Ordered, InOrder, Rank, Till

LEMMA OrderedKept ==
  ASSUME NEW s, NEW places, NEW t, NEW others, Ordered(s, places, t, others), NEW r, NEW u,
         \A i \in places : r[i] = s[i], \A j \in others : u[j] = t[j]
  PROVE  Ordered(r, places, u, others)
BY Zenon DEF Ordered

LEMMA RankAppend ==
  ASSUME NEW S \in SUBSET Nat, IsFiniteSet(S), NEW z \in Nat, \A d \in S : d < z
  PROVE  /\ S \cup {z} \in SUBSET Nat /\ IsFiniteSet(S \cup {z})
         /\ Cardinality(S) \in Nat /\ Cardinality(S \cup {z}) = Cardinality(S) + 1
         /\ \A d \in S : Rank(S \cup {z}, d) = Rank(S, d) /\ Rank(S, d) \in 1..Cardinality(S)
         /\ Rank(S \cup {z}, z) = Cardinality(S) + 1
<1>1. S \cup {z} \in SUBSET Nat /\ IsFiniteSet(S \cup {z}) /\ z \notin S
  <2>1. z \notin S
    OBVIOUS
  <2>2. IsFiniteSet(S \cup {z})
    BY FS_AddElement
  <2> QED
    BY <2>1, <2>2
<1>2. Cardinality(S) \in Nat /\ Cardinality(S \cup {z}) = Cardinality(S) + 1
  BY <1>1, FS_CardinalityType, FS_AddElement
<1>3. ASSUME NEW d \in S
      PROVE  Rank(S \cup {z}, d) = Rank(S, d) /\ Rank(S, d) \in 1..Cardinality(S)
  <2>1. Till(S \cup {z}, d) = Till(S, d)
    <3>1. ~(z <= d)
      OBVIOUS
    <3> QED
      BY <3>1 DEF Till
  <2>2. Rank(S, d) \in 0..Cardinality(S) /\ Rank(S, d) # 0
    BY RankType
  <2>3. Rank(S, d) \in 1..Cardinality(S)
    BY <1>2, <2>2
  <2> QED
    BY <2>1, <2>3 DEF Rank
<1>4. Rank(S \cup {z}, z) = Cardinality(S) + 1
  <2>1. \A d \in S \cup {z} : d <= z
    OBVIOUS
  <2>2. Till(S \cup {z}, z) = S \cup {z}
    BY <2>1 DEF Till
  <2> QED
    BY <1>2, <2>2 DEF Rank
<1> QED
  BY <1>1, <1>2, <1>3, <1>4

\* A character more at the end of both.
LEMMA OrderedGrows ==
  ASSUME NEW P \in SUBSET Nat, IsFiniteSet(P), NEW m \in Nat, \A i \in P : i < m,
         NEW O \in SUBSET Nat, IsFiniteSet(O), NEW z \in Nat, \A j \in O : j < z,
         NEW s, NEW t, Ordered(s, P, t, O), NEW r,
         \A i \in P : r[i] = s[i], r[m].c = t[z]
  PROVE  Ordered(r, P \cup {m}, t, O \cup {z})
<1>1. /\ Cardinality(P) \in Nat /\ Cardinality(P \cup {m}) = Cardinality(P) + 1
      /\ Rank(P \cup {m}, m) = Cardinality(P) + 1
  BY RankAppend
<1>2. \A i \in P : Rank(P \cup {m}, i) = Rank(P, i) /\ Rank(P, i) \in 1..Cardinality(P)
  BY RankAppend
<1>3. /\ Cardinality(O) \in Nat /\ Cardinality(O \cup {z}) = Cardinality(O) + 1
      /\ Rank(O \cup {z}, z) = Cardinality(O) + 1
  BY RankAppend
<1>4. \A j \in O : Rank(O \cup {z}, j) = Rank(O, j) /\ Rank(O, j) \in 1..Cardinality(O)
  BY RankAppend
<1>5. Cardinality(P) = Cardinality(O)
      /\ \A i \in P, j \in O : Rank(P, i) = Rank(O, j) => s[i].c = t[j]
  BY Zenon DEF Ordered
<1>6. ASSUME NEW i \in P \cup {m}, NEW j \in O \cup {z},
             Rank(P \cup {m}, i) = Rank(O \cup {z}, j)
      PROVE  r[i].c = t[j]
  <2>1. CASE i \in P /\ j \in O
    <3>1. Rank(P, i) = Rank(O, j) /\ r[i] = s[i]
      BY <1>2, <1>4, <1>6, <2>1
    <3> QED
      BY <1>5, <2>1, <3>1
  <2>2. CASE i = m /\ j = z
    BY <2>2
  <2>3. CASE i \in P /\ j = z
    <3> DEFINE x == Rank(P, i)
    <3>1. x \in 1..Cardinality(P) /\ x = Cardinality(P) + 1
      BY <1>2, <1>3, <1>5, <1>6, <2>3
    <3> HIDE DEF x
    <3> QED
      BY <1>1, <3>1
  <2>4. CASE i = m /\ j \in O
    <3> DEFINE x == Rank(O, j)
    <3>1. x \in 1..Cardinality(O) /\ x = Cardinality(O) + 1
      BY <1>1, <1>4, <1>5, <1>6, <2>4
    <3> HIDE DEF x
    <3> QED
      BY <1>3, <3>1
  <2> QED
    BY <2>1, <2>2, <2>3, <2>4
<1>7. Cardinality(P \cup {m}) = Cardinality(O \cup {z})
  BY <1>1, <1>3, <1>5
<1> QED
  BY <1>6, <1>7, Zenon DEF Ordered

-----------------------------------------------------------------------------
(* The inductive invariant of the log. *)

\* What a host gets.
Letters == [who : {"program"}, c : Characters] \cup [who : {"handler"}, c : 1..3]

LogTypes ==
  /\ message \in Messages /\ ready \in BOOLEAN /\ interrupts \in Nat
  /\ received \in Seq(Letters) /\ uart \in Seq(Letters)

\* The rest is the message's end, and what an interrupt has left is the end of its
\* report.
RestInv ==
  /\ rest \in Seq(Characters) /\ Len(rest) <= Len(Text(message))
  /\ \A i \in 1..Len(rest) : rest[i] = Text(message)[Len(Text(message)) - Len(rest) + i]
  /\ ready => rest # <<>>

HandlerInv ==
  /\ handler \in Seq(1..3) /\ Len(handler) <= 3
  /\ \A i \in 1..Len(handler) : handler[i] = 3 - Len(handler) + i

\* A report is whole but the last, which is going on.
WholeInv ==
  /\ Cardinality(By("handler")) + Len(handler) = interrupts * 3
  /\ \A i \in By("handler") :
       Sent[i].c < 3 =>
         IF i = Len(Sent) THEN Len(handler) = 3 - Sent[i].c
         ELSE Sent[i + 1].who = "handler" /\ Sent[i + 1].c = Sent[i].c + 1

\* Where the program has seen space that an interrupt took, one of the
\* interrupts has not cost a character yet.
Gone == Len(Text(message)) - Len(rest)

LostInv ==
  \E lost \in SUBSET (1..Gone) :
    /\ Cardinality(lost) <= interrupts
    /\ ready /\ (handler # <<>> \/ Len(uart) >= WSpace) => Cardinality(lost) < interrupts
    /\ Ordered(Sent, By("program"), Text(message), (1..Gone) \ lost)

LogInv == LogTypes /\ RestInv /\ HandlerInv /\ WholeInv /\ LostInv

-----------------------------------------------------------------------------
(* What is sent. *)

LEMMA SentIs ==
  ASSUME LogTypes
  PROVE  /\ Sent \in Seq(Letters) /\ Len(Sent) \in Nat /\ DOMAIN Sent = 1..Len(Sent)
         /\ By("handler") \in SUBSET (1..Len(Sent)) /\ By("handler") \in SUBSET Nat
         /\ By("program") \in SUBSET (1..Len(Sent)) /\ By("program") \in SUBSET Nat
         /\ IsFiniteSet(By("handler")) /\ IsFiniteSet(By("program"))
<1>1. Sent \in Seq(Letters)
  BY DEF LogTypes, Sent
<1>2. Len(Sent) \in Nat /\ DOMAIN Sent = 1..Len(Sent)
  BY <1>1
<1>3. By("handler") \in SUBSET (1..Len(Sent)) /\ By("program") \in SUBSET (1..Len(Sent))
  BY <1>2, Zenon DEF By
<1>4. IsFiniteSet(1..Len(Sent)) /\ 1..Len(Sent) \in SUBSET Nat
  BY <1>2, FS_Interval
<1>5. /\ By("handler") \in SUBSET Nat /\ IsFiniteSet(By("handler"))
      /\ By("program") \in SUBSET Nat /\ IsFiniteSet(By("program"))
  BY <1>3, <1>4, FS_Subset
<1> QED
  BY <1>1, <1>2, <1>3, <1>5

\* A character goes into the UART.
LEMMA SentGrows ==
  ASSUME LogTypes, NEW x \in Letters, uart' = Append(uart, x), received' = received
  PROVE  /\ uart' \in Seq(Letters) /\ Len(Sent') = Len(Sent) + 1
         /\ \A i \in 1..Len(Sent) : Sent'[i] = Sent[i]
         /\ Sent'[Len(Sent) + 1] = x
         /\ \A who : By(who)' = IF x.who = who THEN By(who) \cup {Len(Sent) + 1} ELSE By(who)
<1>1. received \in Seq(Letters) /\ uart \in Seq(Letters)
  BY DEF LogTypes
<1>2. uart' \in Seq(Letters)
  BY <1>1
<1>3. Sent' = Append(Sent, x)
  <2>1. Sent' = received \o Append(uart, x)
    BY DEF Sent
  <2>2. received \o Append(uart, x) = Append(received \o uart, x)
    BY <1>1
  <2> QED
    BY <2>1, <2>2 DEF Sent
<1>4. Sent \in Seq(Letters) /\ Len(Sent) \in Nat /\ DOMAIN Sent = 1..Len(Sent)
  BY SentIs
<1> DEFINE s == Sent
           r == Sent'
<1>5. r = Append(s, x) /\ s \in Seq(Letters)
  BY <1>3, <1>4
<1> HIDE DEF s, r
<1>6. /\ Len(r) = Len(s) + 1 /\ DOMAIN r = 1..Len(s) + 1
      /\ \A i \in 1..Len(s) : r[i] = s[i]
      /\ r[Len(s) + 1] = x
  BY <1>5
<1>7. Len(s) \in Nat /\ DOMAIN s = 1..Len(s)
  BY <1>5
<1>8. ASSUME NEW who
      PROVE  By(who)' = IF x.who = who THEN By(who) \cup {Len(Sent) + 1} ELSE By(who)
  <2> DEFINE z == Len(s) + 1
             Y == {i \in DOMAIN s : s[i].who = who}
             C == {i \in DOMAIN r : r[i].who = who}
  <2>1. DOMAIN r = DOMAIN s \cup {z} /\ \A i \in DOMAIN s : r[i] = s[i]
    BY <1>6, <1>7
  <2>2. r[z] = x
    BY <1>6
  <2> HIDE DEF z
  <2>3. C = IF x.who = who THEN Y \cup {z} ELSE Y
    BY <2>1, <2>2
  <2>4. By(who) = Y /\ By(who)' = C
    BY DEF By, s, r
  <2> QED
    BY <2>3, <2>4 DEF z, s
<1> QED
  BY <1>2, <1>6, <1>8 DEF s, r

\* The host takes one.
LEMMA SentStays ==
  ASSUME LogTypes, HostReads
  PROVE  /\ uart' \in Seq(Letters) /\ received' \in Seq(Letters) /\ Len(uart') < Len(uart)
         /\ Sent' = Sent
<1>1. received \in Seq(Letters) /\ uart \in Seq(Letters) /\ uart # <<>>
      /\ received' = Append(received, Head(uart)) /\ uart' = Tail(uart)
  BY DEF LogTypes, HostReads
<1>2. Head(uart) \in Letters /\ Tail(uart) \in Seq(Letters) /\ Len(Tail(uart)) < Len(uart)
  BY <1>1
<1>3. Append(received, Head(uart)) \o Tail(uart) = received \o uart
  BY <1>1
<1>4. Sent' = Sent
  BY <1>1, <1>3 DEF Sent
<1> QED
  BY <1>1, <1>2, <1>4

-----------------------------------------------------------------------------
(* The steps of the log. *)

\* Nothing is sent and nothing gone before a message begins.
Beginning ==
  /\ message \in Messages /\ rest \in {<<>>, Text(message)} /\ Len(rest) = Len(Text(message))
  /\ ready = FALSE /\ handler = <<>> /\ uart = <<>> /\ received = <<>> /\ interrupts = 0

LEMMA NothingGone == Beginning => LogInv
<1> SUFFICES ASSUME message \in Messages, rest \in {<<>>, Text(message)},
                    Len(rest) = Len(Text(message)), ready = FALSE, handler = <<>>,
                    uart = <<>>, received = <<>>, interrupts = 0
             PROVE  LogInv
  BY DEF Beginning
<1>1. Text(message) \in Seq(Characters) /\ <<>> \in Seq(Characters)
  BY TextIs
<1> DEFINE t == Text(message)
<1>2. t \in Seq(Characters) /\ Len(t) \in Nat
  BY <1>1
<1> HIDE DEF t
<1>3. LogTypes
  BY Zenon, EmptySeq DEF LogTypes
<1>4. RestInv
  <2>1. rest = t
    <3>1. CASE rest = <<>>
      <4>1. Len(t) = 0
        BY <3>1 DEF t
      <4> QED
        BY <1>2, <3>1, <4>1
    <3>2. CASE rest = Text(message)
      BY <3>2 DEF t
    <3> QED
      BY <3>1, <3>2
  <2>2. \A i \in 1..Len(t) : Len(t) - Len(t) + i = i
    BY <1>2
  <2> QED
    BY <1>2, <2>1, <2>2 DEF RestInv, t
<1>5. HandlerInv
  BY DEF HandlerInv
<1>6. Sent = <<>> /\ Len(<<>>) = 0 /\ DOMAIN <<>> = {}
  BY DEF Sent
<1>7. By("handler") = {} /\ By("program") = {}
  BY <1>6 DEF By
<1>8. Cardinality({}) = 0
  BY FS_EmptySet
<1>9. WholeInv
  <2>1. Cardinality(By("handler")) + Len(handler) = interrupts * 3
    <3>1. Cardinality(By("handler")) = 0
      BY <1>7, <1>8
    <3>2. Len(handler) = 0
      BY <1>6
    <3> QED
      BY <3>1, <3>2
  <2>2. \A i \in By("handler") : FALSE
    BY <1>7
  <2> QED
    BY <2>1, <2>2 DEF WholeInv
<1>10. LostInv
  <2>1. Gone = 0
    BY <1>2 DEF Gone, t
  <2>2. {} \in SUBSET (1..Gone) /\ (1..Gone) \ {} = {}
    BY <2>1
  <2>3. Ordered(Sent, By("program"), Text(message), {})
    BY <1>7 DEF Ordered
  <2>4. Cardinality({}) <= interrupts /\ ~ready
    BY <1>8
  <2> QED
    BY <2>2, <2>3, <2>4, Zenon DEF LostInv
<1> QED
  BY <1>3, <1>4, <1>5, <1>9, <1>10 DEF LogInv

LEMMA LogInitial == LoggingInit => LogInv
<1> SUFFICES ASSUME LoggingInit PROVE LogInv
  OBVIOUS
<1>1. /\ message = NoMessage /\ rest = <<>> /\ ready = FALSE /\ handler = <<>> /\ uart = <<>>
      /\ received = <<>> /\ interrupts = 0
  BY DEF LoggingInit
<1>2. message \in Messages
  BY <1>1 DEF Messages
<1>3. Text(message) = <<>>
  BY <1>1 DEF Text, NoMessage
<1> QED
  BY <1>1, <1>2, <1>3, NothingGone DEF Beginning

LEMMA LogStep ==
  ASSUME LogInv, Log
  PROVE  LogInv'
<1>1. /\ handler = <<>> /\ uart = <<>> /\ rest = <<>>
      /\ message' \in Messages /\ rest' = Text(message')
      /\ received' = <<>> /\ interrupts' = 0 /\ ready' = ready /\ handler' = handler
      /\ uart' = uart
  <2>1. message' \in Messages
    BY DEF Log, Messages
  <2> QED
    BY <2>1 DEF Log
<1>2. ready = FALSE
  <2>1. ready \in BOOLEAN /\ (ready => rest # <<>>)
    BY DEF LogInv, LogTypes, RestInv
  <2> QED
    BY <1>1, <2>1
<1>3. Beginning'
  BY <1>1, <1>2 DEF Beginning
<1>4. Beginning' => LogInv'
  BY NothingGone, PTL
<1> QED
  BY <1>3, <1>4

\* What keeps what is sent keeps what is said of it.
LEMMA SentKept ==
  ASSUME LogInv, Sent' = Sent, UNCHANGED <<message, rest>>
  PROVE  /\ Len(Sent)' = Len(Sent) /\ Gone' = Gone /\ Text(message)' = Text(message)
         /\ By("handler")' = By("handler") /\ By("program")' = By("program")
         /\ (ready' => rest # <<>>) => RestInv'
<1>1. Text(message)' = Text(message)
  BY DEF Text, Integer, Echo, Digits, Flags, alt_log_repchar, Digit
<1>2. Gone' = Gone
  BY <1>1 DEF Gone
<1>3. By("handler")' = By("handler") /\ By("program")' = By("program")
  BY DEF By
<1>4. (ready' => rest # <<>>) => RestInv'
  BY <1>1 DEF LogInv, RestInv
<1> QED
  BY <1>1, <1>2, <1>3, <1>4

\* Steps at which nothing is sent: the program sees space, a report begins, a tick
\* is counted, the host reads.
Quiet ==
  /\ LogTypes' /\ HandlerInv' /\ Sent' = Sent /\ message' = message /\ rest' = rest
  /\ ready' => rest # <<>>
  /\ Len(handler') - Len(handler) = (interrupts' - interrupts) * 3
  /\ interrupts' \in {interrupts, interrupts + 1}
  /\ handler' = handler \/ (handler = <<>> /\ interrupts' = interrupts + 1)
  /\ \/ ~ready'
     \/ interrupts' = interrupts + 1
     \/ ~ready /\ handler' = <<>> /\ Len(uart') < WSpace
     \/ ready /\ handler' = handler /\ Len(uart') <= Len(uart)

LEMMA QuietStep ==
  ASSUME LogInv, Quiet
  PROVE  LogInv'
<1> SUFFICES ASSUME LogTypes', HandlerInv', Sent' = Sent, message' = message, rest' = rest,
                    ready' => rest # <<>>,
                    Len(handler') - Len(handler) = (interrupts' - interrupts) * 3,
                    interrupts' \in {interrupts, interrupts + 1},
                    handler' = handler \/ (handler = <<>> /\ interrupts' = interrupts + 1),
                    \/ ~ready'
                    \/ interrupts' = interrupts + 1
                    \/ ~ready /\ handler' = <<>> /\ Len(uart') < WSpace
                    \/ ready /\ handler' = handler /\ Len(uart') <= Len(uart)
             PROVE  LogInv'
  BY Zenon DEF Quiet
<1>1. /\ Len(Sent)' = Len(Sent) /\ Gone' = Gone /\ Text(message)' = Text(message)
      /\ By("handler")' = By("handler") /\ By("program")' = By("program") /\ RestInv'
  BY SentKept
<1>2. LogTypes /\ HandlerInv /\ WholeInv /\ LostInv
  BY DEF LogInv
<1>3. WholeInv'
  <2>1. /\ Cardinality(By("handler")) + Len(handler) = interrupts * 3
        /\ \A i \in By("handler") :
             Sent[i].c < 3 =>
               IF i = Len(Sent) THEN Len(handler) = 3 - Sent[i].c
               ELSE Sent[i + 1].who = "handler" /\ Sent[i + 1].c = Sent[i].c + 1
    BY <1>2 DEF WholeInv
  <2>2. Cardinality(By("handler")) \in Nat /\ interrupts \in Nat /\ Len(handler) \in Nat
        /\ Len(handler') \in Nat /\ interrupts' \in Nat
    <3>1. Cardinality(By("handler")) \in Nat
      BY <1>2, SentIs, FS_CardinalityType
    <3>2. handler \in Seq(1..3) /\ interrupts \in Nat
      BY <1>2 DEF LogTypes, HandlerInv
    <3>3. handler' \in Seq(1..3) /\ interrupts' \in Nat
      BY DEF LogTypes, HandlerInv
    <3>4. Len(handler) \in Nat /\ Len(handler') \in Nat
      BY <3>2, <3>3, LenProperties, Zenon
    <3> QED
      BY <3>1, <3>2, <3>3, <3>4, Zenon
  <2>6. Len(handler') - Len(handler) = (interrupts' - interrupts) * 3
    BY Zenon
  <2>3. Cardinality(By("handler")) + Len(handler') = interrupts' * 3
    <3>1. Cardinality(By("handler")) + Len(handler) = interrupts * 3
      BY <2>1
    <3> QED
      BY <2>2, <2>6, <3>1
  <2>4. ASSUME NEW i \in By("handler"), Sent[i].c < 3
        PROVE  IF i = Len(Sent) THEN Len(handler') = 3 - Sent[i].c
               ELSE Sent[i + 1].who = "handler" /\ Sent[i + 1].c = Sent[i].c + 1
    <3>1. handler = <<>> => i # Len(Sent)
      <4> SUFFICES ASSUME handler = <<>>, i = Len(Sent) PROVE FALSE
        OBVIOUS
      <4>1. Len(handler) = 0 /\ 0 = 3 - Sent[i].c
        BY <2>1, <2>4
      <4>2. Sent[i].c \in 1..3
        <5>1. i \in 1..Len(Sent) /\ Sent \in Seq(Letters) /\ Sent[i].who = "handler"
          BY <1>2, SentIs DEF By
        <5>2. Sent[i] \in Letters
          BY <5>1
        <5> QED
          BY <5>1, <5>2 DEF Letters
      <4> QED
        BY <2>4, <4>1, <4>2
    <3> QED
      BY <2>1, <2>4, <3>1
  <2>5. By("handler")' = By("handler") /\ Sent' = Sent
    BY <1>1
  <2> QED
    BY <2>3, <2>4, <2>5 DEF WholeInv
<1>4. LostInv'
  <2>1. PICK lost \in SUBSET (1..Gone) :
          /\ Cardinality(lost) <= interrupts
          /\ ready /\ (handler # <<>> \/ Len(uart) >= WSpace) => Cardinality(lost) < interrupts
          /\ Ordered(Sent, By("program"), Text(message), (1..Gone) \ lost)
    BY <1>2, Zenon DEF LostInv
  <2>2. /\ Cardinality(lost) \in Nat /\ interrupts \in Nat
        /\ Len(uart) \in Nat /\ Len(uart') \in Nat /\ WSpace \in Nat
    <3>1. Gone \in Int
      <4>1. Text(message) \in Seq(Characters) /\ rest \in Seq(Characters)
        BY <1>2, TextIs DEF LogTypes, LogInv, RestInv
      <4> QED
        BY <4>1 DEF Gone
    <3>2. IsFiniteSet(1..Gone) /\ 1..Gone \in SUBSET Int
      BY <3>1, FS_Interval
    <3>3. Cardinality(lost) \in Nat
      BY <3>2, FS_Subset, FS_CardinalityType
    <3>4. WSpace \in Nat
      BY LoggingAssumption, Zenon DEF LoggingAssumption
    <3>5. uart \in Seq(Letters) /\ uart' \in Seq(Letters) /\ interrupts \in Nat
      BY <1>2 DEF LogTypes
    <3> QED
      BY <3>3, <3>4, <3>5
  <2>3. Cardinality(lost) <= interrupts'
    BY <2>1, <2>2
  <2>4. ready' /\ (handler' # <<>> \/ Len(uart') >= WSpace) => Cardinality(lost) < interrupts'
    BY <2>1, <2>2
  <2>5. Ordered(Sent', By("program")', Text(message)', (1..Gone') \ lost)
    BY <1>1, <2>1
  <2>6. lost \in SUBSET (1..Gone')
    BY <1>1
  <2> QED
    BY <2>3, <2>4, <2>5, <2>6 DEF LostInv
<1> QED
  BY <1>1, <1>3, <1>4 DEF LogInv

\* What an interrupt's message is.
LEMMA Reports ==
  ASSUME LogTypes, HandlerInv, Interrupted(Report)
  PROVE  /\ handler = <<>> /\ Len(handler) = 0 /\ Len(handler') = 3 /\ HandlerInv'
         /\ interrupts \in Nat /\ interrupts' = interrupts + 1
         /\ Sent' = Sent /\ LogTypes' /\ UNCHANGED <<message, rest, ready, uart, received>>
<1>1. /\ handler = <<>> /\ handler' = <<1, 2, 3>> /\ interrupts' = interrupts + 1
      /\ UNCHANGED <<message, rest, ready, uart, received>>
  BY DEF Interrupted, Report
<1>2. Len(handler) = 0 /\ Len(handler') = 3
  BY <1>1
<1>3. HandlerInv'
  <2> DEFINE h == handler'
  <2>1. h = <<1, 2, 3>> /\ h \in Seq(1..3) /\ Len(h) = 3
    BY <1>1
  <2>2. \A i \in 1..Len(h) : h[i] = 3 - Len(h) + i
    BY <2>1
  <2> HIDE DEF h
  <2>3. h \in Seq(1..3) /\ Len(h) <= 3 /\ \A i \in 1..Len(h) : h[i] = 3 - Len(h) + i
    BY <2>1, <2>2
  <2> USE DEF h
  <2> QED
    BY <2>3 DEF HandlerInv
<1>4. LogTypes'
  BY <1>1 DEF LogTypes
<1> QED
  BY <1>1, <1>2, <1>3, <1>4 DEF LogTypes, Sent

LEMMA ReportStep ==
  ASSUME LogInv, Interrupted(Report)
  PROVE  LogInv'
<1>1. LogTypes /\ HandlerInv /\ (ready => rest # <<>>)
  BY DEF LogInv, RestInv
<1>2. /\ handler = <<>> /\ Len(handler) = 0 /\ Len(handler') = 3 /\ HandlerInv'
      /\ interrupts \in Nat /\ interrupts' = interrupts + 1
      /\ Sent' = Sent /\ LogTypes' /\ UNCHANGED <<message, rest, ready, uart, received>>
  BY <1>1, Reports
<1>3. Len(handler') - Len(handler) = (interrupts' - interrupts) * 3
  BY <1>2
<1> QED
  BY <1>1, <1>2, <1>3, QuietStep DEF Quiet

\* Nothing of an interrupt's.
LEMMA OwnStep ==
  ASSUME LogInv, LogTypes', Sent' = Sent, UNCHANGED <<message, rest, handler, interrupts>>,
         ready' => rest # <<>>,
         \/ ~ready /\ handler = <<>> /\ Len(uart') < WSpace
         \/ ready' = ready /\ Len(uart') <= Len(uart)
  PROVE  LogInv'
<1>1. LogTypes /\ HandlerInv
  BY DEF LogInv
<1>2. HandlerInv'
  BY <1>1 DEF HandlerInv
<1>3. interrupts \in Nat /\ Len(handler) \in Nat /\ ready \in BOOLEAN
  BY <1>1 DEF LogTypes, HandlerInv
<1>4. Len(handler') - Len(handler) = (interrupts' - interrupts) * 3
  BY <1>3
<1>5. \/ ~ready'
      \/ ~ready /\ handler' = <<>> /\ Len(uart') < WSpace
      \/ ready /\ handler' = handler /\ Len(uart') <= Len(uart)
  BY <1>3, Zenon
<1>6. Sent' = Sent /\ LogTypes' /\ message' = message /\ rest' = rest /\ handler' = handler
      /\ interrupts' \in {interrupts, interrupts + 1}
  OBVIOUS
<1>7. ready' => rest # <<>>
  BY Zenon
<1>8. Quiet
  BY <1>2, <1>4, <1>5, <1>6, <1>7, Zenon DEF Quiet
<1> QED
  BY <1>8, QuietStep

LEMMA SeeReadyStep ==
  ASSUME LogInv, SeeReady
  PROVE  LogInv'
<1>1. /\ rest # <<>> /\ handler = <<>> /\ ~ready /\ Len(uart) < WSpace /\ ready' = TRUE
      /\ UNCHANGED <<message, rest, handler, uart, received, interrupts>>
  BY DEF SeeReady
<1>2. LogTypes' /\ Sent' = Sent
  BY <1>1 DEF LogInv, LogTypes, Sent
<1> QED
  BY <1>1, <1>2, OwnStep

LEMMA StillStep ==
  ASSUME LogInv, UNCHANGED <<message, rest, ready, handler, uart, received, interrupts>>
  PROVE  LogInv'
<1>1. LogTypes' /\ Sent' = Sent
  BY DEF LogInv, LogTypes, Sent
<1>2. (ready => rest # <<>>) /\ Len(uart) \in Nat
  BY DEF LogInv, LogTypes, RestInv
<1>3. Len(uart') <= Len(uart)
  BY <1>2
<1> QED
  BY <1>1, <1>2, <1>3, OwnStep

LEMMA HostStep ==
  ASSUME LogInv, HostReads
  PROVE  LogInv'
<1>1. LogTypes /\ (ready => rest # <<>>)
  BY DEF LogInv, RestInv
<1>2. /\ uart' \in Seq(Letters) /\ received' \in Seq(Letters) /\ Len(uart') < Len(uart)
      /\ Sent' = Sent
  BY <1>1, SentStays
<1>3. UNCHANGED <<message, rest, ready, handler, interrupts>>
  BY DEF HostReads
<1>4. LogTypes'
  BY <1>1, <1>2, <1>3 DEF LogTypes
<1>5. Len(uart') <= Len(uart)
  <2>1. uart \in Seq(Letters)
    BY <1>1 DEF LogTypes
  <2>2. Len(uart) \in Nat /\ Len(uart') \in Nat
    BY <1>2, <2>1
  <2> QED
    BY <1>2, <2>2
<1> QED
  BY <1>1, <1>2, <1>3, <1>4, <1>5, OwnStep

LEMMA ClockStep ==
  ASSUME LogInv, alt_log_system_clock
  PROVE  LogInv'
<1>1. \/ Interrupted(Report)
      \/ UNCHANGED <<message, rest, ready, handler, uart, received, interrupts>>
  BY DEF alt_log_system_clock
<1> QED
  BY <1>1, ReportStep, StillStep

-----------------------------------------------------------------------------
(* A character goes into the UART. *)

LEMMA TextKept ==
  ASSUME LogTypes, UNCHANGED message
  PROVE  /\ Text(message)' = Text(message) /\ Text(message) \in Seq(Characters)
<1>1. Text(message)' = Text(message)
  BY DEF Text, Integer, Echo, Digits, Flags, alt_log_repchar, Digit
<1> QED
  BY <1>1, TextIs DEF LogTypes

\* The program's characters that are gone.
LEMMA GoneIs ==
  ASSUME LogTypes, RestInv
  PROVE  /\ Text(message) \in Seq(Characters) /\ rest \in Seq(Characters)
         /\ Len(Text(message)) \in Nat /\ Len(rest) \in Nat /\ Gone \in Nat
         /\ IsFiniteSet(1..Gone) /\ 1..Gone \in SUBSET Nat
<1>1. Text(message) \in Seq(Characters) /\ rest \in Seq(Characters)
  BY TextIs DEF LogTypes, RestInv
<1>2. Len(Text(message)) \in Nat /\ Len(rest) \in Nat /\ Len(rest) <= Len(Text(message))
  BY <1>1 DEF RestInv
<1>3. Gone \in Nat
  BY <1>2 DEF Gone
<1>4. IsFiniteSet(1..Gone) /\ 1..Gone \in SUBSET Nat
  BY <1>3, FS_Interval
<1> QED
  BY <1>1, <1>2, <1>3, <1>4

LEMMA NotEmpty ==
  ASSUME NEW S, NEW s \in Seq(S), s # <<>>
  PROVE  /\ Len(s) \in Nat /\ Len(s) # 0 /\ Head(s) = s[1] /\ s[1] \in S
         /\ Tail(s) \in Seq(S) /\ Len(Tail(s)) = Len(s) - 1
         /\ \A i \in 1..Len(s) - 1 : Tail(s)[i] = s[i + 1]
OBVIOUS

\* The handler's characters come in their order.
LEMMA EndOfReport ==
  ASSUME NEW h \in Seq(1..3), Len(h) <= 3, h # <<>>, \A i \in 1..Len(h) : h[i] = 3 - Len(h) + i
  PROVE  /\ Len(h) \in 1..3 /\ Head(h) = 4 - Len(h)
         /\ Tail(h) \in Seq(1..3) /\ Len(Tail(h)) = Len(h) - 1
         /\ \A i \in 1..Len(Tail(h)) : Tail(h)[i] = 3 - Len(Tail(h)) + i
<1>1. /\ Len(h) \in Nat /\ Len(h) # 0 /\ Head(h) = h[1]
      /\ Tail(h) \in Seq(1..3) /\ Len(Tail(h)) = Len(h) - 1
      /\ \A i \in 1..Len(h) - 1 : Tail(h)[i] = h[i + 1]
  BY NotEmpty
<1>2. Len(h) \in 1..3
  BY <1>1
<1>3. h[1] = 4 - Len(h)
  BY <1>2
<1>4. ASSUME NEW i \in 1..Len(Tail(h))
      PROVE  Tail(h)[i] = 3 - Len(Tail(h)) + i
  <2>1. i + 1 \in 1..Len(h) /\ Tail(h)[i] = h[i + 1]
    BY <1>1, <1>2
  <2>2. h[i + 1] = 3 - Len(h) + (i + 1)
    BY <2>1
  <2> QED
    BY <1>1, <1>2, <2>1, <2>2
<1> QED
  BY <1>1, <1>2, <1>3, <1>4

LEMMA HandlerHead ==
  ASSUME HandlerInv, handler # <<>>
  PROVE  /\ Len(handler) \in 1..3 /\ Head(handler) = 4 - Len(handler)
         /\ Tail(handler) \in Seq(1..3) /\ Len(Tail(handler)) = Len(handler) - 1
         /\ \A i \in 1..Len(Tail(handler)) : Tail(handler)[i] = 3 - Len(Tail(handler)) + i
BY EndOfReport, Zenon DEF HandlerInv

\* Whole reports stay whole when a letter comes behind them that goes on with the last.
LEMMA WholeGrows ==
  ASSUME LogTypes, HandlerInv, WholeInv, NEW x \in Letters,
         uart' = Append(uart, x), received' = received, interrupts' = interrupts,
         \/ x.who = "program" /\ handler = <<>> /\ handler' = handler
         \/ /\ x.who = "handler" /\ handler # <<>> /\ handler' = Tail(handler)
            /\ x.c = Head(handler)
  PROVE  WholeInv'
<1>1. /\ Len(Sent') = Len(Sent) + 1 /\ \A i \in 1..Len(Sent) : Sent'[i] = Sent[i]
      /\ Sent'[Len(Sent) + 1] = x
  BY SentGrows
<1>2. By("handler")' = IF x.who = "handler" THEN By("handler") \cup {Len(Sent) + 1}
                                            ELSE By("handler")
  BY SentGrows
<1>3. /\ Sent \in Seq(Letters) /\ Len(Sent) \in Nat
      /\ By("handler") \in SUBSET (1..Len(Sent)) /\ IsFiniteSet(By("handler"))
  BY SentIs
<1>4. Cardinality(By("handler")) + Len(handler) = interrupts * 3
  BY DEF WholeInv
<1>5. ASSUME NEW i \in By("handler"), Sent[i].c < 3
      PROVE  IF i = Len(Sent) THEN Len(handler) = 3 - Sent[i].c
             ELSE Sent[i + 1].who = "handler" /\ Sent[i + 1].c = Sent[i].c + 1
  BY <1>5 DEF WholeInv
<1>6. \A i \in By("handler") : Sent[i].c \in 1..3
  <2> SUFFICES ASSUME NEW i \in By("handler") PROVE Sent[i].c \in 1..3
    OBVIOUS
  <2>1. i \in 1..Len(Sent) /\ Sent[i].who = "handler"
    BY <1>3 DEF By
  <2>2. Sent[i] \in Letters
    BY <1>3, <2>1
  <2> QED
    BY <2>1, <2>2 DEF Letters
<1> DEFINE s == Sent
           r == Sent'
           Y == By("handler")
           C == By("handler")'
           z == Len(Sent)
<1>7. CASE x.who = "program" /\ handler = <<>> /\ handler' = handler
  <2>1. C = Y
    BY <1>2, <1>7
  <2>2. ASSUME NEW i \in Y, r[i].c < 3
        PROVE  i # z /\ i # Len(r) /\ r[i + 1].who = "handler" /\ r[i + 1].c = r[i].c + 1
    <3>1. i \in 1..z /\ r[i] = s[i]
      BY <1>1, <1>3
    <3>2. i # z
      <4> SUFFICES ASSUME i = z PROVE FALSE
        OBVIOUS
      <4>1. Len(handler) = 3 - s[i].c /\ Len(handler) = 0
        BY <1>5, <1>7, <2>2, <3>1
      <4>2. s[i].c \in 1..3
        BY <1>6
      <4> QED
        BY <2>2, <3>1, <4>1, <4>2
    <3>3. i + 1 \in 1..z /\ i # z + 1
      BY <1>3, <3>1, <3>2
    <3>4. r[i + 1] = s[i + 1]
      BY <1>1, <3>3
    <3>5. s[i + 1].who = "handler" /\ s[i + 1].c = s[i].c + 1
      BY <1>5, <2>2, <3>1, <3>2
    <3> QED
      BY <1>1, <3>1, <3>2, <3>3, <3>4, <3>5
  <2>3. Cardinality(C) + Len(handler') = interrupts' * 3
    BY <1>4, <1>7, <2>1
  <2> HIDE DEF r, C
  <2>4. \A i \in C : r[i].c < 3 =>
          IF i = Len(r) THEN Len(handler') = 3 - r[i].c
          ELSE r[i + 1].who = "handler" /\ r[i + 1].c = r[i].c + 1
    BY <2>1, <2>2
  <2> QED
    BY <2>3, <2>4 DEF WholeInv, r, C
<1>8. CASE /\ x.who = "handler" /\ handler # <<>> /\ handler' = Tail(handler)
           /\ x.c = Head(handler)
  <2>1. C = Y \cup {z + 1}
    BY <1>2, <1>8
  <2>2. Len(handler) \in 1..3 /\ x.c = 4 - Len(handler) /\ Len(handler') = Len(handler) - 1
    BY <1>8, HandlerHead
  <2>3. Cardinality(C) + Len(handler') = interrupts' * 3
    <3>1. z + 1 \notin Y
      BY <1>3
    <3>2. Cardinality(Y) \in Nat /\ Cardinality(Y \cup {z + 1}) = Cardinality(Y) + 1
      BY <1>3, <3>1, FS_CardinalityType, FS_AddElement
    <3>3. Cardinality(Y) + Len(handler) = interrupts * 3
      BY <1>4
    <3>4. Cardinality(Y) + 1 + (Len(handler) - 1) = Cardinality(Y) + Len(handler)
      BY <2>2, <3>2
    <3>5. Cardinality(C) = Cardinality(Y) + 1 /\ interrupts' = interrupts
      BY <2>1, <3>2
    <3> HIDE DEF Y, C
    <3> QED
      BY <2>2, <3>3, <3>4, <3>5
  <2>4. ASSUME NEW i \in Y, r[i].c < 3
        PROVE  i # Len(r) /\ r[i + 1].who = "handler" /\ r[i + 1].c = r[i].c + 1
    <3>1. i \in 1..z /\ r[i] = s[i] /\ i # z + 1
      BY <1>1, <1>3
    <3>2. CASE i = z
      <4>1. Len(handler) = 3 - s[i].c /\ s[i].c \in 1..3
        BY <1>5, <1>6, <2>4, <3>1, <3>2
      <4>2. r[i + 1] = x
        BY <1>1, <3>2
      <4>3. 4 - Len(handler) = s[i].c + 1
        BY <4>1
      <4> QED
        BY <1>1, <1>8, <2>2, <3>1, <4>2, <4>3
    <3>3. CASE i # z
      <4>1. i + 1 \in 1..z
        BY <1>3, <3>1, <3>3
      <4>2. r[i + 1] = s[i + 1]
        BY <1>1, <4>1
      <4>3. s[i + 1].who = "handler" /\ s[i + 1].c = s[i].c + 1
        BY <1>5, <2>4, <3>1, <3>3
      <4> QED
        BY <1>1, <3>1, <4>2, <4>3
    <3> QED
      BY <3>2, <3>3
  <2>5. z + 1 = Len(r) /\ r[z + 1].c = x.c /\ Len(handler') = 3 - x.c
    <3>1. Len(handler) - 1 = 3 - (4 - Len(handler))
      BY <2>2
    <3> QED
      BY <1>1, <2>2, <3>1
  <2> HIDE DEF r, C, Y, z
  <2>6. \A i \in C : r[i].c < 3 =>
          IF i = Len(r) THEN Len(handler') = 3 - r[i].c
          ELSE r[i + 1].who = "handler" /\ r[i + 1].c = r[i].c + 1
    BY <2>1, <2>4, <2>5
  <2> QED
    BY <2>3, <2>6 DEF WholeInv, r, C
<1> QED
  BY <1>7, <1>8

\* A letter of the handler.
LEMMA HandlerStep ==
  ASSUME LogInv, HandlerWrites
  PROVE  LogInv'
<1> DEFINE x == [who |-> "handler", c |-> Head(handler)]
<1>1. /\ handler # <<>> /\ uart' = Append(uart, x) /\ handler' = Tail(handler)
      /\ UNCHANGED <<message, rest, ready, received, interrupts>>
  BY DEF HandlerWrites
<1>2. LogTypes /\ RestInv /\ HandlerInv /\ WholeInv /\ LostInv
  BY DEF LogInv
<1>3. /\ Len(handler) \in 1..3 /\ Head(handler) = 4 - Len(handler)
      /\ Tail(handler) \in Seq(1..3) /\ Len(Tail(handler)) = Len(handler) - 1
      /\ \A i \in 1..Len(Tail(handler)) : Tail(handler)[i] = 3 - Len(Tail(handler)) + i
  BY <1>1, <1>2, HandlerHead
<1>4. x \in Letters /\ x.who = "handler" /\ x.who # "program" /\ x.c = Head(handler)
  <2>1. Head(handler) \in 1..3
    BY <1>3
  <2> QED
    BY <2>1 DEF Letters
<1> HIDE DEF x
<1>5. /\ uart' \in Seq(Letters) /\ Len(Sent') = Len(Sent) + 1
      /\ \A i \in 1..Len(Sent) : Sent'[i] = Sent[i]
      /\ By("program")' = IF x.who = "program" THEN By("program") \cup {Len(Sent) + 1}
                                               ELSE By("program")
  BY <1>1, <1>2, <1>4, SentGrows
<1>6. By("program")' = By("program")
  BY <1>4, <1>5
<1>7. LogTypes'
  BY <1>1, <1>2, <1>5 DEF LogTypes
<1>8. Text(message)' = Text(message) /\ Gone' = Gone
  <2>1. Text(message)' = Text(message)
    BY <1>1, <1>2, TextKept
  <2> QED
    BY <1>1, <2>1 DEF Gone
<1>9. RestInv'
  BY <1>1, <1>2, <1>8 DEF RestInv
<1>10. HandlerInv'
  <2>1. Len(Tail(handler)) <= 3
    BY <1>3
  <2>2. \A i \in 1..Len(handler') : handler'[i] = 3 - Len(handler') + i
    BY <1>1, <1>3
  <2> QED
    BY <1>1, <1>3, <2>1, <2>2 DEF HandlerInv
<1>11. WholeInv'
  BY <1>1, <1>2, <1>4, WholeGrows
<1>12. LostInv'
  <2>1. PICK lost \in SUBSET (1..Gone) :
          /\ Cardinality(lost) <= interrupts
          /\ ready /\ (handler # <<>> \/ Len(uart) >= WSpace) => Cardinality(lost) < interrupts
          /\ Ordered(Sent, By("program"), Text(message), (1..Gone) \ lost)
    BY <1>2, Zenon DEF LostInv
  <2>2. \A i \in By("program") : Sent'[i] = Sent[i]
    <3>1. By("program") \in SUBSET (1..Len(Sent))
      BY <1>2, SentIs
    <3> QED
      BY <1>5, <3>1
  <2>3. Ordered(Sent', By("program"), Text(message), (1..Gone) \ lost)
    BY <2>1, <2>2, OrderedKept
  <2>4. Ordered(Sent', By("program")', Text(message)', (1..Gone') \ lost)
    BY <1>6, <1>8, <2>3
  <2>5. Cardinality(lost) <= interrupts' /\ lost \in SUBSET (1..Gone')
    BY <1>1, <1>8, <2>1
  <2>6. ready' => Cardinality(lost) < interrupts'
    BY <1>1, <2>1
  <2> QED
    BY <2>4, <2>5, <2>6, Zenon DEF LostInv
<1> QED
  BY <1>7, <1>9, <1>10, <1>11, <1>12 DEF LogInv

\* A character less to go.
LEMMA RestShrinks ==
  ASSUME LogTypes, RestInv, rest # <<>>, rest' = Tail(rest), ready' = FALSE, UNCHANGED message
  PROVE  /\ RestInv' /\ Gone' = Gone + 1 /\ Gone \in Nat /\ Text(message)' = Text(message)
         /\ Head(rest) = Text(message)[Gone + 1] /\ Head(rest) \in Characters
<1> DEFINE t == Text(message)
<1>1. Text(message)' = t
  BY TextKept
<1>2. t \in Seq(Characters) /\ Len(t) \in Nat /\ Len(rest) \in Nat /\ Gone \in Nat
  BY GoneIs
<1>3. Gone = Len(t) - Len(rest)
  BY DEF Gone
<1>4. /\ rest \in Seq(Characters) /\ Len(rest) <= Len(t)
      /\ \A i \in 1..Len(rest) : rest[i] = t[Len(t) - Len(rest) + i]
  BY DEF RestInv
<1> HIDE DEF t
<1>5. /\ Len(rest) # 0 /\ Head(rest) = rest[1] /\ rest[1] \in Characters
      /\ Tail(rest) \in Seq(Characters) /\ Len(Tail(rest)) = Len(rest) - 1
      /\ \A i \in 1..Len(rest) - 1 : Tail(rest)[i] = rest[i + 1]
  BY <1>4, NotEmpty
<1>6. Head(rest) = t[Gone + 1]
  <2>1. 1 \in 1..Len(rest)
    BY <1>2, <1>5
  <2>2. rest[1] = t[Len(t) - Len(rest) + 1]
    BY <1>4, <2>1
  <2> QED
    BY <1>3, <1>5, <2>2
<1>7. Gone' = Gone + 1
  <2>1. Gone' = Len(t) - Len(Tail(rest))
    BY <1>1 DEF Gone
  <2> QED
    BY <1>2, <1>3, <1>5, <2>1
<1>8. ASSUME NEW i \in 1..Len(Tail(rest))
      PROVE  Tail(rest)[i] = t[Len(t) - Len(Tail(rest)) + i]
  <2>1. i + 1 \in 1..Len(rest) /\ Tail(rest)[i] = rest[i + 1]
    BY <1>2, <1>5
  <2>2. rest[i + 1] = t[Len(t) - Len(rest) + (i + 1)]
    BY <1>4, <2>1
  <2>3. Len(t) - Len(rest) + (i + 1) = Len(t) - Len(Tail(rest)) + i
    BY <1>2, <1>5
  <2> QED
    BY <2>1, <2>2, <2>3
<1>9. RestInv'
  <2>1. Len(Tail(rest)) <= Len(t)
    BY <1>2, <1>4, <1>5
  <2> QED
    BY <1>1, <1>5, <1>8, <2>1 DEF RestInv
<1> QED
  BY <1>1, <1>2, <1>5, <1>6, <1>7, <1>9 DEF t

\* A character for which there is no space any more: an interrupt has taken it.
LEMMA DroppedStep ==
  ASSUME LogInv, WriteChar, ~(Len(uart) < WSpace)
  PROVE  LogInv'
<1>1. /\ rest # <<>> /\ handler = <<>> /\ ready = TRUE /\ uart' = uart
      /\ rest' = Tail(rest) /\ ready' = FALSE
      /\ UNCHANGED <<message, handler, received, interrupts>>
  <2>1. ready \in BOOLEAN
    BY DEF LogInv, LogTypes
  <2> QED
    BY <2>1 DEF WriteChar
<1>2. LogTypes /\ RestInv /\ HandlerInv /\ WholeInv /\ LostInv
  BY DEF LogInv
<1>3. /\ RestInv' /\ Gone' = Gone + 1 /\ Gone \in Nat /\ Text(message)' = Text(message)
  BY <1>1, <1>2, RestShrinks
<1>4. LogTypes'
  BY <1>1, <1>2 DEF LogTypes
<1>5. HandlerInv'
  BY <1>1, <1>2 DEF HandlerInv
<1>6. Sent' = Sent
  BY <1>1 DEF Sent
<1>7. By("handler")' = By("handler") /\ By("program")' = By("program")
  BY <1>6 DEF By
<1>8. WholeInv'
  BY <1>1, <1>2, <1>6, <1>7 DEF WholeInv
<1>9. LostInv'
  <2>1. PICK lost \in SUBSET (1..Gone) :
          /\ Cardinality(lost) <= interrupts
          /\ ready /\ (handler # <<>> \/ Len(uart) >= WSpace) => Cardinality(lost) < interrupts
          /\ Ordered(Sent, By("program"), Text(message), (1..Gone) \ lost)
    BY <1>2, Zenon DEF LostInv
  <2>2. Len(uart) >= WSpace
    <3>1. uart \in Seq(Letters) /\ WSpace \in Nat
      BY <1>2, LoggingAssumption DEF LoggingAssumption, LogTypes
    <3>2. Len(uart) \in Nat
      BY <3>1
    <3> QED
      BY <3>1, <3>2
  <2>3. Cardinality(lost) < interrupts
    BY <1>1, <2>1, <2>2
  <2> DEFINE more == lost \cup {Gone + 1}
  <2>4. IsFiniteSet(lost) /\ Cardinality(lost) \in Nat /\ Gone + 1 \notin lost
    <3>1. IsFiniteSet(1..Gone)
      BY <1>3, FS_Interval
    <3>2. IsFiniteSet(lost)
      BY <2>1, <3>1, FS_Subset
    <3>3. Gone + 1 \notin lost
      BY <1>3, <2>1
    <3> QED
      BY <3>2, <3>3, FS_CardinalityType
  <2>5. Cardinality(more) = Cardinality(lost) + 1
    BY <2>4, FS_AddElement
  <2>6. Cardinality(more) <= interrupts'
    <3>1. interrupts \in Nat /\ interrupts' = interrupts
      BY <1>1, <1>2 DEF LogTypes
    <3> HIDE DEF more
    <3> QED
      BY <2>3, <2>4, <2>5, <3>1
  <2>7. more \in SUBSET (1..Gone') /\ (1..Gone') \ more = (1..Gone) \ lost
    BY <1>3, <2>1
  <2>8. Ordered(Sent', By("program")', Text(message)', (1..Gone') \ more)
    BY <1>3, <1>6, <1>7, <2>1, <2>7
  <2> HIDE DEF more
  <2> QED
    BY <1>1, <2>6, <2>7, <2>8 DEF LostInv
<1> QED
  BY <1>3, <1>4, <1>5, <1>8, <1>9 DEF LogInv

\* A character that gets there.
LEMMA WrittenStep ==
  ASSUME LogInv, WriteChar, Len(uart) < WSpace
  PROVE  LogInv'
<1> DEFINE x == [who |-> "program", c |-> Head(rest)]
<1>1. /\ rest # <<>> /\ handler = <<>> /\ uart' = Append(uart, x)
      /\ rest' = Tail(rest) /\ ready' = FALSE
      /\ UNCHANGED <<message, handler, received, interrupts>>
  BY DEF WriteChar
<1>2. LogTypes /\ RestInv /\ HandlerInv /\ WholeInv /\ LostInv
  BY DEF LogInv
<1>3. /\ RestInv' /\ Gone' = Gone + 1 /\ Gone \in Nat /\ Text(message)' = Text(message)
      /\ Head(rest) = Text(message)[Gone + 1] /\ Head(rest) \in Characters
  BY <1>1, <1>2, RestShrinks
<1>4. x \in Letters /\ x.who = "program" /\ x.c = Head(rest)
  BY <1>3 DEF Letters
<1> HIDE DEF x
<1>5. /\ uart' \in Seq(Letters) /\ Sent'[Len(Sent) + 1] = x
      /\ \A i \in 1..Len(Sent) : Sent'[i] = Sent[i]
      /\ By("program")' = IF x.who = "program" THEN By("program") \cup {Len(Sent) + 1}
                                               ELSE By("program")
  BY <1>1, <1>2, <1>4, SentGrows
<1>6. By("program")' = By("program") \cup {Len(Sent) + 1}
  BY <1>4, <1>5
<1>7. LogTypes'
  BY <1>1, <1>2, <1>5 DEF LogTypes
<1>8. HandlerInv'
  BY <1>1, <1>2 DEF HandlerInv
<1>9. WholeInv'
  BY <1>1, <1>2, <1>4, WholeGrows
<1>10. LostInv'
  <2>1. PICK lost \in SUBSET (1..Gone) :
          /\ Cardinality(lost) <= interrupts
          /\ ready /\ (handler # <<>> \/ Len(uart) >= WSpace) => Cardinality(lost) < interrupts
          /\ Ordered(Sent, By("program"), Text(message), (1..Gone) \ lost)
    BY <1>2, Zenon DEF LostInv
  <2> DEFINE P == By("program")
             O == (1..Gone) \ lost
             m == Len(Sent) + 1
             z == Gone + 1
  <2>2. /\ P \in SUBSET Nat /\ IsFiniteSet(P) /\ m \in Nat /\ \A i \in P : i < m
        /\ \A i \in P : Sent'[i] = Sent[i]
    <3>1. /\ P \in SUBSET (1..Len(Sent)) /\ P \in SUBSET Nat /\ IsFiniteSet(P)
          /\ Len(Sent) \in Nat
      BY <1>2, SentIs
    <3> HIDE DEF P
    <3> QED
      BY <1>5, <3>1
  <2>3. O \in SUBSET Nat /\ IsFiniteSet(O) /\ z \in Nat /\ \A j \in O : j < z
    <3>1. IsFiniteSet(1..Gone)
      BY <1>3, FS_Interval
    <3>2. IsFiniteSet(O)
      BY <3>1, FS_Subset
    <3> QED
      BY <1>3, <3>2
  <2>4. Sent'[m].c = Text(message)[z]
    BY <1>3, <1>4, <1>5
  <2>5. Ordered(Sent, P, Text(message), O)
    BY <2>1
  <2>6. By("program")' = P \cup {m}
    BY <1>6
  <2>7. (1..Gone') \ lost = O \cup {z}
    <3>1. z \notin lost /\ 1..Gone' = (1..Gone) \cup {z}
      BY <1>3, <2>1
    <3> QED
      BY <3>1
  <2> HIDE DEF P, O, m, z
  <2>8. Ordered(Sent', P \cup {m}, Text(message), O \cup {z})
    BY <2>2, <2>3, <2>4, <2>5, OrderedGrows
  <2>9. Ordered(Sent', By("program")', Text(message)', (1..Gone') \ lost)
    BY <1>3, <2>6, <2>7, <2>8
  <2>10. Cardinality(lost) <= interrupts' /\ lost \in SUBSET (1..Gone')
    <3>1. 1..Gone \in SUBSET (1..Gone')
      BY <1>3
    <3> QED
      BY <1>1, <2>1, <3>1
  <2> QED
    BY <1>1, <2>9, <2>10 DEF LostInv
<1> QED
  BY <1>3, <1>7, <1>8, <1>9, <1>10 DEF LogInv

-----------------------------------------------------------------------------
(* The theorems. *)

THEOREM LoggingInvariant == LoggingSpec => []LogInv
<1>1. LoggingInit => LogInv
  BY LogInitial
<1>2. LogInv /\ [LoggingNext]_logVars => LogInv'
  <2> SUFFICES ASSUME LogInv, [LoggingNext]_logVars PROVE LogInv'
    OBVIOUS
  <2>1. CASE Log
    BY <2>1, LogStep
  <2>2. CASE SeeReady
    BY <2>2, SeeReadyStep
  <2>3. CASE WriteChar
    BY <2>3, DroppedStep, WrittenStep
  <2>4. CASE UartReports
    BY <2>4, ReportStep DEF UartReports
  <2>5. CASE alt_log_system_clock
    BY <2>5, ClockStep
  <2>6. CASE HandlerWrites
    BY <2>6, HandlerStep
  <2>7. CASE HostReads
    BY <2>7, HostStep
  <2>8. CASE UNCHANGED logVars
    BY <2>8, StillStep DEF logVars
  <2> QED
    BY <2>1, <2>2, <2>3, <2>4, <2>5, <2>6, <2>7, <2>8 DEF LoggingNext
<1> QED
  BY <1>1, <1>2, PTL DEF LoggingSpec

LEMMA LogIsRead == LogInv => LogReads
<1> SUFFICES ASSUME LogInv PROVE LogReads
  OBVIOUS
<1>1. LogTypes /\ RestInv /\ HandlerInv /\ WholeInv /\ LostInv
  BY DEF LogInv
<1> DEFINE t == Text(message)
           printed == SubSeq(Text(message), 1, Len(Text(message)) - Len(rest))
<1>2. Gone \in Nat /\ Gone = Len(t) - Len(rest) /\ Len(t) \in Nat /\ Len(rest) \in Nat
      /\ t \in Seq(Characters)
  BY <1>1, GoneIs DEF Gone
<1>3. DOMAIN printed = 1..Gone /\ \A j \in 1..Gone : printed[j] = t[j]
  <2>1. printed = SubSeq(t, 1, Gone) /\ Gone <= Len(t)
    BY <1>2
  <2> HIDE DEF t
  <2>2. /\ DOMAIN SubSeq(t, 1, Gone) = 1..Gone
        /\ \A j \in 1..Gone : SubSeq(t, 1, Gone)[j] = t[j]
    BY <1>2, <2>1
  <2> QED
    BY <2>1, <2>2
<1>4. PICK lost \in SUBSET (1..Gone) :
        /\ Cardinality(lost) <= interrupts
        /\ Ordered(Sent, By("program"), t, (1..Gone) \ lost)
  BY <1>1, Zenon DEF LostInv
<1> HIDE DEF t, printed
<1>5. Ordered(Sent, By("program"), printed, DOMAIN printed \ lost)
  <2>1. \A j \in (1..Gone) \ lost : printed[j] = t[j]
    BY <1>3
  <2>2. Ordered(Sent, By("program"), printed, (1..Gone) \ lost)
    BY <1>4, <2>1, OrderedKept
  <2> QED
    BY <1>3, <2>2
<1>6. InOrder(Sent, By("program"), printed, DOMAIN printed \ lost)
  BY <1>5, OrderedIs
<1>7. lost \in SUBSET DOMAIN printed
  BY <1>3
<1>8. ASSUME NEW i \in By("handler"), Sent[i].c < 3
      PROVE  i = Len(Sent) \/ (Sent[i + 1].who = "handler" /\ Sent[i + 1].c = Sent[i].c + 1)
  BY <1>1, <1>8 DEF WholeInv
<1>9. Cardinality(By("handler")) + Len(handler) = interrupts * 3
  BY <1>1 DEF WholeInv
<1>10. Len(Report) = 3
  BY DEF Report
<1>11. \E gone \in SUBSET DOMAIN printed :
         /\ Cardinality(gone) <= interrupts
         /\ InOrder(Sent, By("program"), printed, DOMAIN printed \ gone)
  BY <1>4, <1>6, <1>7
<1>12. \A i \in By("handler") :
         Sent[i].c < Len(Report) =>
           i = Len(Sent) \/ (Sent[i + 1].who = "handler" /\ Sent[i + 1].c = Sent[i].c + 1)
  BY <1>8, <1>10
<1>13. Cardinality(By("handler")) + Len(handler) = interrupts * Len(Report)
  BY <1>9, <1>10
<1> QED
  BY <1>11, <1>12, <1>13, Zenon DEF LogReads, printed

THEOREM LogAlwaysKept == LoggingSpec => []LogKept
<1>1. LogInv => LogKept
  <2> SUFFICES ASSUME LogInv PROVE LogKept
    OBVIOUS
  <2>1. message \in Messages
    BY DEF LogInv, LogTypes
  <2>2. NumberReads
    BY <2>1, NumbersRead
  <2>3. EchoSafe
    BY <2>1, EchoesSafe
  <2> QED
    BY <2>2, <2>3, LogIsRead DEF LogKept
<1> QED
  BY <1>1, LoggingInvariant, PTL
=============================================================================
