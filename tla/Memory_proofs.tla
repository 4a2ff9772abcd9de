--------------------------- MODULE Memory_proofs ---------------------------
(* The memory behind the interconnect.  That every master gets its turn, for *)
(* any number of masters and packets of any length; that the SDRAM           *)
(* controller obeys its chip; and that the controller with its chip is a     *)
(* memory that carries out requests in the order in which it accepts them.   *)
EXTENDS SDRAMController, CommandMux, TLAPS, SequenceTheorems, WellFoundedInduction

-----------------------------------------------------------------------------
(***************************************************************************)
(* The interconnect.                                                       *)
(***************************************************************************)

N == NUM_INPUTS

\* How many others the arbiter looks at before i.
Ahead(i) == (i - top_priority_reg) % N

\* What the others may still take before i is let through: the packets of those
\* the arbiter looks at first, after the rest of the one that is going on.
Owed(i) == beats[saved_grant] + Ahead(i) * MaxBeats

\* The slave is idle only while the arbiter finds nobody or has just found one:
\* then nobody has waited.
Turns ==
  \A i \in valid \ {saved_grant} :
    IF src_valid THEN waited[i] + Owed(i) <= (N - 1) * MaxBeats + 1
                 ELSE waited[i] = 0

MuxInv ==
  /\ MuxTypeOK
  /\ locked = {}
  /\ packet_in_progress => src_valid
  /\ saved_grant # Nobody => top_priority_reg = (saved_grant + 1) % N
  /\ whole # Nobody => saved_grant = whole /\ src_valid
  /\ \A i \in Inputs : waited[i] <= (N - 1) * MaxBeats + 1
  /\ \A i \in Inputs \ valid : waited[i] = 0
  /\ Turns
-----------------------------------------------------------------------------
(* Arithmetic. *)

\* Every set of natural numbers has a least one.
Less == {p \in Nat \X Nat : p[1] < p[2]}

LEMMA LessIsWellFounded == IsWellFoundedOn(Less, Nat)
<1>1. Less = OpToRel(<, Nat)
  BY DEF OpToRel, Less
<1> QED
  BY <1>1, NatLessThanWellFounded

LEMMA HasLeast ==
  ASSUME NEW S \in SUBSET Nat, S # {}
  PROVE  \E m \in S : \A n \in S : m <= n
<1>1. PICK m \in S : \A n \in S : <<n, m>> \notin Less
  BY LessIsWellFounded, WFMin, Zenon
<1>2. ASSUME NEW n \in S PROVE m <= n
  <2>1. <<n, m>> \notin Less /\ n \in Nat /\ m \in Nat
    BY <1>1
  <2>2. ~(n < m)
    BY <2>1 DEF Less
  <2> QED
    BY <2>1, <2>2
<1> QED
  BY <1>1, <1>2

\* A place on the circle: how far it is from another one.
LEMMA Circle ==
  ASSUME NEW n \in Nat \ {0}, NEW i \in 0..n-1, NEW t \in 0..n-1
  PROVE  (i - t) % n = IF i >= t THEN i - t ELSE i - t + n
  OBVIOUS

LEMMA NextOnCircle ==
  ASSUME NEW n \in Nat \ {0}, NEW t \in 0..n-1
  PROVE  (t + 1) % n = IF t = n - 1 THEN 0 ELSE t + 1
  OBVIOUS

LEMMA Monotone ==
  ASSUME NEW a \in Nat, NEW b \in Nat, NEW m \in Nat, a <= b
  PROVE  a * m <= b * m /\ a * m \in Nat /\ b * m \in Nat
  OBVIOUS

LEMMA ProductIsNatural ==
  ASSUME NEW a \in Nat, NEW m \in Nat
  PROVE  a * m \in Nat
  OBVIOUS

LEMMA Successor ==
  ASSUME NEW a \in Int, NEW m \in Nat
  PROVE  (a + 1) * m = a * m + m
  OBVIOUS

-----------------------------------------------------------------------------
(* The arbiter. *)

LEMMA Places ==
  ASSUME MuxTypeOK
  PROVE  /\ N \in Nat \ {0} /\ MaxBeats \in Nat \ {0} /\ Inputs = 0..N-1
         /\ Nobody \notin Inputs /\ valid \subseteq Inputs
         /\ \A i \in Inputs : Ahead(i) \in 0..N-1
         /\ \A i \in Inputs : beats[i] \in 0..MaxBeats /\ waited[i] \in Nat
         /\ \A i \in valid : beats[i] \in 1..MaxBeats
<1>1. /\ N \in Nat \ {0} /\ MaxBeats \in Nat \ {0} /\ Inputs = 0..N-1
      /\ Nobody \notin Inputs /\ valid \subseteq Inputs
  BY MuxAssumption DEF N, Inputs, Nobody, valid
<1>2. ASSUME NEW i \in Inputs PROVE Ahead(i) \in 0..N-1
  <2>1. top_priority_reg \in 0..N-1 /\ i \in 0..N-1
    BY <1>1 DEF MuxTypeOK
  <2> QED
    BY <1>1, <2>1, Circle DEF Ahead
<1>3. \A i \in Inputs : beats[i] \in 0..MaxBeats /\ waited[i] \in Nat
  BY DEF MuxTypeOK
<1>4. \A i \in valid : beats[i] \in 1..MaxBeats
  BY <1>1, <1>3 DEF valid
<1> QED
  BY <1>1, <1>2, <1>3, <1>4

\* The one that is chosen requests, and nobody the arbiter looks at before does.
LEMMA ChosenFirst ==
  ASSUME MuxTypeOK, locked = {}
  PROVE  /\ valid = {} => Chosen = Nobody
         /\ valid # {} => /\ Chosen \in valid
                          /\ \A j \in valid : Ahead(Chosen) <= Ahead(j)
<1>1. request = valid
  BY DEF request
<1>2. CASE valid = {}
  BY <1>1, <1>2 DEF Chosen
<1>3. CASE valid # {}
  <2> DEFINE distances == {Ahead(i) : i \in valid}
  <2>1. distances \in SUBSET Nat /\ distances # {}
    BY <1>3, Places
  <2> HIDE DEF distances
  <2>2. PICK m \in distances : \A n \in distances : m <= n
    BY <2>1, HasLeast
  <2>3. PICK i \in valid : m = Ahead(i)
    BY <2>2 DEF distances
  <2>4. \A j \in valid : Ahead(i) <= Ahead(j)
    BY <2>2, <2>3 DEF distances
  <2>5. \E k \in valid : \A j \in valid : Ahead(k) <= Ahead(j)
    BY <2>4
  <2>6. Chosen = CHOOSE k \in valid : \A j \in valid : Ahead(k) <= Ahead(j)
    BY <1>1, <1>3, Zenon DEF Chosen, Ahead, N
  <2> QED
    BY <1>3, <2>5, <2>6, Zenon
<1> QED
  BY <1>2, <1>3

\* It is not the one whose packet is ending while somebody else waits, and those
\* who wait come closer: by one place at least.
LEMMA ComesCloser ==
  ASSUME MuxInv, saved_grant \in Inputs, NEW i \in valid, i # saved_grant
  PROVE  /\ Chosen \in valid \ {saved_grant}
         /\ Chosen # i =>
              (i - ((Chosen + 1) % N)) % N \in 0..Ahead(i) - 1
<1> DEFINE c == Chosen
<1>1. /\ c \in valid /\ Ahead(c) <= Ahead(i)
      /\ saved_grant \in valid => Ahead(c) <= Ahead(saved_grant)
  BY ChosenFirst DEF MuxInv
<1> HIDE DEF c
<1>2. /\ N \in Nat \ {0} /\ saved_grant \in 0..N-1 /\ c \in 0..N-1 /\ i \in 0..N-1
      /\ top_priority_reg = (saved_grant + 1) % N
  BY <1>1, Places DEF MuxInv
<1>3. top_priority_reg = IF saved_grant = N - 1 THEN 0 ELSE saved_grant + 1
  BY <1>2, NextOnCircle
<1>4. /\ top_priority_reg \in 0..N-1
      /\ Ahead(i) = IF i >= top_priority_reg THEN i - top_priority_reg
                                             ELSE i - top_priority_reg + N
      /\ Ahead(c) = IF c >= top_priority_reg THEN c - top_priority_reg
                                             ELSE c - top_priority_reg + N
      /\ Ahead(saved_grant) = N - 1
  <2>1. top_priority_reg \in 0..N-1
    BY <1>2, <1>3
  <2>2. /\ (i - top_priority_reg) % N =
             IF i >= top_priority_reg THEN i - top_priority_reg
                                      ELSE i - top_priority_reg + N
        /\ (c - top_priority_reg) % N =
             IF c >= top_priority_reg THEN c - top_priority_reg
                                      ELSE c - top_priority_reg + N
        /\ (saved_grant - top_priority_reg) % N =
             IF saved_grant >= top_priority_reg
             THEN saved_grant - top_priority_reg
             ELSE saved_grant - top_priority_reg + N
    BY <1>2, <2>1, Circle
  <2> QED
    BY <1>2, <1>3, <2>1, <2>2 DEF Ahead
<1>5. c # saved_grant
  BY <1>1, <1>2, <1>3, <1>4
<1>6. ASSUME c # i PROVE (i - ((c + 1) % N)) % N \in 0..Ahead(i) - 1
  <2> DEFINE t == (c + 1) % N
  <2>1. t = IF c = N - 1 THEN 0 ELSE c + 1
    BY <1>2, NextOnCircle
  <2> HIDE DEF t
  <2>2. t \in 0..N-1
    BY <1>2, <2>1
  <2>3. (i - t) % N = IF i >= t THEN i - t ELSE i - t + N
    BY <1>2, <2>2, Circle
  <2>4. (i - t) % N \in 0..Ahead(i) - 1
    BY <1>1, <1>2, <1>3, <1>4, <1>6, <2>1, <2>3
  <2> QED
    BY <2>4 DEF t
<1> QED
  BY <1>1, <1>5, <1>6 DEF c

\* Whoever is not the one let through has at most all the others before it.
LEMMA FarOnCircle ==
  ASSUME NEW n \in Nat \ {0}, NEW c \in 0..n-1, NEW i \in 0..n-1, i # c
  PROVE  (i - ((c + 1) % n)) % n \in 0..n-2
<1> DEFINE t == (c + 1) % n
<1>1. t = IF c = n - 1 THEN 0 ELSE c + 1
  BY NextOnCircle
<1> HIDE DEF t
<1>2. t \in 0..n-1
  BY <1>1
<1>3. (i - t) % n = IF i >= t THEN i - t ELSE i - t + n
  BY <1>2, Circle
<1>4. (i - t) % n \in 0..n-2
  BY <1>1, <1>3
<1> QED
  BY <1>4 DEF t

LEMMA OwedAtMost ==
  ASSUME NEW n \in Nat \ {0}, NEW m \in Nat, NEW a \in 0..n-2, NEW b \in 0..m
  PROVE  b + a * m \in Nat /\ b + a * m <= (n - 1) * m /\ (n - 1) * m \in Nat
<1>1. a + 1 \in Nat /\ n - 1 \in Nat /\ a + 1 <= n - 1 /\ a \in Nat
  OBVIOUS
<1>2. (a + 1) * m <= (n - 1) * m /\ (n - 1) * m \in Nat /\ a * m \in Nat
  BY <1>1, Monotone
<1>3. (a + 1) * m = a * m + m
  BY <1>1, Successor
<1> QED
  BY <1>2, <1>3

-----------------------------------------------------------------------------
(* An edge of the clock keeps the invariant. *)

\* What an edge does, the lock being high only when the DMA requests nothing.
LEMMA EdgeEffects ==
  ASSUME MuxInv, NEW src_ready \in BOOLEAN, NEW lock \in SUBSET {0},
         NEW packets \in [Inputs -> 0..MaxBeats],
         MuxEdge(src_ready, lock, packets)
  PROVE  /\ MuxTypeOK'
         /\ locked' = {}
         /\ \A i \in valid \ {saved_grant} : beats'[i] = beats[i]
         /\ \A i \in Inputs \ valid : waited'[i] = 0
         /\ src_valid => waited'[saved_grant] = 0
         /\ \A i \in valid \ {saved_grant} :
              waited'[i] = IF src_ready THEN waited[i] + 1 ELSE waited[i]
         /\ ~src_valid => /\ saved_grant' = Chosen
                          /\ Chosen # Nobody =>
                               top_priority_reg' = (Chosen + 1) % N
                          /\ packet_in_progress' = FALSE
                          /\ whole' = whole
         /\ src_valid /\ ~(src_ready /\ src_endofpacket) =>
              /\ saved_grant' = saved_grant
              /\ top_priority_reg' = top_priority_reg
              /\ beats'[saved_grant] =
                   IF src_ready THEN beats[saved_grant] - 1 ELSE beats[saved_grant]
              /\ whole' = IF src_ready THEN saved_grant ELSE whole
         /\ src_valid /\ src_ready /\ src_endofpacket =>
              /\ saved_grant' = Chosen
              /\ top_priority_reg' = (Chosen + 1) % N
              /\ beats'[saved_grant] = 0
              /\ packet_in_progress' = FALSE
              /\ whole' = Nobody
<1> DEFINE c == Chosen
<1>1. /\ MuxTypeOK /\ locked = {} /\ lock \cap valid = {}
      /\ packet_in_progress => src_valid
  BY DEF MuxInv, MuxEdge
<1>2. /\ N \in Nat \ {0} /\ MaxBeats \in Nat \ {0} /\ Inputs = 0..N-1
      /\ Nobody \notin Inputs /\ valid \subseteq Inputs /\ 0 \in Inputs
      /\ \A i \in Inputs : beats[i] \in 0..MaxBeats /\ waited[i] \in Nat
      /\ \A i \in valid : beats[i] \in 1..MaxBeats
  BY <1>1, Places
<1>3. /\ c \in Inputs \cup {Nobody} /\ (c \in valid \/ c = Nobody)
      /\ valid # {} => c \in valid
  BY <1>1, <1>2, ChosenFirst
<1>4. request = valid
  BY <1>1 DEF request
<1>5. c \in Inputs => (c + 1) % N \in Inputs
  <2>1. ASSUME c \in Inputs PROVE (c + 1) % N = IF c = N - 1 THEN 0 ELSE c + 1
    BY <1>2, <2>1, NextOnCircle
  <2> QED
    BY <1>2, <2>1
<1> HIDE DEF c
<1>6. locked' = {}
  <2>1. locked' = {c} \cap lock
    BY DEF MuxEdge, Arbiter, c
  <2> QED
    BY <1>1, <1>2, <1>3, <2>1
<1>7. last_cycle(src_ready, lock) <=> src_valid /\ src_ready /\ src_endofpacket
  BY <1>1 DEF last_cycle, src_valid
<1>8. update_grant(src_ready, lock) <=>
        ~src_valid \/ (src_ready /\ src_endofpacket)
  BY <1>1, <1>7 DEF update_grant
<1>9. /\ saved_grant' = IF ~src_valid \/ (src_ready /\ src_endofpacket)
                        THEN c ELSE saved_grant
      /\ top_priority_reg' =
           IF (~src_valid \/ (src_ready /\ src_endofpacket)) /\ valid # {}
           THEN (c + 1) % N ELSE top_priority_reg
      /\ packet_in_progress' =
           IF src_valid /\ src_ready /\ src_endofpacket THEN FALSE
           ELSE packet_in_progress \/ src_valid
  <2>1. update_grant(src_ready, lock) =>
          /\ saved_grant' = c
          /\ top_priority_reg' = IF valid = {} THEN top_priority_reg
                                 ELSE (c + 1) % N
    BY <1>4 DEF MuxEdge, Arbiter, c, N
  <2>2. ~update_grant(src_ready, lock) =>
          saved_grant' = saved_grant /\ top_priority_reg' = top_priority_reg
    BY DEF MuxEdge, Arbiter
  <2>3. packet_in_progress' = (IF last_cycle(src_ready, lock) THEN FALSE
                               ELSE packet_in_progress \/ src_valid)
    BY DEF MuxEdge, Arbiter
  <2>4. src_valid => valid # {}
    BY DEF src_valid
  <2> QED
    BY <1>7, <1>8, <2>1, <2>2, <2>3, <2>4
<1>10. /\ beats' = [i \in Inputs |->
                      IF beats[i] = 0 THEN packets[i]
                      ELSE IF (src_valid /\ src_ready) /\ i = saved_grant
                           THEN beats[i] - 1 ELSE beats[i]]
       /\ whole' = IF ~(src_valid /\ src_ready) THEN whole
                   ELSE IF src_endofpacket THEN Nobody ELSE saved_grant
       /\ waited' = [i \in Inputs |->
                       IF i \notin valid \/ i = saved_grant THEN 0
                       ELSE IF src_ready THEN waited[i] + 1 ELSE waited[i]]
  BY DEF MuxEdge, Masters
<1>11. MuxTypeOK'
  <2>1. beats' \in [Inputs -> 0..MaxBeats]
    BY <1>2, <1>10
  <2>2. waited' \in [Inputs -> Nat]
    BY <1>2, <1>10
  <2>3. saved_grant' \in Inputs \cup {Nobody} /\ top_priority_reg' \in Inputs
    BY <1>1, <1>3, <1>2, <1>5, <1>9 DEF MuxTypeOK
  <2>4. packet_in_progress' \in BOOLEAN
    BY <1>1, <1>9 DEF MuxTypeOK, src_valid
  <2>5. whole' \in Inputs \cup {Nobody}
    BY <1>1, <1>10 DEF MuxTypeOK
  <2> QED
    BY <1>6, <2>1, <2>2, <2>3, <2>4, <2>5 DEF MuxTypeOK, Inputs, Nobody
<1>12. \A i \in valid \ {saved_grant} : beats'[i] = beats[i]
  BY <1>2, <1>10
<1>13. /\ \A i \in Inputs \ valid : waited'[i] = 0
       /\ src_valid => waited'[saved_grant] = 0
       /\ \A i \in valid \ {saved_grant} :
            waited'[i] = IF src_ready THEN waited[i] + 1 ELSE waited[i]
  BY <1>2, <1>10 DEF src_valid
<1>14. ~src_valid => /\ saved_grant' = c
                     /\ c # Nobody => top_priority_reg' = (c + 1) % N
                     /\ packet_in_progress' = FALSE
                     /\ whole' = whole
  <2>1. ~src_valid => packet_in_progress = FALSE
    BY <1>1 DEF MuxTypeOK
  <2> QED
    BY <1>3, <1>9, <1>10, <2>1
<1>15. src_valid => saved_grant \in Inputs /\ beats[saved_grant] \in 1..MaxBeats
                    /\ valid # {}
  BY <1>2 DEF src_valid
<1>16. src_valid /\ ~(src_ready /\ src_endofpacket) =>
         /\ saved_grant' = saved_grant
         /\ top_priority_reg' = top_priority_reg
         /\ beats'[saved_grant] =
              IF src_ready THEN beats[saved_grant] - 1 ELSE beats[saved_grant]
         /\ whole' = IF src_ready THEN saved_grant ELSE whole
  BY <1>9, <1>10, <1>15
<1>17. src_valid /\ src_ready /\ src_endofpacket =>
         /\ saved_grant' = c
         /\ top_priority_reg' = (c + 1) % N
         /\ beats'[saved_grant] = 0
         /\ packet_in_progress' = FALSE
         /\ whole' = Nobody
  BY <1>9, <1>10, <1>15 DEF src_endofpacket
<1> QED
  BY <1>6, <1>11, <1>12, <1>13, <1>14, <1>16, <1>17 DEF c

\* The slave is idle: the arbiter lets through the first one that has asked.
LEMMA IdleKeepsTurns ==
  ASSUME MuxInv, NEW src_ready \in BOOLEAN, NEW lock \in SUBSET {0},
         NEW packets \in [Inputs -> 0..MaxBeats],
         MuxEdge(src_ready, lock, packets), ~src_valid
  PROVE  MuxInv'
<1> DEFINE c == Chosen
           bound == (N - 1) * MaxBeats + 1
<1>1. /\ MuxTypeOK' /\ locked' = {}
      /\ \A i \in valid \ {saved_grant} : beats'[i] = beats[i]
      /\ \A i \in Inputs \ valid : waited'[i] = 0
      /\ \A i \in valid \ {saved_grant} :
           waited'[i] = IF src_ready THEN waited[i] + 1 ELSE waited[i]
      /\ saved_grant' = c
      /\ c # Nobody => top_priority_reg' = (c + 1) % N
      /\ packet_in_progress' = FALSE /\ whole' = whole
  BY EdgeEffects
<1>2. /\ MuxTypeOK /\ N \in Nat \ {0} /\ MaxBeats \in Nat \ {0}
      /\ Inputs = 0..N-1 /\ Nobody \notin Inputs /\ valid \subseteq Inputs
      /\ \A i \in valid : beats[i] \in 1..MaxBeats
  BY Places DEF MuxInv
<1>3. \A i \in valid : i # saved_grant /\ waited[i] = 0
  BY DEF MuxInv, Turns, src_valid
<1>4. valid = {} => c = Nobody
  BY ChosenFirst DEF MuxInv
<1>5. valid # {} => c \in valid /\ c \in 0..N-1
  BY <1>2, ChosenFirst DEF MuxInv
<1> HIDE DEF c
<1>6. whole = Nobody
  BY DEF MuxInv
<1>7. \A i \in Inputs : waited'[i] \in {0, 1}
  BY <1>1, <1>2, <1>3
<1>8. bound \in Nat /\ bound >= 1
  <2>1. N - 1 \in Nat
    BY <1>2
  <2>2. (N - 1) * MaxBeats \in Nat
    BY <1>2, <2>1, Monotone
  <2> QED
    BY <2>2
<1>9. \A i \in Inputs \ valid' : waited'[i] = 0
  <2>1. ASSUME NEW i \in valid PROVE i \in valid'
    BY <1>1, <1>2, <1>3, <2>1 DEF valid
  <2> QED
    BY <1>1, <2>1
<1>10. valid # {} => src_valid' /\ beats'[c] \in 1..MaxBeats
  BY <1>1, <1>2, <1>3, <1>5 DEF src_valid, valid
<1>11. ASSUME NEW i \in valid' \ {saved_grant'}
       PROVE  IF src_valid' THEN waited'[i] + Owed(i)' <= bound
                            ELSE waited'[i] = 0
  <2>1. i \in Inputs /\ i # c /\ i \in 0..N-1
    BY <1>1, <1>2 DEF valid, Inputs
  <2>2. CASE valid = {}
    <3>1. ~src_valid'
      BY <1>1, <1>2, <1>4, <2>2 DEF src_valid, valid, Inputs, Nobody
    <3> QED
      BY <1>1, <2>1, <2>2, <3>1
  <2>3. CASE valid # {}
    <3> DEFINE a == (i - ((c + 1) % N)) % N
               b == beats'[c]
    <3>1. a \in 0..N-2
      BY <1>2, <1>5, <2>1, <2>3, FarOnCircle
    <3>2. b \in 0..MaxBeats
      BY <1>10, <2>3
    <3>3. top_priority_reg' = (c + 1) % N
      BY <1>1, <1>2, <1>5, <2>3
    <3>4. Owed(i)' = b + a * MaxBeats
      BY <1>1, <3>3 DEF Owed, Ahead, N
    <3> HIDE DEF a, b
    <3>5. b + a * MaxBeats \in Nat /\ b + a * MaxBeats <= (N - 1) * MaxBeats
          /\ (N - 1) * MaxBeats \in Nat
      BY <1>2, <3>1, <3>2, OwedAtMost
    <3>6. waited'[i] + Owed(i)' <= bound
      <4>1. waited'[i] = 0 \/ waited'[i] = 1
        BY <1>7, <2>1
      <4> QED
        BY <3>4, <3>5, <4>1
    <3> QED
      BY <1>10, <2>3, <3>6
  <2> QED
    BY <2>2, <2>3
<1>12. \A i \in Inputs : waited'[i] <= bound
  BY <1>7, <1>8
<1>13. saved_grant' # Nobody => top_priority_reg' = (saved_grant' + 1) % N
  BY <1>1
<1> QED
  BY <1>1, <1>6, <1>9, <1>11, <1>12, <1>13 DEF MuxInv, Turns, N, Inputs, Nobody

\* A packet goes on: the one let through keeps its turn.
LEMMA PacketKeepsTurns ==
  ASSUME MuxInv, NEW src_ready \in BOOLEAN, NEW lock \in SUBSET {0},
         NEW packets \in [Inputs -> 0..MaxBeats],
         MuxEdge(src_ready, lock, packets),
         src_valid, ~(src_ready /\ src_endofpacket)
  PROVE  MuxInv'
<1> DEFINE g == saved_grant
           bound == (N - 1) * MaxBeats + 1
<1>1. /\ MuxTypeOK' /\ locked' = {}
      /\ \A i \in valid \ {g} : beats'[i] = beats[i]
      /\ \A i \in Inputs \ valid : waited'[i] = 0
      /\ waited'[g] = 0
      /\ \A i \in valid \ {g} :
           waited'[i] = IF src_ready THEN waited[i] + 1 ELSE waited[i]
      /\ saved_grant' = g
      /\ top_priority_reg' = top_priority_reg
      /\ beats'[g] = IF src_ready THEN beats[g] - 1 ELSE beats[g]
      /\ whole' = IF src_ready THEN g ELSE whole
  BY EdgeEffects
<1>2. /\ MuxTypeOK /\ N \in Nat \ {0} /\ MaxBeats \in Nat \ {0}
      /\ Inputs = 0..N-1 /\ Nobody \notin Inputs /\ valid \subseteq Inputs
      /\ \A i \in Inputs : Ahead(i) \in 0..N-1
      /\ \A i \in valid : beats[i] \in 1..MaxBeats
      /\ \A i \in Inputs : waited[i] \in Nat
  BY Places DEF MuxInv
<1>3. /\ g \in valid /\ g \in 0..N-1 /\ g # Nobody
      /\ top_priority_reg = (g + 1) % N
  BY <1>2 DEF MuxInv, src_valid
<1>4. beats[g] # 1 \/ ~src_ready
  BY DEF src_endofpacket
<1>5. /\ beats[g] \in 1..MaxBeats /\ beats'[g] \in 1..MaxBeats
      /\ MaxBeats \in Nat /\ beats[g] \in Nat /\ beats'[g] \in Nat
      /\ beats'[g] = IF src_ready THEN beats[g] - 1 ELSE beats[g]
  <2>1. beats[g] \in 1..MaxBeats /\ MaxBeats \in Nat
    BY <1>2, <1>3
  <2>2. beats'[g] = IF src_ready THEN beats[g] - 1 ELSE beats[g]
    BY <1>1
  <2> QED
    BY <1>4, <2>1, <2>2
<1>6. src_valid'
  BY <1>1, <1>2, <1>3, <1>5 DEF src_valid, valid, Inputs
<1>7. ASSUME NEW i \in valid \ {g}
      PROVE  /\ waited[i] + (beats[g] + Ahead(i) * MaxBeats) <= bound
             /\ Ahead(i) * MaxBeats \in Nat
             /\ bound \in Nat
  <2>1. i \in Inputs /\ Ahead(i) \in Nat /\ N - 1 \in Nat
    BY <1>2
  <2>2. Ahead(i) * MaxBeats \in Nat /\ (N - 1) * MaxBeats \in Nat
    BY <1>2, <2>1, ProductIsNatural
  <2>3. waited[i] + Owed(i) <= bound
    BY DEF MuxInv, Turns
  <2> QED
    BY <2>2, <2>3 DEF Owed
<1>8. bound \in Nat
  <2>1. N - 1 \in Nat
    BY <1>2
  <2>2. (N - 1) * MaxBeats \in Nat
    BY <1>2, <2>1, Monotone
  <2> QED
    BY <2>2
<1>9. ASSUME NEW i \in valid' \ {saved_grant'}
      PROVE  waited'[i] + Owed(i)' <= bound
  <2>1. i \in Inputs /\ i # g /\ i \in 0..N-1
    BY <1>1, <1>2 DEF valid, Inputs
  <2>2. Owed(i)' = beats'[g] + Ahead(i) * MaxBeats
    BY <1>1 DEF Owed, Ahead, N
  <2>3. CASE i \in valid
    <3> DEFINE w == waited[i]
               v == waited'[i]
    <3>4. w \in Nat /\ v = IF src_ready THEN w + 1 ELSE w
      BY <1>1, <1>2, <2>1, <2>3
    <3> HIDE DEF w, v
    <3>5. v \in Nat /\ v + beats'[g] <= w + beats[g]
      BY <1>5, <3>4
    <3>1. waited'[i] + beats'[g] <= waited[i] + beats[g]
      BY <3>5 DEF w, v
    <3>2. /\ waited'[i] \in Int /\ waited[i] \in Int
          /\ beats'[g] \in Int /\ beats[g] \in Int
      BY <1>5, <3>4, <3>5 DEF w, v
    <3>3. /\ waited[i] + (beats[g] + Ahead(i) * MaxBeats) <= bound
          /\ Ahead(i) * MaxBeats \in Nat /\ bound \in Nat
      BY <1>7, <2>1, <2>3
    <3> HIDE DEF bound
    <3> QED
      BY <2>2, <3>1, <3>2, <3>3
  <2>4. CASE i \notin valid
    <3>1. Ahead(i) \in 0..N-2
      BY <1>2, <1>3, <2>1, FarOnCircle DEF Ahead
    <3> DEFINE a == Ahead(i)
               b == beats'[g]
    <3>4. a \in 0..N-2 /\ b \in 0..MaxBeats
      <4>1. a \in 0..N-2
        BY <3>1
      <4>2. b \in 0..MaxBeats
        BY <1>5
      <4> QED
        BY <4>1, <4>2
    <3> HIDE DEF a, b
    <3>5. b + a * MaxBeats <= (N - 1) * MaxBeats /\ b + a * MaxBeats \in Nat
          /\ (N - 1) * MaxBeats \in Nat
      BY <1>2, <3>4, OwedAtMost
    <3>2. beats'[g] + Ahead(i) * MaxBeats <= (N - 1) * MaxBeats
          /\ beats'[g] + Ahead(i) * MaxBeats \in Nat
          /\ (N - 1) * MaxBeats \in Nat
      BY <3>5 DEF a, b
    <3>3. waited'[i] = 0
      BY <1>1, <2>1, <2>4
    <3> QED
      BY <2>2, <3>2, <3>3
  <2> QED
    BY <2>3, <2>4
<1>10. ASSUME NEW i \in Inputs PROVE waited'[i] <= bound
  <2>1. CASE i \in valid \ {g}
    <3>1. /\ waited[i] + (beats[g] + Ahead(i) * MaxBeats) <= bound
          /\ Ahead(i) * MaxBeats \in Nat /\ bound \in Nat
      BY <1>7, <2>1
    <3>2. beats[g] \in 1..MaxBeats /\ MaxBeats \in Nat /\ waited[i] \in Nat
      BY <1>2, <1>3
    <3>3. waited'[i] <= waited[i] + 1
      BY <1>1, <2>1, <3>2
    <3>4. waited'[i] \in Nat
      BY <1>1, <2>1, <3>2
    <3> HIDE DEF bound
    <3> QED
      BY <3>1, <3>2, <3>3, <3>4
  <2>2. CASE i \notin valid \ {g}
    BY <1>1, <1>3, <1>8, <2>2
  <2> QED
    BY <2>1, <2>2
<1>11. \A i \in Inputs \ valid' : waited'[i] = 0
  <2>1. ASSUME NEW i \in valid PROVE i \in valid'
    BY <1>1, <1>2, <1>5, <2>1 DEF valid, Inputs
  <2> QED
    BY <1>1, <2>1
<1>12. whole' # Nobody => saved_grant' = whole' /\ src_valid'
  <2>1. whole # Nobody => g = whole
    BY DEF MuxInv
  <2> QED
    BY <1>1, <1>6, <2>1
<1> QED
  BY <1>1, <1>3, <1>6, <1>9, <1>10, <1>11, <1>12
  DEF MuxInv, Turns, N, Inputs, Nobody

\* A packet ends: whoever waits comes closer by at least the packet of one other.
LEMMA PacketEndKeepsTurns ==
  ASSUME MuxInv, NEW src_ready \in BOOLEAN, NEW lock \in SUBSET {0},
         NEW packets \in [Inputs -> 0..MaxBeats],
         MuxEdge(src_ready, lock, packets),
         src_valid, src_ready, src_endofpacket
  PROVE  MuxInv'
<1> DEFINE g == saved_grant
           c == Chosen
           bound == (N - 1) * MaxBeats + 1
           others == valid \ {g}
<1>1. /\ MuxTypeOK' /\ locked' = {}
      /\ \A i \in others : beats'[i] = beats[i] /\ waited'[i] = waited[i] + 1
      /\ \A i \in Inputs \ valid : waited'[i] = 0
      /\ waited'[g] = 0 /\ beats'[g] = 0
      /\ saved_grant' = c
      /\ top_priority_reg' = (c + 1) % N
      /\ packet_in_progress' = FALSE /\ whole' = Nobody
  BY EdgeEffects
<1>2. /\ MuxTypeOK /\ N \in Nat \ {0} /\ MaxBeats \in Nat \ {0}
      /\ Inputs = 0..N-1 /\ Nobody \notin Inputs /\ valid \subseteq Inputs
      /\ \A i \in Inputs : Ahead(i) \in 0..N-1
      /\ \A i \in valid : beats[i] \in 1..MaxBeats
      /\ \A i \in Inputs : waited[i] \in Nat
  BY Places DEF MuxInv
<1>3. g \in valid /\ beats[g] = 1 /\ g \in 0..N-1
  BY <1>2 DEF src_valid, src_endofpacket
<1>4. /\ c \in valid
      /\ \A i \in others : /\ c \in others
                           /\ c # i => (i - ((c + 1) % N)) % N \in 0..Ahead(i) - 1
  <2>1. c \in valid
    BY <1>3, ChosenFirst DEF MuxInv
  <2>2. ASSUME NEW i \in others
        PROVE  /\ c \in others
               /\ c # i => (i - ((c + 1) % N)) % N \in 0..Ahead(i) - 1
    BY <1>2, <1>3, ComesCloser
  <2> QED
    BY <2>1, <2>2
<1> HIDE DEF c
<1>5. bound \in Nat /\ (N - 1) * MaxBeats \in Nat
  <2>1. N - 1 \in Nat
    BY <1>2
  <2>2. (N - 1) * MaxBeats \in Nat
    BY <1>2, <2>1, ProductIsNatural
  <2> QED
    BY <2>2
<1>6. ASSUME NEW i \in others
      PROVE  /\ waited[i] + (1 + Ahead(i) * MaxBeats) <= bound
             /\ Ahead(i) \in Nat /\ waited[i] \in Nat
             /\ Ahead(i) * MaxBeats \in Nat
  <2>1. Ahead(i) \in Nat /\ waited[i] \in Nat
    BY <1>2
  <2>2. Ahead(i) * MaxBeats \in Nat
    BY <1>2, <2>1, ProductIsNatural
  <2>3. waited[i] + Owed(i) <= bound
    BY DEF MuxInv, Turns
  <2> QED
    BY <1>3, <2>1, <2>2, <2>3 DEF Owed
<1>7. \A i \in Inputs : i \notin others => waited'[i] = 0
  BY <1>1
<1>8. \A i \in Inputs \ valid' : waited'[i] = 0
  <2>1. ASSUME NEW i \in others PROVE i \in valid'
    BY <1>1, <1>2, <2>1 DEF valid, Inputs
  <2> QED
    BY <1>7, <2>1
<1>9. ASSUME NEW i \in Inputs PROVE waited'[i] <= bound
  <2>1. CASE i \in others
    <3> DEFINE w == waited[i]
               v == waited'[i]
               r == Ahead(i) * MaxBeats
    <3>1. v = w + 1
      BY <1>1, <2>1
    <3>2. w + (1 + r) <= bound /\ w \in Nat /\ r \in Nat
      BY <1>6, <2>1
    <3> HIDE DEF w, v, r, bound
    <3>3. v <= bound
      BY <1>5, <3>1, <3>2
    <3> QED
      BY <3>3 DEF v
  <2>2. CASE i \notin others
    BY <1>5, <1>7, <2>2
  <2> QED
    BY <2>1, <2>2
<1>10. ASSUME NEW i \in valid' \ {saved_grant'}
       PROVE  IF src_valid' THEN waited'[i] + Owed(i)' <= bound
                            ELSE waited'[i] = 0
  <2>1. i \in Inputs /\ i # c /\ i \in 0..N-1 /\ c \in Inputs /\ c \in 0..N-1
    BY <1>1, <1>2, <1>4 DEF valid, Inputs
  <2> DEFINE a == (i - ((c + 1) % N)) % N
             b == beats'[c]
  <2>2. Owed(i)' = b + a * MaxBeats
    BY <1>1 DEF Owed, Ahead, N
  <2>3. CASE i \in others
    <3>1. c \in others /\ a \in 0..Ahead(i) - 1
      BY <1>4, <2>1, <2>3
    <3>2. b \in 1..MaxBeats
      BY <1>1, <1>2, <3>1
    <3>3. src_valid'
      BY <1>1, <2>1, <3>2 DEF src_valid, valid, Inputs
    <3> DEFINE w == waited[i]
               v == waited'[i]
               h == Ahead(i)
    <3>4. v = w + 1 /\ w + (1 + h * MaxBeats) <= bound
          /\ w \in Nat /\ h \in Nat /\ h * MaxBeats \in Nat /\ a \in 0..h - 1
      BY <1>1, <1>6, <2>3, <3>1
    <3> HIDE DEF a, b, w, v, h
    <3>5. MaxBeats \in Nat /\ a \in Nat /\ a + 1 \in Nat /\ a + 1 <= h
      BY <1>2, <3>4
    <3>6. (a + 1) * MaxBeats <= h * MaxBeats /\ a * MaxBeats \in Nat
      BY <3>4, <3>5, Monotone, ProductIsNatural
    <3>7. (a + 1) * MaxBeats = a * MaxBeats + MaxBeats
      BY <3>5, Successor
    <3> HIDE DEF bound
    <3>8. v + (b + a * MaxBeats) <= bound
      BY <1>5, <3>2, <3>4, <3>5, <3>6, <3>7
    <3> QED
      BY <2>2, <3>3, <3>8 DEF v
  <2>4. CASE i \notin others
    <3>1. waited'[i] = 0
      BY <1>7, <2>1, <2>4
    <3>2. CASE src_valid'
      <4>1. b \in 0..MaxBeats
        BY <1>1, <2>1 DEF MuxTypeOK, Inputs
      <4>2. a \in 0..N-2
        BY <1>2, <2>1, FarOnCircle
      <4> HIDE DEF a, b
      <4>3. b + a * MaxBeats \in Nat /\ b + a * MaxBeats <= (N - 1) * MaxBeats
        BY <1>2, <4>1, <4>2, OwedAtMost
      <4> QED
        BY <1>5, <2>2, <3>1, <3>2, <4>3
    <3> QED
      BY <3>1, <3>2
  <2> QED
    BY <2>3, <2>4
<1>11. top_priority_reg' = (saved_grant' + 1) % N
  BY <1>1
<1> QED
  BY <1>1, <1>8, <1>9, <1>10, <1>11 DEF MuxInv, Turns, N, Inputs, Nobody

LEMMA MuxInvInit == MuxInit => MuxInv
<1> SUFFICES ASSUME MuxInit PROVE MuxInv
  OBVIOUS
<1>1. NUM_INPUTS \in Nat \ {0} /\ MaxBeats \in Nat \ {0}
  BY MuxAssumption
<1>2. MuxTypeOK
  <2>1. 0 \in Inputs /\ 0 \in 0..MaxBeats
    BY <1>1 DEF Inputs
  <2>2. beats \in [Inputs -> 0..MaxBeats] /\ waited \in [Inputs -> Nat]
    BY <2>1 DEF MuxInit
  <2> QED
    BY <2>1, <2>2 DEF MuxInit, MuxTypeOK
<1>3. valid = {}
  BY DEF valid, MuxInit
<1>4. (N - 1) * MaxBeats + 1 >= 0
  <2>1. N - 1 \in Nat /\ MaxBeats \in Nat
    BY <1>1 DEF N
  <2>2. (N - 1) * MaxBeats \in Nat
    BY <2>1, ProductIsNatural
  <2> QED
    BY <2>2
<1> QED
  BY <1>2, <1>3, <1>4 DEF MuxInv, MuxInit, Turns

LEMMA MuxInvNext == MuxInv /\ [MuxNext]_muxVars => MuxInv'
<1> SUFFICES ASSUME MuxInv, [MuxNext]_muxVars PROVE MuxInv'
  OBVIOUS
<1>1. CASE MuxNext
  <2>1. PICK src_ready \in BOOLEAN, lock \in SUBSET {0},
             packets \in [Inputs -> 0..MaxBeats] :
               MuxEdge(src_ready, lock, packets)
    BY <1>1 DEF MuxNext
  <2> QED
    BY <2>1, IdleKeepsTurns, PacketKeepsTurns, PacketEndKeepsTurns
<1>2. CASE UNCHANGED muxVars
  BY <1>2 DEF muxVars, MuxInv, MuxTypeOK, Turns, Owed, Ahead, src_valid, valid
<1> QED
  BY <1>1, <1>2

-----------------------------------------------------------------------------
\* The invariant holds of every reachable state.
THEOREM MuxInvariant == MuxSpec => []MuxInv
<1> QED
  BY MuxInvInit, MuxInvNext, PTL DEF MuxSpec

\* Nobody waits longer than a packet of everyone else takes and one edge for the
\* arbiter, and no packet is mixed with another one's, however many masters there
\* are and however long their packets: the arbiter of the interconnect
\* (altera_merlin_arbitrator.sv) is fair.
THEOREM TurnsAreTaken == MuxSpec => []TurnsTaken
<1>1. MuxInv => TurnsTaken
  BY DEF MuxInv, TurnsTaken, N
<1> QED
  BY <1>1, MuxInvariant, PTL

-----------------------------------------------------------------------------
(***************************************************************************)
(* The SDRAM controller.  The inductive invariant says for every state of  *)
(* the two FSMs which rows are open, how long ago each command was put     *)
(* out, what is still on its way through the chip, and which requests have *)
(* no command yet.                                                         *)
(***************************************************************************)

Waiting(next) == m_state = "WAIT" /\ m_next = next

\* A row is open, or is being opened, for the requests that are served.
Open ==
  \/ m_state \in {"RD", "WR", "SPIN", "REC"}
  \/ Waiting("RD") \/ Waiting("WR")

Words == Values \cup {NoData}

Timed == {"ACT", "PRE", "ARF", "WR", "LMR"}

\* What the main FSM's registers may hold together.
MainInv ==
  /\ m_state \in {"IDLE", "RAS", "WAIT", "RD", "WR", "SPIN", "REC", "PRE", "ARF"}
  /\ m_next \in {"IDLE", "RD", "WR", "ARF"} /\ m_count \in 0..8
  /\ m_state = "WAIT" => m_count >= 1
  /\ Waiting("ARF") => m_count <= 2
  /\ Waiting("RD") \/ Waiting("WR") => m_count <= 3
  /\ Waiting("IDLE") => ack_refresh_request \/ m_count <= 2
  /\ m_state = "REC" => m_count = 1 /\ m_next = "IDLE"
  /\ m_state = "PRE" => m_count = 2 /\ m_next \in {"ARF", "IDLE"}
  /\ ack_refresh_request => m_state = "IDLE" \/ Waiting("IDLE")
  /\ ~init_done => m_state = "IDLE"
  /\ f_pop => m_state \in {"RAS", "RD", "WR"}

\* The requests: what waits, and the one that was looked at.
RequestInv ==
  /\ fifo \in Seq(Requests) /\ Len(fifo) <= 2
  /\ active \in Requests \cup {NoRequest}
  /\ m_state = "RAS" => f_pop /\ fifo # <<>> /\ Head(fifo) = active
  /\ Open \/ m_state = "RAS" => active \in Requests
  /\ m_state = "RD" \/ Waiting("RD") => active.rnw
  /\ m_state = "WR" \/ Waiting("WR") => ~active.rnw

\* The command that is out.
CommandInv ==
  /\ m_cmd.op \in {"NOP", "PRE", "ACT", "ARF", "RD", "WR", "LMR"}
  /\ m_state \in {"RAS", "PRE", "ARF", "REC"} => m_cmd.op = "NOP"
  /\ m_state = "IDLE" /\ init_done => m_cmd.op = "NOP"
  /\ ~init_done => m_cmd.op \in {"NOP", "PRE", "ARF", "LMR"}
  /\ m_cmd.op = "ACT" => /\ Waiting("RD") \/ Waiting("WR")
                         /\ m_cmd.bank \in Banks /\ m_cmd.row \in Rows
  /\ m_cmd.op \in {"RD", "WR"} =>
       /\ Open \/ Waiting("IDLE")
       /\ m_cmd.bank \in Banks /\ m_cmd.column \in Columns
       /\ rows[m_cmd.bank] \in Rows
  /\ m_cmd.op = "WR" => m_cmd.dqm \in BOOLEAN /\ m_cmd.data \in Values

\* The chip's registers.
ChipTypes ==
  /\ rows \in [Banks -> Rows \cup {NoRow}] /\ cells \in [Addresses -> Values]
  /\ out \in Words \X Words /\ since \in [Timed -> 1..TRFC]
  /\ refs \in 0..InitRefs

\* The initialisation.
StartInv ==
  /\ i_state \in {"RST", "PRE", "ARF", "WAIT", "LMR", "DONE"}
  /\ i_next \in {"RST", "ARF", "LMR", "DONE"} /\ i_count \in 0..8
  /\ i_cmd.op \in {"NOP", "PRE", "ARF", "LMR"} /\ i_refs \in 0..InitRefs-1
  /\ i_state = "WAIT" => i_count >= 1 /\ i_next # "RST"
  /\ i_state # "WAIT" => i_cmd.op = "NOP"
  /\ i_cmd.op = "PRE" => i_next = "ARF"
  /\ i_cmd.op = "ARF" => i_next \in {"ARF", "LMR"}
  /\ i_cmd.op = "LMR" => i_next = "DONE"
  /\ init_done => i_state = "DONE"
  /\ i_state \in {"RST", "PRE"} => m_cmd.op = "NOP"

\* All rows are closed, or will be by the command that is out.
Closed ==
  \/ m_cmd.op = "PRE"
  \/ m_cmd.op # "ACT" /\ \A k \in Banks : rows[k] = NoRow

\* Rows are left open only for a refresh, which closes them; the one that is
\* open is that of the request looked at last.
RowInv ==
  /\ m_state \in {"RAS", "ARF"} \/ Waiting("ARF") => Closed
  /\ Waiting("IDLE") \/ (m_state = "IDLE" /\ init_done) =>
       Closed \/ (refresh_request /\ ~ack_refresh_request)
  /\ Open => /\ m_cmd.op # "PRE"
             /\ m_cmd.op = "ACT" => /\ m_cmd.bank = active.addr.bank
                                    /\ m_cmd.row = active.addr.row
             /\ m_cmd.op # "ACT" => rows[active.addr.bank] = active.addr.row
  /\ ~init_done /\ i_state \notin {"RST", "PRE"} => i_cmd.op = "PRE" \/ Closed

\* No read is on its way through the chip: no data will meet those of a write.
Drained == m_cmd.op # "RD" /\ out[1] = NoData /\ out[2] = NoData

WireInv ==
  /\ Closed \/ ~init_done => Drained
  /\ Open /\ ~active.rnw => Drained
  /\ m_state = "PRE" => out[1] = NoData

\* Edges since the command was put out, but no more than TRFC.
Age(op) == IF m_cmd.op = op THEN 0 ELSE since[op]

\* As Age, from the command on its way from the initialisation.
Coming(op) == IF i_cmd.op = op THEN -1 ELSE Age(op)

\* The command has its time until the next one that must wait for it: a row is
\* opened from RAS, closed from PRE and refreshed from ARF.
Waited(op, time) ==
  /\ Open => Age(op) >= time
  /\ m_state \in {"RAS", "PRE", "ARF"} => Age(op) + 1 >= time
  /\ m_state = "IDLE" /\ init_done => Age(op) + 2 >= time
  /\ Waiting("IDLE") => Age(op) + m_count + 2 >= time
  /\ Waiting("ARF") => Age(op) + m_count + 1 >= time

WaitedFirst(op, time) ==
  ~init_done =>
    /\ i_state \in {"RST", "PRE"} => Age(op) >= time
    /\ i_state \in {"ARF", "LMR"} => Age(op) + 2 >= time
    /\ i_cmd.op \in {"ARF", "LMR"} => Age(op) + 1 >= time
    /\ i_state = "WAIT" /\ i_next # "DONE" => Coming(op) + i_count + 2 >= time
    /\ i_state = "WAIT" /\ i_next = "DONE" => Coming(op) + i_count + 3 >= time
    /\ i_state = "DONE" => Age(op) + 3 >= time

Opened ==
  /\ Waiting("RD") \/ Waiting("WR") => Age("ACT") + m_count + 1 >= TRCD
  /\ m_state \in {"RD", "WR", "SPIN"} => Age("ACT") + 1 >= TRCD

WrittenLately ==
  /\ m_state \in {"REC", "IDLE"} => Age("WR") + 2 >= TWR
  /\ m_state = "PRE" => Age("WR") + 1 >= TWR
  /\ ~init_done => Age("WR") >= TWR

TimeInv ==
  /\ Waited("PRE", TRP) /\ Waited("ARF", TRFC) /\ Waited("LMR", TMRD)
  /\ WaitedFirst("PRE", TRP) /\ WaitedFirst("ARF", TRFC)
  /\ WaitedFirst("LMR", TMRD)
  /\ Opened /\ WrittenLately

\* The refreshes of the initialisation, with those that are not done yet.
One(p) == IF p THEN 1 ELSE 0

Refreshed ==
  refs + One(i_cmd.op = "ARF") + One(m_cmd.op = "ARF")

FirstRefreshes ==
  ~init_done =>
    /\ i_state \in {"RST", "PRE"} => i_refs = 0 /\ Refreshed = 0
    /\ i_state = "ARF" \/ (i_state = "WAIT" /\ i_next = "ARF") =>
         Refreshed = i_refs
    /\ i_state \in {"LMR", "DONE"} \/ (i_state = "WAIT" /\ i_next # "ARF") =>
         Refreshed = InitRefs

\* Edges until a refresh that is due has been acknowledged, at most.
Rank ==
  IF ack_refresh_request THEN 1
  ELSE IF m_state = "WAIT"
       THEN m_count + (IF m_next = "ARF" THEN 2 ELSE IF m_next = "IDLE" THEN 6 ELSE 9)
  ELSE IF m_state = "PRE" THEN (IF m_next = "ARF" THEN 5 ELSE 9)
  ELSE IF m_state = "ARF" THEN 2
  ELSE IF m_state = "IDLE" THEN 6
  ELSE IF m_state = "SPIN" THEN 8
  ELSE IF m_state \in {"RD", "WR"} THEN 9
  ELSE IF m_state = "REC" THEN 10
  ELSE 13

RefreshInv ==
  /\ refresh_counter \in Nat
  /\ refresh_request =>
       init_done /\ refresh_counter + 13 >= Rank + Period
  /\ ~za_cannotrefresh

ChipInv ==
  /\ MainInv /\ RequestInv /\ CommandInv /\ ChipTypes /\ StartInv /\ RowInv
  /\ WireInv /\ TimeInv /\ FirstRefreshes /\ RefreshInv /\ Legal


-----------------------------------------------------------------------------
(* What an edge does beside the main FSM. *)

LEMMA AlwaysBeside ==
  ASSUME NEW asked, SDRAMEdge(asked)
  PROVE  Beside(asked)
  BY Zenon DEF SDRAMEdge, Initialising, Idle, Activate, Wait, Read, Write, Spin,
               Recover, Precharge, Refresh

\* The flags at the next edge.
LEMMA NextFlags ==
  ASSUME NEW asked, SDRAMEdge(asked)
  PROVE  /\ init_done' <=> init_done \/ i_state = "DONE"
         /\ refresh_request' <=>
              /\ refresh_counter = 0 \/ refresh_request
              /\ ~ack_refresh_request /\ init_done
         /\ za_cannotrefresh' <=> refresh_counter = 0 /\ refresh_request
  BY AlwaysBeside, Zenon DEF Beside, InitFSM, RefreshTimer

LEMMA MainStep ==
  ASSUME ChipInv, NEW asked, SDRAMEdge(asked)
  PROVE  MainInv'
<1> USE DEF Waiting
<1>0. /\ MainInv /\ RefreshInv /\ RequestInv
  BY DEF ChipInv
<1>1. init_done' <=> init_done \/ i_state = "DONE"
  BY NextFlags
<1>2. CASE Initialising(asked)
  BY <1>0, <1>1, <1>2 DEF MainInv, Initialising
<1>3. CASE Idle(asked)
  BY <1>0, <1>1, <1>3 DEF MainInv, Idle, Goto, LookAtHead, NoLook
<1>4. CASE Activate(asked)
  BY <1>0, <1>1, <1>4 DEF MainInv, Activate, Goto, NoLook
<1>5. CASE Wait(asked)
  BY <1>0, <1>1, <1>5 DEF MainInv, Wait, NoLook
<1>6. CASE Read(asked)
  BY <1>0, <1>1, <1>6 DEF MainInv, Read, Serving, Goto, LookAtHead, NoLook
<1>7. CASE Write(asked)
  BY <1>0, <1>1, <1>7 DEF MainInv, Write, Serving, Goto, LookAtHead, NoLook
<1>8. CASE Spin(asked)
  BY <1>0, <1>1, <1>8 DEF MainInv, Spin, Goto, LookAtHead, NoLook
<1>9. CASE Recover(asked)
  BY <1>0, <1>1, <1>9 DEF MainInv, Recover, NoLook
<1>10. CASE Precharge(asked)
  BY <1>0, <1>1, <1>10 DEF MainInv, Precharge, NoLook
<1>11. CASE Refresh(asked)
  BY <1>0, <1>1, <1>11 DEF MainInv, Refresh, Goto, NoLook
<1> QED
  BY <1>2, <1>3, <1>4, <1>5, <1>6, <1>7, <1>8, <1>9, <1>10, <1>11 DEF SDRAMEdge
-----------------------------------------------------------------------------
(* The requests and the command. *)

\* The FIFO takes the request at the one end while the head leaves at the other.
LEMMA FifoStep ==
  ASSUME RequestInv, NEW asked \in Requests \cup {NoRequest}, InputFifo(asked)
  PROVE  /\ fifo' \in Seq(Requests) /\ Len(fifo') <= 2
         /\ ~f_select /\ fifo # <<>> =>
              fifo' # <<>> /\ Head(fifo') = Head(fifo)
<1> DEFINE kept == IF f_select THEN Tail(fifo) ELSE fifo
<1> DEFINE new == IF asked # NoRequest THEN <<asked>> ELSE <<>>
<1>0. fifo \in Seq(Requests) /\ Len(fifo) <= 2
  BY DEF RequestInv
<1>1. f_select => fifo # <<>>
  BY DEF f_select, pending, f_empty
<1>2. kept \in Seq(Requests) /\ Len(kept) <= 2
  BY <1>0, <1>1
<1>3. new \in Seq(Requests) /\ Len(new) <= 1 /\ (asked = NoRequest => Len(new) = 0)
  OBVIOUS
<1>4. asked # NoRequest => Len(kept) <= 1
  <2>1. asked # NoRequest => Len(fifo) # 2
    BY DEF InputFifo, za_waitrequest
  <2>2. Len(fifo) \in Nat /\ (asked # NoRequest => Len(fifo) <= 1)
    <3>1. Len(fifo) \in Nat /\ Len(fifo) <= 2
      BY <1>0
    <3>2. \A n \in Nat : n <= 2 /\ n # 2 => n <= 1
      OBVIOUS
    <3> QED
      BY <3>1, <3>2, <2>1
  <2>3. Len(kept) <= Len(fifo)
    <3>1. CASE f_select
      <4>1. fifo # <<>> /\ kept = Tail(fifo)
        BY <3>1, <1>1
      <4>2. Len(kept) = Len(fifo) - 1
        BY <4>1, <1>0
      <4> QED
        BY <4>2, <2>2
    <3>2. CASE ~f_select
      <4>1. kept = fifo
        BY <3>2
      <4> QED
        BY <4>1, <2>2
    <3> QED
      BY <3>1, <3>2
  <2>4. Len(kept) \in Nat
    BY <1>2
  <2> QED
    BY <2>2, <2>3, <2>4
<1>5. fifo' = kept \o new
  BY DEF InputFifo
<1> HIDE DEF kept, new
<1>6. fifo' \in Seq(Requests) /\ Len(fifo') = Len(kept) + Len(new)
  BY <1>2, <1>3, <1>5
<1>7. Len(fifo') <= 2
  <2>1. CASE asked = NoRequest
    BY <2>1, <1>2, <1>3, <1>6
  <2>2. CASE asked # NoRequest
    BY <2>2, <1>2, <1>3, <1>4, <1>6
  <2> QED
    BY <2>1, <2>2
<1>8. ASSUME ~f_select, fifo # <<>>
      PROVE  fifo' # <<>> /\ Head(fifo') = Head(fifo)
  <2>1. kept = fifo /\ Len(fifo) >= 1
    BY <1>8, <1>0 DEF kept
  <2>2. fifo'[1] = fifo[1] /\ Len(fifo') >= 1
    BY <2>1, <1>0, <1>3, <1>5
  <2> QED
    BY <2>1, <2>2, <1>0, <1>6
<1> QED
  BY <1>6, <1>7, <1>8

LEMMA HeadIsRequest ==
  ASSUME RequestInv, ~f_empty
  PROVE  f_head \in Requests
  BY DEF RequestInv, f_empty, f_head

\* The command is for a request to the row that is open.
LEMMA ServedFits ==
  ASSUME ChipInv, m_state \in {"RD", "WR"}
  PROVE  /\ active \in Requests /\ Served \in Requests
         /\ Served.addr.bank = active.addr.bank
         /\ Served.addr.row = active.addr.row
         /\ Served.rnw = active.rnw
<1>1. active \in Requests /\ RequestInv
  BY DEF ChipInv, RequestInv, Open
<1>2. CASE f_select
  <2>1. f_head \in Requests /\ f_head.rnw = active.rnw
        /\ f_head.addr.bank = active.addr.bank
        /\ f_head.addr.row = active.addr.row
    BY <1>1, <1>2, HeadIsRequest DEF f_select, pending
  <2> QED
    BY <1>1, <1>2, <2>1 DEF Served
<1>3. CASE ~f_select
  BY <1>1, <1>3 DEF Served
<1> QED
  BY <1>2, <1>3

LEMMA RequestStep ==
  ASSUME ChipInv, NEW asked \in Requests \cup {NoRequest}, SDRAMEdge(asked)
  PROVE  RequestInv'
<1> USE DEF Waiting, Open
<1>0. MainInv /\ RequestInv
  BY DEF ChipInv
<1>1. /\ fifo' \in Seq(Requests) /\ Len(fifo') <= 2
      /\ ~f_select /\ fifo # <<>> => fifo' # <<>> /\ Head(fifo') = Head(fifo)
  BY <1>0, AlwaysBeside, FifoStep DEF Beside
<1>a. ~f_empty => f_head \in Requests
  BY <1>0, HeadIsRequest
<1>2. CASE Initialising(asked)
  BY <1>0, <1>1, <1>2 DEF RequestInv, Initialising
<1>3. CASE Idle(asked)
  <2>1. ~f_select
    BY <1>0, <1>3 DEF Idle, MainInv, f_select
  <2> QED
    BY <1>0, <1>1, <1>3, <1>a, <2>1
       DEF RequestInv, Idle, Goto, LookAtHead, NoLook, f_empty, f_head
<1>4. CASE Activate(asked)
  BY <1>0, <1>1, <1>4 DEF RequestInv, Activate, Goto, NoLook
<1>5. CASE Wait(asked)
  BY <1>0, <1>1, <1>5 DEF RequestInv, Wait, NoLook, MainInv
<1>6. CASE Read(asked)
  BY <1>0, <1>1, <1>6, <1>a
     DEF RequestInv, Read, Serving, Goto, LookAtHead, NoLook, pending
<1>7. CASE Write(asked)
  BY <1>0, <1>1, <1>7, <1>a
     DEF RequestInv, Write, Serving, Goto, LookAtHead, NoLook, pending
<1>8. CASE Spin(asked)
  BY <1>0, <1>1, <1>8, <1>a
     DEF RequestInv, Spin, Goto, LookAtHead, NoLook, pending
<1>9. CASE Recover(asked)
  BY <1>0, <1>1, <1>9 DEF RequestInv, MainInv, Recover, NoLook
<1>10. CASE Precharge(asked)
  BY <1>0, <1>1, <1>10 DEF RequestInv, MainInv, Precharge, NoLook
<1>11. CASE Refresh(asked)
  BY <1>0, <1>1, <1>11 DEF RequestInv, Refresh, Goto, NoLook
<1> QED
  BY <1>2, <1>3, <1>4, <1>5, <1>6, <1>7, <1>8, <1>9, <1>10, <1>11 DEF SDRAMEdge

\* The rows after the command that is out.
LEMMA RowsStep ==
  ASSUME ChipInv, Chip
  PROVE  /\ rows' \in [Banks -> Rows \cup {NoRow}]
         /\ Closed => \A k \in Banks : rows'[k] = NoRow
         /\ Open => rows'[active.addr.bank] = active.addr.row
         /\ m_cmd.op \notin {"ACT", "PRE"} => rows' = rows
<1>1. /\ rows \in [Banks -> Rows \cup {NoRow}]
      /\ m_cmd.op = "ACT" => m_cmd.bank \in Banks /\ m_cmd.row \in Rows
  BY DEF ChipInv, ChipTypes, CommandInv
<1>2. rows' = CASE m_cmd.op = "ACT" -> [rows EXCEPT ![m_cmd.bank] = m_cmd.row]
                [] m_cmd.op = "PRE" -> [k \in Banks |-> NoRow]
                [] OTHER -> rows
  BY DEF Chip
<1>3. rows' \in [Banks -> Rows \cup {NoRow}]
  BY <1>1, <1>2
<1>4. Closed => \A k \in Banks : rows'[k] = NoRow
  BY <1>1, <1>2 DEF Closed
<1>5. ASSUME Open PROVE rows'[active.addr.bank] = active.addr.row
  <2>1. /\ m_cmd.op # "PRE"
        /\ m_cmd.op = "ACT" => /\ m_cmd.bank = active.addr.bank
                               /\ m_cmd.row = active.addr.row
        /\ m_cmd.op # "ACT" => rows[active.addr.bank] = active.addr.row
    BY <1>5 DEF ChipInv, RowInv
  <2> QED
    BY <2>1, <1>1, <1>2
<1>6. m_cmd.op \notin {"ACT", "PRE"} => rows' = rows
  BY <1>2
<1> QED
  BY <1>3, <1>4, <1>5, <1>6

LEMMA CommandStep ==
  ASSUME ChipInv, NEW asked \in Requests \cup {NoRequest}, SDRAMEdge(asked)
  PROVE  CommandInv'
<1> USE DEF Waiting, Open
<1>0. /\ MainInv /\ RequestInv /\ CommandInv /\ StartInv
      /\ Requests \subseteq
           [rnw : BOOLEAN, addr : Addresses, dqm : BOOLEAN, data : Values]
  BY SDRAMAssumption DEF ChipInv
<1>1. /\ init_done' <=> init_done \/ i_state = "DONE"
      /\ Chip
  BY NextFlags, AlwaysBeside DEF Beside
<1>2. CASE Initialising(asked)
  BY <1>0, <1>1, <1>2 DEF CommandInv, MainInv, StartInv, Initialising
<1>3. CASE Idle(asked)
  BY <1>0, <1>1, <1>3 DEF CommandInv, Idle, Goto, LookAtHead, NoLook, NOP
<1>4. CASE Activate(asked)
  <2>1. active \in Requests /\ active.addr \in Addresses
    BY <1>0, <1>4 DEF RequestInv, Activate
  <2>2. /\ m_cmd'.op = "ACT" /\ m_cmd'.bank \in Banks /\ m_cmd'.row \in Rows
    BY <1>4, <2>1 DEF Activate, ACT, Addresses
  <2> QED
    BY <1>0, <1>1, <1>4, <2>2 DEF CommandInv, MainInv, Activate, Goto, NoLook
<1>5. CASE Wait(asked)
  BY <1>0, <1>1, <1>5 DEF CommandInv, MainInv, Wait, NoLook, NOP
<1>6. ASSUME m_state \in {"RD", "WR"}
      PROVE  Served \in Requests /\ rows'[Served.addr.bank] \in Rows
  <2>1. /\ active \in Requests /\ Served \in Requests
        /\ Served.addr.bank = active.addr.bank
    BY <1>6, ServedFits
  <2>2. rows'[active.addr.bank] = active.addr.row
    BY <1>6, <1>1, RowsStep
  <2> QED
    BY <2>1, <2>2, <1>0 DEF Addresses
<1>7. CASE Read(asked)
  <2>1. Served.addr \in Addresses /\ rows'[Served.addr.bank] \in Rows
    BY <1>0, <1>6, <1>7 DEF Read
  <2>2. \/ m_cmd' = NOP
        \/ /\ m_cmd'.op = "RD" /\ m_cmd'.bank \in Banks
           /\ m_cmd'.column \in Columns /\ rows'[m_cmd'.bank] \in Rows
    BY <1>7, <2>1 DEF Read, Serving, RD, Addresses
  <2>3. m_state' \in {"RD", "SPIN"} \/ (m_state' = "WAIT" /\ m_next' = "IDLE")
    BY <1>7 DEF Read, Serving, Goto
  <2>4. init_done'
    BY <1>0, <1>1, <1>7 DEF MainInv, Read
  <2> QED
    BY <2>2, <2>3, <2>4 DEF CommandInv, NOP
<1>8. CASE Write(asked)
  <2>1. Served \in Requests /\ Served.addr \in Addresses
        /\ rows'[Served.addr.bank] \in Rows
    BY <1>0, <1>6, <1>8 DEF Write
  <2>2. \/ m_cmd' = NOP
        \/ /\ m_cmd'.op = "WR" /\ m_cmd'.bank \in Banks
           /\ m_cmd'.column \in Columns /\ rows'[m_cmd'.bank] \in Rows
           /\ m_cmd'.dqm \in BOOLEAN /\ m_cmd'.data \in Values
    BY <1>0, <1>8, <2>1 DEF Write, Serving, WR, Addresses
  <2>3. m_state' \in {"WR", "SPIN"} \/ (m_state' = "WAIT" /\ m_next' = "IDLE")
    BY <1>8 DEF Write, Serving, Goto
  <2>4. init_done'
    BY <1>0, <1>1, <1>8 DEF MainInv, Write
  <2> QED
    BY <2>2, <2>3, <2>4 DEF CommandInv, NOP
<1>9. CASE Spin(asked)
  BY <1>0, <1>1, <1>9 DEF CommandInv, MainInv, Spin, Goto, LookAtHead, NoLook, NOP
<1>10. CASE Recover(asked)
  BY <1>0, <1>1, <1>10 DEF CommandInv, MainInv, Recover, NoLook, NOP
<1>11. CASE Precharge(asked)
  BY <1>0, <1>1, <1>11 DEF CommandInv, MainInv, Precharge, NoLook, PRE
<1>12. CASE Refresh(asked)
  BY <1>0, <1>1, <1>12 DEF CommandInv, MainInv, Refresh, Goto, NoLook, ARF
<1> QED
  BY <1>2, <1>3, <1>4, <1>5, <1>7, <1>8, <1>9, <1>10, <1>11, <1>12 DEF SDRAMEdge

-----------------------------------------------------------------------------
(* The chip. *)

LEMMA ChipStep ==
  ASSUME ChipInv, Chip
  PROVE  ChipTypes'
<1>0. /\ ChipTypes /\ CommandInv /\ TRFC \in Nat /\ TRFC >= 1 /\ InitRefs \in Nat
  BY SDRAMAssumption DEF ChipInv
<1>1. rows' \in [Banks -> Rows \cup {NoRow}]
  BY RowsStep
<1> DEFINE cell == [bank |-> m_cmd.bank, row |-> rows[m_cmd.bank],
                    column |-> m_cmd.column]
<1>2. cells' \in [Addresses -> Values]
  <2>1. cells' = IF m_cmd.op = "WR" /\ cell \in Addresses /\ ~m_cmd.dqm
                 THEN [cells EXCEPT ![cell] = m_cmd.data] ELSE cells
    BY DEF Chip
  <2>2. m_cmd.op = "WR" => m_cmd.data \in Values
    BY <1>0 DEF CommandInv
  <2>3. cells \in [Addresses -> Values]
    BY <1>0 DEF ChipTypes
  <2> HIDE DEF cell
  <2> QED
    BY <2>1, <2>2, <2>3
<1>3. out' \in Words \X Words
  <2>1. out' = <<IF m_cmd.op = "RD" /\ cell \in Addresses THEN cells[cell]
                                                          ELSE NoData,
                 out[1]>>
    BY DEF Chip
  <2>2. cells \in [Addresses -> Values] /\ out[1] \in Words
    BY <1>0 DEF ChipTypes
  <2> HIDE DEF cell
  <2> QED
    BY <2>1, <2>2 DEF Words
<1>4. since' \in [Timed -> 1..TRFC]
  <2>1. since \in [Timed -> 1..TRFC]
    BY <1>0 DEF ChipTypes
  <2>2. since' = [op \in Timed |->
                    IF op = m_cmd.op THEN 1
                    ELSE IF since[op] < TRFC THEN since[op] + 1 ELSE TRFC]
    BY <2>1 DEF Chip
  <2>3. \A op \in Timed : (IF op = m_cmd.op THEN 1
                    ELSE IF since[op] < TRFC THEN since[op] + 1 ELSE TRFC) \in 1..TRFC
    BY <2>1, <1>0
  <2> QED
    BY <2>2, <2>3
<1>5. refs' \in 0..InitRefs
  BY <1>0 DEF Chip, ChipTypes
<1> QED
  BY <1>1, <1>2, <1>3, <1>4, <1>5 DEF ChipTypes

\* Every edge adds one to the age of a command, as far as anybody asks.
LEMMA AgeStep ==
  ASSUME ChipInv, Chip, NEW op \in Timed, NEW time \in 1..TRFC
  PROVE  /\ Age(op) \in Nat /\ since'[op] \in Nat
         /\ since'[op] = Age(op) + 1 \/ since'[op] >= time
<1>0. since \in [Timed -> 1..TRFC] /\ TRFC \in Nat
  BY SDRAMAssumption DEF ChipInv, ChipTypes
<1>1. since'[op] = IF op = m_cmd.op THEN 1
                   ELSE IF since[op] < TRFC THEN since[op] + 1 ELSE TRFC
  BY <1>0 DEF Chip
<1>2. since[op] \in 1..TRFC
  BY <1>0
<1> QED
  BY <1>0, <1>1, <1>2 DEF Age

-----------------------------------------------------------------------------
(* The initialisation. *)

LEMMA StartStep ==
  ASSUME ChipInv, NEW asked, SDRAMEdge(asked)
  PROVE  StartInv'
<1>0. MainInv /\ StartInv /\ InitRefs \in Nat \ {0}
  BY SDRAMAssumption DEF ChipInv
<1>1. /\ init_done' <=> init_done \/ i_state = "DONE"
      /\ InitFSM
  BY NextFlags, AlwaysBeside DEF Beside
<1>2. i_refs' \in 0..InitRefs-1
  <2>1. i_refs \in 0..InitRefs-1 /\ (i_refs + 1) % InitRefs \in 0..InitRefs-1
    BY <1>0 DEF StartInv
  <2>2. i_refs' \in {0, i_refs, (i_refs + 1) % InitRefs}
    BY <1>0, <1>1, Zenon DEF InitFSM, StartInv
  <2> QED
    BY <2>1, <2>2, <1>0
<1>3. i_state \in {"RST", "PRE"} => ~init_done /\ m_state = "IDLE"
  BY <1>0 DEF StartInv, MainInv
<1>4. i_state \in {"RST", "PRE"} => m_cmd' = i_cmd
  BY <1>3, Zenon DEF SDRAMEdge, Initialising, Idle, Activate, Wait, Read, Write, Spin,
               Recover, Precharge, Refresh
<1>5. CASE i_state = "RST"
  BY <1>0, <1>1, <1>2, <1>3, <1>4, <1>5 DEF InitFSM, StartInv, NOP
<1>6. CASE i_state = "PRE"
  BY <1>0, <1>1, <1>2, <1>3, <1>6 DEF InitFSM, StartInv, PRE
<1>7. CASE i_state = "ARF"
  BY <1>0, <1>1, <1>2, <1>7 DEF InitFSM, StartInv, ARF
<1>8. CASE i_state = "WAIT"
  BY <1>0, <1>1, <1>2, <1>8 DEF InitFSM, StartInv, NOP
<1>9. CASE i_state = "LMR"
  BY <1>0, <1>1, <1>2, <1>9 DEF InitFSM, StartInv, LMR
<1>10. CASE i_state = "DONE"
  BY <1>0, <1>1, <1>2, <1>10 DEF InitFSM, StartInv
<1> QED
  BY <1>5, <1>6, <1>7, <1>8, <1>9, <1>10, <1>0 DEF StartInv

-----------------------------------------------------------------------------
(* The rows and the data wires. *)

\* Nothing but ACT opens rows that are closed, and nothing but PRE closes others.
LEMMA ClosedStep ==
  ASSUME ChipInv, Chip
  PROVE  /\ Closed /\ m_cmd'.op # "ACT" => Closed'
         /\ Closed' /\ m_cmd'.op # "PRE" => Closed
<1>1. ASSUME Closed, m_cmd'.op # "ACT" PROVE Closed'
  BY <1>1, RowsStep DEF Closed
<1>2. ASSUME Closed', m_cmd'.op # "PRE" PROVE Closed
  <2>1. \A k \in Banks : rows'[k] = NoRow
    BY <1>2 DEF Closed
  <2>2. ASSUME m_cmd.op = "ACT" PROVE FALSE
    <3>1. /\ m_cmd.bank \in Banks /\ m_cmd.row \in Rows
          /\ rows \in [Banks -> Rows \cup {NoRow}]
      BY <2>2 DEF ChipInv, CommandInv, ChipTypes
    <3>2. rows' = [rows EXCEPT ![m_cmd.bank] = m_cmd.row]
      BY <2>2 DEF Chip
    <3> QED
      BY <2>1, <3>1, <3>2, SDRAMAssumption
  <2>3. m_cmd.op \notin {"ACT", "PRE"} => rows' = rows
    BY RowsStep
  <2> QED
    BY <2>1, <2>2, <2>3 DEF Closed
<1> QED
  BY <1>1, <1>2

LEMMA RowStep ==
  ASSUME ChipInv, NEW asked \in Requests \cup {NoRequest}, SDRAMEdge(asked)
  PROVE  RowInv'
<1> USE DEF Waiting, Open
<1>0. /\ MainInv /\ RequestInv /\ CommandInv /\ StartInv /\ RowInv
  BY DEF ChipInv
<1>1. /\ init_done' <=> init_done \/ i_state = "DONE"
      /\ refresh_request' <=>
              /\ refresh_counter = 0 \/ refresh_request
              /\ ~ack_refresh_request /\ init_done
      /\ Chip /\ InitFSM
  BY NextFlags, AlwaysBeside DEF Beside
<1>a. /\ Closed /\ m_cmd'.op # "ACT" => Closed'
      /\ m_cmd'.op = "PRE" => Closed'
  BY <1>1, ClosedStep DEF Closed
<1>b. Open => rows'[active.addr.bank] = active.addr.row
  BY <1>1, RowsStep
<1>c. ~init_done => m_state = "IDLE"
  BY <1>0 DEF MainInv
<1>2. CASE Initialising(asked)
  <2>1. m_state = "IDLE" /\ ~init_done /\ m_cmd' = i_cmd /\ m_state' = "IDLE"
    BY <1>2 DEF Initialising
  <2>2. ASSUME init_done' \/ i_state \notin {"RST", "PRE"} PROVE Closed'
    <3>1. i_state \notin {"RST", "PRE"}
      BY <2>2, <1>1, <2>1
    <3>2. i_cmd.op = "PRE" \/ Closed
      BY <2>1, <3>1, <1>0 DEF RowInv
    <3> QED
      BY <2>1, <3>2, <1>0, <1>a DEF StartInv
  <2>3. i_state' \notin {"RST", "PRE"} =>
           i_state \notin {"RST", "PRE"} \/ i_cmd'.op = "PRE"
    <3>1. i_state = "RST" => i_state' \in {"RST", "PRE"}
      BY <1>1, Zenon DEF InitFSM
    <3>2. i_state = "PRE" => i_cmd' = PRE
      BY <1>1, Zenon DEF InitFSM
    <3> QED
      BY <3>1, <3>2 DEF PRE
  <2> QED
    BY <2>1, <2>2, <2>3 DEF RowInv
<1>3. CASE Idle(asked)
  <2>1. init_done /\ init_done' /\ m_cmd'.op = "NOP" /\ ~ack_refresh_request'
    BY <1>1, <1>3 DEF Idle, NOP
  <2>2. \/ m_state' = "PRE"
        \/ ~refresh_request /\ m_state' \in {"RAS", "IDLE"}
    BY <1>3 DEF Idle, Goto, LookAtHead, NoLook
  <2>3. ~refresh_request => Closed'
    BY <1>0, <1>3, <1>a, <2>1 DEF RowInv, Idle
  <2> QED
    BY <2>1, <2>2, <2>3 DEF RowInv
<1>4. CASE Activate(asked)
  BY <1>0, <1>1, <1>4, <1>c DEF RowInv, Activate, Goto, NoLook, ACT
<1>5. CASE Wait(asked)
  <2>1. init_done /\ m_cmd'.op = "NOP" /\ active' = active
        /\ ack_refresh_request' = ack_refresh_request
        /\ (Waiting("IDLE") => (Closed' \/ (refresh_request /\ ~ack_refresh_request)))
        /\ (Waiting("ARF") => Closed')
    BY <1>0, <1>5, <1>a, <1>c DEF RowInv, Wait, NOP, NoLook
  <2>2. \/ m_state' = "WAIT" /\ m_next' = m_next
        \/ m_state' = m_next /\ m_next' = m_next
    BY <1>5 DEF Wait
  <2>3. m_next \in {"IDLE", "RD", "WR", "ARF"} /\ m_state = "WAIT"
    BY <1>0, <1>5 DEF MainInv, Wait
  <2> QED
    BY <1>1, <1>b, <2>1, <2>2, <2>3 DEF RowInv
<1>6. CASE Read(asked)
  <2>1. m_cmd'.op \in {"NOP", "RD"} /\ init_done /\ ~ack_refresh_request
        /\ ack_refresh_request' = ack_refresh_request
    BY <1>0, <1>6, <1>c DEF Read, Serving, NOP, RD, MainInv
  <2>2. /\ active'.addr.bank = active.addr.bank
        /\ active'.addr.row = active.addr.row
    BY <1>6 DEF Read, Serving, pending, LookAtHead, NoLook
  <2>3. \/ m_state' = "WAIT" /\ m_next' = "IDLE" /\ refresh_request
        \/ m_state' \in {"RD", "SPIN"}
    BY <1>6 DEF Read, Serving, Goto
  <2>4. rows'[active.addr.bank] = active.addr.row
    BY <1>b, <1>6 DEF Read
  <2> QED
    BY <1>1, <2>1, <2>2, <2>3, <2>4 DEF RowInv
<1>7. CASE Write(asked)
  <2>1. m_cmd'.op \in {"NOP", "WR"} /\ init_done /\ ~ack_refresh_request
        /\ ack_refresh_request' = ack_refresh_request
    BY <1>0, <1>7, <1>c DEF Write, Serving, NOP, WR, MainInv
  <2>2. /\ active'.addr.bank = active.addr.bank
        /\ active'.addr.row = active.addr.row
    BY <1>7 DEF Write, Serving, pending, LookAtHead, NoLook
  <2>3. \/ m_state' = "WAIT" /\ m_next' = "IDLE" /\ refresh_request
        \/ m_state' \in {"WR", "SPIN"}
    BY <1>7 DEF Write, Serving, Goto
  <2>4. rows'[active.addr.bank] = active.addr.row
    BY <1>b, <1>7 DEF Write
  <2> QED
    BY <1>1, <2>1, <2>2, <2>3, <2>4 DEF RowInv
<1>8. CASE Spin(asked)
  <2>1. m_cmd'.op = "NOP" /\ init_done /\ ~ack_refresh_request
        /\ ack_refresh_request' = ack_refresh_request
    BY <1>0, <1>8, <1>c DEF Spin, NOP, MainInv
  <2>2. /\ active'.addr.bank = active.addr.bank
        /\ active'.addr.row = active.addr.row
    BY <1>8 DEF Spin, pending, LookAtHead, NoLook
  <2>3. \/ m_state' = "WAIT" /\ m_next' = "IDLE" /\ refresh_request
        \/ m_state' \in {"RD", "WR", "SPIN", "REC"}
    BY <1>8 DEF Spin, Goto, NoLook
  <2>4. rows'[active.addr.bank] = active.addr.row
    BY <1>b, <1>8 DEF Spin
  <2> QED
    BY <1>1, <2>1, <2>2, <2>3, <2>4 DEF RowInv
<1>9. CASE Recover(asked)
  <2>1. m_cmd'.op = "NOP" /\ init_done /\ m_state' = "PRE"
    BY <1>0, <1>9, <1>c DEF Recover, NOP, MainInv
  <2> QED
    BY <1>1, <2>1 DEF RowInv
<1>10. CASE Precharge(asked)
  <2>1. m_cmd'.op = "PRE" /\ init_done /\ m_state' = "WAIT"
        /\ m_next' \in {"ARF", "IDLE"}
    BY <1>0, <1>10, <1>c DEF Precharge, PRE, MainInv
  <2> QED
    BY <1>1, <1>a, <2>1 DEF RowInv
<1>11. CASE Refresh(asked)
  <2>1. m_cmd'.op = "ARF" /\ init_done /\ m_state' = "WAIT" /\ m_next' = "IDLE"
        /\ Closed
    BY <1>0, <1>11, <1>c DEF Refresh, Goto, ARF, RowInv
  <2> QED
    BY <1>1, <1>a, <2>1 DEF RowInv
<1> QED
  BY <1>2, <1>3, <1>4, <1>5, <1>6, <1>7, <1>8, <1>9, <1>10, <1>11 DEF SDRAMEdge

LEMMA WireStep ==
  ASSUME ChipInv, CommandInv', NEW asked \in Requests \cup {NoRequest},
         SDRAMEdge(asked)
  PROVE  WireInv'
<1> USE DEF Waiting, Open
<1>0. /\ MainInv /\ RequestInv /\ CommandInv /\ WireInv /\ RowInv /\ NoRow \notin Rows
  BY SDRAMAssumption DEF ChipInv
<1>1. /\ init_done' <=> init_done \/ i_state = "DONE"
      /\ Chip
  BY NextFlags, AlwaysBeside DEF Beside
<1>2. /\ out'[2] = out[1]
      /\ m_cmd.op # "RD" => out'[1] = NoData
  BY <1>1 DEF Chip
<1>3. ASSUME Closed' \/ ~init_done' PROVE Drained'
  <2>1. m_cmd'.op # "RD"
    <3>1. ASSUME Closed', m_cmd'.op = "RD" PROVE FALSE
      BY <3>1, <1>0, CommandInv' DEF Closed, CommandInv
    <3>2. ASSUME ~init_done' PROVE m_cmd'.op # "RD"
      BY <3>2, CommandInv' DEF CommandInv
    <3> QED
      BY <1>3, <3>1, <3>2
  <2>2. CASE Closed \/ ~init_done
    BY <2>1, <2>2, <1>0, <1>2 DEF WireInv, Drained
  <2>3. CASE ~Closed /\ init_done
    <3>1. m_cmd'.op = "PRE"
      BY <2>3, <1>1, <1>3, ClosedStep
    <3>2. m_state = "PRE"
      BY <3>1, <2>3 DEF SDRAMEdge, Initialising, Idle, Activate, Wait, Read, Write,
           Spin, Recover, Precharge, Refresh, Serving, NOP, ACT, RD, WR, ARF
    <3>3. m_cmd.op = "NOP" /\ out[1] = NoData
      BY <3>2, <1>0 DEF CommandInv, WireInv
    <3> QED
      BY <2>1, <3>3, <1>2 DEF Drained
  <2> QED
    BY <2>2, <2>3
<1>4. ASSUME Open', ~active'.rnw PROVE Drained'
  <2>1. m_cmd'.op # "RD" /\ (Closed \/ (Open /\ ~active.rnw))
    <3>1. CASE Initialising(asked)
      BY <1>4, <3>1 DEF Initialising
    <3>2. CASE Idle(asked)
      BY <1>4, <3>2 DEF Idle, Goto, LookAtHead, NoLook
    <3>3. CASE Activate(asked)
      BY <1>0, <3>3 DEF Activate, ACT, RowInv
    <3>4. CASE Wait(asked)
      BY <1>0, <1>4, <3>4 DEF Wait, NOP, NoLook, MainInv
    <3>5. CASE Read(asked)
      BY <1>0, <1>4, <3>5 DEF Read, Serving, pending, LookAtHead, NoLook, RequestInv
    <3>6. CASE Write(asked)
      BY <1>0, <1>4, <3>6 DEF Write, Serving, WR, NOP, RequestInv
    <3>7. CASE Spin(asked)
      BY <1>0, <1>4, <3>7 DEF Spin, pending, LookAtHead, NoLook, NOP
    <3>8. CASE Recover(asked)
      BY <1>0, <1>4, <3>8 DEF Recover, NoLook, NOP
    <3>9. CASE Precharge(asked)
      BY <1>0, <1>4, <3>9 DEF Precharge, MainInv
    <3>10. CASE Refresh(asked)
      BY <1>4, <3>10 DEF Refresh, Goto
    <3> QED
      BY <3>1, <3>2, <3>3, <3>4, <3>5, <3>6, <3>7, <3>8, <3>9, <3>10 DEF SDRAMEdge
  <2>2. Drained
    BY <2>1, <1>0 DEF WireInv
  <2> QED
    BY <2>1, <2>2, <1>2 DEF Drained
<1>5. ASSUME m_state' = "PRE" PROVE out'[1] = NoData
  <2>1. \/ m_state = "IDLE" /\ init_done
        \/ m_state = "REC"
    BY <1>0, <1>5 DEF SDRAMEdge, Initialising, Idle, Activate, Wait, Read, Write,
         Spin, Recover, Precharge, Refresh, Serving, Goto, NoLook, LookAtHead,
         MainInv
  <2> QED
    BY <2>1, <1>0, <1>2 DEF CommandInv
<1> QED
  BY <1>3, <1>4, <1>5 DEF WireInv

-----------------------------------------------------------------------------
(* The times. *)

LEMMA WaitedStep ==
  ASSUME ChipInv, StartInv', NEW asked, SDRAMEdge(asked),
         NEW op \in {"PRE", "ARF", "LMR"}, NEW time \in 1..TRFC,
         op = "PRE" => time <= 3, op = "ARF" => time <= 9,
         Waited(op, time), WaitedFirst(op, time)
  PROVE  Waited(op, time)'
<1> USE DEF Waiting, Open
<1>0. /\ MainInv /\ StartInv /\ TRFC \in Nat
  BY SDRAMAssumption DEF ChipInv
<1>1. /\ init_done' <=> init_done \/ i_state = "DONE"
      /\ Chip
  BY NextFlags, AlwaysBeside DEF Beside
<1>a. /\ Age(op) \in Nat /\ since'[op] \in Nat /\ time \in Nat
      /\ since'[op] = Age(op) + 1 \/ since'[op] >= time
  BY <1>0, <1>1, AgeStep DEF Timed
<1>b. Age(op)' = IF m_cmd'.op = op THEN 0 ELSE since'[op]
  BY DEF Age
<1> HIDE DEF Age
<1>2. CASE Initialising(asked)
  <2>1. /\ m_state' = "IDLE" /\ m_cmd' = i_cmd /\ ~init_done
    BY <1>2 DEF Initialising
  <2>2. init_done' => Age(op) + 3 >= time /\ m_cmd'.op = "NOP"
    BY <1>0, <1>1, <2>1, WaitedFirst(op, time) DEF WaitedFirst, StartInv
  <2> QED
    BY <1>a, <1>b, <2>1, <2>2 DEF Waited
<1>3. CASE Idle(asked)
  BY <1>0, <1>a, <1>b, <1>3 DEF Waited, Idle, Goto, LookAtHead, NoLook, NOP
<1>4. CASE Activate(asked)
  BY <1>0, <1>a, <1>b, <1>4 DEF Waited, Activate, Goto, ACT
<1>5. CASE Wait(asked)
  BY <1>0, <1>1, <1>a, <1>b, <1>5 DEF Waited, Wait, NOP, MainInv
<1>6. CASE Read(asked)
  BY <1>0, <1>a, <1>b, <1>6 DEF Waited, Read, Serving, Goto, RD, NOP
<1>7. CASE Write(asked)
  BY <1>0, <1>a, <1>b, <1>7 DEF Waited, Write, Serving, Goto, WR, NOP
<1>8. CASE Spin(asked)
  BY <1>0, <1>a, <1>b, <1>8 DEF Waited, Spin, Goto, NOP
<1>9. CASE Recover(asked)
  BY <1>0, <1>a, <1>b, <1>9 DEF Waited, Recover, NOP, MainInv
<1>10. CASE Precharge(asked)
  BY <1>0, <1>a, <1>b, <1>10 DEF Waited, Precharge, PRE, MainInv
<1>11. CASE Refresh(asked)
  BY <1>0, <1>a, <1>b, <1>11 DEF Waited, Refresh, Goto, ARF
<1> QED
  BY <1>2, <1>3, <1>4, <1>5, <1>6, <1>7, <1>8, <1>9, <1>10, <1>11 DEF SDRAMEdge

LEMMA WaitedFirstStep ==
  ASSUME ChipInv, StartInv', NEW asked, SDRAMEdge(asked),
         NEW op \in {"PRE", "ARF", "LMR"}, NEW time \in 1..TRFC,
         op = "PRE" => time <= 3, op = "ARF" => time <= 9, op = "LMR" => time <= 6,
         WaitedFirst(op, time)
  PROVE  WaitedFirst(op, time)'
<1> SUFFICES ASSUME ~init_done' PROVE WaitedFirst(op, time)'
  BY DEF WaitedFirst
<1>0. /\ MainInv /\ StartInv /\ TRFC \in Nat
  BY SDRAMAssumption DEF ChipInv
<1>1. /\ init_done' <=> init_done \/ i_state = "DONE"
      /\ Chip /\ InitFSM
  BY NextFlags, AlwaysBeside DEF Beside
<1>a. /\ Age(op) \in Nat /\ since'[op] \in Nat /\ time \in Nat
      /\ since'[op] = Age(op) + 1 \/ since'[op] >= time
  BY <1>0, <1>1, AgeStep DEF Timed
<1>2. m_cmd' = i_cmd /\ ~init_done
  <2>1. m_state = "IDLE" /\ ~init_done
    BY <1>0, <1>1 DEF MainInv
  <2> QED
    BY <2>1 DEF SDRAMEdge, Initialising, Idle, Activate, Wait, Read, Write, Spin,
               Recover, Precharge, Refresh
<1>b. Age(op)' = IF i_cmd.op = op THEN 0 ELSE since'[op]
  BY <1>2 DEF Age
<1>c. Coming(op)' = IF i_cmd'.op = op THEN -1 ELSE Age(op)'
  BY DEF Coming
<1>d. Coming(op) = IF i_cmd.op = op THEN -1 ELSE Age(op)
  BY DEF Coming
<1> HIDE DEF Age, Coming
<1>3. CASE i_state = "RST"
  BY <1>0, <1>1, <1>2, <1>3, <1>a, <1>b, <1>c, <1>d
     DEF InitFSM, WaitedFirst, StartInv, NOP
<1>4. CASE i_state = "PRE"
  BY <1>0, <1>1, <1>2, <1>4, <1>a, <1>b, <1>c, <1>d
     DEF InitFSM, WaitedFirst, StartInv, PRE
<1>5. CASE i_state = "ARF"
  BY <1>0, <1>1, <1>2, <1>5, <1>a, <1>b, <1>c, <1>d
     DEF InitFSM, WaitedFirst, StartInv, ARF
<1>6. CASE i_state = "WAIT"
  BY <1>0, <1>1, <1>2, <1>6, <1>a, <1>b, <1>c, <1>d
     DEF InitFSM, WaitedFirst, StartInv, NOP
<1>7. CASE i_state = "LMR"
  BY <1>0, <1>1, <1>2, <1>7, <1>a, <1>b, <1>c, <1>d
     DEF InitFSM, WaitedFirst, StartInv, LMR
<1>8. CASE i_state = "DONE"
  BY <1>0, <1>1, <1>2, <1>8
<1> QED
  BY <1>3, <1>4, <1>5, <1>6, <1>7, <1>8, <1>0 DEF StartInv

LEMMA OpenedStep ==
  ASSUME ChipInv, NEW asked, SDRAMEdge(asked)
  PROVE  Opened'
<1> USE DEF Waiting, Open
<1>0. /\ MainInv /\ Opened /\ TRCD \in 1..TRFC /\ TRCD <= 4 /\ TRFC \in Nat
  BY SDRAMAssumption DEF ChipInv, TimeInv
<1>1. Chip
  BY AlwaysBeside DEF Beside
<1>a. /\ Age("ACT") \in Nat /\ since'["ACT"] \in Nat /\ TRCD \in Nat
      /\ since'["ACT"] = Age("ACT") + 1 \/ since'["ACT"] >= TRCD
  BY <1>0, <1>1, AgeStep DEF Timed
<1>b. Age("ACT")' = IF m_cmd'.op = "ACT" THEN 0 ELSE since'["ACT"]
  BY DEF Age
<1> HIDE DEF Age
<1>2. CASE Initialising(asked)
  BY <1>2 DEF Opened, Initialising
<1>3. CASE Idle(asked)
  BY <1>3 DEF Opened, Idle, Goto, LookAtHead, NoLook
<1>4. CASE Activate(asked)
  BY <1>0, <1>a, <1>b, <1>4 DEF Opened, Activate, Goto, ACT
<1>5. CASE Wait(asked)
  BY <1>0, <1>a, <1>b, <1>5 DEF Opened, Wait, NOP, MainInv
<1>6. CASE Read(asked)
  BY <1>0, <1>a, <1>b, <1>6 DEF Opened, Read, Serving, Goto, RD, NOP
<1>7. CASE Write(asked)
  BY <1>0, <1>a, <1>b, <1>7 DEF Opened, Write, Serving, Goto, WR, NOP
<1>8. CASE Spin(asked)
  BY <1>0, <1>a, <1>b, <1>8 DEF Opened, Spin, Goto, NOP
<1>9. CASE Recover(asked)
  BY <1>0, <1>9 DEF Opened, Recover, MainInv
<1>10. CASE Precharge(asked)
  BY <1>0, <1>10 DEF Opened, Precharge, MainInv
<1>11. CASE Refresh(asked)
  BY <1>11 DEF Opened, Refresh, Goto
<1> QED
  BY <1>2, <1>3, <1>4, <1>5, <1>6, <1>7, <1>8, <1>9, <1>10, <1>11 DEF SDRAMEdge

LEMMA WrittenStep ==
  ASSUME ChipInv, NEW asked, SDRAMEdge(asked)
  PROVE  WrittenLately'
<1> USE DEF Waiting, Open
<1>0. /\ MainInv /\ StartInv /\ WrittenLately /\ RequestInv
      /\ TWR \in 1..TRFC /\ TWR <= 3 /\ TRFC \in Nat
  BY SDRAMAssumption DEF ChipInv, TimeInv
<1>1. /\ Chip
      /\ init_done' <=> init_done \/ i_state = "DONE"
  BY NextFlags, AlwaysBeside DEF Beside
<1>a. /\ Age("WR") \in Nat /\ since'["WR"] \in Nat /\ TWR \in Nat
      /\ since'["WR"] = Age("WR") + 1 \/ since'["WR"] >= TWR
  BY <1>0, <1>1, AgeStep DEF Timed
<1>b. Age("WR")' = IF m_cmd'.op = "WR" THEN 0 ELSE since'["WR"]
  BY DEF Age
<1> HIDE DEF Age
<1>c. ~init_done' => ~init_done
  BY <1>1
<1>2. CASE Initialising(asked)
  <2>1. m_cmd'.op # "WR" /\ m_state' = "IDLE" /\ Age("WR") >= TWR
    BY <1>0, <1>2 DEF Initialising, StartInv, WrittenLately
  <2> QED
    BY <1>a, <1>b, <1>0, <2>1 DEF WrittenLately
<1>d. ~Initialising(asked) => init_done'
  <2>1. CASE init_done
    BY <2>1, <1>1
  <2>2. CASE ~init_done
    BY <2>2, <1>0 DEF SDRAMEdge, Idle, Activate, Wait, Read, Write, Spin,
               Recover, Precharge, Refresh, MainInv
  <2> QED
    BY <2>1, <2>2
<1> SUFFICES ASSUME ~Initialising(asked), init_done' PROVE WrittenLately'
  BY <1>2, <1>d
<1>3. CASE Idle(asked)
  BY <1>0, <1>a, <1>b, <1>3
     DEF WrittenLately, Idle, Goto, LookAtHead, NoLook, NOP
<1>4. CASE Activate(asked)
  BY <1>0, <1>a, <1>b, <1>4 DEF WrittenLately, Activate, Goto, ACT
<1>5. CASE Wait(asked)
  BY <1>0, <1>a, <1>b, <1>5 DEF WrittenLately, Wait, NOP, MainInv
<1>6. CASE Read(asked)
  BY <1>0, <1>a, <1>b, <1>6 DEF WrittenLately, Read, Serving, Goto, RD, NOP,
     LookAtHead, NoLook
<1>7. CASE Write(asked)
  BY <1>0, <1>a, <1>b, <1>7 DEF WrittenLately, Write, Serving, Goto, WR, NOP,
     LookAtHead, NoLook
<1>8. CASE Spin(asked)
  BY <1>0, <1>a, <1>b, <1>8 DEF WrittenLately, Spin, Goto, NOP, LookAtHead, NoLook
<1>9. CASE Recover(asked)
  BY <1>0, <1>a, <1>b, <1>9 DEF WrittenLately, Recover, NOP, MainInv
<1>10. CASE Precharge(asked)
  BY <1>0, <1>a, <1>b, <1>10 DEF WrittenLately, Precharge, PRE, MainInv
<1>11. CASE Refresh(asked)
  BY <1>0, <1>a, <1>b, <1>11 DEF WrittenLately, Refresh, Goto, ARF
<1> QED
  BY <1>3, <1>4, <1>5, <1>6, <1>7, <1>8, <1>9, <1>10, <1>11 DEF SDRAMEdge

LEMMA TimeStep ==
  ASSUME ChipInv, StartInv', NEW asked, SDRAMEdge(asked)
  PROVE  TimeInv'
<1>1. TimeInv
  BY DEF ChipInv
<1>2. Waited("PRE", TRP)' /\ WaitedFirst("PRE", TRP)'
  BY <1>1, WaitedStep, WaitedFirstStep, SDRAMAssumption DEF TimeInv
<1>3. Waited("ARF", TRFC)' /\ WaitedFirst("ARF", TRFC)'
  BY <1>1, WaitedStep, WaitedFirstStep, SDRAMAssumption DEF TimeInv
<1>4. Waited("LMR", TMRD)' /\ WaitedFirst("LMR", TMRD)'
  BY <1>1, WaitedStep, WaitedFirstStep, SDRAMAssumption DEF TimeInv
<1> QED
  BY <1>2, <1>3, <1>4, OpenedStep, WrittenStep DEF TimeInv

-----------------------------------------------------------------------------
(* The refreshes. *)

LEMMA FirstRefreshesStep ==
  ASSUME ChipInv, NEW asked, SDRAMEdge(asked)
  PROVE  FirstRefreshes'
<1> SUFFICES ASSUME ~init_done' PROVE FirstRefreshes'
  BY DEF FirstRefreshes
<1>0. /\ MainInv /\ StartInv /\ FirstRefreshes /\ ChipTypes
      /\ InitRefs \in Nat \ {0}
  BY SDRAMAssumption DEF ChipInv
<1>1. /\ init_done' <=> init_done \/ i_state = "DONE"
      /\ Chip /\ InitFSM
  BY NextFlags, AlwaysBeside DEF Beside
<1>2. ~init_done /\ i_state # "DONE" /\ m_cmd' = i_cmd
  <2>1. m_state = "IDLE" /\ ~init_done
    BY <1>0, <1>1 DEF MainInv
  <2> QED
    BY <1>1, <2>1 DEF SDRAMEdge, Initialising, Idle, Activate, Wait, Read, Write, Spin,
               Recover, Precharge, Refresh
<1>3. /\ refs \in Nat /\ i_refs \in Nat /\ i_refs < InitRefs
      /\ i_state \in {"RST", "PRE", "ARF", "WAIT", "LMR"}
  BY <1>0, <1>2 DEF ChipTypes, StartInv
<1>4. Refreshed \in Nat /\ Refreshed <= InitRefs
  <2>1. Refreshed \in Nat
    BY <1>3 DEF Refreshed, One
  <2>2. Refreshed \in {0, i_refs, InitRefs}
    BY <1>0, <1>2, <1>3, Zenon DEF FirstRefreshes
  <2> QED
    BY <2>1, <2>2, <1>0, <1>3
<1>5. Refreshed' = Refreshed + One(i_cmd'.op = "ARF")
  <2>1. refs' = refs + One(m_cmd.op = "ARF")
    <3>1. refs' = IF m_cmd.op = "ARF" /\ refs < InitRefs THEN refs + 1 ELSE refs
      BY <1>1 DEF Chip
    <3>2. m_cmd.op = "ARF" => refs < InitRefs
      BY <1>0, <1>3, <1>4 DEF Refreshed, One
    <3> QED
      BY <1>3, <3>1, <3>2 DEF One
  <2> QED
    BY <2>1, <1>2, <1>3 DEF Refreshed, One
<1> HIDE DEF Refreshed
<1>6. CASE i_state = "ARF"
  <2>1. Refreshed = i_refs
    BY <1>0, <1>2, <1>6 DEF FirstRefreshes
  <2>2. /\ i_cmd' = ARF /\ i_state' = "WAIT"
        /\ i_refs' = (i_refs + 1) % InitRefs
        /\ i_next' = IF i_refs = InitRefs - 1 THEN "LMR" ELSE "ARF"
    BY <1>1, <1>6, Zenon DEF InitFSM
  <2>3. Refreshed' = i_refs + 1
    BY <1>5, <2>1, <2>2, <1>3 DEF One, ARF
  <2>4. i_refs # InitRefs - 1 => i_refs' = i_refs + 1
    BY <2>2, <1>0, <1>3
  <2> QED
    BY <2>2, <2>3, <2>4, <1>0, <1>3 DEF FirstRefreshes
<1>7. CASE i_state # "ARF"
  <2>1. i_cmd'.op # "ARF"
    <3>1. i_cmd' \in {NOP, PRE, LMR}
      BY <1>1, <1>3, <1>7, Zenon DEF InitFSM
    <3> QED
      BY <3>1 DEF NOP, PRE, LMR
  <2>2. Refreshed' = Refreshed
    BY <2>1, <1>4, <1>5 DEF One
  <2>3. CASE i_state = "RST"
    BY <2>2, <2>3, <1>0, <1>1, <1>2 DEF FirstRefreshes, InitFSM
  <2>4. CASE i_state = "PRE"
    BY <2>2, <2>4, <1>0, <1>1, <1>2 DEF FirstRefreshes, InitFSM
  <2>5. CASE i_state = "WAIT"
    BY <2>2, <2>5, <1>0, <1>1, <1>2 DEF FirstRefreshes, InitFSM, StartInv
  <2>6. CASE i_state = "LMR"
    BY <2>2, <2>6, <1>0, <1>1, <1>2 DEF FirstRefreshes, InitFSM
  <2> QED
    BY <2>3, <2>4, <2>5, <2>6, <1>3, <1>7
<1> QED
  BY <1>6, <1>7

\* A refresh that is due comes closer with every edge.
LEMMA RankStep ==
  ASSUME ChipInv, MainInv', NEW asked, SDRAMEdge(asked)
  PROVE  /\ Rank \in Nat /\ Rank >= 1 /\ Rank' \in Nat
         /\ Rank' <= 13
         /\ refresh_request /\ init_done /\ ~ack_refresh_request =>
              Rank' + 1 <= Rank
<1> USE DEF Waiting, Rank
<1>0. MainInv
  BY DEF ChipInv
<1>1. Rank \in Nat /\ Rank >= 1
  BY <1>0 DEF MainInv
<1>2. Rank' \in Nat /\ Rank' <= 13
  <2>1. /\ m_count' \in Nat
        /\ m_state' = "WAIT" =>
             \/ ack_refresh_request'
             \/ m_next' \in {"IDLE", "ARF"} /\ m_count' <= 2
             \/ m_next' \notin {"IDLE", "ARF"} /\ m_count' <= 3
    BY MainInv' DEF MainInv
  <2>2. CASE ack_refresh_request'
    BY <2>2
  <2>3. CASE ~ack_refresh_request' /\ m_state' = "WAIT"
    <3>1. \/ m_next' \in {"IDLE", "ARF"} /\ m_count' <= 2
          \/ m_next' \notin {"IDLE", "ARF"} /\ m_count' <= 3
      BY <2>1, <2>3
    <3>2. PICK rank : rank = Rank'
      OBVIOUS
    <3>3. \/ rank = m_count' + 2 /\ m_count' <= 2
          \/ rank = m_count' + 6 /\ m_count' <= 2
          \/ rank = m_count' + 9 /\ m_count' <= 3
      BY <2>3, <3>1, <3>2
    <3>4. m_count' \in Nat
      BY <2>1
    <3>5. rank \in Nat /\ rank <= 13
      BY <3>3, <3>4
    <3> QED
      BY <3>2, <3>5
  <2>4. CASE ~ack_refresh_request' /\ m_state' # "WAIT"
    BY <2>4
  <2> QED
    BY <2>2, <2>3, <2>4
<1> SUFFICES ASSUME refresh_request, init_done, ~ack_refresh_request
             PROVE  Rank' + 1 <= Rank
  BY <1>1, <1>2
<1>3. CASE Initialising(asked)
  BY <1>3 DEF Initialising
<1>4. CASE Idle(asked)
  BY <1>0, <1>4 DEF MainInv, Idle, Goto
<1>5. CASE Activate(asked)
  BY <1>0, <1>5 DEF MainInv, Activate, Goto
<1>6. CASE Wait(asked)
  <2>1. /\ m_state = "WAIT" /\ m_count \in Nat /\ m_next' = m_next
        /\ m_next \in {"IDLE", "RD", "WR", "ARF"}
        /\ IF m_count > 1 THEN m_count' = m_count - 1 /\ m_state' = "WAIT"
                          ELSE m_state' = m_next
        /\ m_count >= 1
    BY <1>0, <1>6 DEF MainInv, Wait
  <2>2. ~ack_refresh_request'
    BY <1>6, Zenon DEF Wait
  <2>3. CASE m_count > 1
    BY <2>1, <2>2, <2>3
  <2>4. CASE m_count = 1
    BY <2>1, <2>2, <2>4
  <2> QED
    BY <2>1, <2>3, <2>4
<1>7. CASE Read(asked)
  <2>1. /\ m_state = "RD"
        /\ (m_state' = "SPIN" \/ (m_state' = "WAIT" /\ m_next' = "IDLE" /\ m_count' = 1))
        /\ ~ack_refresh_request'
    BY <1>7, Zenon DEF Read, Serving, Goto
  <2> QED
    BY <2>1
<1>8. CASE Write(asked)
  <2>1. /\ m_state = "WR"
        /\ (m_state' = "SPIN" \/ (m_state' = "WAIT" /\ m_next' = "IDLE" /\ m_count' = 2))
        /\ ~ack_refresh_request'
    BY <1>8, Zenon DEF Write, Serving, Goto
  <2> QED
    BY <2>1
<1>9. CASE Spin(asked)
  <2>1. /\ m_state = "SPIN"
        /\ m_state' = "WAIT" /\ m_next' = "IDLE" /\ m_count' = 1
        /\ ~ack_refresh_request'
    BY <1>9, Zenon DEF Spin, Goto
  <2> QED
    BY <2>1
<1>10. CASE Recover(asked)
  BY <1>0, <1>10 DEF MainInv, Recover
<1>11. CASE Precharge(asked)
  BY <1>0, <1>11 DEF MainInv, Precharge
<1>12. CASE Refresh(asked)
  BY <1>0, <1>12 DEF MainInv, Refresh, Goto
<1> QED
  BY <1>3, <1>4, <1>5, <1>6, <1>7, <1>8, <1>9, <1>10, <1>11, <1>12 DEF SDRAMEdge

LEMMA RefreshStep ==
  ASSUME ChipInv, MainInv', NEW asked, SDRAMEdge(asked)
  PROVE  RefreshInv'
<1>0. /\ RefreshInv /\ Period \in Nat /\ Period >= 13
      /\ refresh_counter \in Nat
      /\ refresh_request => init_done /\ refresh_counter + 13 >= Rank + Period
  BY SDRAMAssumption DEF ChipInv, RefreshInv
<1>1. /\ Rank \in Nat /\ Rank >= 1 /\ Rank' \in Nat
      /\ Rank' <= 13
      /\ refresh_request /\ init_done /\ ~ack_refresh_request =>
              Rank' + 1 <= Rank
  BY RankStep
<1>2. /\ init_done' <=> init_done \/ i_state = "DONE"
      /\ refresh_request' <=>
           /\ refresh_counter = 0 \/ refresh_request
           /\ ~ack_refresh_request /\ init_done
      /\ za_cannotrefresh' <=> refresh_counter = 0 /\ refresh_request
  BY NextFlags
<1>3. refresh_counter' =
        IF refresh_counter = 0 THEN Period ELSE refresh_counter - 1
  BY AlwaysBeside DEF Beside, RefreshTimer
<1>r. PICK rank, next : rank = Rank /\ next = Rank'
  OBVIOUS
<1>4. refresh_counter' \in Nat
  BY <1>0, <1>3
<1>5. ~(refresh_counter = 0 /\ refresh_request)
  BY <1>0, <1>1
<1>6. ASSUME refresh_request'
      PROVE  init_done' /\ refresh_counter' + 13 >= Rank' + Period
  <2>1. init_done /\ init_done' /\ ~ack_refresh_request
        /\ (refresh_counter = 0 \/ refresh_request)
    BY <1>2, <1>6
  <2>2. CASE refresh_counter = 0
    <3>1. /\ refresh_counter' = Period /\ Period \in Nat
          /\ next \in Nat /\ next <= 13
      BY <2>2, <1>0, <1>1, <1>3, <1>r
    <3>2. refresh_counter' + 13 >= next + Period
      BY <3>1
    <3> QED
      BY <2>1, <3>2, <1>r
  <2>3. CASE refresh_counter # 0 /\ refresh_request
    <3>1. /\ refresh_counter' = refresh_counter - 1
          /\ refresh_counter + 13 >= rank + Period /\ next + 1 <= rank
      BY <2>1, <2>3, <1>0, <1>1, <1>3, <1>r
    <3>2. /\ refresh_counter \in Nat /\ Period \in Nat
          /\ rank \in Nat /\ next \in Nat
      BY <1>0, <1>1, <1>r
    <3>3. refresh_counter' + 13 >= next + Period
      BY <3>1, <3>2
    <3> QED
      BY <2>1, <3>3, <1>r
  <2> QED
    BY <2>1, <2>2, <2>3
<1> QED
  BY <1>2, <1>4, <1>5, <1>6 DEF RefreshInv

-----------------------------------------------------------------------------
(* What the chip may be told. *)

LEMMA LegalStep ==
  ASSUME ChipInv, CommandInv', NEW asked \in Requests \cup {NoRequest},
         SDRAMEdge(asked)
  PROVE  Legal'
<1> USE DEF Waiting, Open
<1>0. /\ MainInv /\ RequestInv /\ CommandInv /\ StartInv /\ RowInv /\ WireInv
      /\ TimeInv /\ FirstRefreshes /\ ChipTypes
      /\ {TRCD, TRP, TRFC, TWR, TMRD} \subseteq 1..TRFC /\ TRFC \in 1..TRFC
      /\ NoRow \notin Rows
      /\ Requests \subseteq
           [rnw : BOOLEAN, addr : Addresses, dqm : BOOLEAN, data : Values]
  BY SDRAMAssumption DEF ChipInv
<1>1. /\ init_done' <=> init_done \/ i_state = "DONE"
      /\ Chip
  BY NextFlags, AlwaysBeside DEF Beside
<1>2. /\ Age("PRE") \in Nat /\ since'["PRE"] \in Nat
      /\ since'["PRE"] = Age("PRE") + 1 \/ since'["PRE"] >= TRP
      /\ Age("ARF") \in Nat /\ since'["ARF"] \in Nat
      /\ since'["ARF"] = Age("ARF") + 1 \/ since'["ARF"] >= TRFC
      /\ Age("LMR") \in Nat /\ since'["LMR"] \in Nat
      /\ since'["LMR"] = Age("LMR") + 1 \/ since'["LMR"] >= TMRD
      /\ Age("ACT") \in Nat /\ since'["ACT"] \in Nat
      /\ since'["ACT"] = Age("ACT") + 1 \/ since'["ACT"] >= TRCD
      /\ Age("WR") \in Nat /\ since'["WR"] \in Nat
      /\ since'["WR"] = Age("WR") + 1 \/ since'["WR"] >= TWR
      /\ TRP \in Nat /\ TRFC \in Nat /\ TMRD \in Nat /\ TRCD \in Nat /\ TWR \in Nat
  BY <1>0, <1>1, AgeStep DEF Timed
<1>3. Closed => \A k \in Banks : rows'[k] = NoRow
  BY <1>1, RowsStep
<1> HIDE DEF Age
<1>4. ASSUME m_cmd'.op = "NOP" PROVE Legal'
  BY <1>4 DEF Legal
<1>5. CASE Initialising(asked)
  <2>1. /\ m_state = "IDLE" /\ m_cmd' = i_cmd /\ ~init_done
    BY <1>5 DEF Initialising
  <2>2. CASE i_cmd.op = "PRE"
    <3>1. since'["WR"] >= TWR
      BY <2>1, <1>0, <1>2 DEF TimeInv, WrittenLately
    <3> QED
      BY <3>1, <2>1, <2>2 DEF Legal
  <2>3. ASSUME i_cmd.op \in {"ARF", "LMR"}
        PROVE  /\ \A k \in Banks : rows'[k] = NoRow
               /\ since'["PRE"] >= TRP /\ since'["ARF"] >= TRFC
    <3>1. i_state = "WAIT" /\ i_cmd.op # "PRE"
      BY <2>3, <1>0 DEF StartInv
    <3>2. Closed
      BY <3>1, <2>1, <1>0 DEF RowInv
    <3>3. Age("PRE") + 1 >= TRP /\ Age("ARF") + 1 >= TRFC
      BY <2>1, <2>3, <1>0 DEF TimeInv, WaitedFirst
    <3> QED
      BY <3>2, <3>3, <1>2, <1>3
  <2>4. CASE i_cmd.op = "ARF"
    BY <2>1, <2>3, <2>4 DEF Legal
  <2>5. CASE i_cmd.op = "LMR"
    <3>1. i_state = "WAIT" /\ i_next = "DONE"
      BY <2>5, <1>0 DEF StartInv
    <3>2. Refreshed = InitRefs
      BY <3>1, <2>1, <1>0 DEF FirstRefreshes
    <3>3. refs \in Nat /\ InitRefs \in Nat
      BY <1>0, SDRAMAssumption DEF ChipTypes
    <3>4. refs' = IF m_cmd.op = "ARF" /\ refs < InitRefs THEN refs + 1 ELSE refs
      BY <1>1 DEF Chip
    <3>5. refs' = InitRefs
      BY <3>2, <3>3, <3>4, <2>5 DEF Refreshed, One
    <3> QED
      BY <3>5, <2>1, <2>3, <2>5 DEF Legal
  <2>6. i_cmd.op \in {"NOP", "PRE", "ARF", "LMR"}
    BY <1>0 DEF StartInv
  <2> QED
    BY <2>1, <2>2, <2>4, <2>5, <2>6, <1>4
<1>6. CASE Activate(asked)
  <2>1. m_cmd'.op = "ACT" /\ m_cmd'.bank \in Banks
    BY <1>6, CommandInv' DEF Activate, ACT, CommandInv
  <2>2. Closed /\ m_state = "RAS"
    BY <1>0, <1>6 DEF RowInv, Activate
  <2>3. init_done'
    BY <2>2, <1>0, <1>1 DEF MainInv
  <2>4. since'["PRE"] >= TRP /\ since'["ARF"] >= TRFC /\ since'["LMR"] >= TMRD
    BY <2>2, <1>0, <1>2 DEF TimeInv, Waited
  <2> QED
    BY <2>1, <2>2, <2>3, <2>4, <1>3 DEF Legal
<1>7. ASSUME m_state \in {"RD", "WR"}
      PROVE  since'["ACT"] >= TRCD
  BY <1>0, <1>2, <1>7 DEF TimeInv, Opened
<1>8. CASE Read(asked)
  <2>1. m_cmd'.op \in {"NOP", "RD"}
    BY <1>8 DEF Read, Serving, RD, NOP
  <2>2. since'["ACT"] >= TRCD
    BY <1>7, <1>8 DEF Read
  <2>3. m_cmd'.op = "RD" => rows'[m_cmd'.bank] # NoRow
    BY <1>0, CommandInv' DEF CommandInv
  <2> QED
    BY <2>1, <2>2, <2>3, <1>4 DEF Legal
<1>9. CASE Write(asked)
  <2>1. m_cmd'.op \in {"NOP", "WR"}
    BY <1>9 DEF Write, Serving, WR, NOP
  <2>2. since'["ACT"] >= TRCD
    BY <1>7, <1>9 DEF Write
  <2>3. m_cmd'.op = "WR" => rows'[m_cmd'.bank] # NoRow
    BY <1>0, CommandInv' DEF CommandInv
  <2>4. out'[2] = NoData
    BY <1>0, <1>1, <1>9 DEF Write, RequestInv, WireInv, Drained, Chip
  <2> QED
    BY <2>1, <2>2, <2>3, <2>4, <1>4 DEF Legal
<1>10. CASE Precharge(asked)
  <2>1. m_cmd'.op = "PRE" /\ m_state = "PRE"
    BY <1>10 DEF Precharge, PRE
  <2>2. since'["WR"] >= TWR
    BY <2>1, <1>0, <1>2 DEF TimeInv, WrittenLately
  <2> QED
    BY <2>1, <2>2 DEF Legal
<1>11. CASE Refresh(asked)
  <2>1. m_cmd'.op = "ARF" /\ m_state = "ARF" /\ Closed
    BY <1>0, <1>11 DEF Refresh, ARF, RowInv
  <2>2. since'["PRE"] >= TRP /\ since'["ARF"] >= TRFC
    BY <2>1, <1>0, <1>2 DEF TimeInv, Waited
  <2> QED
    BY <2>1, <2>2, <1>3 DEF Legal
<1>12. Idle(asked) \/ Wait(asked) \/ Spin(asked) \/ Recover(asked) =>
         m_cmd'.op = "NOP"
  BY DEF Idle, Wait, Spin, Recover, NOP
<1> QED
  BY <1>4, <1>5, <1>6, <1>8, <1>9, <1>10, <1>11, <1>12 DEF SDRAMEdge

-----------------------------------------------------------------------------
LEMMA ChipInvInit == SDRAMInit => ChipInv
<1> SUFFICES ASSUME SDRAMInit PROVE ChipInv
  OBVIOUS
<1> USE SDRAMAssumption DEF SDRAMInit, Waiting, Open, NOP
<1>1. MainInv
  BY DEF MainInv
<1>2. RequestInv
  BY DEF RequestInv
<1>3. CommandInv
  BY DEF CommandInv
<1>4. ChipTypes
  BY DEF ChipTypes, Words, Timed
<1>5. StartInv
  BY DEF StartInv
<1>6. RowInv
  BY DEF RowInv
<1>7. WireInv
  BY DEF WireInv, Drained
<1>8. TimeInv
  BY DEF TimeInv, Waited, WaitedFirst, Opened, WrittenLately, Age, Coming
<1>9. FirstRefreshes
  BY DEF FirstRefreshes, Refreshed, One
<1>10. RefreshInv
  BY DEF RefreshInv
<1>11. Legal
  BY DEF Legal
<1> QED
  BY <1>1, <1>2, <1>3, <1>4, <1>5, <1>6, <1>7, <1>8, <1>9, <1>10, <1>11 DEF ChipInv

LEMMA ChipInvNext == ChipInv /\ [SDRAMNext]_sdramVars => ChipInv'
<1> SUFFICES ASSUME ChipInv, [SDRAMNext]_sdramVars PROVE ChipInv'
  OBVIOUS
<1>1. CASE SDRAMNext
  <2> PICK asked \in Requests \cup {NoRequest} : SDRAMEdge(asked)
    BY <1>1 DEF SDRAMNext
  <2>1. Chip
    BY AlwaysBeside DEF Beside
  <2>2. MainInv' /\ StartInv' /\ CommandInv'
    BY MainStep, StartStep, CommandStep
  <2>3. /\ RequestInv' /\ ChipTypes' /\ RowInv' /\ WireInv' /\ TimeInv'
        /\ FirstRefreshes' /\ RefreshInv' /\ Legal'
    BY <2>1, <2>2, RequestStep, ChipStep, RowStep, WireStep, TimeStep,
       FirstRefreshesStep, RefreshStep, LegalStep
  <2> QED
    BY <2>2, <2>3 DEF ChipInv
<1>2. CASE UNCHANGED sdramVars
  <2> USE <1>2 DEF sdramVars, initVars, refreshVars, mainVars, chipVars, ChipInv,
                   Waiting, Open, Closed, Age
  <2>1. MainInv' /\ RequestInv' /\ CommandInv' /\ StartInv' /\ ChipTypes'
    BY DEF MainInv, RequestInv, CommandInv, ChipTypes, StartInv
  <2>2. RowInv' /\ WireInv'
    BY DEF RowInv, WireInv, Drained
  <2>3. TimeInv'
    BY DEF TimeInv, Waited, WaitedFirst, Opened, WrittenLately, Coming
  <2>4. FirstRefreshes' /\ RefreshInv'
    BY DEF FirstRefreshes, Refreshed, RefreshInv, Rank
  <2>5. Legal'
    BY DEF Legal
  <2> QED
    BY <2>1, <2>2, <2>3, <2>4, <2>5
<1> QED
  BY <1>1, <1>2

\* The invariant of the SDRAM controller.
THEOREM ControllerInvariant == SDRAMSpec => []ChipInv
  BY ChipInvInit, ChipInvNext, PTL DEF SDRAMSpec

-----------------------------------------------------------------------------
(***************************************************************************)
(* The requests that no command has been put out for yet, and what the     *)
(* memory is and what is answered once they are carried out in order.      *)
(***************************************************************************)

Queue ==
  IF Waiting("RD") \/ Waiting("WR") \/ (m_state \in {"RD", "WR"} /\ ~f_pop)
  THEN <<active>> \o fifo ELSE fifo

Item(q, i) == IF i <= Len(q) THEN q[i] ELSE NoRequest

Promised(asked, memory) ==
  IF asked # NoRequest /\ asked.rnw THEN <<memory[asked.addr]>> ELSE <<>>

\* A queue holds three requests at most: two in the FIFO and the one before it.
After(q, memory) ==
  Written(Item(q, 3), Written(Item(q, 2), Written(Item(q, 1), memory)))

AnswersTo(q, memory) ==
  Promised(Item(q, 1), memory)
    \o (Promised(Item(q, 2), Written(Item(q, 1), memory))
    \o Promised(Item(q, 3), Written(Item(q, 2), Written(Item(q, 1), memory))))

\* Where the command that is out reads or writes.
Cell == [bank |-> m_cmd.bank, row |-> rows[m_cmd.bank], column |-> m_cmd.column]

\* The memory when that command has been carried out.
Settled ==
  IF m_cmd.op = "WR" /\ ~m_cmd.dqm THEN [cells EXCEPT ![Cell] = m_cmd.data]
  ELSE cells

\* The answers on their way through the chip, oldest first.
Second == IF rd_valid[2] THEN <<out[2]>> ELSE <<>>
First  == IF rd_valid[1] THEN <<out[1]>> ELSE <<>>
Newest == IF m_cmd.op = "RD" THEN <<cells[Cell]>> ELSE <<>>

HistoryTypes ==
  store \in [Addresses -> Values] /\ owed \in Seq(Values)

DataInv ==
  /\ HistoryTypes
  /\ store = After(Queue, Settled)
  /\ owed = (Second \o (First \o Newest)) \o AnswersTo(Queue, Settled)

-----------------------------------------------------------------------------
LEMMA UpToThree ==
  ASSUME NEW n \in Nat
  PROVE  /\ n <= 2 => n \in 0..2
         /\ n <= 3 /\ n # 0 => n \in 1..3
  OBVIOUS

Memories == [Addresses -> Values]

LEMMA OneRequest ==
  ASSUME NEW r \in Requests \cup {NoRequest}, NEW m \in Memories
  PROVE  /\ Written(r, m) \in Memories
         /\ Promised(r, m) \in Seq(Values)
         /\ Written(NoRequest, m) = m /\ Promised(NoRequest, m) = <<>>
<1>1. r # NoRequest => r.addr \in Addresses /\ r.data \in Values
  BY SDRAMAssumption
<1> QED
  BY <1>1 DEF Written, Promised, Memories

LEMMA ThreeRequests ==
  ASSUME NEW a \in Requests \cup {NoRequest}, NEW b \in Requests \cup {NoRequest},
         NEW c \in Requests \cup {NoRequest}, NEW m \in Memories
  PROVE  /\ Written(a, m) \in Memories
         /\ Written(b, Written(a, m)) \in Memories
         /\ Written(c, Written(b, Written(a, m))) \in Memories
         /\ Promised(a, m) \in Seq(Values)
         /\ Promised(b, Written(a, m)) \in Seq(Values)
         /\ Promised(c, Written(b, Written(a, m))) \in Seq(Values)
<1>1. Written(a, m) \in Memories /\ Promised(a, m) \in Seq(Values)
  BY OneRequest
<1>2. /\ Written(b, Written(a, m)) \in Memories
      /\ Promised(b, Written(a, m)) \in Seq(Values)
  BY <1>1, OneRequest
<1>3. /\ Written(c, Written(b, Written(a, m))) \in Memories
      /\ Promised(c, Written(b, Written(a, m))) \in Seq(Values)
  BY <1>2, OneRequest
<1> QED
  BY <1>1, <1>2, <1>3

LEMMA Items ==
  ASSUME NEW q \in Seq(Requests)
  PROVE  /\ \A i \in Nat \ {0} : Item(q, i) \in Requests \cup {NoRequest}
         /\ \A i \in Nat \ {0} : i > Len(q) => Item(q, i) = NoRequest
<1>1. Len(q) \in Nat /\ \A i \in 1..Len(q) : q[i] \in Requests
  OBVIOUS
<1> QED
  BY <1>1 DEF Item

\* The first request is carried out first.
LEMMA AfterHead ==
  ASSUME NEW q \in Seq(Requests), q # <<>>, Len(q) <= 3, NEW m \in Memories
  PROVE  /\ After(q, m) = After(Tail(q), Written(Head(q), m))
         /\ AnswersTo(q, m) = Promised(Head(q), m)
                                \o AnswersTo(Tail(q), Written(Head(q), m))
<1> DEFINE a == Item(q, 1)
           b == Item(q, 2)
           c == Item(q, 3)
           t == Tail(q)
           m1 == Written(a, m)
           m2 == Written(b, m1)
           m3 == Written(c, m2)
<1>1. /\ a = Head(q) /\ Item(t, 1) = b /\ Item(t, 2) = c /\ Item(t, 3) = NoRequest
  <2>1. Len(q) \in 1..3 /\ Head(q) = q[1]
    <3>1. Len(q) \in Nat /\ Len(q) # 0
      OBVIOUS
    <3>2. Len(q) \in 1..3
      BY <3>1, UpToThree
    <3>3. Head(q) = q[1]
      OBVIOUS
    <3> QED
      BY <3>2, <3>3
  <2>2. t \in Seq(Requests) /\ Len(t) = Len(q) - 1
        /\ \A i \in 1..Len(t) : t[i] = q[i + 1]
    OBVIOUS
  <2> HIDE DEF t
  <2>3. Item(t, 3) = NoRequest
    BY <2>1, <2>2 DEF Item
  <2>4. Item(t, 1) = b
    BY <2>1, <2>2 DEF Item
  <2>5. Item(t, 2) = c
    BY <2>1, <2>2 DEF Item
  <2>6. a = Head(q)
    BY <2>1 DEF Item
  <2> QED
    BY <2>3, <2>4, <2>5, <2>6
<1>2. /\ a \in Requests \cup {NoRequest} /\ b \in Requests \cup {NoRequest}
      /\ c \in Requests \cup {NoRequest}
  BY Items
<1> HIDE DEF a, b, c, t
<1>3. /\ m1 \in Memories /\ m2 \in Memories /\ m3 \in Memories
      /\ Promised(a, m) \in Seq(Values) /\ Promised(b, m1) \in Seq(Values)
      /\ Promised(c, m2) \in Seq(Values)
  BY <1>2, ThreeRequests
<1>4. Written(NoRequest, m3) = m3 /\ Promised(NoRequest, m3) = <<>>
  BY <1>3, OneRequest
<1>5. After(q, m) = m3 /\ After(t, m1) = Written(NoRequest, m3)
  BY <1>1 DEF After, a, b, c
<1>6. AnswersTo(q, m) = Promised(a, m) \o (Promised(b, m1) \o Promised(c, m2))
  BY DEF AnswersTo, a, b, c
<1>7. AnswersTo(t, m1) = Promised(b, m1) \o (Promised(c, m2) \o Promised(NoRequest, m3))
  BY <1>1 DEF AnswersTo
<1>8. Promised(c, m2) \o <<>> = Promised(c, m2)
  BY <1>3
<1> QED
  BY <1>1, <1>4, <1>5, <1>6, <1>7, <1>8 DEF t

\* The last request is carried out last.
LEMMA AfterLast ==
  ASSUME NEW q \in Seq(Requests), Len(q) <= 2, NEW r \in Requests,
         NEW m \in Memories
  PROVE  /\ After(q \o <<r>>, m) = Written(r, After(q, m))
         /\ AnswersTo(q \o <<r>>, m) = AnswersTo(q, m) \o Promised(r, After(q, m))
<1> DEFINE a == Item(q, 1)
           b == Item(q, 2)
           l == q \o <<r>>
           m1 == Written(a, m)
           m2 == Written(b, m1)
<1>1. /\ l \in Seq(Requests) /\ Len(q) \in Nat /\ Len(l) = Len(q) + 1
      /\ \A i \in 1..Len(q) : l[i] = q[i]
      /\ l[Len(q) + 1] = r
  OBVIOUS
<1>2. /\ a \in Requests \cup {NoRequest} /\ b \in Requests \cup {NoRequest}
      /\ Item(q, 3) = NoRequest
  BY Items, <1>1
<1> HIDE DEF l
<1>3. /\ m1 \in Memories /\ m2 \in Memories
      /\ Promised(a, m) \in Seq(Values) /\ Promised(b, m1) \in Seq(Values)
      /\ Promised(r, m2) \in Seq(Values) /\ Written(r, m2) \in Memories
  BY <1>2, ThreeRequests
<1>4. After(q, m) = m2
  BY <1>2, <1>3, OneRequest DEF After
<1>5. AnswersTo(q, m) = Promised(a, m) \o (Promised(b, m1) \o <<>>)
  BY <1>2, <1>3, OneRequest DEF AnswersTo
<1>6. AnswersTo(q, m) = Promised(a, m) \o Promised(b, m1)
  BY <1>3, <1>5
<1>7. CASE Len(q) = 2
  <2>1. Item(l, 1) = a /\ Item(l, 2) = b /\ Item(l, 3) = r
    BY <1>1, <1>7 DEF Item
  <2>2. After(l, m) = Written(r, m2)
    BY <2>1 DEF After
  <2>3. AnswersTo(l, m) = Promised(a, m) \o (Promised(b, m1) \o Promised(r, m2))
    BY <2>1 DEF AnswersTo
  <2> HIDE DEF a, b, m1, m2
  <2>4. AnswersTo(l, m) = (Promised(a, m) \o Promised(b, m1)) \o Promised(r, m2)
    BY <2>3, <1>3, ConcatAssociative
  <2> QED
    BY <2>2, <2>4, <1>4, <1>6 DEF l
<1>8. CASE Len(q) = 1
  <2>1. Item(l, 1) = a /\ Item(l, 2) = r /\ Item(l, 3) = NoRequest /\ b = NoRequest
    BY <1>1, <1>8 DEF Item
  <2>2. m2 = m1 /\ Promised(b, m1) = <<>>
    BY <2>1, <1>3, OneRequest
  <2>3. After(l, m) = Written(NoRequest, Written(r, m1))
    BY <2>1 DEF After
  <2>4. AnswersTo(l, m) = Promised(a, m) \o (Promised(r, m1)
                             \o Promised(NoRequest, Written(r, m1)))
    BY <2>1 DEF AnswersTo
  <2>5. Written(NoRequest, Written(r, m1)) = Written(r, m1)
        /\ Promised(NoRequest, Written(r, m1)) = <<>>
    BY <2>2, <1>3, OneRequest
  <2> HIDE DEF a, b, m1, m2
  <2>6. AnswersTo(l, m) = Promised(a, m) \o Promised(r, m2)
    BY <2>2, <2>4, <2>5, <1>3
  <2>7. AnswersTo(q, m) = Promised(a, m)
    BY <2>2, <1>3, <1>6
  <2> QED
    BY <2>2, <2>3, <2>5, <2>6, <2>7, <1>4 DEF l
<1>9. CASE Len(q) = 0
  <2>1. Item(l, 1) = r /\ Item(l, 2) = NoRequest /\ Item(l, 3) = NoRequest
        /\ a = NoRequest /\ b = NoRequest
    BY <1>1, <1>9 DEF Item
  <2>2. m1 = m /\ m2 = m /\ Promised(a, m) = <<>> /\ Promised(b, m1) = <<>>
    BY <2>1, <1>3, OneRequest
  <2>3. After(l, m) = Written(NoRequest, Written(NoRequest, Written(r, m)))
    BY <2>1 DEF After
  <2>4. AnswersTo(l, m) = Promised(r, m) \o (Promised(NoRequest, Written(r, m))
           \o Promised(NoRequest, Written(NoRequest, Written(r, m))))
    BY <2>1 DEF AnswersTo
  <2>5. Written(NoRequest, Written(r, m)) = Written(r, m)
        /\ Promised(NoRequest, Written(r, m)) = <<>>
    BY <2>2, <1>3, OneRequest
  <2> HIDE DEF a, b, m1, m2
  <2>6. AnswersTo(l, m) = Promised(r, m2)
    BY <2>2, <2>4, <2>5, <1>3
  <2>7. AnswersTo(q, m) = <<>>
    BY <2>2, <1>6
  <2>8. <<>> \o Promised(r, m2) = Promised(r, m2)
    BY <1>3
  <2>9. After(l, m) = Written(r, m2)
    BY <2>2, <2>3, <2>5
  <2>10. AnswersTo(l, m) = AnswersTo(q, m) \o Promised(r, m2)
    BY <2>6, <2>7, <2>8
  <2> QED
    BY <2>9, <2>10, <1>4 DEF l
<1>10. Len(q) \in 0..2
  BY <1>1, UpToThree
<1> QED
  BY <1>7, <1>8, <1>9, <1>10

-----------------------------------------------------------------------------
LEMMA OnSequences ==
  ASSUME NEW x \in Requests, NEW s \in Seq(Requests), NEW u \in Seq(Requests)
  PROVE  /\ <<x>> \o s \in Seq(Requests) /\ <<x>> \o s # <<>>
         /\ Len(<<x>> \o s) = Len(s) + 1
         /\ Head(<<x>> \o s) = x /\ Tail(<<x>> \o s) = s
         /\ <<x>> \o (s \o u) = (<<x>> \o s) \o u
<1>1. /\ <<x>> \o s \in Seq(Requests) /\ Len(<<x>> \o s) = Len(s) + 1
      /\ <<x>> \o s # <<>>
  OBVIOUS
<1>2. Head(<<x>> \o s) = x /\ Tail(<<x>> \o s) = s
  OBVIOUS
<1>3. <<x>> \o (s \o u) = (<<x>> \o s) \o u
  BY ConcatAssociative, <<x>> \in Seq(Requests)
<1> QED
  BY <1>1, <1>2, <1>3

LEMMA HeadAndTail ==
  ASSUME NEW s \in Seq(Requests), s # <<>>
  PROVE  /\ s = <<Head(s)>> \o Tail(s)
         /\ Head(s) \in Requests /\ Tail(s) \in Seq(Requests)
  OBVIOUS

\* What is served leaves the queue at its head, what is accepted enters at its
\* end, and nothing else happens to it.
LEMMA QueueStep ==
  ASSUME ChipInv, NEW asked \in Requests \cup {NoRequest}, SDRAMEdge(asked),
         NEW new, new = IF asked # NoRequest THEN <<asked>> ELSE <<>>
  PROVE  /\ Queue \in Seq(Requests) /\ Len(Queue) <= 3
         /\ asked # NoRequest => Len(Queue) <= 2
         /\ \/ m_cmd'.op \notin {"RD", "WR"} /\ Queue' = Queue \o new
            \/ /\ Queue # <<>> /\ Queue' = Tail(Queue) \o new
               /\ m_cmd' = IF Head(Queue).rnw THEN RD(Head(Queue))
                                              ELSE WR(Head(Queue))
               /\ rows'[Head(Queue).addr.bank] = Head(Queue).addr.row
<1> USE DEF Waiting
<1>0. /\ MainInv /\ RequestInv /\ fifo \in Seq(Requests) /\ Len(fifo) <= 2
      /\ Len(fifo) \in Nat
  BY DEF ChipInv, RequestInv
<1>1. /\ Chip /\ fifo' = (IF f_select THEN Tail(fifo) ELSE fifo) \o new
      /\ asked # NoRequest => Len(fifo) # 2
      /\ init_done' <=> init_done \/ i_state = "DONE"
  BY AlwaysBeside, NextFlags DEF Beside, InputFifo, za_waitrequest
<1>2. new \in Seq(Requests)
  OBVIOUS
<1> DEFINE before == Waiting("RD") \/ Waiting("WR")
                       \/ (m_state \in {"RD", "WR"} /\ ~f_pop)
<1>3. Queue = IF before THEN <<active>> \o fifo ELSE fifo
  BY DEF Queue
<1>4. Queue' = IF before' THEN <<active'>> \o fifo' ELSE fifo'
  BY DEF Queue
<1>5. before \/ m_state \in {"RD", "WR"} => active \in Requests
  BY <1>0 DEF RequestInv, Open
<1>6. /\ Queue \in Seq(Requests) /\ Len(Queue) <= 3
      /\ asked # NoRequest => Len(Queue) <= 2
  <2>1. CASE before
    <3>1. Queue \in Seq(Requests) /\ Len(Queue) = Len(fifo) + 1
      BY <2>1, <1>0, <1>3, <1>5
    <3> DEFINE n == Len(fifo)
    <3>2. n \in Nat /\ n <= 2 /\ (asked # NoRequest => n # 2) /\ Len(Queue) = n + 1
      BY <3>1, <1>0, <1>1
    <3> HIDE DEF n
    <3>3. n + 1 <= 3 /\ (n # 2 => n + 1 <= 2)
      BY <3>2
    <3> QED
      BY <3>1, <3>2, <3>3
  <2>2. CASE ~before
    BY <2>2, <1>0, <1>3
  <2> QED
    BY <2>1, <2>2
\* Outside RAS, RD and WR the queue only grows.
<1>7. ASSUME m_state \notin {"RAS", "RD", "WR"}, active' = active \/ ~before,
             before' <=> before
      PROVE  Queue' = Queue \o new
  <2>1. fifo' = fifo \o new
    BY <1>0, <1>1, <1>7 DEF MainInv, f_select
  <2>2. CASE before
    <3>1. active \in Requests /\ active' = active /\ before'
      BY <2>2, <1>5, <1>7
    <3>2. <<active>> \o (fifo \o new) = (<<active>> \o fifo) \o new
      BY <3>1, <1>0, <1>2, OnSequences
    <3>3. Queue = <<active>> \o fifo
      BY <1>3, <2>2
    <3>4. Queue' = <<active>> \o fifo'
      BY <1>4, <3>1
    <3> HIDE DEF before
    <3> QED
      BY <2>1, <3>2, <3>3, <3>4
  <2>3. CASE ~before
    <3>1. ~before'
      BY <2>3, <1>7
    <3> QED
      BY <3>1, <2>1, <2>3, <1>3, <1>4
  <2> QED
    BY <2>2, <2>3
<1>8. CASE Initialising(asked)
  <2>1. m_cmd'.op \notin {"RD", "WR"}
    BY <1>8 DEF Initialising, ChipInv, StartInv
  <2>2. m_state = "IDLE" /\ m_state' = "IDLE"
    BY <1>8 DEF Initialising
  <2> QED
    BY <2>1, <2>2, <1>6, <1>7
<1>9. CASE Idle(asked)
  <2>1. m_cmd'.op \notin {"RD", "WR"} /\ m_state = "IDLE"
        /\ m_state' \in {"IDLE", "PRE", "RAS"}
    BY <1>9 DEF Idle, NOP, Goto, LookAtHead, NoLook
  <2> QED
    BY <2>1, <1>6, <1>7
<1>10. CASE Activate(asked)
  <2>1. /\ m_cmd'.op \notin {"RD", "WR"} /\ m_state = "RAS" /\ m_state' = "WAIT"
        /\ m_next' \in {"RD", "WR"} /\ active' = active
    BY <1>10 DEF Activate, ACT, Goto, NoLook
  <2>2. f_pop /\ fifo # <<>> /\ Head(fifo) = active /\ active \in Requests
    BY <2>1, <1>0 DEF RequestInv
  <2>3. f_select
    BY <2>2, SDRAMAssumption DEF f_select, pending, f_head, f_empty
  <2>4. fifo' = Tail(fifo) \o new
    BY <2>3, <1>1
  <2>5. Queue' = <<active>> \o (Tail(fifo) \o new) /\ Queue = fifo
    BY <2>1, <2>4, <1>3, <1>4
  <2>6. Queue' = (<<active>> \o Tail(fifo)) \o new
    BY <2>2, <2>5, <1>0, <1>2, OnSequences, HeadAndTail
  <2>7. <<active>> \o Tail(fifo) = fifo
    BY <2>2, <1>0, HeadAndTail
  <2> HIDE DEF before
  <2> QED
    BY <2>1, <2>5, <2>6, <2>7, <1>6
<1>11. CASE Wait(asked)
  <2>1. /\ m_cmd'.op \notin {"RD", "WR"} /\ m_state = "WAIT" /\ active' = active
        /\ m_state' = "WAIT" \/ m_state' = m_next
        /\ m_next' = m_next /\ ~f_pop'
    BY <1>11 DEF Wait, NOP, NoLook
  <2>2. m_next \in {"IDLE", "RD", "WR", "ARF"}
    BY <1>0 DEF MainInv
  <2> QED
    BY <2>1, <2>2, <1>6, <1>7
<1>12. ASSUME m_state \in {"RD", "WR"}, NEW pause,
              Serving(IF active.rnw THEN RD(Served) ELSE WR(Served), pause)
       PROVE  \/ m_cmd'.op \notin {"RD", "WR"} /\ Queue' = Queue \o new
              \/ /\ Queue # <<>> /\ Queue' = Tail(Queue) \o new
                 /\ m_cmd' = IF Head(Queue).rnw THEN RD(Head(Queue))
                                                ELSE WR(Head(Queue))
                 /\ rows'[Head(Queue).addr.bank] = Head(Queue).addr.row
  <2> DEFINE command == IF active.rnw THEN RD(Served) ELSE WR(Served)
  <2>1. ~before'
    BY <1>12 DEF Serving, Goto, LookAtHead, NoLook
  <2>2. Queue' = fifo'
    BY <2>1, <1>4
  <2>3. m_cmd' = IF f_pop /\ ~pending THEN NOP ELSE command
    BY <1>12, Zenon DEF Serving
  <2>4. /\ active \in Requests /\ Served \in Requests
        /\ Served.addr.bank = active.addr.bank
        /\ Served.addr.row = active.addr.row
        /\ Served.rnw = active.rnw
    BY <1>12, ServedFits
  <2>5. rows'[active.addr.bank] = active.addr.row
    BY <1>1, <1>12, RowsStep DEF Open
  <2>6. /\ command = IF Served.rnw THEN RD(Served) ELSE WR(Served)
        /\ rows'[Served.addr.bank] = Served.addr.row
    BY <2>4, <2>5
  <2>7. CASE ~f_pop
    <3>1. ~f_select /\ before /\ Served = active
      BY <2>7, <1>12 DEF f_select, Served
    <3>2. /\ Queue = <<active>> \o fifo /\ fifo' = fifo \o new
      BY <3>1, <1>1, <1>3
    <3>3. Queue # <<>> /\ Head(Queue) = active /\ Tail(Queue) = fifo
      BY <3>2, <2>4, <1>0, OnSequences
    <3> HIDE DEF before, command
    <3> QED
      BY <2>2, <2>3, <2>6, <2>7, <3>1, <3>2, <3>3
  <2>8. CASE f_pop /\ pending
    <3>1. f_select /\ ~before /\ Served = Head(fifo) /\ fifo # <<>>
      BY <2>8, <1>12 DEF f_select, Served, pending, f_empty, f_head
    <3>2. Queue = fifo /\ fifo' = Tail(fifo) \o new
      BY <3>1, <1>1, <1>3
    <3> HIDE DEF before, command
    <3> QED
      BY <2>2, <2>3, <2>6, <2>8, <3>1, <3>2
  <2>9. CASE f_pop /\ ~pending
    <3>1. ~f_select /\ ~before
      BY <2>9, <1>12 DEF f_select
    <3>2. Queue = fifo /\ fifo' = fifo \o new
      BY <3>1, <1>1, <1>3
    <3>3. m_cmd'.op = "NOP"
      BY <2>3, <2>9 DEF NOP
    <3> HIDE DEF before, command
    <3> QED
      BY <2>2, <3>2, <3>3
  <2> QED
    BY <2>7, <2>8, <2>9
<1>13. CASE Read(asked)
  <2>1. m_state = "RD" /\ active.rnw /\ Serving(RD(Served), 1)
    BY <1>0, <1>13 DEF Read, RequestInv
  <2>2. Serving(IF active.rnw THEN RD(Served) ELSE WR(Served), 1)
    BY <2>1
  <2> QED
    BY <2>1, <2>2, <1>6, <1>12
<1>14. CASE Write(asked)
  <2>1. m_state = "WR" /\ ~active.rnw /\ Serving(WR(Served), 2)
    BY <1>0, <1>14 DEF Write, RequestInv
  <2>2. Serving(IF active.rnw THEN RD(Served) ELSE WR(Served), 2)
    BY <2>1
  <2> QED
    BY <2>1, <2>2, <1>6, <1>12
<1>15. CASE Spin(asked)
  <2>1. /\ m_cmd'.op \notin {"RD", "WR"} /\ m_state = "SPIN"
        /\ ~before'
    BY <1>15 DEF Spin, NOP, Goto, LookAtHead, NoLook
  <2> QED
    BY <2>1, <1>6, <1>7
<1>16. CASE Recover(asked)
  <2>1. /\ m_cmd'.op \notin {"RD", "WR"} /\ m_state = "REC" /\ ~before'
    BY <1>16 DEF Recover, NOP
  <2> QED
    BY <2>1, <1>6, <1>7
<1>17. CASE Precharge(asked)
  <2>1. m_state = "PRE" /\ m_next \in {"ARF", "IDLE"}
    BY <1>0, <1>17 DEF Precharge, MainInv
  <2>2. /\ m_cmd'.op \notin {"RD", "WR"} /\ m_state' = "WAIT" /\ ~before'
    BY <1>17, <2>1 DEF Precharge, PRE
  <2> QED
    BY <2>1, <2>2, <1>6, <1>7
<1>18. CASE Refresh(asked)
  <2>1. /\ m_cmd'.op \notin {"RD", "WR"} /\ m_state = "ARF" /\ ~before'
    BY <1>18 DEF Refresh, Goto, ARF
  <2> QED
    BY <2>1, <1>6, <1>7
<1> QED
  BY <1>8, <1>9, <1>10, <1>11, <1>13, <1>14, <1>15, <1>16, <1>17, <1>18 DEF SDRAMEdge

\* A command does what the request at the head of the queue asks for.
LEMMA CommandServes ==
  ASSUME ChipInv, NEW asked \in Requests \cup {NoRequest}, SDRAMEdge(asked)
  PROVE  /\ Settled \in Memories /\ cells' = Settled
         /\ m_cmd.op = "RD" => cells[Cell] \in Values /\ out'[1] = cells[Cell]
         /\ m_cmd'.op \notin {"RD", "WR"} => Settled' = Settled /\ Newest' = <<>>
         /\ \A q \in Requests :
              /\ m_cmd' = IF q.rnw THEN RD(q) ELSE WR(q)
              /\ rows'[q.addr.bank] = q.addr.row
              => Settled' = Written(q, Settled) /\ Newest' = Promised(q, Settled)
<1>1. Chip
  BY AlwaysBeside DEF Beside
<1>2. /\ cells \in Memories /\ rows \in [Banks -> Rows \cup {NoRow}]
      /\ m_cmd.op \in {"RD", "WR"} => Cell \in Addresses
      /\ m_cmd.op = "WR" => m_cmd.data \in Values
  BY DEF ChipInv, ChipTypes, CommandInv, Memories, Cell, Addresses
<1>3. cells' = Settled
  <2>1. cells' = IF m_cmd.op = "WR" /\ Cell \in Addresses /\ ~m_cmd.dqm
                 THEN [cells EXCEPT ![Cell] = m_cmd.data] ELSE cells
    BY <1>1 DEF Chip, Cell
  <2> QED
    BY <2>1, <1>2 DEF Settled
<1>4. Settled \in Memories
  BY <1>2 DEF Settled, Memories
<1>5. ASSUME m_cmd.op = "RD" PROVE cells[Cell] \in Values /\ out'[1] = cells[Cell]
  <2>1. Cell \in Addresses
    BY <1>2, <1>5
  <2>2. out' = <<IF m_cmd.op = "RD" /\ Cell \in Addresses THEN cells[Cell] ELSE NoData,
                 out[1]>>
    BY <1>1 DEF Chip, Cell
  <2> QED
    BY <2>1, <2>2, <1>2, <1>5 DEF Memories
<1>6. m_cmd'.op \notin {"RD", "WR"} => Settled' = Settled /\ Newest' = <<>>
  BY <1>3 DEF Settled, Newest
<1>7. ASSUME NEW q \in Requests, m_cmd' = (IF q.rnw THEN RD(q) ELSE WR(q)),
             rows'[q.addr.bank] = q.addr.row
      PROVE  Settled' = Written(q, Settled) /\ Newest' = Promised(q, Settled)
  <2>1. q.addr \in Addresses /\ q # NoRequest
    BY SDRAMAssumption
  <2>2. m_cmd'.bank = q.addr.bank /\ m_cmd'.column = q.addr.column
    BY <1>7 DEF RD, WR
  <2>3. Cell' = q.addr
    <3>1. Cell' = [bank |-> q.addr.bank, row |-> q.addr.row, column |-> q.addr.column]
      BY <1>7, <2>2 DEF Cell
    <3> QED
      BY <2>1, <3>1 DEF Addresses
  <2>4. CASE q.rnw
    <3>1. m_cmd'.op = "RD"
      BY <1>7, <2>4 DEF RD
    <3> QED
      BY <2>1, <2>3, <2>4, <3>1, <1>3 DEF Settled, Newest, Written, Promised
  <2>5. CASE ~q.rnw
    <3>1. m_cmd'.op = "WR" /\ m_cmd'.dqm = q.dqm /\ m_cmd'.data = q.data
      BY <1>7, <2>5 DEF WR
    <3> QED
      BY <2>1, <2>3, <2>5, <3>1, <1>3 DEF Settled, Newest, Written, Promised
  <2> QED
    BY <2>4, <2>5
<1> QED
  BY <1>3, <1>4, <1>5, <1>6, <1>7

\* Associativity, one instance at a time.
Grouped(x, y, z) == (x \o y) \o z = x \o (y \o z)

LEMMA AlwaysGrouped ==
  ASSUME NEW S, NEW x \in Seq(S), NEW y \in Seq(S), NEW z \in Seq(S)
  PROVE  Grouped(x, y, z)
  BY ConcatAssociative DEF Grouped

\* What is owed before an edge and after it.
Regrouped(s, f, n, p, a, r) ==
  /\ (s \o (f \o n)) \o (p \o a) = s \o ((f \o n) \o (p \o a))
  /\ ((f \o n) \o (p \o a)) \o r = (f \o (n \o p)) \o (a \o r)

LEMMA Regroup ==
  ASSUME NEW S, NEW s \in Seq(S), NEW f \in Seq(S), NEW n \in Seq(S),
         NEW p \in Seq(S), NEW a \in Seq(S), NEW r \in Seq(S)
  PROVE  Regrouped(s, f, n, p, a, r)
<1> DEFINE fn == f \o n
           pa == p \o a
           ar == a \o r
<1>1. fn \in Seq(S) /\ pa \in Seq(S) /\ ar \in Seq(S)
  OBVIOUS
<1> HIDE DEF fn, pa, ar
<1>2. /\ Grouped(s, fn, pa) /\ Grouped(fn, pa, r) /\ Grouped(p, a, r)
      /\ Grouped(fn, p, ar) /\ Grouped(f, n, p)
  BY <1>1, AlwaysGrouped
<1>3. /\ (s \o fn) \o pa = s \o (fn \o pa)
      /\ (fn \o pa) \o r = fn \o (pa \o r)
      /\ pa \o r = p \o ar
      /\ (fn \o p) \o ar = fn \o (p \o ar)
      /\ fn \o p = f \o (n \o p)
  BY <1>2, Zenon DEF Grouped, fn, pa, ar
<1> QED
  BY <1>3, Zenon DEF Regrouped, fn, pa, ar

\* What is accepted, served and answered at an edge.
LEMMA DataStep ==
  ASSUME ChipInv, DataInv, NEW asked \in Requests \cup {NoRequest},
         SDRAMEdge(asked)
  PROVE  /\ DataInv'
         /\ store' = Written(asked, store)
         /\ IF rd_valid[2]
            THEN /\ owed # <<>> /\ out[2] = Head(owed)
                 /\ owed' = Tail(owed) \o Promised(asked, store)
            ELSE owed' = owed \o Promised(asked, store)
<1> DEFINE new == IF asked # NoRequest THEN <<asked>> ELSE <<>>
           pr == Promised(asked, store)
<1>0. /\ store \in Memories /\ owed \in Seq(Values)
      /\ store = After(Queue, Settled)
      /\ owed = (Second \o (First \o Newest)) \o AnswersTo(Queue, Settled)
      /\ out \in Words \X Words /\ Values \subseteq Words
  BY DEF DataInv, HistoryTypes, Memories, ChipInv, ChipTypes, Words
<1>1. /\ Chip /\ Answering /\ History(asked)
  BY AlwaysBeside DEF Beside
<1>2. /\ Queue \in Seq(Requests) /\ Len(Queue) <= 3
      /\ asked # NoRequest => Len(Queue) <= 2
      /\ \/ m_cmd'.op \notin {"RD", "WR"} /\ Queue' = Queue \o new
         \/ /\ Queue # <<>> /\ Queue' = Tail(Queue) \o new
            /\ m_cmd' = IF Head(Queue).rnw THEN RD(Head(Queue))
                                           ELSE WR(Head(Queue))
            /\ rows'[Head(Queue).addr.bank] = Head(Queue).addr.row
  BY QueueStep
<1>3. /\ Settled \in Memories
      /\ m_cmd.op = "RD" => cells[Cell] \in Values /\ out'[1] = cells[Cell]
      /\ m_cmd'.op \notin {"RD", "WR"} => Settled' = Settled /\ Newest' = <<>>
      /\ \A q \in Requests :
           /\ m_cmd' = IF q.rnw THEN RD(q) ELSE WR(q)
           /\ rows'[q.addr.bank] = q.addr.row
           => Settled' = Written(q, Settled) /\ Newest' = Promised(q, Settled)
  BY CommandServes
<1>4. pr \in Seq(Values) /\ Written(asked, store) \in Memories
  BY <1>0, OneRequest
\* What is left of the queue when the command is out.
<1>5. PICK left \in Seq(Requests) :
        /\ Queue' = left \o new /\ (asked # NoRequest => Len(left) <= 2)
        /\ Len(left) <= 3
        /\ Settled' \in Memories /\ Newest' \in Seq(Values)
        /\ After(Queue, Settled) = After(left, Settled')
        /\ AnswersTo(Queue, Settled) = Newest' \o AnswersTo(left, Settled')
        /\ AnswersTo(left, Settled') \in Seq(Values)
  <2>a. ASSUME NEW q \in Seq(Requests), NEW m \in Memories
        PROVE  AnswersTo(q, m) \in Seq(Values)
    <3> DEFINE a == Item(q, 1)
               b == Item(q, 2)
               c == Item(q, 3)
    <3>1. /\ a \in Requests \cup {NoRequest} /\ b \in Requests \cup {NoRequest}
          /\ c \in Requests \cup {NoRequest}
      BY Items
    <3> HIDE DEF a, b, c
    <3>2. /\ Promised(a, m) \in Seq(Values)
          /\ Promised(b, Written(a, m)) \in Seq(Values)
          /\ Promised(c, Written(b, Written(a, m))) \in Seq(Values)
      BY <3>1, ThreeRequests
    <3>3. Promised(a, m) \o (Promised(b, Written(a, m))
             \o Promised(c, Written(b, Written(a, m)))) \in Seq(Values)
      BY <3>2
    <3> QED
      BY <3>3 DEF AnswersTo, a, b, c
  <2>1. CASE m_cmd'.op \notin {"RD", "WR"} /\ Queue' = Queue \o new
    <3>1. Settled' = Settled /\ Newest' = <<>>
      BY <2>1, <1>3
    <3>2. AnswersTo(Queue, Settled) \in Seq(Values)
      BY <2>a, <1>2, <1>3
    <3>3. <<>> \o AnswersTo(Queue, Settled) = AnswersTo(Queue, Settled)
      BY <3>2
    <3>4. AnswersTo(Queue, Settled) = Newest' \o AnswersTo(Queue, Settled')
      BY <3>1, <3>3
    <3>5. Settled' \in Memories /\ Newest' \in Seq(Values)
          /\ After(Queue, Settled) = After(Queue, Settled')
          /\ AnswersTo(Queue, Settled') \in Seq(Values)
      BY <3>1, <3>2, <1>3
    <3> HIDE DEF new
    <3> QED
      BY <2>1, <3>4, <3>5, <1>2
  <2>2. CASE /\ Queue # <<>> /\ Queue' = Tail(Queue) \o new
             /\ m_cmd' = IF Head(Queue).rnw THEN RD(Head(Queue))
                                            ELSE WR(Head(Queue))
             /\ rows'[Head(Queue).addr.bank] = Head(Queue).addr.row
    <3> DEFINE q == Head(Queue)
               left == Tail(Queue)
    <3>1. /\ q \in Requests /\ left \in Seq(Requests) /\ Len(left) = Len(Queue) - 1
          /\ Len(Queue) \in Nat
      BY <2>2, <1>2
    <3>2. Settled' = Written(q, Settled) /\ Newest' = Promised(q, Settled)
      BY <2>2, <3>1, <1>3
    <3>3. Settled' \in Memories /\ Newest' \in Seq(Values)
      BY <3>1, <3>2, <1>3, OneRequest
    <3>4. /\ After(Queue, Settled) = After(left, Settled')
          /\ AnswersTo(Queue, Settled) = Newest' \o AnswersTo(left, Settled')
      BY <2>2, <3>2, <1>2, <1>3, AfterHead
    <3>5. AnswersTo(left, Settled') \in Seq(Values)
      BY <2>a, <3>1, <3>3
    <3>6. Len(left) <= 3 /\ (asked # NoRequest => Len(left) <= 2)
      <4> DEFINE n == Len(Queue)
                 k == Len(left)
      <4>1. n \in Nat /\ n <= 3 /\ (asked # NoRequest => n <= 2) /\ k = n - 1
        BY <3>1, <1>2
      <4> HIDE DEF n, k
      <4>2. k <= 3 /\ (n <= 2 => k <= 2)
        BY <4>1
      <4> QED
        BY <4>1, <4>2 DEF k
    <3> HIDE DEF new, q
    <3>7. Queue' = left \o new
      BY <2>2
    <3> HIDE DEF left
    <3> QED
      BY <3>1, <3>3, <3>4, <3>5, <3>6, <3>7
  <2> QED
    BY <2>1, <2>2, <1>2
<1>6. /\ After(Queue', Settled') = Written(asked, store)
      /\ AnswersTo(Queue', Settled') = AnswersTo(left, Settled') \o pr
  <2>1. CASE asked = NoRequest
    <3>1. Queue' = left
      BY <2>1, <1>5
    <3>2. Written(asked, store) = store /\ pr = <<>>
      BY <2>1, <1>0, OneRequest
    <3>3. AnswersTo(left, Settled') \o <<>> = AnswersTo(left, Settled')
      BY <1>5
    <3> HIDE DEF pr
    <3> QED
      BY <3>1, <3>2, <3>3, <1>0, <1>5
  <2>2. CASE asked # NoRequest
    <3>1. Queue' = left \o <<asked>> /\ asked \in Requests /\ Len(left) <= 2
      BY <2>2, <1>5
    <3>2. /\ After(Queue', Settled') = Written(asked, After(left, Settled'))
          /\ AnswersTo(Queue', Settled') =
               AnswersTo(left, Settled') \o Promised(asked, After(left, Settled'))
      BY <3>1, <1>5, AfterLast
    <3> QED
      BY <3>2, <1>0, <1>5
  <2> QED
    BY <2>1, <2>2
<1>7. Second' = First /\ First' = Newest
  <2>1. rd_valid' = <<m_cmd.op = "RD", rd_valid[1]>> /\ out'[2] = out[1]
    BY <1>1 DEF Answering, Chip
  <2>2. rd_valid'[2] = rd_valid[1] /\ rd_valid'[1] = (m_cmd.op = "RD")
    BY <2>1
  <2> QED
    BY <2>1, <2>2, <1>3 DEF First, Second, Newest
<1>8. /\ First \in Seq(Words) /\ Newest \in Seq(Words) /\ Newest' \in Seq(Words)
      /\ AnswersTo(left, Settled') \in Seq(Words) /\ pr \in Seq(Words)
  BY <1>0, <1>3, <1>4, <1>5 DEF First, Newest
\* The same, in the order in which it comes back.
<1>r. PICK rest \in Seq(Words) :
        /\ owed = Second \o rest
        /\ rest \o pr = (First \o (Newest \o Newest')) \o (AnswersTo(left, Settled') \o pr)
  <2>1. Second \in Seq(Words)
    BY <1>0 DEF Second
  <2>2. PICK s, f, n, p, a :
          /\ s = Second /\ f = First /\ n = Newest /\ p = Newest'
          /\ a = AnswersTo(left, Settled')
    OBVIOUS
  <2>3. /\ s \in Seq(Words) /\ f \in Seq(Words) /\ n \in Seq(Words)
        /\ p \in Seq(Words) /\ a \in Seq(Words) /\ pr \in Seq(Words)
        /\ owed = (s \o (f \o n)) \o (p \o a)
    BY <2>1, <2>2, <1>0, <1>5, <1>8
  <2> HIDE DEF pr
  <2>4. Regrouped(s, f, n, p, a, pr)
    BY <2>3, Regroup
  <2>5. (f \o n) \o (p \o a) \in Seq(Words)
    BY <2>3
  <2>6. /\ owed = s \o ((f \o n) \o (p \o a))
        /\ ((f \o n) \o (p \o a)) \o pr = (f \o (n \o p)) \o (a \o pr)
    BY <2>3, <2>4, Zenon DEF Regrouped
  <2> QED
    BY <2>2, <2>5, <2>6
<1>11. /\ rd_valid[2] => owed # <<>> /\ Head(owed) = out[2] /\ Tail(owed) = rest
       /\ ~rd_valid[2] => owed = rest
  <2>1. CASE rd_valid[2]
    <3>1. owed = <<out[2]>> \o rest /\ rest \in Seq(Words) /\ out[2] \in Words
      BY <2>1, <1>0, <1>r DEF Second
    <3>2. owed # <<>> /\ Head(owed) = out[2] /\ Tail(owed) = rest
      BY <3>1
    <3> QED
      BY <2>1, <3>2
  <2>2. CASE ~rd_valid[2]
    <3>1. owed = <<>> \o rest /\ rest \in Seq(Words)
      BY <2>2, <1>r DEF Second
    <3>2. owed = rest
      BY <3>1
    <3> QED
      BY <2>2, <3>2
  <2> QED
    BY <2>1, <2>2
<1>12. /\ store' = Written(asked, store)
       /\ owed' = (IF rd_valid[2] /\ owed # <<>> THEN Tail(owed) ELSE owed) \o pr
  BY <1>1 DEF History, Promised
<1>13. owed' = rest \o pr
  BY <1>11, <1>12
<1>14. owed' = (Second' \o (First' \o Newest')) \o AnswersTo(Queue', Settled')
  BY <1>6, <1>7, <1>13, <1>r
<1>15. owed' \in Seq(Values)
  <2>1. rest \in Seq(Values)
    <3>1. owed # <<>> => Tail(owed) \in Seq(Values)
      BY <1>0
    <3> QED
      BY <3>1, <1>0, <1>11
  <2>2. pr \in Seq(Values)
    BY <1>4
  <2> HIDE DEF pr
  <2> QED
    BY <2>1, <2>2, <1>13
<1>16. DataInv'
  BY <1>4, <1>6, <1>7, <1>12, <1>14, <1>15 DEF DataInv, HistoryTypes, Memories
<1> QED
  BY <1>11, <1>12, <1>16

LEMMA DataInit == SDRAMInit => DataInv
<1> SUFFICES ASSUME SDRAMInit PROVE DataInv
  OBVIOUS
<1>1. /\ cells \in Memories /\ store = cells /\ owed = <<>> /\ fifo = <<>>
      /\ rd_valid = <<FALSE, FALSE>> /\ m_cmd.op = "NOP" /\ m_state = "IDLE"
  BY DEF SDRAMInit, Memories, NOP
<1>2. Queue = <<>> /\ Settled = cells /\ Second = <<>> /\ First = <<>> /\ Newest = <<>>
  BY <1>1 DEF Queue, Waiting, Settled, Second, First, Newest
<1>3. Item(<<>>, 1) = NoRequest /\ Item(<<>>, 2) = NoRequest /\ Item(<<>>, 3) = NoRequest
  BY DEF Item
<1>4. Written(NoRequest, cells) = cells /\ Promised(NoRequest, cells) = <<>>
  BY <1>1, OneRequest
<1>5. After(<<>>, cells) = cells /\ AnswersTo(<<>>, cells) = <<>> \o (<<>> \o <<>>)
  BY <1>3, <1>4 DEF After, AnswersTo
<1>6. HistoryTypes
  BY <1>1 DEF HistoryTypes, Memories
<1>7. <<>> \o <<>> = <<>>
  BY ConcatEmptySeq, <<>> \in Seq(Values)
<1>8. (Second \o (First \o Newest)) \o AnswersTo(Queue, Settled) = <<>>
  BY <1>2, <1>5, <1>7
<1> QED
  BY <1>1, <1>2, <1>5, <1>6, <1>8 DEF DataInv

LEMMA DataNext == ChipInv /\ DataInv /\ [SDRAMNext]_sdramVars => DataInv'
<1> SUFFICES ASSUME ChipInv, DataInv, [SDRAMNext]_sdramVars PROVE DataInv'
  OBVIOUS
<1>1. CASE SDRAMNext
  BY <1>1, DataStep DEF SDRAMNext
<1>2. CASE UNCHANGED sdramVars
  BY <1>2, Zenon DEF sdramVars, initVars, refreshVars, mainVars, chipVars, DataInv,
     HistoryTypes, Queue, Waiting, Settled, Cell, Second, First, Newest
<1> QED
  BY <1>1, <1>2

\* The memory and what is owed are what the commands that are out and the
\* requests that wait make of the chip's cells.
THEOREM DataInvariant == SDRAMSpec => []DataInv
  BY ControllerInvariant, DataInit, DataNext, PTL DEF SDRAMSpec

\* The chip is told nothing it may not be told, in whatever state it is, and no
\* refresh is missed (SDRAMController.ChipObeyed).
THEOREM ChipAlwaysObeyed == SDRAMSpec => []ChipObeyed
<1>1. ChipInv /\ DataInv => ChipObeyed
  BY DEF ChipInv, DataInv, ChipObeyed, SDRAMTypeOK, MainInv, RequestInv, ChipTypes,
         HistoryTypes, RefreshInv
<1> QED
  BY <1>1, ControllerInvariant, DataInvariant, PTL

\* The controller with its chip is a memory as its masters expect it
\* (SDRAMController.MemoryInOrder without its fairness).
THEOREM ControllerImplementsPort == SDRAMSpec => Port!SafeSpec
<1>1. SDRAMInit => Port!Init
  BY DEF SDRAMInit, Port!Init
<1>2. ASSUME ChipInv, DataInv, [SDRAMNext]_sdramVars
      PROVE  [Port!Next]_(Port!portVars)
  <2>1. CASE SDRAMNext
    <3> PICK asked \in Requests \cup {NoRequest} : SDRAMEdge(asked)
      BY <2>1 DEF SDRAMNext
    <3> DEFINE answer == IF za_valid THEN za_data ELSE NoData
    <3>1. /\ store' = Port!Written(asked, store)
          /\ IF rd_valid[2]
             THEN /\ owed # <<>> /\ out[2] = Head(owed)
                  /\ owed' = Tail(owed) \o Port!Promised(asked, store)
             ELSE owed' = owed \o Port!Promised(asked, store)
      BY <1>2, DataStep DEF Written, Promised, Port!Written, Port!Promised
    <3>2. za_data' = out[2] /\ za_valid' = rd_valid[2]
      BY AlwaysBeside DEF Beside, Answering
    <3>3. CASE rd_valid[2]
      <4>1. answer' = out[2]
        BY <3>2, <3>3
      <4>2. Port!Answer(asked)
        BY <3>1, <3>3, <4>1 DEF Port!Answer
      <4> QED
        BY <4>2 DEF Port!Next, Port!Answers
    <3>4. CASE ~rd_valid[2]
      <4>1. answer' = NoData
        BY <3>2, <3>4
      <4>2. Port!Accept(asked)
        BY <3>1, <3>4, <4>1 DEF Port!Accept
      <4> QED
        BY <4>2 DEF Port!Next
    <3> QED
      BY <3>3, <3>4
  <2>2. CASE UNCHANGED sdramVars
    BY <2>2 DEF sdramVars, Port!portVars
  <2> QED
    BY <1>2, <2>1, <2>2
<1> QED
  BY <1>1, <1>2, ControllerInvariant, DataInvariant, PTL DEF SDRAMSpec, Port!SafeSpec
=============================================================================
