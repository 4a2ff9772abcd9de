----------------------------- MODULE CommandMux -----------------------------
(***************************************************************************)
(* Several masters before one slave in the interconnect                    *)
(* (sopc_mm_interconnect_0_cmd_mux*.sv, altera_merlin_arbitrator.sv):   *)
(* packets of requests come in from every master, and one of them at a     *)
(* time is let through.  The arbiter is round robin, and pipelined: whom   *)
(* it chooses at one edge is granted from the next edge on.                *)
(*                                                                         *)
(* A master keeps valid until its packet has been taken.  lock is what it  *)
(* asks of the arbiter: the DMA's is high in the states in which it does   *)
(* not read (sopc_video_pixel_buffer_dma_0.v:349), the processor's never.  *)
(*                                                                         *)
(* All shares are one, so the count of shares is always zero.              *)
(***************************************************************************)
EXTENDS Integers

CONSTANTS
  NUM_INPUTS,       \* 2 before the SDRAM controller, 3 before most slaves
  MaxBeats          \* bound: beats of a packet

Inputs == 0..NUM_INPUTS-1
Nobody == NUM_INPUTS

ASSUME MuxAssumption == NUM_INPUTS \in Nat \ {0} /\ MaxBeats \in Nat \ {0}

VARIABLES
  beats,                \* of every master: the beats of its packet still to go
  saved_grant,          \* whose packets go through, or Nobody
  packet_in_progress,
  locked,
  top_priority_reg,     \* the input the arbiter begins its search with
  waited,               \* history: edges at which the slave was ready while one waits
  whole                 \* history: whose packet has been taken in part, or Nobody

muxVars == <<beats, saved_grant, packet_in_progress, locked, top_priority_reg,
             waited, whole>>

valid == {i \in Inputs : beats[i] > 0}

src_valid == saved_grant \in valid

src_endofpacket == beats[saved_grant] = 1

last_cycle(src_ready, lock) ==
  src_valid /\ src_ready /\ src_endofpacket /\ saved_grant \notin lock

update_grant(src_ready, lock) ==
  \/ ~packet_in_progress /\ ~src_valid
  \/ last_cycle(src_ready, lock)

request == valid \cup locked

\* Mutant: the search always begins with the first input.
Chosen_FixedPriority ==
  IF request = {} THEN Nobody
  ELSE CHOOSE i \in request : \A j \in request : i <= j

\* The first input that requests, in a circle from top_priority_reg.
Chosen ==
  LET distance(i) == (i - top_priority_reg) % NUM_INPUTS
  IN  IF request = {} THEN Nobody
      ELSE CHOOSE i \in request : \A j \in request : distance(i) <= distance(j)

MuxInit ==
  /\ beats = [i \in Inputs |-> 0]
  /\ saved_grant = Nobody
  /\ packet_in_progress = FALSE
  /\ locked = {}
  /\ top_priority_reg = 0
  /\ waited = [i \in Inputs |-> 0]
  /\ whole = Nobody

Arbiter(src_ready, lock) ==
  /\ locked' = {Chosen} \cap lock
  /\ packet_in_progress' = (IF last_cycle(src_ready, lock) THEN FALSE
                            ELSE packet_in_progress \/ src_valid)
  /\ IF update_grant(src_ready, lock)
     THEN /\ saved_grant' = Chosen
          /\ top_priority_reg' = IF request = {} THEN top_priority_reg
                                 ELSE (Chosen + 1) % NUM_INPUTS
     ELSE UNCHANGED <<saved_grant, top_priority_reg>>

\* The granted master's beat is taken; whoever has none may begin a packet.
Masters(src_ready, packets) ==
  LET taken == src_valid /\ src_ready
  IN  /\ beats' = [i \in Inputs |->
                     IF beats[i] = 0 THEN packets[i]
                     ELSE IF taken /\ i = saved_grant THEN beats[i] - 1
                     ELSE beats[i]]
      /\ whole' = IF ~taken THEN whole
                  ELSE IF src_endofpacket THEN Nobody ELSE saved_grant
      /\ waited' = [i \in Inputs |->
                      IF i \notin valid \/ i = saved_grant THEN 0
                      ELSE IF src_ready THEN waited[i] + 1 ELSE waited[i]]

MuxEdge(src_ready, lock, packets) ==
  /\ lock \cap valid = {}
  /\ Arbiter(src_ready, lock)
  /\ Masters(src_ready, packets)

\* At most one master, the DMA, ever locks: input 0.
MuxNext == \E src_ready \in BOOLEAN, lock \in SUBSET {0},
              packets \in [Inputs -> 0..MaxBeats] :
             MuxEdge(src_ready, lock, packets)

MuxSpec == MuxInit /\ [][MuxNext]_muxVars

-----------------------------------------------------------------------------
MuxTypeOK ==
  /\ beats \in [Inputs -> 0..MaxBeats]
  /\ saved_grant \in Inputs \cup {Nobody} /\ top_priority_reg \in Inputs
  /\ packet_in_progress \in BOOLEAN /\ locked \subseteq Inputs
  /\ waited \in [Inputs -> Nat] /\ whole \in Inputs \cup {Nobody}

\* Nobody waits longer than a packet of everyone else takes and one edge for
\* the arbiter, counting the edges at which the slave is ready; no packet is
\* mixed with another one's; and the DMA's lock keeps nobody out: it is high only
\* when the DMA requests nothing, where the arbiter doesn't heed it.
TurnsTaken ==
  /\ MuxTypeOK
  /\ \A i \in Inputs : waited[i] <= (NUM_INPUTS - 1) * MaxBeats + 1
  /\ whole # Nobody => saved_grant = whole
=============================================================================
