------------------------------- MODULE BusySleep -------------------------------
(***************************************************************************)
(* usleep: alt_busy_sleep counts down in loops of two instructions, the    *)
(* longest of INT_MAX turns, as often as the time asked for needs them.    *)
(* The loops are counted here, and what interrupts them is left out.       *)
(***************************************************************************)
EXTENDS Integers

CONSTANTS
  INT_MAX,               \* 2^31 - 1
  CyclesPerMicrosecond,  \* ALT_CPU_FREQ / 1000000 (120)
  cycles_per_loop,       \* 9 if the processor is tiny, 3 otherwise
  SleepTimes             \* what is asked for, in microseconds

ASSUME SleepAssumption ==
  /\ INT_MAX \in Nat \ {0} /\ cycles_per_loop \in Nat \ {0}
  \* Otherwise the code divides by zero.
  /\ CyclesPerMicrosecond \in Nat
  /\ CyclesPerMicrosecond \div cycles_per_loop \in 1..INT_MAX
  /\ SleepTimes \subseteq 0..2 * INT_MAX + 1

VARIABLES sleep          \* [at, asked, us, big_loops, turns]

LoopsPerMicrosecond == CyclesPerMicrosecond \div cycles_per_loop

\* Microseconds of a big loop.
BigLoop == INT_MAX \div LoopsPerMicrosecond

Awake == [at |-> "awake", asked |-> 0, us |-> 0, big_loops |-> 0, turns |-> 0]

SleepInit == sleep = Awake

alt_usleep ==
  /\ sleep.at = "awake"
  /\ \E us \in SleepTimes :
       sleep' = [at |-> IF us \div BigLoop > 0 THEN "big" ELSE "small",
                 asked |-> us, us |-> us, big_loops |-> us \div BigLoop, turns |-> 0]

\* bne: from 0 the counter goes on through -1 and all the values of a word.
Turns(counter) == IF counter = 0 THEN 2 * (INT_MAX + 1) ELSE counter

\* Mutant: the time of the big loops is not taken off.
CountMost_Again ==
  /\ sleep.at = "big" /\ sleep.big_loops > 0
  /\ sleep' = [sleep EXCEPT !.big_loops = @ - 1, !.turns = @ + INT_MAX]

\* The assembler code counts its operand down without saying so: a compiler that
\* keeps INT_MAX in a register over the turns begins the later ones with 0.
CountMost ==
  /\ sleep.at = "big" /\ sleep.big_loops > 0
  /\ \E counter \in {INT_MAX, IF sleep.turns = 0 THEN INT_MAX ELSE 0} :
       sleep' = [sleep EXCEPT !.big_loops = @ - 1, !.us = @ - BigLoop,
                              !.turns = @ + Turns(counter)]

CountRest ==
  /\ sleep.at = "big" /\ sleep.big_loops = 0
  /\ sleep' = [sleep EXCEPT
                 !.at = "done",
                 !.turns = @ + Turns(sleep.us * LoopsPerMicrosecond)]

\* bgt: one turn at least.
CountSmall ==
  /\ sleep.at = "small"
  /\ LET counter == sleep.us * LoopsPerMicrosecond
     IN  sleep' = [sleep EXCEPT !.at = "done",
                                !.turns = IF counter = 0 THEN 1 ELSE counter]

WakeUp == sleep.at = "done" /\ sleep' = Awake

SleepNext == alt_usleep \/ CountMost \/ CountRest \/ CountSmall \/ WakeUp

SleepSpec == SleepInit /\ [][SleepNext]_sleep

-----------------------------------------------------------------------------
(* Properties. *)

\* A sleep is as long as it was asked for, less only the part of a loop that the
\* division of the two rates drops from every microsecond; and longer at most by
\* a turn for every big loop and microsecond of it.  But a round of a word (107 s
\* here) may be added for every big loop (53.687091 s) after the first, and one
\* is when the time is a whole number of them.
SleptEnough ==
  sleep.at = "done" =>
    LET cycles == sleep.turns * cycles_per_loop
        wanted == sleep.asked * CyclesPerMicrosecond
        big    == sleep.asked \div BigLoop
        slack  == IF big = 0 THEN 1 ELSE big * (LoopsPerMicrosecond - 1)
        rounds == IF big = 0 THEN 0
                  ELSE big - (IF sleep.asked % BigLoop = 0 THEN 0 ELSE 1)
    IN  /\ cycles >= wanted - sleep.asked * (CyclesPerMicrosecond % cycles_per_loop)
        /\ cycles <= wanted + cycles_per_loop * (slack + rounds * 2 * (INT_MAX + 1))
=============================================================================
