------------------------------- MODULE TimeOfDay -------------------------------
(***************************************************************************)
(* settimeofday, gettimeofday and times of the HAL.  The clock counts      *)
(* ticks; what settimeofday keeps is the time of day at tick 0, which may  *)
(* be before the beginning of all time.                                    *)
(***************************************************************************)
EXTENDS Integers

CONSTANTS
  ALT_US,               \* microseconds in a second (1000000)
  tick_rate,            \* ticks in a second, 0 without a clock
  WordMod,              \* values of alt_u32
  TimesOfDay,           \* bound: arguments of settimeofday
  LastTick              \* bound: ticks

\* With a rate that does not divide a second the microseconds of gettimeofday
\* run away from its seconds.
ASSUME TimeOfDayAssumption ==
  /\ ALT_US \in Nat \ {0} /\ tick_rate \in Nat
  /\ tick_rate > 0 => ALT_US % tick_rate = 0
  /\ WordMod \in Nat \ {0} /\ LastTick \in 0..WordMod-1
  /\ TimesOfDay \subseteq [tv_sec : Nat, tv_usec : 0..ALT_US-1]

VARIABLES
  nticks,               \* _alt_nticks
  alt_resettime,
  set                   \* history: the time set last, and at which tick

timeVars == <<nticks, alt_resettime, set>>

Time(sec, usec) == [tv_sec |-> sec, tv_usec |-> usec]

Micros(t) == t.tv_sec * ALT_US + t.tv_usec

\* Microseconds of the current second; settimeofday multiplies in 32 bits,
\* gettimeofday in 64.
ToSubtract == ((nticks * (ALT_US \div tick_rate)) % WordMod) % ALT_US
ToAdd == (nticks * (ALT_US \div tick_rate)) % ALT_US

\* Both loops of gettimeofday: they make at most one turn, since both terms are
\* less than a second.
Carried(t) ==
  IF t.tv_usec < 0
  THEN IF t.tv_sec <= 0 THEN Time(0, 0)
                        ELSE Time(t.tv_sec - 1, t.tv_usec + ALT_US)
  ELSE IF t.tv_usec >= ALT_US THEN Time(t.tv_sec + 1, t.tv_usec - ALT_US)
  ELSE t

ALT_GETTIMEOFDAY ==
  Carried(Time(alt_resettime.tv_sec + nticks \div tick_rate,
               alt_resettime.tv_usec + ToAdd))

\* ENOSYS without a clock.
ALT_SETTIMEOFDAY ==
  \E t \in TimesOfDay :
    /\ tick_rate > 0
    /\ alt_resettime' = Time(t.tv_sec - nticks \div tick_rate,
                             t.tv_usec - ToSubtract)
    /\ set' = [time |-> t, tick |-> nticks]
    /\ UNCHANGED nticks

ALT_TIMES == IF tick_rate = 0 THEN 0 ELSE nticks

alt_tick ==
  /\ tick_rate > 0 /\ nticks < LastTick
  /\ nticks' = nticks + 1
  /\ UNCHANGED <<alt_resettime, set>>

TimeInit ==
  /\ nticks = 0
  /\ alt_resettime = Time(0, 0)
  /\ set = [time |-> Time(0, 0), tick |-> 0]

TimeNext == ALT_SETTIMEOFDAY \/ alt_tick

TimeSpec == TimeInit /\ [][TimeNext]_timeVars

-----------------------------------------------------------------------------
(* Properties. *)

\* The microseconds counted when the time was set fit a word: about 71 minutes.
\* After that settimeofday sets a wrong time, whatever its comment promises.
EarlySet == set.tick * (ALT_US \div tick_rate) < WordMod

\* The time of day is the one that was set and the time since then, to the
\* microsecond and with less than a second of microseconds, across every carry
\* and borrow, also when the time set is before the start of the clock.  (Without
\* a clock both calls fail.)
TimeIsKept ==
  tick_rate > 0 /\ EarlySet =>
    /\ ALT_GETTIMEOFDAY.tv_usec \in 0..ALT_US-1
    /\ Micros(ALT_GETTIMEOFDAY) =
         Micros(set.time) + (nticks - set.tick) * (ALT_US \div tick_rate)
=============================================================================
