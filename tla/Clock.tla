-------------------------------- MODULE Clock --------------------------------
(***************************************************************************)
(* The HAL's services of time side by side: the alarms, the time of day    *)
(* and usleep.  They share nothing but the timer's ticks, which alarms and *)
(* time of day count each for itself: the counter of the one turns, that   *)
(* of the other doesn't get as far.                                        *)
(***************************************************************************)
EXTENDS Alarms, TimeOfDay, BusySleep

clockVars == <<alarmVars, timeVars, sleep>>

ClockInit == AlarmsInit /\ TimeInit /\ SleepInit

AlarmsRun == AlarmsNext /\ UNCHANGED <<timeVars, sleep>>
TimeRuns  == TimeNext /\ UNCHANGED <<alarmVars, sleep>>
SleepRuns == SleepNext /\ UNCHANGED <<alarmVars, timeVars>>

ClockNext == AlarmsRun \/ TimeRuns \/ SleepRuns

ClockSpec == ClockInit /\ [][ClockNext]_clockVars

-----------------------------------------------------------------------------
(* Properties. *)

\* Alarms are called when they are due, the time of day counts the ticks, and
\* sleeping takes the time it should.
ClockKept == AlarmsKept /\ TimeIsKept /\ SleptEnough
=============================================================================
