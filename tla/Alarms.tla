-------------------------------- MODULE Alarms --------------------------------
(***************************************************************************)
(* The HAL's clock: alt_tick, called by the timer's interrupt routine, and *)
(* the list of alarms it serves, which the program and the callbacks       *)
(* change (alt_alarm_start, alt_alarm_stop).  The counter of ticks wraps   *)
(* around, so that whether an alarm is due takes a comparison and a flag.  *)
(*                                                                         *)
(* The list is the code's: a ring of pointers in both directions through   *)
(* its head.  The program changes it with interrupts disabled, so its      *)
(* calls are steps; alt_tick takes a step per alarm, and its callbacks     *)
(* change the list under its feet.                                         *)
(***************************************************************************)
EXTENDS Integers, FiniteSets

CONSTANTS
  Alarms,           \* the alarm structures
  List,             \* the list's head, alt_alarm_list
  TickMod,          \* values of alt_u32
  Periods           \* bound: arguments of alt_alarm_start, and what callbacks
                    \* return beside 0

ASSUME AlarmsAssumption ==
  /\ List \notin Alarms /\ IsFiniteSet(Alarms)
  /\ TickMod \in Nat /\ TickMod > 2
  /\ Periods \subseteq 0..TickMod-2

Nodes == Alarms \cup {List}

VARIABLES
  _alt_nticks,
  nextOf, previousOf,           \* alt_llist
  time, rollover,               \* of every alarm
  at,                           \* where alt_tick stands
  alarm, next,                  \* its locals, List while it does not run
  remaining,                    \* history: ticks until the alarm is due
  registered,                   \* history: started and not stopped
  strayed                       \* history: a callback has stopped the alarm
                                \* that was to be looked at next

links == <<nextOf, previousOf>>
due == <<time, rollover>>
alarmVars == <<_alt_nticks, links, due, at, alarm, next, remaining,
               registered, strayed>>

Wrap(n) == n % TickMod

-----------------------------------------------------------------------------
(* alt_llist_insert and alt_llist_remove *)

Inserted(a) ==
  LET first == nextOf[List]
  IN  /\ previousOf' = [previousOf EXCEPT ![a] = List, ![first] = a]
      /\ nextOf' = [nextOf EXCEPT ![a] = first, ![List] = a]

\* Mutant: the way back still leads through the entry.
Removed_OneWay(a) ==
  /\ nextOf' = [nextOf EXCEPT ![previousOf[a]] = nextOf[a], ![a] = a]
  /\ previousOf' = [previousOf EXCEPT ![a] = a]

\* The entry is left pointing to itself.
Removed(a) ==
  /\ nextOf' = [nextOf EXCEPT ![previousOf[a]] = nextOf[a], ![a] = a]
  /\ previousOf' = [previousOf EXCEPT ![nextOf[a]] = previousOf[a], ![a] = a]

-----------------------------------------------------------------------------
(* alt_alarm_start and alt_alarm_stop *)

\* Of an alarm that is not registered: the list is not made for a second one.
Started(a, n) ==
  LET first == Wrap(_alt_nticks + n + 1)
  IN  /\ a \notin registered
      /\ Inserted(a)
      /\ time' = [time EXCEPT ![a] = first]
      /\ rollover' = [rollover EXCEPT ![a] = first < _alt_nticks]
      /\ remaining' = [remaining EXCEPT ![a] = n + 1]
      /\ registered' = registered \cup {a}

Stopped(a) ==
  /\ Removed(a)
  /\ registered' = registered \ {a}

\* The program runs when alt_tick does not.
alt_alarm_start ==
  /\ at = "idle"
  /\ \E a \in Alarms, n \in Periods : Started(a, n)
  /\ UNCHANGED <<_alt_nticks, at, alarm, next, strayed>>

alt_alarm_stop ==
  /\ at = "idle"
  /\ \E a \in registered : Stopped(a)
  /\ UNCHANGED <<_alt_nticks, due, at, alarm, next, remaining, strayed>>

-----------------------------------------------------------------------------
(* alt_tick *)

Tick ==
  /\ at = "idle"
  /\ _alt_nticks' = Wrap(_alt_nticks + 1)
  /\ alarm' = nextOf[List]
  /\ at' = IF alarm' = List THEN "idle" ELSE "look"
  /\ remaining' = [a \in Alarms |->
                     IF a \in registered THEN remaining[a] - 1 ELSE 0]
  /\ UNCHANGED <<links, due, next, registered, strayed>>

\* The flag is cleared when the counter has turned.
StillWaiting(a) == rollover[a] /\ _alt_nticks # 0

IsDue(a) == time[a] <= _alt_nticks /\ ~StillWaiting(a)

Advance(following) ==
  /\ alarm' = following
  /\ next' = List
  /\ at' = IF following = List THEN "idle" ELSE "look"

Pass ==
  /\ at = "look" /\ ~IsDue(alarm)
  /\ rollover' = [rollover EXCEPT ![alarm] = StillWaiting(alarm)]
  /\ Advance(nextOf[alarm])
  /\ UNCHANGED <<_alt_nticks, links, time, remaining, registered, strayed>>

\* The next alarm is looked up before the callback is called.
Call ==
  /\ at = "look" /\ IsDue(alarm)
  /\ rollover' = [rollover EXCEPT ![alarm] = FALSE]
  /\ next' = nextOf[alarm]
  /\ at' = "called"
  /\ UNCHANGED <<_alt_nticks, links, time, alarm, remaining, registered,
                 strayed>>

\* A callback starts or stops an alarm, its own or another one: one, to bound
\* what it does.
CallbackActs ==
  /\ at = "called"
  /\ at' = "acted"
  /\ \/ /\ \E a \in Alarms, n \in Periods : Started(a, n)
        /\ UNCHANGED strayed
     \/ /\ \E a \in registered :
             Stopped(a) /\ strayed' = (strayed \/ (a = next /\ a # alarm))
        /\ UNCHANGED <<due, remaining>>
  /\ UNCHANGED <<_alt_nticks, alarm, next>>

\* Mutant: alt_tick goes on from where the alarm stands after the callback.
Following_Late == nextOf[alarm]

Following == next

\* The callback returns 0, and the alarm is stopped, ...
CallbackEnds ==
  /\ at \in {"called", "acted"}
  /\ Stopped(alarm)
  /\ Advance(Following)
  /\ UNCHANGED <<_alt_nticks, due, remaining, strayed>>

\* ... or the time until the next call.
CallbackRepeats ==
  /\ at \in {"called", "acted"}
  /\ \E p \in Periods \ {0} :
       LET again == Wrap(time[alarm] + p)
       IN  /\ time' = [time EXCEPT ![alarm] = again]
           /\ rollover' = [rollover EXCEPT ![alarm] = @ \/ again < _alt_nticks]
           /\ remaining' = [remaining EXCEPT ![alarm] = @ + p]
  /\ Advance(Following)
  /\ UNCHANGED <<_alt_nticks, links, registered, strayed>>

-----------------------------------------------------------------------------
AlarmsInit ==
  /\ _alt_nticks = 0
  /\ nextOf = [n \in Nodes |-> n] /\ previousOf = [n \in Nodes |-> n]
  /\ time = [a \in Alarms |-> 0] /\ rollover = [a \in Alarms |-> FALSE]
  /\ at = "idle" /\ alarm = List /\ next = List
  /\ remaining = [a \in Alarms |-> 0]
  /\ registered = {}
  /\ strayed = FALSE

Ticking == Pass \/ Call \/ CallbackActs \/ CallbackEnds \/ CallbackRepeats

AlarmsNext == alt_alarm_start \/ alt_alarm_stop \/ Tick \/ Ticking

AlarmsSpec == AlarmsInit /\ [][AlarmsNext]_alarmVars

\* Callbacks return, and alt_tick goes on after them.
AlarmsFairness == WF_alarmVars(Ticking)

FairAlarmsSpec == AlarmsSpec /\ AlarmsFairness

-----------------------------------------------------------------------------
(* Properties. *)

\* Counter and times keep their width, pointers point to entries.
AlarmsTypeOK ==
  /\ _alt_nticks \in 0..TickMod-1 /\ time \in [Alarms -> 0..TickMod-1]
  /\ rollover \in [Alarms -> BOOLEAN]
  /\ nextOf \in [Nodes -> Nodes] /\ previousOf \in [Nodes -> Nodes]
  /\ at \in {"idle", "look", "called", "acted"}
  /\ alarm \in Nodes /\ next \in Nodes
  /\ registered \subseteq Alarms /\ strayed \in BOOLEAN

\* From the head the ring leads through every registered alarm, and no other,
\* and back, in both directions, whatever callbacks do to it.
ListWhole ==
  LET followed[k \in 0..Cardinality(Alarms)] ==
        IF k = 0 THEN List ELSE nextOf[followed[k - 1]]
  IN  /\ {followed[k] : k \in DOMAIN followed} = registered \cup {List}
      /\ \A n \in registered \cup {List} : previousOf[nextOf[n]] = n

\* An alarm is called at the tick it was started for, neither earlier nor later,
\* across the counter's turn as well; alt_tick leaves out none.  (Not for a
\* start with the largest alt_u32, whose due time is the present one: it is
\* called at the next tick.)
OnTime ==
  ~strayed =>
    /\ at = "called" => alarm \in registered /\ remaining[alarm] = 0
    /\ at = "idle" => \A a \in registered : remaining[a] > 0

\* The clock's list stays a ring of the alarms that are registered, and each of
\* them is called at its tick.
AlarmsKept == AlarmsTypeOK /\ ListWhole /\ OnTime

\* alt_tick returns, as long as no callback has stopped the alarm that is next
\* in the list: alt_alarm_stop leaves it pointing to itself, and alt_tick would
\* stay with it for ever.
TickReturns == (at # "idle") ~> (at = "idle" \/ strayed)
=============================================================================
