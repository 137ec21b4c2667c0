-------------------------- MODULE MCCronScheduling --------------------------
(***************************************************************************)
(* The calendar and the runtimes that sweep it.  A behaviour is about one  *)
(* of the two.                                                             *)
(*                                                                         *)
(* "calendar": one scheduler's ticks over days of three hours of four      *)
(* minutes, a week and a day of them, for jobs with fixed times and with   *)
(* the intervals the schedule reference lists, and one that does not       *)
(* divide the hour.                                                        *)
(*                                                                         *)
(* "runtimes": a daemon and a server over the first minutes after the      *)
(* start of that calendar, with a job of each kind; what is due is what    *)
(* ShouldDispatchNow says of its schedule.                                 *)
(***************************************************************************)
EXTENDS CronScheduling, CronSchedule

CONSTANTS d, w, fixed, interval

SomeDays == {{"daily"}, {"weekdays"}, {"weekends"}, {"mon"}, {"tue", "sun"}}

FixedSchedules ==
    [kind : {"fixed"}, times : {{0}, {5}, {11}, {0, 11}, {3, 4, 7}}, days : SomeDays]
IntervalSchedules ==
    [kind : {"minutes", "hours"}, every : 1 .. 5, days : SomeDays]

TwiceInTheMorning == [kind |-> "fixed", times |-> {3, 4}, days |-> {"weekdays"}]
EveryOtherMinute  == [kind |-> "minutes", every |-> 2, days |-> {"daily"}]

OnceAWeek         == [kind |-> "fixed", times |-> {5}, days |-> {"mon"}]

SomeSchedules == FixedSchedules \cup IntervalSchedules \cup {TwiceInTheMorning}

OneDaemon == {d}
OneServer == {w}
TwoJobs   == {fixed, interval}
FixedJobs == {fixed}

Timetable == [j \in TwoJobs |-> IF j = fixed THEN {2, 3} ELSE {1, 3}]

ASSUME TimetableOfCalendar ==
    \A j \in TwoJobs, m \in Minute :
        m \in Timetable[j] <=>
            ShouldDispatchNow(m + 1, IF j = fixed THEN TwiceInTheMorning ELSE EveryOtherMinute)

VARIABLE about

CalendarAtRest == schedule = OnceAWeek /\ tick = 0 /\ swept = 0

CronInit ==
    \/ about = "calendar" /\ CalendarInit /\ Init /\ holder = Nobody /\ activeSince = [j \in Job |-> Never]
    \/ about = "runtimes" /\ Init /\ CalendarAtRest

\* The calendar ends; a sweep that stands still is a deadlock still.
LastPage == about = "calendar" /\ tick = LastTick /\ UNCHANGED <<vars, calendar, about>>

CronNext ==
    \/ LastPage
    \/ about = "calendar" /\ Tick /\ UNCHANGED <<vars, about>>
    \/ about = "runtimes" /\ Next /\ UNCHANGED <<calendar, about>>

CronSpec == CronInit /\ [][CronNext]_<<vars, calendar, about>>

=============================================================================
