---------------------------- MODULE CronSchedule ----------------------------
(***************************************************************************)
(* When a cron job runs: the schedule functions of cron-runtime.js on a    *)
(* local clock without daylight saving, counted in minutes.  The length of *)
(* an hour and of a day are parameters.                                    *)
(*                                                                         *)
(* Three functions must tell the same story: shouldDispatchNow decides     *)
(* whether a tick dispatches a job, getMissedFixedRuns what a late tick    *)
(* makes up for, getNextRunForSchedule what the user is told.              *)
(*                                                                         *)
(* The names are unlike those of CronScheduling, whose sweeps use these    *)
(* functions, so that a module can extend both.                            *)
(***************************************************************************)
EXTENDS Integers, FiniteSetsExt

CONSTANTS
    MinutesPerHour, HoursPerDay,
    HorizonDays,   \* how far the next run is searched (14 in the code): more
                   \* than a week, for a job of one weekday whose hour is past
    Schedule,      \* the schedules of jobs: [kind, times or every, days]
    LastTick,      \* bound on the clock
    MaxGap         \* bound on the minutes between two ticks

MinutesPerDay == MinutesPerHour * HoursPerDay

ASSUME CalendarOK ==
    /\ MinutesPerHour \in Nat \ {0}
    /\ HoursPerDay \in Nat \ {0}
    /\ HorizonDays \in Nat /\ HorizonDays > 7
    /\ LastTick \in Nat
    /\ MaxGap \in Nat

\* Day 0 is a Monday.
Weekdays  == {"mon", "tue", "wed", "thu", "fri", "sat", "sun"}
DayToken(d) == <<"mon", "tue", "wed", "thu", "fri", "sat", "sun">>[(d % 7) + 1]

Day(t)    == t \div MinutesPerDay
Clock(t)  == t % MinutesPerDay
Hours(t)  == Clock(t) \div MinutesPerHour
Minutes(t) == Clock(t) % MinutesPerHour
NoRun     == -1

\* isSupportedCronSchedule: what a job file may say.
Supported(j) ==
    /\ \/ j.kind = "fixed" /\ j.times \subseteq 0 .. MinutesPerDay - 1 /\ j.times # {}
       \/ j.kind \in {"minutes", "hours"} /\ j.every \in Nat \ {0}
    /\ \/ j.days \in {{"daily"}, {"weekdays"}, {"weekends"}}
       \/ j.days \subseteq Weekdays /\ j.days # {}

\* A scheduler reads no job that it does not support.
ASSUME SchedulesSupported == \A j \in Schedule : Supported(j)

\* A shortcut counts only when it stands alone.
MatchesDays(d, days) ==
    \/ days = {"daily"}
    \/ days = {"weekdays"} /\ DayToken(d) \notin {"sat", "sun"}
    \/ days = {"weekends"} /\ DayToken(d) \in {"sat", "sun"}
    \/ DayToken(d) \in days

MatchesTime(t, j) ==
    \/ j.kind = "fixed" /\ Clock(t) \in j.times
    \/ j.kind = "minutes" /\ Minutes(t) % j.every = 0
    \/ j.kind = "hours" /\ Minutes(t) = 0 /\ Hours(t) % j.every = 0

ShouldDispatchNow(t, j) == MatchesTime(t, j) /\ MatchesDays(Day(t), j.days)

-----------------------------------------------------------------------------
(***************************************************************************)
(* The next run.                                                           *)
(***************************************************************************)

\* The candidates of one day; the mutant offers the current minute again.
MutCandidates(j, d, t) ==
    {u \in {d * MinutesPerDay + c : c \in j.times} : u >= t}
Candidates(j, d, t) ==
    {u \in {d * MinutesPerDay + c : c \in j.times} : u > t}

\* The earliest candidate of the first day that has one.
NextFixedRun(j, t) ==
    LET open == {d \in Day(t) .. Day(t) + HorizonDays - 1 :
                    MatchesDays(d, j.days) /\ Candidates(j, d, t) # {}}
    IN  IF open = {} THEN NoRun ELSE Min(Candidates(j, Min(open), t))

\* A cursor that starts at the next minute, or at the next full hour.
NextIntervalRun(j, t) ==
    LET hour == t - Minutes(t)
        steps == {c \in (IF j.kind = "minutes"
                           THEN t + 1 .. t + HorizonDays * MinutesPerDay
                           ELSE {hour + n * MinutesPerHour :
                                   n \in 1 .. HorizonDays * HoursPerDay}) :
                    /\ MatchesDays(Day(c), j.days)
                    /\ IF j.kind = "minutes" THEN Minutes(c) % j.every = 0
                                             ELSE Hours(c) % j.every = 0}
    IN  IF steps = {} THEN NoRun ELSE Min(steps)

NextRun(j, t) == IF j.kind = "fixed" THEN NextFixedRun(j, t) ELSE NextIntervalRun(j, t)

-----------------------------------------------------------------------------
(***************************************************************************)
(* The runs a late tick makes up for: day by day, strictly between the two *)
(* sweeps.  The mutant begins on the day after the last sweep.             *)
(***************************************************************************)

MutSweptDays(from, to) == {d \in Day(from) + 1 .. Day(to) : d * MinutesPerDay <= to}
SweptDays(from, to)    == {d \in Day(from) .. Day(to) : d * MinutesPerDay <= to}

MissedFixedRuns(j, from, to) ==
    IF j.kind # "fixed" \/ to <= from THEN {}
    ELSE UNION {{u \in {d * MinutesPerDay + c : c \in j.times} : from < u /\ u < to} :
                    d \in {e \in SweptDays(from, to) : MatchesDays(e, j.days)}}

-----------------------------------------------------------------------------
(***************************************************************************)
(* A scheduler's ticks: one sweep after the other, late or in time.        *)
(***************************************************************************)

VARIABLES schedule, swept, tick
calendar == <<schedule, swept, tick>>

CalendarInit ==
    /\ schedule \in Schedule
    /\ tick \in 0 .. LastTick
    /\ swept = tick

Tick ==
    /\ \E gap \in 1 .. MaxGap : tick' = tick + gap
    /\ tick' <= LastTick
    /\ swept' = tick
    /\ UNCHANGED schedule

CalendarSpec == CalendarInit /\ [][Tick]_calendar

\* The minutes at which a tick that is never late dispatches the job.
Dispatches(from, to) == {u \in from .. to : ShouldDispatchNow(u, schedule)}

\* The next run announced to the user is the next minute at which the scheduler
\* dispatches the job: getNextFixedRun and getNextIntervalRun step over days and
\* hours, shouldDispatchNow looks at one minute.
NextRunIsNextDispatch ==
    LET next == NextRun(schedule, tick)
    IN  /\ next # NoRun
        /\ next > tick
        /\ Dispatches(tick + 1, next) = {next}

\* With its catch-up a late tick dispatches a fixed-time job for exactly the
\* minutes a punctual scheduler would have, across midnights and weekends.
CatchUpIsExact ==
    schedule.kind = "fixed" /\ tick > swept =>
        MissedFixedRuns(schedule, swept, tick) \cup Dispatches(tick, tick)
            = Dispatches(swept + 1, tick)

=============================================================================
