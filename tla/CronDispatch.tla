---------------------------- MODULE CronDispatch ----------------------------
(***************************************************************************)
(* What the cron runtimes promise together to the owner of a job: a minute *)
(* of its schedule is recorded as a run at most once, when it has come.    *)
(* How many runtimes there are, who of them leads, and what they remember, *)
(* is nothing the owner sees.                                              *)
(***************************************************************************)
EXTENDS Naturals

CONSTANTS
    Job,
    Due,          \* Due[j]: the minutes that match the schedule of j
    LastMinute    \* bound on the clock

VARIABLES
    minute,       \* the wall clock
    runs          \* runs[<<j, m>>]: scheduled runs recorded for minute m of job j

vars == <<minute, runs>>

Entry == Job \X (1 .. LastMinute)

Init ==
    /\ minute = 1
    /\ runs = [e \in Entry |-> 0]

TimePasses ==
    /\ minute < LastMinute
    /\ minute' = minute + 1
    /\ UNCHANGED runs

\* In time, or later to catch up, and never again.
Record(j, m) ==
    /\ m \in Due[j] /\ m <= minute
    /\ runs[<<j, m>>] = 0
    /\ runs' = [runs EXCEPT ![<<j, m>>] = 1]
    /\ UNCHANGED minute

Next == TimePasses \/ \E j \in Job : \E m \in Due[j] : Record(j, m)

Spec == Init /\ [][Next]_vars

=============================================================================
