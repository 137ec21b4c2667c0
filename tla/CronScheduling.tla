--------------------------- MODULE CronScheduling ---------------------------
(***************************************************************************)
(* What the cron runtimes schedule: the tick of scripts/cron-daemon.cjs    *)
(* and of cron-scheduler.ts, which share the cron job files, the leader    *)
(* lock and the SQLite tables `tasks` and `cron_runs`.                     *)
(*                                                                         *)
(* The lock is one record here (CronLeadership models its system calls).   *)
(* A tick claims it, sweeps the due minutes of every active job, and ends  *)
(* with a heartbeat.  enqueueCronJob is three statements that commit on    *)
(* their own: SELECT, INSERT INTO tasks, INSERT INTO cron_runs; another    *)
(* process, a crash or an SQLite error may come between any two of them.   *)
(***************************************************************************)
EXTENDS Naturals, FiniteSets

CONSTANTS
    Daemon,        \* the daemon (claimDaemonPid admits one at a time)
    InProcess,     \* Command Centre servers
    Job,
    Fixed,         \* the jobs with fixed times; the others have an interval
    Due,           \* Due[j]: the minutes that match the schedule of j
    LastMinute,    \* bound on the clock
    StaleMinutes,  \* a lock record this old is stale
    MaxStarts,     \* bound on process starts
    MaxManual,     \* bound on manual runs
    Nobody,        \* the lock file is absent
    Ghost,         \* the record of a process that crashed
    NoEntry

Runtime == Daemon \cup InProcess
Minute  == 1 .. LastMinute
Never   == 0
Entry   == Job \X Minute

ASSUME ConstantsOK ==
    /\ Daemon \cap InProcess = {}
    /\ Fixed \subseteq Job
    /\ Due \in [Job -> SUBSET Minute]
    /\ LastMinute \in Nat \ {0}
    /\ StaleMinutes \in Nat
    /\ MaxStarts \in Nat
    /\ MaxManual \in Nat
    /\ Nobody # Ghost
    /\ {Nobody, Ghost} \cap Runtime = {}
    /\ NoEntry \notin Entry

VARIABLES
    minute,       \* the wall clock
    activeSince,  \* activeSince[j]: when j became active, or Never
    holder, beat, \* the lock: whose record, and the minute of its heartbeat
    up,           \* the running processes
    leads,        \* leads[p]: `isLeader`
    lastSweep,    \* lastSweep[p]: `lastSweepAt`, Never when null
    step,         \* step[p]: the statement p's sweep is at
    now,          \* now[p]: the minute of p's (latest) sweep
    todo,         \* todo[p]: the entries the sweep has still to enqueue
    entry,        \* entry[p]: the entry enqueueCronJob is at
    tasks,        \* tasks[e]: scheduled rows of `tasks` for entry e
    rows,         \* rows[e]: scheduled rows of `cron_runs` for entry e
    manual,       \* entries with a manual row in `cron_runs`
    starts,       \* number of process starts so far
    since         \* history: first minute of p's unbroken sequence of sweeps

clock == <<minute, activeSince>>
lock  == <<holder, beat>>
table == <<tasks, rows, manual>>
sweep == <<step, now, todo, entry>>
vars  == <<clock, lock, up, leads, lastSweep, sweep, table, starts, since>>

Steps == {"idle", "select", "task", "run"}

TypeOK ==
    /\ minute \in Minute
    /\ activeSince \in [Job -> 0 .. minute]
    /\ holder \in Runtime \cup {Nobody, Ghost}
    /\ beat \in 0 .. minute
    /\ up \subseteq Runtime
    /\ leads \in [Runtime -> BOOLEAN]
    /\ lastSweep \in [Runtime -> 0 .. minute]
    /\ step \in [Runtime -> Steps]
    /\ now \in [Runtime -> 0 .. minute]
    /\ todo \in [Runtime -> SUBSET Entry]
    /\ entry \in [Runtime -> Entry \cup {NoEntry}]
    /\ tasks \in [Entry -> Nat]
    /\ rows \in [Entry -> Nat]
    /\ manual \subseteq Entry
    /\ starts \in 0 .. MaxStarts
    /\ since \in [Runtime -> 0 .. minute + 1]

Init ==
    /\ minute = 1
    /\ activeSince \in [Job -> {Never, 1}]
    /\ holder \in {Nobody, Ghost}
    /\ beat = Never
    /\ up = {}
    /\ leads = [p \in Runtime |-> FALSE]
    /\ lastSweep = [p \in Runtime |-> Never]
    /\ step = [p \in Runtime |-> "idle"]
    /\ now = [p \in Runtime |-> Never]
    /\ todo = [p \in Runtime |-> {}]
    /\ entry = [p \in Runtime |-> NoEntry]
    /\ tasks = [e \in Entry |-> 0]
    /\ rows = [e \in Entry |-> 0]
    /\ manual = {}
    /\ starts = 0
    /\ since = [p \in Runtime |-> Never]

Idle(p)   == p \in up /\ step[p] = "idle"
Active(j) == activeSince[j] # Never

-----------------------------------------------------------------------------
(***************************************************************************)
(* The schedule and the table.                                             *)
(***************************************************************************)

\* getMissedFixedRuns: strictly after the last sweep and before this one.  The
\* mutant loses the minute after the last sweep.
MutMissed(j, from, to) ==
    {m \in Due[j] : j \in Fixed /\ from # Never /\ from + 1 < m /\ m < to}
Missed(j, from, to) ==
    {m \in Due[j] : j \in Fixed /\ from # Never /\ from < m /\ m < to}

\* What one sweep enqueues: catch-up first, then the jobs that match now.  The mutant
\* does not ask whether the minute matches.
MutDueEntries(from, to) ==
    {e \in Entry : Active(e[1]) /\ (e[2] \in Missed(e[1], from, to) \/ e[2] = to)}
DueEntries(from, to) ==
    {e \in Entry :
        /\ Active(e[1])
        /\ \/ e[2] \in Missed(e[1], from, to)
           \/ e[2] = to /\ to \in Due[e[1]]}

\* Catch-up runs before the current minute, each job's minutes in order.
First(p) ==
    {e \in todo[p] : \A f \in todo[p] :
        /\ f[1] = e[1] => e[2] <= f[2]
        /\ e[2] = now[p] => f[2] = now[p]}

\* The SELECT of dedupeByMinute looks at the rows of any trigger; the mutant
\* forgets the deduplication.
MutRecorded(e) == FALSE
Recorded(e)    == rows[e] > 0 \/ e \in manual

-----------------------------------------------------------------------------
(***************************************************************************)
(* The lock and the flags of a runtime.                                    *)
(***************************************************************************)

\* claimRuntimeLeadership succeeds: no record, its own, or a stale one.  A
\* process that is sweeping keeps its record: this is the assumption under which
\* everything below holds, and CronLeadershipOverlap.cfg shows the renames of
\* owned-file.cjs break it.
MayClaim(p) ==
    \/ holder \in {Nobody, p}
    \/ /\ minute >= beat + StaleMinutes
       /\ holder \in Runtime => step[holder] = "idle"

Release(p, owned) ==
    /\ holder' = IF owned /\ holder = p THEN Nobody ELSE holder
    /\ UNCHANGED beat

\* lastSweepAt = null.  The mutant keeps it.
MutForget(p) == UNCHANGED lastSweep
Forget(p)    == lastSweep' = [lastSweep EXCEPT ![p] = Never]

Resign(p) ==
    /\ leads' = [leads EXCEPT ![p] = FALSE]
    /\ since' = [since EXCEPT ![p] = Never]

\* The process is gone and with it everything it remembered.
Down(p) ==
    /\ up' = up \ {p}
    /\ Resign(p)
    /\ lastSweep' = [lastSweep EXCEPT ![p] = Never]
    /\ step' = [step EXCEPT ![p] = "idle"]
    /\ now' = [now EXCEPT ![p] = Never]
    /\ todo' = [todo EXCEPT ![p] = {}]
    /\ entry' = [entry EXCEPT ![p] = NoEntry]

\* refreshRuntimeHeartbeat; only the daemon reads its result.
RefreshFails(p) == holder # p

\* The mutant dates the heartbeat ahead of the clock.
MutRefresh(p) ==
    /\ beat' = IF holder = p THEN minute + 1 ELSE beat
    /\ UNCHANGED holder
Refresh(p) ==
    /\ beat' = IF holder = p THEN minute ELSE beat
    /\ UNCHANGED holder

-----------------------------------------------------------------------------
(***************************************************************************)
(* One tick: claim, sweep, heartbeat.                                      *)
(***************************************************************************)

\* The timer fires every 60 s (TICK_INTERVAL_MS): at most one sweep a minute.
ClaimAndSweep(p) ==
    /\ Idle(p)
    /\ now[p] < minute
    /\ \E j \in Job : Active(j)
    /\ MayClaim(p)
    /\ holder' = p
    /\ beat' = minute
    /\ leads' = [leads EXCEPT ![p] = TRUE]
    /\ step' = [step EXCEPT ![p] = "select"]
    /\ now' = [now EXCEPT ![p] = minute]
    /\ todo' = [todo EXCEPT ![p] = DueEntries(lastSweep[p], minute)]
    /\ since' = [since EXCEPT ![p] = IF @ = Never THEN minute ELSE @]
    /\ UNCHANGED <<clock, up, lastSweep, entry, table, starts>>

\* The claim returned null: stand by, and keep lastSweepAt.
StandBy(p) ==
    /\ Idle(p)
    /\ \E j \in Job : Active(j)
    /\ ~MayClaim(p)
    /\ leads[p]
    /\ leads' = [leads EXCEPT ![p] = FALSE]
    /\ UNCHANGED <<clock, lock, up, lastSweep, sweep, table, starts, since>>

\* No job is active any more.
ReleaseIdleLeadership(p) ==
    /\ Idle(p)
    /\ \A j \in Job : ~Active(j)
    /\ leads[p]
    /\ Release(p, TRUE)
    /\ Resign(p)
    /\ Forget(p)
    /\ UNCHANGED <<clock, up, sweep, table, starts>>

SelectRun(p) ==
    /\ step[p] = "select"
    /\ \E e \in First(p) :
        /\ todo' = [todo EXCEPT ![p] = @ \ {e}]
        /\ \/ /\ Recorded(e)
              /\ UNCHANGED <<step, entry>>
           \/ /\ ~Recorded(e)
              /\ step' = [step EXCEPT ![p] = "task"]
              /\ entry' = [entry EXCEPT ![p] = e]
    /\ UNCHANGED <<clock, lock, up, leads, lastSweep, now, table, starts, since>>

InsertTask(p) ==
    /\ step[p] = "task"
    /\ tasks' = [tasks EXCEPT ![entry[p]] = @ + 1]
    /\ step' = [step EXCEPT ![p] = "run"]
    /\ UNCHANGED <<clock, lock, up, leads, lastSweep, now, todo, entry, rows,
                   manual, starts, since>>

InsertRun(p) ==
    /\ step[p] = "run"
    /\ rows' = [rows EXCEPT ![entry[p]] = @ + 1]
    /\ step' = [step EXCEPT ![p] = "select"]
    /\ entry' = [entry EXCEPT ![p] = NoEntry]
    /\ UNCHANGED <<clock, lock, up, leads, lastSweep, now, todo, tasks, manual,
                   starts, since>>

\* Back between two ticks.
Rest(p) ==
    /\ step' = [step EXCEPT ![p] = "idle"]
    /\ todo' = [todo EXCEPT ![p] = {}]
    /\ entry' = [entry EXCEPT ![p] = NoEntry]
    /\ UNCHANGED now

\* lastSweepAt = now, then the heartbeat.  A daemon whose heartbeat finds another
\* record demotes itself and forgets; a server goes on.
EndSweep(p) ==
    /\ step[p] = "select"
    /\ todo[p] = {}
    /\ Rest(p)
    /\ Refresh(p)
    /\ \/ /\ p \in Daemon /\ RefreshFails(p)
          /\ Resign(p)
          /\ Forget(p)
       \/ /\ ~(p \in Daemon /\ RefreshFails(p))
          /\ lastSweep' = [lastSweep EXCEPT ![p] = now[p]]
          /\ UNCHANGED <<leads, since>>
    /\ UNCHANGED <<clock, up, table, starts>>

\* A statement throws (SQLITE_BUSY).  The server logs it and ends its tick as if
\* the sweep had been made; in the daemon the exception ends the process, whose
\* exit handler releases the lock.
SweepThrows(p) ==
    /\ step[p] # "idle"
    /\ \/ /\ p \in InProcess
          /\ Rest(p)
          /\ Refresh(p)
          /\ lastSweep' = [lastSweep EXCEPT ![p] = now[p]]
          /\ since' = [since EXCEPT ![p] = now[p] + 1]
          /\ UNCHANGED <<up, leads>>
       \/ /\ p \in Daemon
          /\ Release(p, TRUE)
          /\ Down(p)
    /\ UNCHANGED <<clock, table, starts>>

-----------------------------------------------------------------------------
(***************************************************************************)
(* The other events.                                                       *)
(***************************************************************************)

\* The 15 s heartbeat of a leader.
Heartbeat(p) ==
    /\ Idle(p)
    /\ leads[p]
    /\ Refresh(p)
    /\ \/ /\ p \in Daemon /\ RefreshFails(p)
          /\ Resign(p)
          /\ Forget(p)
       \/ /\ ~(p \in Daemon /\ RefreshFails(p))
          /\ UNCHANGED <<leads, lastSweep, since>>
    /\ UNCHANGED <<clock, up, sweep, table, starts>>

\* pauseSchedulerForProfile: the profile is locked or being switched.
PauseScheduler(p) ==
    /\ p \in InProcess
    /\ Idle(p)
    /\ Release(p, leads[p])
    /\ Resign(p)
    /\ Forget(p)
    /\ UNCHANGED <<clock, up, sweep, table, starts>>

\* A process starts as a new incarnation.
StartRuntime(p) ==
    /\ p \notin up
    /\ p \in Daemon => up \cap Daemon = {}
    /\ starts < MaxStarts
    /\ starts' = starts + 1
    /\ up' = up \cup {p}
    /\ UNCHANGED <<clock, lock, leads, lastSweep, sweep, table, since>>

\* SIGTERM or SIGINT between two ticks: the lock is released.
Shutdown(p) ==
    /\ Idle(p)
    /\ Release(p, p \in Daemon \/ leads[p])
    /\ Down(p)
    /\ UNCHANGED <<clock, table, starts>>

\* SIGKILL or a power cut: the record stays until it is stale.
Crash(p) ==
    /\ p \in up
    /\ holder' = IF holder = p THEN Ghost ELSE holder
    /\ Down(p)
    /\ UNCHANGED <<beat, clock, table, starts>>

\* "Run now" (api/cron/[name]/run): dedupeByMinute is off.
RunNow(j) ==
    /\ Cardinality(manual) < MaxManual
    /\ manual' = manual \cup {<<j, minute>>}
    /\ UNCHANGED <<clock, lock, up, leads, lastSweep, sweep, tasks, rows, starts,
                   since>>

\* The user pauses or resumes a job.
ToggleJob(j) ==
    /\ activeSince' = [activeSince EXCEPT ![j] = IF @ = Never THEN minute ELSE Never]
    /\ UNCHANGED <<minute, lock, up, leads, lastSweep, sweep, table, starts, since>>

NextMinute ==
    /\ minute < LastMinute
    /\ minute' = minute + 1
    /\ UNCHANGED <<activeSince, lock, up, leads, lastSweep, sweep, table, starts,
                   since>>

Act(p) ==
    \/ ClaimAndSweep(p)
    \/ StandBy(p)
    \/ ReleaseIdleLeadership(p)
    \/ SelectRun(p)
    \/ InsertTask(p)
    \/ InsertRun(p)
    \/ EndSweep(p)
    \/ SweepThrows(p)
    \/ Heartbeat(p)
    \/ PauseScheduler(p)
    \/ StartRuntime(p)
    \/ Shutdown(p)
    \/ Crash(p)

Next ==
    \/ \E p \in Runtime : Act(p)
    \/ \E j \in Job : RunNow(j) \/ ToggleJob(j)
    \/ NextMinute

Spec == Init /\ [][Next]_vars

-----------------------------------------------------------------------------
(***************************************************************************)
(* Properties.                                                             *)
(***************************************************************************)

\* What makes the SELECT and the INSERTs of one sweep safe together: a sweep is
\* in progress only under the lock, and nobody has recorded the entry a sweep is
\* about to record.
SweepsUnderLock ==
    \A p \in Runtime : step[p] # "idle" => holder = p

AboutToRecord ==
    \A p \in Runtime :
        step[p] \in {"task", "run"} => entry[p] \in Entry /\ rows[entry[p]] = 0

\* A scheduled minute has at most one scheduled row in cron_runs, whatever
\* handover, restart or failure happens between the SELECT and the INSERTs:
\* enqueueCronJob has no unique index to rely on, only the lock.
OneRunPerMinute == \A e \in Entry : rows[e] <= 1

SchedulingInv == TypeOK /\ SweepsUnderLock /\ AboutToRecord /\ OneRunPerMinute

\* A runtime that keeps sweeping skips nothing: every minute at which an active
\* fixed-time job was due, since the sweep that began p's sequence and up to p's
\* last one, has its row, however late a tick was and whoever led in between.
CaughtUp ==
    \A p \in Runtime, j \in Fixed :
        step[p] = "idle" /\ lastSweep[p] # Never /\ Active(j) =>
            \A m \in Due[j] :
                m >= since[p] /\ m > activeSince[j] /\ m <= lastSweep[p]
                    => Recorded(<<j, m>>)

\* cron-scheduler.test.cjs:147: "the locked interval must not be replayed".  After
\* a pause, a release or a restart no runtime enqueues a minute of the interval in
\* which it did not sweep.
LockedMinutesNotReplayed ==
    \A p \in Runtime, m \in Minute, j \in Job :
        step[p] # "idle" /\ <<j, m>> \in todo[p] \cup {entry[p]} =>
            m \in since[p] .. now[p]

\* The runtimes together keep the promise of CronDispatch: whatever interleaves, each step
\* of theirs records one minute of one schedule that has come and was not recorded before, or
\* records nothing.
Promise == INSTANCE CronDispatch WITH runs <- rows
DispatchesOnce == Promise!Spec

=============================================================================
