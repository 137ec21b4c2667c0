----------------------- MODULE CronScheduling_proofs -----------------------
(***************************************************************************)
(* What CronScheduling guarantees for any number of runtimes, jobs and     *)
(* minutes: its types; as long as the leader lock excludes overlapping     *)
(* sweeps, that no minute is recorded twice; that no sweep replays what an *)
(* earlier one of the same runtime has looked at, or leaves out what was   *)
(* due in between; and that the runtimes together implement CronDispatch.  *)
(*                                                                         *)
(* Then CronSchedule: for hours and days of any length, that catching up   *)
(* and announcing the next run agree with dispatching.                     *)
(***************************************************************************)
EXTENDS CronScheduling, CronSchedule, FiniteSetTheorems, TLAPS

-----------------------------------------------------------------------------
(***************************************************************************)
(* Types.                                                                  *)
(***************************************************************************)

LEMMA InitTypeOK == Init => TypeOK
  BY ConstantsOK DEF Init, TypeOK, Steps, Minute, Never

\* What the helpers of a tick assign.
LEMMA LockType ==
    ASSUME TypeOK, NEW p \in Runtime, NEW b \in BOOLEAN,
           Release(p, b) \/ Refresh(p)
    PROVE  /\ holder' \in Runtime \cup {Nobody, Ghost}
           /\ beat' \in 0 .. minute
  BY DEF TypeOK, Release, Refresh, Minute

LEMMA ResignType ==
    ASSUME TypeOK, NEW p \in Runtime, Resign(p)
    PROVE  /\ leads' \in [Runtime -> BOOLEAN]
           /\ since' \in [Runtime -> 0 .. minute + 1]
  <1>1. Never \in 0 .. minute + 1
    BY DEF TypeOK, Minute, Never
  <1> QED
    BY <1>1 DEF TypeOK, Resign

LEMMA ForgetType ==
    ASSUME TypeOK, NEW p \in Runtime, Forget(p)
    PROVE  lastSweep' \in [Runtime -> 0 .. minute]
  BY DEF TypeOK, Forget, Never, Minute

LEMMA RestType ==
    ASSUME TypeOK, NEW p \in Runtime, Rest(p)
    PROVE  /\ step' \in [Runtime -> Steps]
           /\ now' \in [Runtime -> 0 .. minute]
           /\ todo' \in [Runtime -> SUBSET Entry]
           /\ entry' \in [Runtime -> Entry \cup {NoEntry}]
  BY DEF TypeOK, Rest, Steps

LEMMA DownType ==
    ASSUME TypeOK, NEW p \in Runtime, Down(p)
    PROVE  /\ up' \subseteq Runtime
           /\ leads' \in [Runtime -> BOOLEAN]
           /\ since' \in [Runtime -> 0 .. minute + 1]
           /\ lastSweep' \in [Runtime -> 0 .. minute]
           /\ step' \in [Runtime -> Steps]
           /\ now' \in [Runtime -> 0 .. minute]
           /\ todo' \in [Runtime -> SUBSET Entry]
           /\ entry' \in [Runtime -> Entry \cup {NoEntry}]
  <1>1. Never \in 0 .. minute
    BY DEF TypeOK, Minute, Never
  <1> QED
    BY <1>1, ResignType DEF TypeOK, Down, Steps

LEMMA NextTypeOK == TypeOK /\ [Next]_vars => TypeOK'
  <1> SUFFICES ASSUME TypeOK, [Next]_vars
               PROVE  TypeOK'
    OBVIOUS
  <1>1. ASSUME NEW p \in Runtime, ClaimAndSweep(p)
        PROVE  TypeOK'
    <2>1. /\ since' \in [Runtime -> 0 .. minute + 1]
          /\ now' \in [Runtime -> 0 .. minute]
          /\ beat' \in 0 .. minute
      BY <1>1 DEF ClaimAndSweep, TypeOK, Minute
    <2>2. leads' \in [Runtime -> BOOLEAN]
      BY <1>1 DEF ClaimAndSweep, TypeOK
    <2>3. todo' \in [Runtime -> SUBSET Entry]
      BY <1>1 DEF ClaimAndSweep, TypeOK, DueEntries
    <2> QED
      BY <1>1, <2>1, <2>2, <2>3 DEF ClaimAndSweep, TypeOK, Steps, clock, table
  <1>2. ASSUME NEW p \in Runtime, StandBy(p)
        PROVE  TypeOK'
    <2>1. leads' \in [Runtime -> BOOLEAN]
      BY <1>2 DEF StandBy, TypeOK
    <2> QED
      BY <1>2, <2>1 DEF StandBy, TypeOK, clock, lock, sweep, table
  <1>3. ASSUME NEW p \in Runtime, ReleaseIdleLeadership(p)
        PROVE  TypeOK'
    BY <1>3, LockType, ResignType, ForgetType
       DEF ReleaseIdleLeadership, TypeOK, clock, sweep, table
  <1>4. ASSUME NEW p \in Runtime, SelectRun(p)
        PROVE  TypeOK'
    <2>1. PICK e \in First(p) :
            /\ todo' = [todo EXCEPT ![p] = @ \ {e}]
            /\ step' = step \/ step' = [step EXCEPT ![p] = "task"]
            /\ entry' = entry \/ entry' = [entry EXCEPT ![p] = e]
      BY <1>4 DEF SelectRun
    <2>2. e \in Entry
      BY DEF First, TypeOK
    <2>3. /\ todo' \in [Runtime -> SUBSET Entry]
          /\ step' \in [Runtime -> Steps]
          /\ entry' \in [Runtime -> Entry \cup {NoEntry}]
      BY <2>1, <2>2 DEF TypeOK, Steps
    <2> QED
      BY <1>4, <2>3 DEF SelectRun, TypeOK, clock, lock, table
  <1>5. ASSUME NEW p \in Runtime, InsertTask(p)
        PROVE  TypeOK'
    <2>1. tasks' \in [Entry -> Nat]
      <3> DEFINE e == entry[p]
      <3>1. tasks' = [tasks EXCEPT ![e] = tasks[e] + 1]
        BY <1>5 DEF InsertTask
      <3>2. \A f \in Entry : tasks[f] \in Nat /\ tasks[f] + 1 \in Nat
        BY DEF TypeOK
      <3> HIDE DEF e
      <3> QED
        BY <3>1, <3>2 DEF TypeOK
    <2>2. step' \in [Runtime -> Steps]
      BY <1>5 DEF InsertTask, TypeOK, Steps
    <2> QED
      BY <1>5, <2>1, <2>2 DEF InsertTask, TypeOK, clock, lock
  <1>6. ASSUME NEW p \in Runtime, InsertRun(p)
        PROVE  TypeOK'
    <2>1. rows' \in [Entry -> Nat]
      <3> DEFINE e == entry[p]
      <3>1. rows' = [rows EXCEPT ![e] = rows[e] + 1]
        BY <1>6 DEF InsertRun
      <3>2. \A f \in Entry : rows[f] \in Nat /\ rows[f] + 1 \in Nat
        BY DEF TypeOK
      <3> HIDE DEF e
      <3> QED
        BY <3>1, <3>2 DEF TypeOK
    <2>2. /\ step' \in [Runtime -> Steps]
          /\ entry' \in [Runtime -> Entry \cup {NoEntry}]
      BY <1>6 DEF InsertRun, TypeOK, Steps
    <2> QED
      BY <1>6, <2>1, <2>2 DEF InsertRun, TypeOK, clock, lock
  <1>7. ASSUME NEW p \in Runtime, EndSweep(p)
        PROVE  TypeOK'
    <2>1. lastSweep' \in [Runtime -> 0 .. minute]
      BY <1>7, ForgetType DEF EndSweep, TypeOK
    <2>2. /\ leads' \in [Runtime -> BOOLEAN]
          /\ since' \in [Runtime -> 0 .. minute + 1]
      BY <1>7, ResignType DEF EndSweep, TypeOK
    <2> QED
      BY <1>7, <2>1, <2>2, LockType, RestType DEF EndSweep, TypeOK, clock, table
  <1>8. ASSUME NEW p \in Runtime, SweepThrows(p)
        PROVE  TypeOK'
    <2>1. CASE p \in InProcess /\ Rest(p) /\ Refresh(p)
               /\ lastSweep' = [lastSweep EXCEPT ![p] = now[p]]
               /\ since' = [since EXCEPT ![p] = now[p] + 1]
               /\ UNCHANGED <<up, leads>>
      <3>1. /\ lastSweep' \in [Runtime -> 0 .. minute]
            /\ since' \in [Runtime -> 0 .. minute + 1]
        BY <2>1 DEF TypeOK, Minute
      <3> QED
        BY <1>8, <2>1, <3>1, LockType, RestType DEF SweepThrows, TypeOK, clock, table
    <2>2. CASE Release(p, TRUE) /\ Down(p)
      BY <1>8, <2>2, LockType, DownType DEF SweepThrows, TypeOK, clock, table
    <2> QED
      BY <1>8, <2>1, <2>2 DEF SweepThrows
  <1>9. ASSUME NEW p \in Runtime, Heartbeat(p)
        PROVE  TypeOK'
    <2>1. /\ leads' \in [Runtime -> BOOLEAN]
          /\ since' \in [Runtime -> 0 .. minute + 1]
          /\ lastSweep' \in [Runtime -> 0 .. minute]
      BY <1>9, ResignType, ForgetType DEF Heartbeat, TypeOK
    <2> QED
      BY <1>9, <2>1, LockType DEF Heartbeat, TypeOK, clock, sweep, table
  <1>10. ASSUME NEW p \in Runtime, PauseScheduler(p)
         PROVE  TypeOK'
    <2>1. leads[p] \in BOOLEAN
      BY DEF TypeOK
    <2> QED
      BY <1>10, <2>1, LockType, ResignType, ForgetType
         DEF PauseScheduler, TypeOK, clock, sweep, table
  <1>11. ASSUME NEW p \in Runtime, StartRuntime(p)
         PROVE  TypeOK'
    BY <1>11, ConstantsOK DEF StartRuntime, TypeOK, clock, lock, sweep, table
  <1>12. ASSUME NEW p \in Runtime, Shutdown(p)
         PROVE  TypeOK'
    <2>1. (p \in Daemon \/ leads[p]) \in BOOLEAN
      OBVIOUS
    <2>2. holder' \in Runtime \cup {Nobody, Ghost} /\ beat' \in 0 .. minute
      BY <1>12, <2>1, LockType DEF Shutdown
    <2> QED
      BY <1>12, <2>2, DownType DEF Shutdown, TypeOK, clock, table
  <1>13. ASSUME NEW p \in Runtime, Crash(p)
         PROVE  TypeOK'
    BY <1>13, DownType DEF Crash, TypeOK, clock, table
  <1>14. ASSUME NEW j \in Job, RunNow(j)
         PROVE  TypeOK'
    <2>1. <<j, minute>> \in Entry
      BY DEF TypeOK, Entry
    <2> QED
      BY <1>14, <2>1 DEF RunNow, TypeOK, clock, lock, sweep
  <1>15. ASSUME NEW j \in Job, ToggleJob(j)
         PROVE  TypeOK'
    <2>1. activeSince' \in [Job -> 0 .. minute]
      BY <1>15 DEF ToggleJob, TypeOK, Never, Minute
    <2> QED
      BY <1>15, <2>1 DEF ToggleJob, TypeOK, lock, sweep, table
  <1>16. CASE NextMinute
    <2>1. minute' \in Minute /\ 0 .. minute \subseteq 0 .. minute'
          /\ 0 .. minute + 1 \subseteq 0 .. minute' + 1
      BY <1>16, ConstantsOK DEF NextMinute, TypeOK, Minute
    <2> QED
      BY <1>16, <2>1 DEF NextMinute, TypeOK, lock, sweep, table
  <1>17. CASE UNCHANGED vars
    BY <1>17 DEF vars, TypeOK, clock, lock, sweep, table
  <1> QED
    BY <1>1, <1>2, <1>3, <1>4, <1>5, <1>6, <1>7, <1>8, <1>9, <1>10, <1>11, <1>12,
       <1>13, <1>14, <1>15, <1>16, <1>17 DEF Next, Act

\* Type correctness of the schedulers, for any number of runtimes and jobs.
THEOREM SchedulingTypes == Spec => []TypeOK
  BY InitTypeOK, NextTypeOK, PTL DEF Spec

-----------------------------------------------------------------------------
(***************************************************************************)
(* One row a minute.  A sweep runs under the lock, so two sweeps are never *)
(* under way together, and what the SELECT of a sweep found unrecorded     *)
(* stays so until that sweep records it.                                   *)
(***************************************************************************)

\* A sweeping runtime is the only one.
LEMMA OneSweep ==
    ASSUME SweepsUnderLock,
           NEW p \in Runtime, NEW q \in Runtime,
           step[p] # "idle", step[q] # "idle"
    PROVE  p = q
  BY DEF SweepsUnderLock

\* Only a claim starts a sweep, and it takes the lock from a runtime that is
\* between two sweeps; every other step leaves the lock to who sweeps.
LEMMA SweepsUnderLockStep ==
    ASSUME TypeOK, SweepsUnderLock, [Next]_vars
    PROVE  SweepsUnderLock'
  <1> SUFFICES ASSUME NEW q \in Runtime, step'[q] # "idle"
               PROVE  holder' = q
    BY DEF SweepsUnderLock
  <1>1. ASSUME NEW p \in Runtime, ClaimAndSweep(p)
        PROVE  holder' = q
    <2>1. CASE q = p
      BY <1>1, <2>1 DEF ClaimAndSweep
    <2>2. CASE q # p
      <3>1. step[q] # "idle" /\ holder = q
        BY <1>1, <2>2 DEF ClaimAndSweep, TypeOK, SweepsUnderLock
      <3> QED
        BY <1>1, <2>2, <3>1, ConstantsOK DEF ClaimAndSweep, MayClaim
    <2> QED
      BY <2>1, <2>2
  <1>2. ASSUME NEW p \in Runtime, UNCHANGED holder,
               step[p] # "idle", \A r \in Runtime : r # p => step'[r] = step[r]
        PROVE  holder' = q
    BY <1>2 DEF SweepsUnderLock
  <1>3. ASSUME NEW p \in Runtime, step[p] = "idle", step' = step,
               holder' = holder \/ holder = p
        PROVE  holder' = q
    BY <1>3 DEF SweepsUnderLock
  <1>4. ASSUME NEW p \in Runtime, SelectRun(p) \/ InsertTask(p) \/ InsertRun(p)
        PROVE  holder' = q
    <2>1. /\ UNCHANGED holder
          /\ step[p] # "idle"
          /\ \A r \in Runtime : r # p => step'[r] = step[r]
      BY <1>4 DEF SelectRun, InsertTask, InsertRun, TypeOK, lock
    <2> QED
      BY <1>2, <2>1
  <1>5. ASSUME NEW p \in Runtime, EndSweep(p)
        PROVE  holder' = q
    <2>1. /\ UNCHANGED holder
          /\ step[p] # "idle"
          /\ \A r \in Runtime : r # p => step'[r] = step[r]
      BY <1>5 DEF EndSweep, Rest, Refresh, TypeOK
    <2> QED
      BY <1>2, <2>1
  <1>6. ASSUME NEW p \in Runtime, SweepThrows(p) \/ Shutdown(p) \/ Crash(p)
        PROVE  holder' = q
    <2>1. /\ holder' = holder \/ holder = p
          /\ step'[p] = "idle"
          /\ \A r \in Runtime : r # p => step'[r] = step[r]
      BY <1>6 DEF SweepThrows, Shutdown, Crash, Rest, Refresh, Release, Down, TypeOK
    <2>2. q # p /\ step[q] # "idle"
      BY <2>1
    <2> QED
      BY <2>1, <2>2 DEF SweepsUnderLock
  <1>7. ASSUME NEW p \in Runtime,
               \/ StandBy(p)
               \/ ReleaseIdleLeadership(p)
               \/ Heartbeat(p)
               \/ PauseScheduler(p)
        PROVE  holder' = q
    BY <1>3, <1>7 DEF StandBy, ReleaseIdleLeadership, Heartbeat, PauseScheduler,
                      Idle, Refresh, Release, lock, sweep
  <1>8. ASSUME holder' = holder, step' = step
        PROVE  holder' = q
    BY <1>8 DEF SweepsUnderLock
  <1>9. ASSUME NEW p \in Runtime, StartRuntime(p)
        PROVE  holder' = q
    BY <1>8, <1>9 DEF StartRuntime, lock, sweep
  <1>10. ASSUME NEW j \in Job, RunNow(j) \/ ToggleJob(j)
         PROVE  holder' = q
    BY <1>8, <1>10 DEF RunNow, ToggleJob, lock, sweep
  <1>11. CASE NextMinute \/ UNCHANGED vars
    BY <1>8, <1>11 DEF NextMinute, vars, lock, sweep
  <1> QED
    BY <1>1, <1>4, <1>5, <1>6, <1>7, <1>9, <1>10, <1>11 DEF Next, Act

\* Every step but the three of enqueueCronJob leaves the scheduled rows alone, and
\* leaves a runtime between its SELECT and its INSERT where it is or at rest.
LEMMA OtherStep ==
    ASSUME TypeOK, NEW p \in Runtime, Act(p),
           ~SelectRun(p), ~InsertTask(p), ~InsertRun(p)
    PROVE  /\ rows' = rows
           /\ \A r \in Runtime :
                step'[r] \in {"task", "run"} =>
                    step'[r] = step[r] /\ entry'[r] = entry[r]
  <1>1. CASE ClaimAndSweep(p)
    BY <1>1 DEF ClaimAndSweep, TypeOK, table
  <1>2. CASE EndSweep(p) \/ SweepThrows(p)
    BY <1>2 DEF EndSweep, SweepThrows, Rest, Down, TypeOK, table
  <1>3. CASE Shutdown(p) \/ Crash(p)
    BY <1>3 DEF Shutdown, Crash, Down, TypeOK, table
  <1>4. CASE \/ StandBy(p)
             \/ ReleaseIdleLeadership(p)
             \/ Heartbeat(p)
             \/ PauseScheduler(p)
             \/ StartRuntime(p)
    BY <1>4 DEF StandBy, ReleaseIdleLeadership, Heartbeat, PauseScheduler,
                StartRuntime, sweep, table
  <1> QED
    BY <1>1, <1>2, <1>3, <1>4 DEF Act

LEMMA RecordingStep ==
    ASSUME SchedulingInv, [Next]_vars
    PROVE  AboutToRecord' /\ OneRunPerMinute'
  <1> USE DEF SchedulingInv
  <1>1. ASSUME NEW p \in Runtime, SelectRun(p)
        PROVE  AboutToRecord' /\ OneRunPerMinute'
    <2>1. PICK e \in First(p) :
            \/ /\ step' = step
               /\ entry' = entry
            \/ /\ ~Recorded(e)
               /\ step' = [step EXCEPT ![p] = "task"]
               /\ entry' = [entry EXCEPT ![p] = e]
      BY <1>1 DEF SelectRun
    <2>2. e \in Entry /\ rows' = rows
      BY <1>1 DEF SelectRun, First, TypeOK, table
    <2>3. ~Recorded(e) => rows[e] = 0
      BY <2>2 DEF Recorded, TypeOK
    <2>4. OneRunPerMinute'
      BY <2>2 DEF OneRunPerMinute
    <2>5. AboutToRecord'
      BY <2>1, <2>2, <2>3 DEF AboutToRecord, TypeOK
    <2> QED
      BY <2>4, <2>5
  <1>2. ASSUME NEW p \in Runtime, InsertTask(p)
        PROVE  AboutToRecord' /\ OneRunPerMinute'
    BY <1>2 DEF InsertTask, AboutToRecord, OneRunPerMinute, TypeOK
  <1>3. ASSUME NEW p \in Runtime, InsertRun(p)
        PROVE  AboutToRecord' /\ OneRunPerMinute'
    <2>1. entry[p] \in Entry /\ rows[entry[p]] = 0 /\ step[p] # "idle"
      BY <1>3 DEF InsertRun, AboutToRecord
    <2>2. \A f \in Entry : rows'[f] = IF f = entry[p] THEN 1 ELSE rows[f]
      BY <1>3, <2>1 DEF InsertRun, TypeOK
    <2>3. OneRunPerMinute'
      BY <2>2 DEF OneRunPerMinute
    <2>4. \A r \in Runtime : step'[r] \notin {"task", "run"}
      <3> SUFFICES ASSUME NEW r \in Runtime
                   PROVE  step'[r] \notin {"task", "run"}
        OBVIOUS
      <3>1. CASE r = p
        BY <1>3, <3>1 DEF InsertRun, TypeOK
      <3>2. CASE r # p
        BY <1>3, <2>1, <3>2, OneSweep DEF InsertRun, TypeOK
      <3> QED
        BY <3>1, <3>2
    <2> QED
      BY <2>3, <2>4 DEF AboutToRecord
  <1>4. ASSUME NEW p \in Runtime, Act(p),
               ~SelectRun(p), ~InsertTask(p), ~InsertRun(p)
        PROVE  AboutToRecord' /\ OneRunPerMinute'
    BY <1>4, OtherStep DEF AboutToRecord, OneRunPerMinute
  <1>5. CASE NextMinute \/ UNCHANGED vars \/ \E j \in Job : RunNow(j) \/ ToggleJob(j)
    BY <1>5 DEF NextMinute, vars, RunNow, ToggleJob, sweep, table,
                AboutToRecord, OneRunPerMinute
  <1> QED
    BY <1>1, <1>2, <1>3, <1>4, <1>5 DEF Next

\* As long as the leader lock excludes overlapping sweeps, no scheduled minute is
\* recorded twice: not across handovers, restarts, failed sweeps or late ticks.
THEOREM OneRunPerMinuteHolds == Spec => []OneRunPerMinute
  <1>1. Init => SchedulingInv
    BY InitTypeOK
       DEF Init, SchedulingInv, SweepsUnderLock, AboutToRecord, OneRunPerMinute
  <1>2. SchedulingInv /\ [Next]_vars => SchedulingInv'
    BY NextTypeOK, SweepsUnderLockStep, RecordingStep DEF SchedulingInv
  <1>3. SchedulingInv => OneRunPerMinute
    BY DEF SchedulingInv
  <1> QED
    BY <1>1, <1>2, <1>3, PTL DEF Spec

-----------------------------------------------------------------------------
(***************************************************************************)
(* What a runtime remembers.  The memory of a runtime is its own: a step   *)
(* of another one does not touch it, and its own steps are a claim, the    *)
(* three statements of enqueueCronJob, the end of a sweep, or a loss of    *)
(* everything.  The properties of a runtime's sweeps are proved from this. *)
(***************************************************************************)

Kept(p) ==
    /\ step'[p] = step[p] /\ now'[p] = now[p]
    /\ todo'[p] = todo[p] /\ entry'[p] = entry[p]
    /\ lastSweep'[p] = lastSweep[p] /\ since'[p] = since[p]

Claimed(p) ==
    /\ step[p] = "idle" /\ now[p] < minute
    /\ step'[p] = "select" /\ now'[p] = minute
    /\ todo'[p] = DueEntries(lastSweep[p], minute)
    /\ entry'[p] = entry[p] /\ lastSweep'[p] = lastSweep[p]
    /\ since'[p] = IF since[p] = Never THEN minute ELSE since[p]

\* SelectRun: the entry is recorded already, or it is the next one to insert.
Looked(p) ==
    /\ step[p] = "select"
    /\ now'[p] = now[p] /\ lastSweep'[p] = lastSweep[p] /\ since'[p] = since[p]
    /\ \E e \in todo[p] :
        /\ todo'[p] = todo[p] \ {e}
        /\ \/ Recorded(e) /\ step'[p] = step[p] /\ entry'[p] = entry[p]
           \/ step'[p] = "task" /\ entry'[p] = e

\* InsertTask, InsertRun.
Inserted(p) ==
    /\ now'[p] = now[p] /\ lastSweep'[p] = lastSweep[p] /\ since'[p] = since[p]
    /\ todo'[p] = todo[p]
    /\ \/ step[p] = "task" /\ step'[p] = "run" /\ entry'[p] = entry[p]
       \/ /\ step[p] = "run" /\ step'[p] = "select" /\ entry'[p] = NoEntry
          /\ rows' = [rows EXCEPT ![entry[p]] = @ + 1]

Cleared(p) == step'[p] = "idle" /\ todo'[p] = {} /\ entry'[p] = NoEntry

\* The sweep ends with nothing left to do, or with an error, after which the runtime
\* answers only for the minutes from the next one on.
Swept(p) ==
    /\ step[p] # "idle"
    /\ Cleared(p)
    /\ now'[p] = now[p] /\ lastSweep'[p] = now[p]
    /\ \/ step[p] = "select" /\ todo[p] = {} /\ since'[p] = since[p]
       \/ since'[p] = now[p] + 1

Forgotten(p) ==
    /\ Cleared(p)
    /\ now'[p] \in {now[p], Never} /\ lastSweep'[p] = Never /\ since'[p] = Never

Remembering(p) ==
    Kept(p) \/ Claimed(p) \/ Looked(p) \/ Inserted(p) \/ Swept(p) \/ Forgotten(p)

\* Between two sweeps nothing is left over of the last one.
AtRest ==
    \A p \in Runtime :
        /\ step[p] = "idle" => todo[p] = {}
        /\ step[p] \in {"idle", "select"} => entry[p] = NoEntry

LEMMA OwnMemory ==
    ASSUME TypeOK, AtRest, NEW p \in Runtime, Act(p)
    PROVE  /\ Remembering(p)
           /\ \A q \in Runtime : q # p => Kept(q)
  <1> USE DEF TypeOK
  <1>1. CASE ClaimAndSweep(p)
    <2>1. Claimed(p)
      BY <1>1 DEF ClaimAndSweep, Idle, Claimed
    <2>2. \A q \in Runtime : q # p => Kept(q)
      BY <1>1 DEF ClaimAndSweep, Kept
    <2> QED
      BY <2>1, <2>2 DEF Remembering
  <1>2. CASE SelectRun(p)
    <2>1. PICK e \in First(p) :
            /\ todo' = [todo EXCEPT ![p] = @ \ {e}]
            /\ \/ Recorded(e) /\ step' = step /\ entry' = entry
               \/ step' = [step EXCEPT ![p] = "task"] /\ entry' = [entry EXCEPT ![p] = e]
      BY <1>2 DEF SelectRun
    <2>2. e \in todo[p]
      BY DEF First
    <2>3. step[p] = "select" /\ now' = now /\ lastSweep' = lastSweep /\ since' = since
      BY <1>2 DEF SelectRun
    <2>4. Looked(p)
      <3>1. todo'[p] = todo[p] \ {e}
        BY <2>1
      <3>2. \/ Recorded(e) /\ step'[p] = step[p] /\ entry'[p] = entry[p]
            \/ step'[p] = "task" /\ entry'[p] = e
        BY <2>1
      <3> QED
        BY <2>2, <2>3, <3>1, <3>2 DEF Looked
    <2>5. \A q \in Runtime : q # p => Kept(q)
      BY <2>1, <2>3 DEF Kept
    <2> QED
      BY <2>4, <2>5 DEF Remembering
  <1>3. CASE InsertTask(p)
    BY <1>3 DEF InsertTask, Inserted, Kept, Remembering
  <1>4. CASE InsertRun(p)
    BY <1>4 DEF InsertRun, Inserted, Kept, Remembering
  <1>5. CASE EndSweep(p)
    <2>1. /\ step[p] = "select" /\ todo[p] = {} /\ Cleared(p) /\ now' = now
          /\ \A q \in Runtime : q # p => /\ step'[q] = step[q] /\ todo'[q] = todo[q]
                                         /\ entry'[q] = entry[q]
      BY <1>5 DEF EndSweep, Rest, Cleared
    <2>2. CASE Resign(p) /\ Forget(p)
      BY <2>1, <2>2 DEF Resign, Forget, Forgotten, Kept, Remembering
    <2>3. CASE lastSweep' = [lastSweep EXCEPT ![p] = now[p]] /\ since' = since
      BY <2>1, <2>3 DEF Swept, Kept, Remembering
    <2> QED
      BY <1>5, <2>2, <2>3 DEF EndSweep
  <1>6. CASE SweepThrows(p)
    <2>1. CASE /\ Rest(p)
               /\ lastSweep' = [lastSweep EXCEPT ![p] = now[p]]
               /\ since' = [since EXCEPT ![p] = now[p] + 1]
      BY <1>6, <2>1 DEF SweepThrows, Rest, Cleared, Swept, Kept, Remembering
    <2>2. CASE Down(p)
      BY <2>2 DEF Down, Resign, Cleared, Forgotten, Kept, Remembering
    <2> QED
      BY <1>6, <2>1, <2>2 DEF SweepThrows
  <1>7. CASE Shutdown(p) \/ Crash(p)
    BY <1>7 DEF Shutdown, Crash, Down, Resign, Cleared, Forgotten, Kept, Remembering
  <1>8. CASE StandBy(p) \/ StartRuntime(p)
    BY <1>8 DEF StandBy, StartRuntime, sweep, Kept, Remembering
  <1>9. CASE ReleaseIdleLeadership(p) \/ Heartbeat(p) \/ PauseScheduler(p)
    <2>1. /\ step[p] = "idle" /\ step' = step /\ now' = now
          /\ todo' = todo /\ entry' = entry
          /\ \/ Resign(p) /\ Forget(p)
             \/ since' = since /\ lastSweep' = lastSweep
      BY <1>9 DEF ReleaseIdleLeadership, Heartbeat, PauseScheduler, Idle, sweep
    <2>2. todo[p] = {} /\ entry[p] = NoEntry
      BY <2>1 DEF AtRest
    <2>3. CASE Resign(p) /\ Forget(p)
      BY <2>1, <2>2, <2>3 DEF Resign, Forget, Cleared, Forgotten, Kept, Remembering
    <2>4. CASE since' = since /\ lastSweep' = lastSweep
      BY <2>1, <2>4 DEF Kept, Remembering
    <2> QED
      BY <2>1, <2>3, <2>4
  <1> QED
    BY <1>1, <1>2, <1>3, <1>4, <1>5, <1>6, <1>7, <1>8, <1>9 DEF Act

\* The steps of users and of the clock leave every memory alone.
LEMMA ForeignMemory ==
    ASSUME [Next]_vars, ~\E p \in Runtime : Act(p)
    PROVE  \A q \in Runtime : Kept(q)
  BY DEF Next, RunNow, ToggleJob, NextMinute, vars, sweep, Kept

LEMMA RemembersOrKeeps ==
    ASSUME TypeOK, AtRest, [Next]_vars, NEW q \in Runtime
    PROVE  Remembering(q)
  <1>1. CASE \E p \in Runtime : Act(p)
    BY <1>1, OwnMemory DEF Remembering
  <1>2. CASE ~\E p \in Runtime : Act(p)
    BY <1>2, ForeignMemory DEF Remembering
  <1> QED
    BY <1>1, <1>2

LEMMA AtRestStep == TypeOK /\ AtRest /\ [Next]_vars => AtRest'
  <1> SUFFICES ASSUME TypeOK, AtRest, [Next]_vars, NEW p \in Runtime
               PROVE  /\ step'[p] = "idle" => todo'[p] = {}
                      /\ step'[p] \in {"idle", "select"} => entry'[p] = NoEntry
    BY DEF AtRest
  <1>1. Remembering(p)
    BY RemembersOrKeeps
  <1>2. /\ step[p] = "idle" => todo[p] = {}
        /\ step[p] \in {"idle", "select"} => entry[p] = NoEntry
    BY DEF AtRest
  <1> QED
    BY <1>1, <1>2 DEF Remembering, Kept, Claimed, Looked, Inserted, Swept, Forgotten, Cleared

-----------------------------------------------------------------------------
(***************************************************************************)
(* No interval in which a runtime did not sweep is replayed: `since` marks *)
(* where its unbroken sequence of sweeps begins, and lastSweepAt is never  *)
(* older.                                                                  *)
(***************************************************************************)

SequenceKnown ==
    \A p \in Runtime :
        /\ since[p] <= now[p] + 1
        /\ lastSweep[p] <= now[p]
        /\ lastSweep[p] # Never => since[p] # Never /\ since[p] <= lastSweep[p] + 1
        /\ step[p] = "idle" /\ lastSweep[p] = Never => since[p] = Never
        /\ step[p] # "idle" => since[p] # Never /\ since[p] <= now[p]

LEMMA SequenceKnownStep ==
    ASSUME TypeOK, AtRest, SequenceKnown, [Next]_vars
    PROVE  SequenceKnown'
  <1> SUFFICES ASSUME NEW p \in Runtime
               PROVE  /\ since'[p] <= now'[p] + 1
                      /\ lastSweep'[p] <= now'[p]
                      /\ lastSweep'[p] # Never =>
                            since'[p] # Never /\ since'[p] <= lastSweep'[p] + 1
                      /\ step'[p] = "idle" /\ lastSweep'[p] = Never => since'[p] = Never
                      /\ step'[p] # "idle" => since'[p] # Never /\ since'[p] <= now'[p]
    BY DEF SequenceKnown
  <1>1. Remembering(p)
    BY RemembersOrKeeps
  <1>2. /\ since[p] \in Nat /\ now[p] \in Nat /\ lastSweep[p] \in Nat
        /\ minute \in Nat /\ minute >= 1
    BY ConstantsOK DEF TypeOK, Minute
  <1>3. /\ since[p] <= now[p] + 1
        /\ lastSweep[p] <= now[p]
        /\ lastSweep[p] # Never => since[p] # Never /\ since[p] <= lastSweep[p] + 1
        /\ step[p] = "idle" /\ lastSweep[p] = Never => since[p] = Never
        /\ step[p] # "idle" => since[p] # Never /\ since[p] <= now[p]
    BY DEF SequenceKnown
  <1>4. CASE Kept(p)
    BY <1>3, <1>4 DEF Kept
  <1>5. CASE Claimed(p)
    BY <1>2, <1>3, <1>5 DEF Claimed, Never
  <1>6. CASE Looked(p)
    BY <1>2, <1>3, <1>6 DEF Looked
  <1>7. CASE Inserted(p)
    BY <1>2, <1>3, <1>7 DEF Inserted
  <1>8. CASE Swept(p)
    BY <1>2, <1>3, <1>8 DEF Swept, Cleared, Never
  <1>9. CASE Forgotten(p)
    BY <1>2, <1>9 DEF Forgotten, Cleared, Never
  <1> QED
    BY <1>1, <1>4, <1>5, <1>6, <1>7, <1>8, <1>9 DEF Remembering

\* The entries a sweep has in hand: to be enqueued, or being enqueued.
InHand(p) == (todo[p] \cup {entry[p]}) \cap Entry

HandIsDue ==
    \A p \in Runtime : \A e \in InHand(p) :
        e[2] \in Due[e[1]] /\ since[p] <= e[2] /\ e[2] <= now[p]

LEMMA HandIsDueStep ==
    ASSUME TypeOK, AtRest, SequenceKnown, HandIsDue, [Next]_vars
    PROVE  HandIsDue'
  <1> SUFFICES ASSUME NEW p \in Runtime, NEW e \in InHand(p)'
               PROVE  e[2] \in Due[e[1]] /\ since'[p] <= e[2] /\ e[2] <= now'[p]
    BY DEF HandIsDue
  <1>1. Remembering(p)
    BY RemembersOrKeeps
  <1>2. e \in Entry /\ e \in todo'[p] \cup {entry'[p]}
    BY DEF InHand
  <1>3. \A f \in InHand(p) : f[2] \in Due[f[1]] /\ since[p] <= f[2] /\ f[2] <= now[p]
    BY DEF HandIsDue
  <1>4. NoEntry \notin Entry
    BY ConstantsOK
  <1>5. CASE Claimed(p)
    <2>1. e \in DueEntries(lastSweep[p], minute)
      BY <1>2, <1>4, <1>5 DEF Claimed, AtRest
    <2>2. \/ e[2] \in Due[e[1]] /\ lastSweep[p] # Never /\ lastSweep[p] < e[2] /\ e[2] < minute
          \/ e[2] \in Due[e[1]] /\ e[2] = minute
      BY <2>1 DEF DueEntries, Missed
    <2>3. /\ since[p] \in Nat /\ now[p] \in Nat /\ lastSweep[p] \in Nat
          /\ minute \in Nat /\ e[2] \in Nat
      BY <1>2, ConstantsOK DEF TypeOK, Minute, Entry
    <2>4. /\ since[p] <= now[p] + 1 /\ now[p] < minute
          /\ lastSweep[p] # Never => since[p] # Never /\ since[p] <= lastSweep[p] + 1
          /\ step[p] = "idle" /\ lastSweep[p] = Never => since[p] = Never
      BY <1>5 DEF SequenceKnown, Claimed
    <2> QED
      BY <1>5, <2>2, <2>3, <2>4 DEF Claimed
  <1>6. CASE ~Claimed(p)
    <2>1. e \in InHand(p)
      BY <1>1, <1>2, <1>4, <1>6
         DEF Remembering, Kept, Looked, Inserted, Swept, Forgotten, Cleared, InHand
    <2>2. since'[p] = since[p] /\ now'[p] = now[p]
      BY <1>1, <1>2, <1>4, <1>6
         DEF Remembering, Kept, Looked, Inserted, Swept, Forgotten, Cleared
    <2> QED
      BY <1>3, <2>1, <2>2
  <1> QED
    BY <1>5, <1>6

SweepInv == SchedulingInv /\ AtRest /\ SequenceKnown /\ HandIsDue

LEMMA SweepInvInit == Init => SweepInv
  <1> SUFFICES ASSUME Init
               PROVE  SweepInv
    OBVIOUS
  <1>1. SchedulingInv
    BY InitTypeOK
       DEF Init, SchedulingInv, SweepsUnderLock, AboutToRecord, OneRunPerMinute
  <1>2. AtRest
    BY DEF Init, AtRest
  <1>3. SequenceKnown
    BY DEF Init, SequenceKnown, Never
  <1>4. HandIsDue
    BY ConstantsOK DEF Init, HandIsDue, InHand
  <1> QED
    BY <1>1, <1>2, <1>3, <1>4 DEF SweepInv

LEMMA SweepInvStep == SweepInv /\ [Next]_vars => SweepInv'
  BY NextTypeOK, SweepsUnderLockStep, RecordingStep, AtRestStep, SequenceKnownStep,
     HandIsDueStep
     DEF SweepInv, SchedulingInv

\* After a pause, a release, a restart or a failed sweep no runtime enqueues a minute of the
\* interval in which it did not sweep, for any timetable and any number of runtimes.
THEOREM NoReplay == Spec => []LockedMinutesNotReplayed
  <1>1. SweepInv => LockedMinutesNotReplayed
    <2> SUFFICES ASSUME SweepInv, NEW p \in Runtime, NEW m \in Minute, NEW j \in Job,
                        <<j, m>> \in todo[p] \cup {entry[p]}
                 PROVE  m \in since[p] .. now[p]
      BY DEF LockedMinutesNotReplayed
    <2>1. <<j, m>> \in InHand(p)
      BY DEF InHand, Entry
    <2>2. since[p] <= m /\ m <= now[p]
      BY <2>1 DEF SweepInv, HandIsDue
    <2>3. since[p] \in Nat /\ now[p] \in Nat /\ m \in Nat
      BY ConstantsOK DEF SweepInv, SchedulingInv, TypeOK, Minute
    <2> QED
      BY <2>2, <2>3
  <1> QED
    BY <1>1, SweepInvInit, SweepInvStep, PTL DEF Spec

-----------------------------------------------------------------------------
(***************************************************************************)
(* No minute is skipped.  CaughtUp speaks of a runtime between two sweeps; *)
(* what makes it inductive is that during a sweep each due minute that is  *)
(* not recorded yet is still in the sweep's hand.                          *)
(***************************************************************************)

Answerable(p, j, m) ==
    Active(j) /\ m \in Due[j] /\ since[p] <= m /\ activeSince[j] < m

NothingSkipped ==
    \A p \in Runtime, j \in Fixed, m \in Minute : Answerable(p, j, m) =>
        /\ lastSweep[p] # Never /\ m <= lastSweep[p] => Recorded(<<j, m>>)
        /\ step[p] # "idle" /\ m <= now[p] =>
              Recorded(<<j, m>>) \/ <<j, m>> \in InHand(p)

LEMMA OnlyInsertRecords ==
    ASSUME NEW p \in Runtime, Act(p), ~InsertRun(p)
    PROVE  rows' = rows /\ manual' = manual
  BY DEF Act, ClaimAndSweep, StandBy, ReleaseIdleLeadership, SelectRun, InsertTask,
         EndSweep, SweepThrows, Heartbeat, PauseScheduler, StartRuntime, Shutdown,
         Crash, table

\* Rows are never deleted here.
LEMMA RowsGrow ==
    ASSUME TypeOK, [Next]_vars
    PROVE  \A e \in Entry : rows'[e] >= rows[e] /\ (e \in manual => e \in manual')
  <1> USE DEF TypeOK
  <1>1. ASSUME NEW p \in Runtime, InsertRun(p)
        PROVE  \A e \in Entry : rows'[e] >= rows[e] /\ (e \in manual => e \in manual')
    BY <1>1 DEF InsertRun
  <1>2. ASSUME NEW p \in Runtime, Act(p), ~InsertRun(p)
        PROVE  rows' = rows /\ manual' = manual
    BY <1>2, OnlyInsertRecords
  <1>3. ASSUME NEW j \in Job, RunNow(j) \/ ToggleJob(j)
        PROVE  rows' = rows /\ manual \subseteq manual'
    BY <1>3 DEF RunNow, ToggleJob, table
  <1>4. CASE NextMinute \/ UNCHANGED vars
    BY <1>4 DEF NextMinute, vars, table
  <1> QED
    BY <1>1, <1>2, <1>3, <1>4 DEF Next

LEMMA RecordedStays ==
    ASSUME TypeOK, [Next]_vars, NEW e \in Entry, Recorded(e)
    PROVE  Recorded(e)'
  <1>1. rows'[e] >= rows[e] /\ (e \in manual => e \in manual')
    BY RowsGrow
  <1>2. rows[e] \in Nat /\ rows'[e] \in Nat
    BY NextTypeOK DEF TypeOK
  <1> QED
    BY <1>1, <1>2 DEF Recorded

\* The clock and the jobs do not change under a runtime's own step.
LEMMA ActKeepsClock ==
    ASSUME NEW p \in Runtime, Act(p)
    PROVE  minute' = minute /\ activeSince' = activeSince
  BY DEF Act, ClaimAndSweep, StandBy, ReleaseIdleLeadership, SelectRun, InsertTask,
         InsertRun, EndSweep, SweepThrows, Heartbeat, PauseScheduler, StartRuntime,
         Shutdown, Crash, clock

\* A job that is resumed answers only for the minutes to come.
LEMMA ResumedIsLater ==
    ASSUME TypeOK, [Next]_vars, NEW j \in Job, NEW m \in Minute,
           Active(j)', activeSince'[j] < m, m <= minute
    PROVE  Active(j) /\ activeSince[j] < m
  <1>1. CASE \E p \in Runtime : Act(p)
    BY <1>1, ActKeepsClock DEF Active
  <1>2. CASE NextMinute \/ UNCHANGED vars \/ \E i \in Job : RunNow(i)
    BY <1>2 DEF NextMinute, RunNow, vars, clock, Active
  <1>3. CASE \E i \in Job : ToggleJob(i)
    <2>1. PICK i \in Job :
            activeSince' = [activeSince EXCEPT ![i] =
                                IF activeSince[i] = Never THEN minute ELSE Never]
      BY <1>3 DEF ToggleJob
    <2>2. CASE i = j
      <3>1. activeSince'[j] \in {minute, Never}
        BY <2>1, <2>2 DEF TypeOK
      <3>2. minute \in Nat /\ m \in Nat
        BY ConstantsOK DEF TypeOK, Minute
      <3> QED
        BY <3>1, <3>2 DEF Active
    <2>3. CASE i # j
      BY <2>1, <2>3 DEF TypeOK, Active
    <2> QED
      BY <2>2, <2>3
  <1> QED
    BY <1>1, <1>2, <1>3 DEF Next

LEMMA NothingSkippedStep ==
    ASSUME SweepInv, NothingSkipped, [Next]_vars
    PROVE  NothingSkipped'
  <1> SUFFICES ASSUME NEW p \in Runtime, NEW j \in Fixed, NEW m \in Minute,
                      Answerable(p, j, m)'
               PROVE  /\ lastSweep'[p] # Never /\ m <= lastSweep'[p]
                            => Recorded(<<j, m>>)'
                      /\ step'[p] # "idle" /\ m <= now'[p]
                            => Recorded(<<j, m>>)' \/ <<j, m>> \in InHand(p)'
    BY DEF NothingSkipped
  <1> DEFINE e == <<j, m>>
  <1>1. TypeOK /\ AtRest /\ SequenceKnown
    BY DEF SweepInv, SchedulingInv
  <1>2. /\ j \in Job /\ e \in Entry /\ m \in Due[j] /\ since'[p] <= m
        /\ Active(j)' /\ activeSince'[j] < m
    BY ConstantsOK DEF Answerable, Entry
  <1>3. /\ since[p] \in Nat /\ now[p] \in Nat /\ lastSweep[p] \in Nat
        /\ minute \in Nat /\ m \in Nat /\ now[p] <= minute
    BY <1>1, ConstantsOK DEF TypeOK, Minute
  <1>4. /\ since[p] <= now[p] + 1
        /\ lastSweep[p] <= now[p]
        /\ lastSweep[p] # Never => since[p] # Never /\ since[p] <= lastSweep[p] + 1
        /\ step[p] = "idle" /\ lastSweep[p] = Never => since[p] = Never
        /\ step[p] # "idle" => since[p] # Never /\ since[p] <= now[p]
    BY <1>1 DEF SequenceKnown
  <1>5. Recorded(e) => Recorded(e)'
    BY <1>1, <1>2, RecordedStays
  <1>6. ASSUME Active(j), activeSince[j] < m, since[p] <= m
        PROVE  /\ lastSweep[p] # Never /\ m <= lastSweep[p] => Recorded(e)
               /\ step[p] # "idle" /\ m <= now[p] => Recorded(e) \/ e \in InHand(p)
    BY <1>2, <1>6 DEF NothingSkipped, Answerable
  <1>7. CASE Kept(p)
    <2>1. SUFFICES ASSUME m <= now[p]
                   PROVE  /\ lastSweep'[p] # Never /\ m <= lastSweep'[p] => Recorded(e)'
                          /\ step'[p] # "idle" => Recorded(e)' \/ e \in InHand(p)'
      BY <1>3, <1>4, <1>7 DEF Kept
    <2>2. Active(j) /\ activeSince[j] < m
      BY <1>1, <1>2, <1>3, <2>1, ResumedIsLater
    <2>3. InHand(p)' = InHand(p)
      BY <1>7 DEF Kept, InHand
    <2> QED
      BY <1>2, <1>5, <1>6, <1>7, <2>1, <2>2, <2>3 DEF Kept
  <1>8. CASE ~Kept(p)
    <2>1. \E q \in Runtime : Act(q)
      BY <1>8, ForeignMemory
    <2>2. Active(j) /\ activeSince[j] < m
      BY <1>2, <2>1, ActKeepsClock DEF Active
    <2>3. CASE Claimed(p)
      <3>1. since[p] = Never => lastSweep[p] = Never
        BY <1>4
      <3>2. since[p] <= m
        BY <1>2, <1>3, <2>3 DEF Claimed, Never
      <3>3. lastSweep'[p] # Never /\ m <= lastSweep'[p] => Recorded(e)'
        BY <1>5, <1>6, <2>2, <2>3, <3>2 DEF Claimed
      <3>4. ASSUME m <= minute, ~(lastSweep[p] # Never /\ m <= lastSweep[p])
            PROVE  e \in InHand(p)'
        <4>1. m = minute \/ (lastSweep[p] # Never /\ lastSweep[p] < m /\ m < minute)
          BY <1>2, <1>3, <1>4, <2>3, <3>4 DEF Claimed
        <4>2. e[1] = j /\ e[2] = m
          OBVIOUS
        <4>3. e \in DueEntries(lastSweep[p], minute)
          BY <1>2, <2>2, <4>1, <4>2 DEF DueEntries, Missed
        <4> QED
          BY <1>2, <2>3, <4>3 DEF Claimed, InHand
      <3>5. now'[p] = minute
        BY <2>3 DEF Claimed
      <3> QED
        BY <1>5, <1>6, <2>2, <3>2, <3>3, <3>4, <3>5
    <2>4. CASE Looked(p)
      <3>1. /\ lastSweep'[p] = lastSweep[p] /\ since'[p] = since[p] /\ now'[p] = now[p]
            /\ step[p] # "idle"
        BY <2>4 DEF Looked
      <3>2. e \in InHand(p) => Recorded(e) \/ e \in InHand(p)'
        <4>1. PICK f \in todo[p] :
                /\ todo'[p] = todo[p] \ {f}
                /\ \/ Recorded(f) /\ step'[p] = step[p] /\ entry'[p] = entry[p]
                   \/ step'[p] = "task" /\ entry'[p] = f
          BY <2>4 DEF Looked
        <4>2. entry[p] = NoEntry
          BY <1>1, <2>4 DEF Looked, AtRest
        <4> QED
          BY <4>1, <4>2, <1>2, ConstantsOK DEF InHand
      <3> QED
        BY <1>2, <1>5, <1>6, <2>2, <3>1, <3>2
    <2>5. CASE Inserted(p)
      <3>1. /\ lastSweep'[p] = lastSweep[p] /\ since'[p] = since[p] /\ now'[p] = now[p]
            /\ step[p] # "idle"
        BY <2>5 DEF Inserted
      <3>2. e \in InHand(p) => Recorded(e)' \/ e \in InHand(p)'
        <4>1. CASE step[p] = "task"
          BY <2>5, <4>1 DEF Inserted, InHand
        <4>2. CASE step[p] = "run"
          <5>1. todo'[p] = todo[p] /\ rows' = [rows EXCEPT ![entry[p]] = rows[entry[p]] + 1]
            BY <2>5, <4>2 DEF Inserted
          <5>2. rows \in [Entry -> Nat]
            BY <1>1 DEF TypeOK
          <5>3. CASE e = entry[p]
            <6>1. rows'[e] = rows[e] + 1 /\ rows[e] \in Nat
              BY <1>2, <5>1, <5>2, <5>3
            <6> QED
              BY <6>1 DEF Recorded
          <5>4. CASE e # entry[p]
            BY <5>1, <5>4 DEF InHand
          <5> QED
            BY <5>3, <5>4
        <4> QED
          BY <2>5, <4>1, <4>2 DEF Inserted
      <3> QED
        BY <1>2, <1>5, <1>6, <2>2, <3>1, <3>2
    <2>6. CASE Swept(p)
      <3>1. step[p] # "idle" /\ step'[p] = "idle" /\ lastSweep'[p] = now[p]
        BY <2>6 DEF Swept, Cleared
      <3>2. CASE step[p] = "select" /\ todo[p] = {} /\ since'[p] = since[p]
        <4>1. e \notin InHand(p)
          BY <1>1, <1>2, <3>2, ConstantsOK DEF AtRest, InHand
        <4> QED
          BY <1>2, <1>5, <1>6, <2>2, <3>1, <3>2, <4>1
      <3>3. CASE since'[p] = now[p] + 1
        BY <1>2, <1>3, <3>1, <3>3
      <3> QED
        BY <2>6, <3>2, <3>3 DEF Swept
    <2>7. CASE Forgotten(p)
      BY <2>7 DEF Forgotten, Cleared
    <2> QED
      BY <1>1, <1>8, <2>3, <2>4, <2>5, <2>6, <2>7, RemembersOrKeeps DEF Remembering
  <1> QED
    BY <1>7, <1>8

\* A runtime that keeps sweeping skips no minute of an active fixed-time job, however late
\* its ticks are, whoever led in between, and whatever jobs are paused and resumed.
THEOREM NoSkip == Spec => []CaughtUp
  <1>1. Init => SweepInv /\ NothingSkipped
    <2>1. Init => NothingSkipped
      BY DEF Init, NothingSkipped
    <2> QED
      BY <2>1, SweepInvInit
  <1>2. SweepInv /\ NothingSkipped /\ [Next]_vars => (SweepInv /\ NothingSkipped)'
    BY SweepInvStep, NothingSkippedStep
  <1>3. SweepInv /\ NothingSkipped => CaughtUp
    <2> SUFFICES ASSUME SweepInv, NothingSkipped,
                        NEW p \in Runtime, NEW j \in Fixed, NEW m \in Due[j],
                        lastSweep[p] # Never, Active(j),
                        m >= since[p], m > activeSince[j], m <= lastSweep[p]
                 PROVE  Recorded(<<j, m>>)
      BY DEF CaughtUp
    <2>1. m \in Minute /\ j \in Job
      BY ConstantsOK
    <2>2. /\ since[p] \in Nat /\ lastSweep[p] \in Nat /\ m \in Nat
          /\ activeSince[j] \in Nat
      BY <2>1, ConstantsOK DEF SweepInv, SchedulingInv, TypeOK, Minute
    <2>3. since[p] <= m /\ activeSince[j] < m
      BY <2>2
    <2> QED
      BY <2>1, <2>3 DEF NothingSkipped, Answerable
  <1> QED
    BY <1>1, <1>2, <1>3, PTL DEF Spec

-----------------------------------------------------------------------------
(***************************************************************************)
(* The refinement of CronDispatch: only the INSERT of a run is a step      *)
(* there, of an entry that a sweep has in hand and that nobody has         *)
(* recorded since its SELECT.                                              *)
(***************************************************************************)

LEMMA InsertRecords ==
    ASSUME SweepInv, NEW p \in Runtime, InsertRun(p)
    PROVE  \E j \in Job : \E m \in Due[j] : Promise!Record(j, m)
  <1>1. entry[p] \in Entry /\ rows[entry[p]] = 0
    BY DEF SweepInv, SchedulingInv, AboutToRecord, InsertRun
  <1>2. PICK j \in Job, m \in Minute : entry[p] = <<j, m>>
    BY <1>1 DEF Entry
  <1>3. entry[p] \in InHand(p)
    BY <1>1 DEF InHand
  <1>4. m \in Due[j] /\ m <= now[p]
    BY <1>2, <1>3 DEF SweepInv, HandIsDue
  <1>5. now[p] \in Nat /\ now[p] <= minute /\ minute \in Nat /\ m \in Nat
    BY ConstantsOK DEF SweepInv, SchedulingInv, TypeOK, Minute
  <1>6. rows' = [rows EXCEPT ![<<j, m>>] = 1]
    BY <1>1, <1>2 DEF InsertRun
  <1>7. minute' = minute
    BY DEF InsertRun, clock
  <1>8. Promise!Record(j, m)
    BY <1>1, <1>2, <1>4, <1>5, <1>6, <1>7 DEF Promise!Record
  <1> QED
    BY <1>4, <1>8

\* The cron runtimes, however many, together implement CronDispatch.
THEOREM RuntimesKeepPromise == Spec => DispatchesOnce
  <1>1. Init => Promise!Init
    BY DEF Init, Promise!Init, Entry, Promise!Entry, Minute
  <1>2. SweepInv /\ [Next]_vars => [Promise!Next]_<<minute, rows>>
    <2> SUFFICES ASSUME SweepInv, [Next]_vars
                 PROVE  Promise!Next \/ (minute' = minute /\ rows' = rows)
      OBVIOUS
    <2>1. ASSUME NEW p \in Runtime, InsertRun(p)
          PROVE  Promise!Next
      BY <2>1, InsertRecords DEF Promise!Next
    <2>2. ASSUME NEW p \in Runtime, Act(p), ~InsertRun(p)
          PROVE  minute' = minute /\ rows' = rows
      BY <2>2, ActKeepsClock, OnlyInsertRecords
    <2>3. CASE NextMinute
      BY <2>3 DEF NextMinute, table, Promise!TimePasses, Promise!Next
    <2>4. CASE UNCHANGED vars \/ \E j \in Job : RunNow(j) \/ ToggleJob(j)
      BY <2>4 DEF vars, RunNow, ToggleJob, clock, table
    <2> QED
      BY <2>1, <2>2, <2>3, <2>4 DEF Next
  <1> QED
    BY <1>1, <1>2, SweepInvInit, SweepInvStep, PTL
       DEF Spec, DispatchesOnce, Promise!Spec, Promise!vars

-----------------------------------------------------------------------------
(***************************************************************************)
(* The schedule arithmetic of CronSchedule, whose jobs are schedules and   *)
(* whose state is one scheduler's clock.                                   *)
(***************************************************************************)

\* Division with remainder.
LEMMA Division ==
    ASSUME NEW n \in Nat \ {0}, NEW t \in Nat
    PROVE  /\ t \div n \in Nat
           /\ t % n \in 0 .. n - 1
           /\ t = (t \div n) * n + (t % n)
  OBVIOUS

LEMMA DivisionUnique ==
    ASSUME NEW n \in Nat \ {0}, NEW d \in Nat, NEW c \in 0 .. n - 1
    PROVE  /\ d * n + c \in Nat
           /\ (d * n + c) \div n = d
           /\ (d * n + c) % n = c
  OBVIOUS

LEMMA DivisionMonotone ==
    ASSUME NEW n \in Nat \ {0}, NEW s \in Nat, NEW t \in Nat, s <= t
    PROVE  s \div n <= t \div n
  OBVIOUS

\* Every minute of an earlier day is before the midnight of a later one.
LEMMA EarlierDay ==
    ASSUME NEW n \in Nat \ {0}, NEW d \in Nat, NEW e \in Nat, d < e,
           NEW c \in 0 .. n - 1
    PROVE  d * n + c < e * n
  <1>1. d * n + n <= e * n
    OBVIOUS
  <1> QED
    BY <1>1

\* A set of naturals that is not empty has a least element, which Min chooses.
\* (The numbers below each element are a finite set; the least one has the
\* smallest of them.)
LEMMA LeastElement ==
    ASSUME NEW S \in SUBSET Nat, S # {}
    PROVE  /\ Min(S) \in S
           /\ \A m \in S : Min(S) <= m
  <1> DEFINE T == {0 .. n : n \in S}
  <1>1. T \subseteq FiniteSubsetsOf(Nat)
    <2> SUFFICES ASSUME NEW n \in S
                 PROVE  0 .. n \in FiniteSubsetsOf(Nat)
      OBVIOUS
    <2>1. IsFiniteSet(0 .. n)
      BY FS_Interval
    <2> QED
      BY <2>1 DEF FiniteSubsetsOf
  <1>2. T # {}
    OBVIOUS
  <1>3. PICK I \in T : \A J \in T : <<J, I>> \notin StrictSubsetOrdering(Nat)
    <2> HIDE DEF T
    <2> QED
      BY <1>1, <1>2, FS_StrictSubsetOrderingWellFounded, WFMin
  <1>4. PICK x \in S : I = 0 .. x
    BY <1>3
  <1>5. ASSUME NEW y \in S, y < x
        PROVE  FALSE
    <2>1. 0 .. y \in T /\ 0 .. y \in SUBSET Nat /\ 0 .. x \in SUBSET Nat
      OBVIOUS
    <2>2. 0 .. y \subseteq 0 .. x /\ x \in 0 .. x /\ x \notin 0 .. y
      BY <1>5
    <2>3. <<0 .. y, 0 .. x>> \in StrictSubsetOrdering(Nat)
      BY <2>1, <2>2 DEF StrictSubsetOrdering
    <2> QED
      BY <1>3, <1>4, <2>1, <2>3
  <1>6. \A y \in S : x <= y
    BY <1>5
  <1> QED
    BY <1>6 DEF Min

\* The days, hours and minutes of a moment.
LEMMA DayLength ==
    MinutesPerDay \in Nat \ {0}
  BY CalendarOK DEF MinutesPerDay

LEMMA DayAndClock ==
    ASSUME NEW t \in Nat
    PROVE  /\ Day(t) \in Nat
           /\ Clock(t) \in 0 .. MinutesPerDay - 1
           /\ t = Day(t) * MinutesPerDay + Clock(t)
  BY DayLength, Division DEF Day, Clock

LEMMA DayAndClockUnique ==
    ASSUME NEW d \in Nat,
           NEW c \in 0 .. MinutesPerDay - 1
    PROVE  LET t == d * MinutesPerDay + c
           IN  t \in Nat /\ Day(t) = d /\ Clock(t) = c
  BY DayLength, DivisionUnique DEF Day, Clock

LEMMA DayMonotone ==
    ASSUME NEW s \in Nat, NEW t \in Nat, s <= t
    PROVE  Day(s) <= Day(t)
  BY DayLength, DivisionMonotone DEF Day

LEMMA LaterDay ==
    ASSUME NEW t \in Nat, NEW d \in Nat, Day(t) < d
    PROVE  t < d * MinutesPerDay
  <1> DEFINE n == MinutesPerDay
             e == Day(t)
             c == Clock(t)
  <1>1. n \in Nat \ {0} /\ e \in Nat /\ c \in 0 .. n - 1 /\ t = e * n + c /\ e < d
    BY DayLength, DayAndClock
  <1> HIDE DEF n, e, c
  <1>2. e * n + c < d * n
    BY <1>1, EarlierDay, Zenon
  <1> QED
    BY <1>1, <1>2, Zenon DEF n

\* Any schedule of days matches some day of the next seven.
LEMMA SomeDayMatches ==
    ASSUME NEW j, Supported(j), NEW d \in Nat
    PROVE  \E e \in d + 1 .. d + 7 : MatchesDays(e, j.days)
  <1>1. ASSUME NEW r \in 0 .. 6
        PROVE  \E e \in d + 1 .. d + 7 : e % 7 = r
    <2> DEFINE e == d + 1 + ((r + 7 - ((d + 1) % 7)) % 7)
    <2>1. e \in d + 1 .. d + 7 /\ e % 7 = r
      OBVIOUS
    <2> QED
      BY <2>1
  <1>2. ASSUME NEW e \in Nat
        PROVE  DayToken(e) = <<"mon", "tue", "wed", "thu", "fri", "sat", "sun">>[(e % 7) + 1]
    BY DEF DayToken
  <1>3. ASSUME NEW w \in Weekdays
        PROVE  \E e \in d + 1 .. d + 7 : DayToken(e) = w
    <2>1. PICK r \in 0 .. 6 :
              <<"mon", "tue", "wed", "thu", "fri", "sat", "sun">>[r + 1] = w
      BY DEF Weekdays
    <2>2. PICK e \in d + 1 .. d + 7 : e % 7 = r
      BY <1>1
    <2>3. e \in Nat
      OBVIOUS
    <2> QED
      BY <1>2, <2>1, <2>2, <2>3
  <1>4. CASE j.days = {"daily"}
    BY <1>4 DEF MatchesDays
  <1>5. CASE j.days = {"weekdays"}
    BY <1>3, <1>5 DEF MatchesDays, Weekdays
  <1>6. CASE j.days = {"weekends"}
    BY <1>3, <1>6 DEF MatchesDays, Weekdays
  <1>7. CASE j.days \subseteq Weekdays /\ j.days # {}
    BY <1>3, <1>7 DEF MatchesDays
  <1> QED
    BY <1>4, <1>5, <1>6, <1>7 DEF Supported

\* getMissedFixedRuns finds the minutes strictly between the sweeps that match.
LEMMA MissedAreDispatches ==
    ASSUME NEW j, Supported(j), j.kind = "fixed",
           NEW from \in Nat, NEW to \in Nat, from < to
    PROVE  MissedFixedRuns(j, from, to) =
               {u \in from + 1 .. to - 1 : ShouldDispatchNow(u, j)}
  <1> DEFINE n == MinutesPerDay
  <1>1. n \in Nat \ {0} /\ j.times \subseteq 0 .. n - 1
    BY DayLength DEF Supported
  <1>2. ASSUME NEW u
        PROVE  u \in MissedFixedRuns(j, from, to) <=>
                   \E d \in Day(from) .. Day(to), c \in j.times :
                       /\ d * n <= to
                       /\ MatchesDays(d, j.days)
                       /\ u = d * n + c /\ from < u /\ u < to
    BY DEF MissedFixedRuns, SweptDays
  <1>3. Day(from) \in Nat /\ Day(to) \in Nat
    BY DayAndClock
  <1>4. ASSUME NEW u \in MissedFixedRuns(j, from, to)
        PROVE  u \in from + 1 .. to - 1 /\ ShouldDispatchNow(u, j)
    <2>1. PICK d \in Day(from) .. Day(to), c \in j.times :
              /\ MatchesDays(d, j.days)
              /\ u = d * n + c /\ from < u /\ u < to
      BY <1>2, <1>4
    <2>2. d \in Nat /\ c \in 0 .. n - 1
      BY <1>1, <1>3
    <2>3. u \in Nat /\ Day(u) = d /\ Clock(u) = c
      BY <2>1, <2>2, DayAndClockUnique
    <2> QED
      BY <2>1, <2>3 DEF ShouldDispatchNow, MatchesTime
  <1>5. ASSUME NEW u \in from + 1 .. to - 1, ShouldDispatchNow(u, j)
        PROVE  u \in MissedFixedRuns(j, from, to)
    <2> DEFINE d == Day(u)
               c == Clock(u)
    <2>1. u \in Nat /\ d \in Nat /\ c \in 0 .. n - 1 /\ u = d * n + c
      BY DayAndClock
    <2>2. c \in j.times /\ MatchesDays(d, j.days)
      BY <1>5 DEF ShouldDispatchNow, MatchesTime
    <2>3. d \in Day(from) .. Day(to)
      BY <1>3, <2>1, DayMonotone
    <2> HIDE DEF n, d, c
    <2>4. d * n <= to
      BY <1>1, <2>1
    <2> QED
      BY <1>2, <2>1, <2>2, <2>3, <2>4
  <1> QED
    BY <1>4, <1>5

\* getNextFixedRun and getNextIntervalRun return the first minute after t at
\* which shouldDispatchNow holds.
FirstDispatchAfter(j, t, u) ==
    /\ u \in Nat
    /\ u > t
    /\ ShouldDispatchNow(u, j)
    /\ \A v \in t + 1 .. u : ShouldDispatchNow(v, j) => v = u

LEMMA NextFixedRunIsFirst ==
    ASSUME NEW j, Supported(j), j.kind = "fixed",
           NEW t \in Nat
    PROVE  FirstDispatchAfter(j, t, NextFixedRun(j, t))
  <1> DEFINE n == MinutesPerDay
             open == {d \in Day(t) .. Day(t) + HorizonDays - 1 :
                         /\ MatchesDays(d, j.days)
                         /\ Candidates(j, d, t) # {}}
             day  == Min(open)
             next == Min(Candidates(j, day, t))
  <1>1. /\ n \in Nat \ {0} /\ HorizonDays \in Nat /\ HorizonDays > 7
        /\ j.times \subseteq 0 .. n - 1 /\ j.times # {}
        /\ Day(t) \in Nat
    BY CalendarOK, DayLength, DayAndClock DEF Supported
  <1>2. ASSUME NEW d \in Nat, NEW u
        PROVE  u \in Candidates(j, d, t) <=>
                   /\ u \in Nat /\ u > t
                   /\ Day(u) = d /\ Clock(u) \in j.times
    <2>1. ASSUME NEW c \in j.times, u = d * n + c
          PROVE  u \in Nat /\ Day(u) = d /\ Clock(u) = c
      BY <1>1, <2>1, DayAndClockUnique
    <2>2. u \in Candidates(j, d, t) <=>
              \E c \in j.times : u = d * n + c /\ u > t
      BY DEF Candidates
    <2>3. u \in Nat => u = Day(u) * n + Clock(u)
      BY DayAndClock
    <2> HIDE DEF n
    <2> QED
      BY <2>1, <2>2, <2>3
  <1>3. open # {}
    <2>1. PICK d \in Day(t) + 1 .. Day(t) + 7 :
              MatchesDays(d, j.days)
      BY <1>1, SomeDayMatches
    <2>2. PICK c \in j.times : TRUE
      BY <1>1
    <2>3. d \in Nat /\ Day(t) < d /\ c \in 0 .. n - 1
      BY <1>1
    <2>4. t < d * n
      BY <2>3, LaterDay
    <2>5. d * n \in Nat
      BY <1>1, <2>3
    <2>6. d * n + c \in Candidates(j, d, t)
      BY <2>3, <2>4, <2>5 DEF Candidates
    <2> QED
      BY <1>1, <2>1, <2>6
  <1>4. open \subseteq Nat
    BY <1>1
  <1>5. day \in open /\ \A d \in open : day <= d
    <2> HIDE DEF open
    <2> QED
      BY <1>3, <1>4, LeastElement
  <1>6. day \in Nat /\ MatchesDays(day, j.days)
        /\ Candidates(j, day, t) # {}
    BY <1>4, <1>5
  <1>7. Candidates(j, day, t) \subseteq Nat
    BY <1>2, <1>6
  <1>8. /\ next \in Candidates(j, day, t)
        /\ \A u \in Candidates(j, day, t) : next <= u
    <2> HIDE DEF day
    <2> QED
      BY <1>6, <1>7, LeastElement
  <1>9. next \in Nat /\ next > t /\ ShouldDispatchNow(next, j)
        /\ Day(next) = day
    <2> HIDE DEF next, day
    <2> QED
      BY <1>2, <1>6, <1>8 DEF ShouldDispatchNow, MatchesTime
  <1>10. ASSUME NEW v \in t + 1 .. next, ShouldDispatchNow(v, j)
         PROVE  v = next
    <2> HIDE DEF next, day
    <2> DEFINE e == Day(v)
    <2>1. v \in Nat /\ v > t /\ v <= next
      BY <1>9, <1>10
    <2>2. e \in Nat /\ Day(t) <= e /\ e <= day
      BY <1>9, <2>1, DayMonotone, DayAndClock
    <2>3. v \in Candidates(j, e, t) /\ MatchesDays(e, j.days)
      BY <1>2, <1>10, <2>1, <2>2 DEF ShouldDispatchNow, MatchesTime
    <2>4. day <= Day(t) + HorizonDays - 1
      BY <1>5
    <2>5. e \in open
      BY <1>1, <1>6, <2>2, <2>3, <2>4
    <2>6. e = day
      BY <1>5, <1>6, <2>2, <2>5
    <2> QED
      BY <1>8, <1>9, <2>1, <2>3, <2>6
  <1>11. NextFixedRun(j, t) = next
    BY <1>3 DEF NextFixedRun
  <1> HIDE DEF next
  <1> QED
    BY <1>9, <1>10, <1>11 DEF FirstDispatchAfter

\* The hours are numbered on from the first one: hour q begins at q * MinutesPerHour.
LEMMA MultiplesOrdered ==
    ASSUME NEW n \in Nat \ {0}, NEW p \in Nat, NEW q \in Nat, p * n < q * n
    PROVE  p < q
  OBVIOUS

LEMMA Distribute ==
    ASSUME NEW a \in Nat, NEW b \in Nat, NEW d \in Nat, NEW h \in Nat, NEW m \in Nat
    PROVE  d * (a * b) + (h * a + m) = (d * b + h) * a + m
  OBVIOUS

LEMMA HourOf ==
    ASSUME NEW t \in Nat
    PROVE  /\ Hours(t) \in 0 .. HoursPerDay - 1
           /\ Minutes(t) \in 0 .. MinutesPerHour - 1
           /\ t = (Day(t) * HoursPerDay + Hours(t)) * MinutesPerHour
                      + Minutes(t)
  <1> DEFINE c == Clock(t)
             h == Hours(t)
             m == Minutes(t)
             d == Day(t)
  <1>1. MinutesPerHour \in Nat \ {0} /\ HoursPerDay \in Nat \ {0}
    BY CalendarOK
  <1>2. /\ d \in Nat /\ c \in 0 .. MinutesPerHour * HoursPerDay - 1
        /\ t = d * (MinutesPerHour * HoursPerDay) + c
    BY DayAndClock DEF MinutesPerDay
  <1>3. /\ h \in Nat /\ m \in 0 .. MinutesPerHour - 1
        /\ c = h * MinutesPerHour + m
    <2>1. c \in Nat
      BY <1>1, <1>2
    <2> QED
      BY <1>1, <2>1, Division DEF Hours, Minutes
  <1> HIDE DEF c, h, m, d
  <1>4. h < HoursPerDay
    <2>1. h * MinutesPerHour < HoursPerDay * MinutesPerHour
      BY <1>1, <1>2, <1>3
    <2> QED
      BY <1>1, <1>3, <2>1, MultiplesOrdered
  <1>5. t = (d * HoursPerDay + h) * MinutesPerHour + m
    <2>1. m \in Nat /\ t = d * (MinutesPerHour * HoursPerDay) + (h * MinutesPerHour + m)
      BY <1>1, <1>2, <1>3
    <2>2. MinutesPerHour \in Nat /\ HoursPerDay \in Nat /\ d \in Nat /\ h \in Nat
      BY <1>1, <1>2, <1>3
    <2>3. d * (MinutesPerHour * HoursPerDay) + (h * MinutesPerHour + m)
              = (d * HoursPerDay + h) * MinutesPerHour + m
      BY <2>1, <2>2, Distribute
    <2> QED
      BY <2>1, <2>3
  <1> QED
    BY <1>1, <1>3, <1>4, <1>5 DEF h, m, d

LEMMA HourBegins ==
    ASSUME NEW d \in Nat, NEW h \in 0 .. HoursPerDay - 1
    PROVE  LET t == (d * HoursPerDay + h) * MinutesPerHour
           IN  /\ t \in Nat
               /\ Day(t) = d
               /\ Hours(t) = h
               /\ Minutes(t) = 0
  <1> DEFINE t == (d * HoursPerDay + h) * MinutesPerHour
             c == h * MinutesPerHour
  <1>1. MinutesPerHour \in Nat \ {0} /\ HoursPerDay \in Nat \ {0} /\ h \in Nat
    BY CalendarOK
  <1>2. c \in Nat /\ c + MinutesPerHour <= HoursPerDay * MinutesPerHour
    <2>1. (h + 1) * MinutesPerHour <= HoursPerDay * MinutesPerHour
      BY <1>1
    <2> QED
      BY <1>1, <2>1
  <1>3. c \in 0 .. MinutesPerDay - 1
    BY <1>1, <1>2 DEF MinutesPerDay
  <1>4. t = d * MinutesPerDay + c
    BY <1>1 DEF MinutesPerDay
  <1>5. t \in Nat /\ Day(t) = d /\ Clock(t) = c
    <2> HIDE DEF c, t
    <2> QED
      BY <1>3, <1>4, DayAndClockUnique
  <1>6. c \div MinutesPerHour = h /\ c % MinutesPerHour = 0
    BY <1>1
  <1> QED
    BY <1>5, <1>6 DEF Hours, Minutes

\* Midnight matches every interval.
LEMMA Midnight ==
    ASSUME NEW j, Supported(j),
           j.kind \in {"minutes", "hours"}, NEW d \in Nat
    PROVE  LET t == (d * HoursPerDay) * MinutesPerHour
           IN  /\ t = d * MinutesPerDay
               /\ t \in Nat
               /\ Day(t) = d
               /\ Hours(t) % j.every = 0
               /\ Minutes(t) % j.every = 0
               /\ Minutes(t) = 0
  <1>1. MinutesPerHour \in Nat \ {0} /\ HoursPerDay \in Nat \ {0}
    BY CalendarOK
  <1>2. d * HoursPerDay + 0 = d * HoursPerDay /\ 0 \in 0 .. HoursPerDay - 1
    BY <1>1
  <1>3. (d * HoursPerDay) * MinutesPerHour = d * MinutesPerDay
    BY <1>1 DEF MinutesPerDay
  <1>4. j.every \in Nat \ {0}
    BY DEF Supported
  <1>5. 0 % j.every = 0
    BY <1>4
  <1> QED
    BY <1>2, <1>3, <1>5, HourBegins

LEMMA NextMinuteRunIsFirst ==
    ASSUME NEW j, Supported(j), j.kind = "minutes",
           NEW t \in Nat
    PROVE  FirstDispatchAfter(j, t, NextIntervalRun(j, t))
  <1> DEFINE n == MinutesPerDay
             steps == {c \in t + 1 .. t + HorizonDays * n :
                          /\ MatchesDays(Day(c), j.days)
                          /\ Minutes(c) % j.every = 0}
             next == Min(steps)
  <1>1. /\ n \in Nat \ {0} /\ HorizonDays \in Nat /\ HorizonDays > 7
        /\ HorizonDays * n \in Nat
    BY CalendarOK, DayLength
  <1>2. steps # {}
    <2>1. PICK d \in Day(t) + 1 .. Day(t) + 7 :
              MatchesDays(d, j.days)
      BY DayAndClock, SomeDayMatches
    <2>2. d \in Nat /\ Day(t) < d /\ Day(t) \in Nat
          /\ d <= Day(t) + 7
      BY DayAndClock
    <2>3. /\ d * n \in Nat /\ Day(d * n) = d
          /\ Minutes(d * n) % j.every = 0
      BY <2>2, Midnight
    <2>4. t < d * n
      BY <2>2, LaterDay
    <2>5. d * n <= t + HorizonDays * n
      <3>1. Day(t) * n <= t
        BY <1>1, DayAndClock
      <3>2. d * n <= (Day(t) + 7) * n
        BY <1>1, <2>2
      <3>3. (Day(t) + 7) * n = Day(t) * n + 7 * n
        BY <1>1, <2>2
      <3>4. 7 * n <= HorizonDays * n
        BY <1>1
      <3>5. Day(t) * n \in Nat /\ 7 * n \in Nat /\ (Day(t) + 7) * n \in Nat
        BY <1>1, <2>2
      <3> HIDE DEF n
      <3> QED
        BY <1>1, <2>3, <3>1, <3>2, <3>3, <3>4, <3>5
    <2>6. d * n \in steps
      BY <1>1, <2>1, <2>3, <2>4, <2>5
    <2> QED
      BY <2>6
  <1>3. steps \subseteq Nat
    BY <1>1
  <1>4. next \in steps /\ \A c \in steps : next <= c
    <2> HIDE DEF steps
    <2> QED
      BY <1>2, <1>3, LeastElement
  <1>5. /\ next \in Nat /\ next > t /\ next <= t + HorizonDays * n
        /\ ShouldDispatchNow(next, j)
    <2>1. /\ next \in t + 1 .. t + HorizonDays * n
          /\ MatchesDays(Day(next), j.days)
          /\ Minutes(next) % j.every = 0
      BY <1>4
    <2> HIDE DEF next, n
    <2> QED
      BY <1>1, <2>1 DEF ShouldDispatchNow, MatchesTime
  <1>6. ASSUME NEW v \in t + 1 .. next, ShouldDispatchNow(v, j)
        PROVE  v = next
    <2> HIDE DEF next
    <2>1. v \in t + 1 .. t + HorizonDays * n
      BY <1>1, <1>5
    <2>2. v \in steps
      BY <1>6, <2>1 DEF ShouldDispatchNow, MatchesTime
    <2> QED
      BY <1>4, <1>5, <2>2
  <1>7. NextIntervalRun(j, t) = next
    BY <1>2 DEF NextIntervalRun
  <1> HIDE DEF next
  <1> QED
    BY <1>5, <1>6, <1>7 DEF FirstDispatchAfter

LEMMA NextHourRunIsFirst ==
    ASSUME NEW j, Supported(j), j.kind = "hours",
           NEW t \in Nat
    PROVE  FirstDispatchAfter(j, t, NextIntervalRun(j, t))
  <1> DEFINE H == MinutesPerHour
             p == Day(t) * HoursPerDay + Hours(t)
             hours == {(t - Minutes(t)) + k * H :
                          k \in 1 .. HorizonDays * HoursPerDay}
             steps == {c \in hours :
                          /\ MatchesDays(Day(c), j.days)
                          /\ Hours(c) % j.every = 0}
             next == Min(steps)
  <1>1. /\ H \in Nat \ {0} /\ HoursPerDay \in Nat \ {0}
        /\ HorizonDays \in Nat /\ HorizonDays > 7
        /\ HorizonDays * HoursPerDay \in Nat
    BY CalendarOK
  <1>2. /\ p \in Nat /\ p * H \in Nat
        /\ t - Minutes(t) = p * H
        /\ p * H <= t /\ t < p * H + H
    <2>1. p \in Nat /\ t = p * H + Minutes(t) /\ Minutes(t) \in 0 .. H - 1
      <3>1. /\ t = p * H + Minutes(t)
            /\ Minutes(t) \in 0 .. H - 1
            /\ Hours(t) \in Nat
        BY <1>1, HourOf
      <3>2. Day(t) \in Nat
        BY DayAndClock
      <3>3. p \in Nat
        BY <1>1, <3>1, <3>2
      <3> QED
        BY <3>1, <3>3
    <2> HIDE DEF p
    <2>2. p * H \in Nat
      BY <1>1, <2>1
    <2> QED
      BY <1>1, <2>1, <2>2
  <1>3. ASSUME NEW k \in Nat
        PROVE  /\ (t - Minutes(t)) + k * H = (p + k) * H
               /\ (p + k) * H \in Nat
    <2> HIDE DEF p
    <2> QED
      BY <1>1, <1>2
  <1>4. ASSUME NEW k \in Nat \ {0}
        PROVE  (p + k) * H > t /\ Minutes((p + k) * H) = 0
    <2> DEFINE q == p + k
    <2>1. q \in Nat /\ p + 1 <= q
      BY <1>2
    <2>2. p * H + H <= q * H /\ q * H \in Nat
      <3> HIDE DEF p, q
      <3> QED
        BY <1>1, <1>2, <2>1
    <2>3. q * H > t
      <3> HIDE DEF p, q
      <3> QED
        BY <1>1, <1>2, <2>2
    <2>4. /\ q \div HoursPerDay \in Nat /\ q % HoursPerDay \in 0 .. HoursPerDay - 1
          /\ q = (q \div HoursPerDay) * HoursPerDay + (q % HoursPerDay)
      <3> HIDE DEF q
      <3> QED
        BY <1>1, <2>1, Division
    <2>5. Minutes(q * H) = 0
      <3> HIDE DEF q
      <3> QED
        BY <2>4, HourBegins
    <2> QED
      BY <2>3, <2>5
  <1>5. steps # {}
    <2>1. PICK d \in Day(t) + 1 .. Day(t) + 7 :
              MatchesDays(d, j.days)
      BY DayAndClock, SomeDayMatches
    <2>2. /\ d \in Nat /\ Day(t) \in Nat
          /\ Day(t) + 1 <= d /\ d <= Day(t) + 7
          /\ Hours(t) \in 0 .. HoursPerDay - 1
      BY DayAndClock, HourOf
    <2> DEFINE q == d * HoursPerDay
               k == q - p
    <2>3. /\ q * H \in Nat /\ Day(q * H) = d
          /\ Hours(q * H) % j.every = 0
      BY <2>2, Midnight
    <2>4. q \in Nat /\ p + 1 <= q /\ q <= p + 7 * HoursPerDay
      <3> DEFINE e == Day(t)
      <3>1. e * HoursPerDay + HoursPerDay <= q
        BY <1>1, <2>2
      <3>2. q <= e * HoursPerDay + 7 * HoursPerDay
        BY <1>1, <2>2
      <3>3. e * HoursPerDay \in Nat /\ q \in Nat
        BY <1>1, <2>2
      <3> QED
        BY <1>1, <2>2, <3>1, <3>2, <3>3
    <2>5. 7 * HoursPerDay <= HorizonDays * HoursPerDay
      BY <1>1
    <2>6. k \in 1 .. HorizonDays * HoursPerDay /\ p + k = q
      <3> HIDE DEF p, q
      <3> QED
        BY <1>1, <1>2, <2>4, <2>5
    <2>7. q * H \in hours
      <3> HIDE DEF p, q, k
      <3>1. (t - Minutes(t)) + k * H = q * H
        BY <1>1, <1>3, <2>6
      <3> QED
        BY <2>6, <3>1
    <2>8. q * H \in steps
      BY <2>1, <2>3, <2>7
    <2> QED
      BY <2>8
  <1>6. ASSUME NEW c \in hours
        PROVE  \E k \in 1 .. HorizonDays * HoursPerDay : c = (p + k) * H /\ c \in Nat
    <2>1. PICK k \in 1 .. HorizonDays * HoursPerDay :
              c = (t - Minutes(t)) + k * H
      OBVIOUS
    <2>2. k \in Nat
      BY <1>1
    <2> QED
      BY <1>3, <2>1, <2>2
  <1>7. next \in steps /\ \A c \in steps : next <= c
    <2>1. steps \subseteq Nat
      BY <1>6
    <2> HIDE DEF steps
    <2> QED
      BY <1>5, <2>1, LeastElement
  <1>8. PICK k \in 1 .. HorizonDays * HoursPerDay : next = (p + k) * H /\ next \in Nat
    BY <1>6, <1>7
  <1>9. next > t /\ ShouldDispatchNow(next, j)
    <2>1. k \in Nat \ {0}
      BY <1>1
    <2>2. next > t /\ Minutes(next) = 0
      BY <1>4, <1>8, <2>1
    <2>3. MatchesDays(Day(next), j.days)
          /\ Hours(next) % j.every = 0
      BY <1>7
    <2> HIDE DEF next
    <2> QED
      BY <2>2, <2>3 DEF ShouldDispatchNow, MatchesTime
  <1>10. ASSUME NEW v \in t + 1 .. next, ShouldDispatchNow(v, j)
         PROVE  v = next
    <2> DEFINE q == Day(v) * HoursPerDay + Hours(v)
               i == q - p
    <2>1. v \in Nat /\ t < v /\ v <= next
      <3> HIDE DEF next
      <3> QED
        BY <1>8
    <2>2. /\ Minutes(v) = 0 /\ Hours(v) % j.every = 0
          /\ MatchesDays(Day(v), j.days)
      BY <1>10 DEF ShouldDispatchNow, MatchesTime
    <2>3. q \in Nat /\ v = q * H
      <3>1. Day(v) \in Nat /\ Hours(v) \in 0 .. HoursPerDay - 1
            /\ v = (Day(v) * HoursPerDay + Hours(v)) * MinutesPerHour + Minutes(v)
        BY <2>1, DayAndClock, HourOf
      <3> QED
        BY <1>1, <2>2, <3>1
    <2>4. p < q
      <3> HIDE DEF p, q
      <3>1. p * H < q * H
        BY <1>1, <1>2, <2>1, <2>3
      <3> QED
        BY <1>1, <1>2, <2>3, <3>1, MultiplesOrdered
    <2>5. ~(p + k < q)
      <3> HIDE DEF p, q, next
      <3>1. ASSUME p + k < q
            PROVE  (p + k) * H + H <= q * H
        BY <1>1, <1>2, <2>3, <3>1
      <3>2. (p + k) * H \in Nat /\ q * H \in Nat
        BY <1>1, <1>2, <2>3
      <3> QED
        BY <1>1, <1>8, <2>1, <2>3, <3>1, <3>2
    <2>6. i \in 1 .. HorizonDays * HoursPerDay /\ p + i = q
      <3> HIDE DEF p, q
      <3> QED
        BY <1>1, <1>2, <2>3, <2>4, <2>5
    <2>7. v \in steps
      <3> HIDE DEF p, q, i
      <3>1. v \in hours
        BY <1>3, <2>3, <2>6
      <3> QED
        BY <2>2, <3>1
    <2> HIDE DEF next
    <2> QED
      BY <1>7, <1>8, <2>1, <2>7
  <1>11. NextIntervalRun(j, t) = next
    BY <1>5 DEF NextIntervalRun
  <1> HIDE DEF next
  <1> QED
    BY <1>8, <1>9, <1>10, <1>11 DEF FirstDispatchAfter

\* The schedules and the times of a scheduler's sweeps.
CalendarTypeOK ==
    /\ schedule \in Schedule
    /\ swept \in Nat
    /\ tick \in Nat

LEMMA CalendarTypes ==
    CalendarSpec => []CalendarTypeOK
  <1>1. CalendarInit => CalendarTypeOK
    BY CalendarOK DEF CalendarInit, CalendarTypeOK
  <1>2. CalendarTypeOK /\ [Tick]_calendar => CalendarTypeOK'
    BY CalendarOK DEF Tick, calendar, CalendarTypeOK
  <1> QED
    BY <1>1, <1>2, PTL DEF CalendarSpec

\* A late tick makes up for exactly the minutes that it is late for: across
\* midnights, weekends and days of any length.
THEOREM CatchUp == CalendarSpec => []CatchUpIsExact
  <1>1. CalendarTypeOK => CatchUpIsExact
    <2> SUFFICES ASSUME CalendarTypeOK, schedule.kind = "fixed", tick > swept
                 PROVE  MissedFixedRuns(schedule, swept, tick)
                            \cup Dispatches(tick, tick)
                        = Dispatches(swept + 1, tick)
      BY DEF CatchUpIsExact
    <2>1. swept \in Nat /\ tick \in Nat /\ swept < tick /\ Supported(schedule)
      BY SchedulesSupported DEF CalendarTypeOK
    <2>2. MissedFixedRuns(schedule, swept, tick) =
              {u \in swept + 1 .. tick - 1 : ShouldDispatchNow(u, schedule)}
      BY <2>1, MissedAreDispatches
    <2> QED
      BY <2>1, <2>2 DEF Dispatches
  <1> QED
    BY <1>1, CalendarTypes, PTL

\* The next run announced to the user is the next minute at which the scheduler
\* dispatches the job, and there always is one.
THEOREM NextRunAnnounced == CalendarSpec => []NextRunIsNextDispatch
  <1>1. CalendarTypeOK => NextRunIsNextDispatch
    <2> SUFFICES ASSUME CalendarTypeOK
                 PROVE  NextRunIsNextDispatch
      OBVIOUS
    <2> DEFINE next == NextRun(schedule, tick)
    <2>1. tick \in Nat /\ Supported(schedule)
      BY SchedulesSupported DEF CalendarTypeOK
    <2>2. FirstDispatchAfter(schedule, tick, next)
      <3>1. CASE schedule.kind = "fixed"
        BY <2>1, <3>1, NextFixedRunIsFirst DEF NextRun
      <3>2. CASE schedule.kind = "minutes"
        BY <2>1, <3>2, NextMinuteRunIsFirst DEF NextRun
      <3>3. CASE schedule.kind = "hours"
        BY <2>1, <3>3, NextHourRunIsFirst DEF NextRun
      <3> QED
        BY <2>1, <3>1, <3>2, <3>3 DEF Supported
    <2> HIDE DEF next
    <2>3. /\ next \in Nat /\ next > tick
          /\ Dispatches(tick + 1, next) = {next}
      BY <2>1, <2>2 DEF FirstDispatchAfter, Dispatches
    <2>4. next # NoRun
      BY <2>3 DEF NoRun
    <2> QED
      BY <2>3, <2>4 DEF NextRunIsNextDispatch, next
  <1> QED
    BY <1>1, CalendarTypes, PTL

\* What CronScheduling leaves to its constant Due is the calendar's: where the
\* minutes due are those at which shouldDispatchNow holds, its sweeps make up for
\* the minutes that getMissedFixedRuns finds.
THEOREM SweepsFollowCalendar ==
    ASSUME NEW j \in Fixed, NEW s, Supported(s), s.kind = "fixed",
           Due[j] = {m \in Minute : ShouldDispatchNow(m, s)},
           NEW from \in Minute, NEW to \in Minute
    PROVE  Missed(j, from, to) = MissedFixedRuns(s, from, to)
  <1>1. from \in Nat /\ to \in Nat /\ from # Never
    BY ConstantsOK DEF Minute, Never
  <1>2. CASE from < to
    <2>1. MissedFixedRuns(s, from, to) =
              {u \in from + 1 .. to - 1 : ShouldDispatchNow(u, s)}
      BY <1>1, <1>2, MissedAreDispatches
    <2> QED
      BY <1>1, <2>1, ConstantsOK DEF Missed, Minute
  <1>3. CASE ~(from < to)
    BY <1>1, <1>3, ConstantsOK DEF Missed, Minute, MissedFixedRuns
  <1> QED
    BY <1>2, <1>3

=============================================================================
