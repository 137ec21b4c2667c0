# AI-OS: a TLA+ model of the command centre's runtimes

AI-OS is a file workspace with an optional web application, the Command Centre
(`src/command-centre`, Next.js on SQLite). The Command Centre keeps chats and tasks, runs each of
them with a Claude CLI child process, and schedules cron jobs, in the server itself or in a
detached daemon. A memory subsystem (Postgres or the embedded PGlite) indexes the
workspace; a team server holds shared memory, context and identities.

Most of the code is sequential file and form handling. What can really go wrong is
where several processes or requests share a file or a table without a transaction: the cron
runtimes, the executors and recovery passes of cron tasks, the chat sessions, the local memory
store and its outbox, the consolidation of session captures, the team server's roles and
invitations. This directory models those parts, checks them with TLC and proves the central
invariants with TLAPS.

Paths are relative to `src/`; `lib/` is `command-centre/src/lib/`, `scripts/` is
`command-centre/scripts/`.

## 1. Inventory

### Scheduling and execution of cron jobs

| Part | State | Operations | Hard behaviour | What makes it correct |
|---|---|---|---|---|
| Leader lock (`lib/cron-runtime.js`, `lib/owned-file.cjs`) | one JSON file with owner and heartbeat | claim, heartbeat, release, steal; each a rename to a private path, a check, and a link back | system calls of several processes interleave; crashes between them; records that grow old while being judged | no host destroys a live host's record; leadership recovers; one host schedules |
| Tick (`scripts/cron-daemon.cjs`, `lib/cron-scheduler.ts`) | `lastSweepAt`, `isLeader`; rows in `tasks` and `cron_runs` | sweep, catch-up, pause, hand over; `enqueueCronJob` = SELECT, INSERT, INSERT | no unique index; late ticks; failures between the statements | a minute runs once, none is skipped, none is replayed |
| Schedule arithmetic (`lib/cron-runtime.js`) | none | match a minute, next run, missed runs | three functions must agree over midnights and weekends | announced = dispatched; late = punctual |
| Execution (`executeCronTask`), queue watcher (`lib/queue-watcher.ts`), task routes | a row of `tasks`, a row of `cron_runs`, Claude processes, the PID the hook reports | claim, attempts, time-out, finalize; start-up recovery, reaper; stop, execute, status change | two processes write one row by id; the PID is known late; restarts | one execution for each queueing; the reaper waits for the executor; no task stays running |
| Job files, daemon start-up (`lib/cron-service.ts`, `scripts/cron-daemon-startup.cjs`) | Markdown files; PID and status files | CRUD; spawn, status, duplicate detection | PID reuse | one live daemon |

The daemon and the servers never call each other. They meet in the lock file, in the two
tables and in the signals they send to Claude processes. Claude calls back: its
SessionStart hook posts its PID to the server (`/api/tasks/sync-session`).

### Chats and tasks

| Part | State | Hard behaviour | What makes it correct |
|---|---|---|---|
| Sessions (`lib/process-manager.ts`) | a map of sessions, sets of waiting and starting tasks, the task row | `await`s between a look-up and its use; replies during a turn; a late close event of a replaced child | one child for each task; every turn ends in a status; a stop is final |
| Workflow runs and subagents (`process-manager.ts`, `workflow-agent-journal.ts`) | sets of running workflows, a journal on disk | a goal's completion is deferred until its workflows end; a lost session | a goal is completed once, after its workflows, and always in the end |
| Archive, branches (`task-archive.ts`, `task-branch.ts`) | a tree of rows, Git work trees | a cascade with partial failure | archive and restore are inverse |
| Approvals (`approval-requests.ts`, `permission-prompt-mcp.cjs`) | pending requests, polled | an answer races the expiry | a request is answered once |
| Profiles (`local-profile*.ts`, `profile-shutdown-coordinator.ts`, `db.ts`) | descriptor, database handle, a closing marker | activation while closing; a crash within the clean-up | a closed profile leaves no process or secret behind |
| Event bus, watchers, terminals, attachments, drafts | in memory, or files | ordering of listeners | – |

### Memory and team

| Part | State | Hard behaviour | What makes it correct |
|---|---|---|---|
| Outbox (`scripts/lib/memory-sync-outbox.cjs`) | rows with status, dedupe key, retry time | several drains; lost answers; a crash between mark and delete | at-least-once delivery; no row stuck |
| Store lock (`lib/memory/pglite-adapter.ts`) | a lock file with a PID; the store's directory | a half-written lock file; two reclaimers; quarantine | one process opens the store; a crash never wedges it |
| Capture (`lib/memory/capture.ts`) | the day's Markdown file under a directory lock | read-modify-write by several hooks; a lock reclaimed from a slow holder | no turn is lost |
| Staging and consolidation (`lib/memory/api.ts`, `scripts/memory-consolidate.cjs`) | capture rows with status, claim and content; batches with an expiry | no request is a transaction; claims overlap, expire, are released by others; any request redacts decisions a month old | a claim is somebody's; undecided work keeps its content; every capture is decided |
| Company authority (`lib/identity/store.ts`) | company roles, Teams, memberships, grants, requests | transactions in any order, called by handlers whose look-ups are stale; an invitation that is not a transaction | no authority outlives its reason; one company owner; no Team without an owner |
| Invitations (`lib/identity/invites.ts`, `team-auth.ts`) | a token, a claim with a lease and a "credential ready" note in the membership row; the account in another store | requests cut off between two stores, repeated, outliving their lease | a role comes with an account; an invitation works once |
| Index and search, synchronisation | database rows | one transaction each; optimistic concurrency on shared context | no lost update |

`PROJECT.json` lists every component with its status, and under `hazards` each place where the
code is exposed to one of these behaviours, with the property that covers it or the reason why
none does.

## 2. The modules

| Module | Models | Grain |
|---|---|---|
| `CronLeadership` | the lock: `claimRuntimeLeadership`, `refreshRuntimeHeartbeat`, `releaseRuntimeLeadership` on top of `owned-file.cjs`, in both hosts | one action for each system call another process can observe |
| `CronScheduling` | the tick of both hosts, `enqueueCronJob`, manual runs | one action for each SQL statement; the lock is one record |
| `CronSchedule` | the schedule functions | operators; the only state is a clock and the last sweep |
| `CronExecution` | one queued task between its executors, Claude, the hook, recovery, the reaper and the user | one action for each SQL statement or signal |
| `MemoryOutbox` | queue and drain of the outbox | one action for each SQL statement or POST |
| `MemoryStoreLock` | the open-lock of the local store: `acquireOwnerLock`, `openPersisted`, `releaseOwnerLock` | one action for each system call another process can observe |
| `MemoryConsolidation` | the captures of one scope: staging, claim, report, review, release, redaction | one action for each SQL statement of a request |
| `CompanyAuthority` | company roles, Team memberships, grants and access requests | one action for each transaction of the store; two for the invitation handler |
| `Invitations` | one person invited to a Team and to the company | one action for each statement of an acceptance, in either store |
| `TaskSession` | one interactive task: routes, `process-manager.ts`, reaper, Claude, its subagents and workflow runs | one action for each stretch of a handler between two `await`s |
| `CronDispatch` | what the cron runtimes promise together: the abstract specification of dispatching each due minute once | – |
| `MemoryDelivery` | what the outbox promises: the abstract specification of at-least-once delivery | – |
| `MC*` | instances for TLC | |
| `*_proofs` | theorems and proofs | |

**CronLeadership.** `lock` is the file. An owned-file operation of process `p` renames it to
`claim[p]` (`RenameToClaim`), looks at what it got, and either finishes its job
(`SettleMatched`: delete it, or publish the renewed record if the path is still free) or
gives it back (`SettleForeign`: link it back; when the path is taken it stays under the claim
path and its owner enters `stranded`). `at` is the pc, `job` the operation and its caller,
`seen` the record read before, `draft` the record to publish. Time is the age of a record.
`Tick`, `Heartbeat`, `PauseScheduler` and `Shutdown` are the hosts' timers and
signals; `Returned` and `Thrown` say where the caller goes on. An incarnation stands
for a process identifier: a process that is started again is another runtime. Hard links are taken to
be available (without them the code copies, which is not atomic).

**CronScheduling.** A tick claims the lock, computes the due entries (catch-up and the present
minute), enqueues one after another and ends with a heartbeat. `step[p]` is the statement
the sweep is at. The daemon exits on an SQL error, the server's scheduler logs it and goes on
(`SweepThrows`). `tasks` and `rows` count the inserted rows. That the lock is held through
a sweep is an assumption (`MayClaim`); `CronLeadership` shows how far it is justified. There is one live
daemon. The order of the entries of a sweep is left open, which covers the code's. The timetable `Due` is a
constant: `SweepsFollowCalendar` (section 5) says which one `CronSchedule` gives. The runtimes together
implement `CronDispatch` (`DispatchesOnce`: its `runs` are the rows).

**CronExecution.** Each process has at most one call of `executeCronTask` for the task
(`exec`). The synchronous blocks of the server, recovery and reaper passes, admit no other
handler of the server, but the daemon and Claude go on between their statements: `block` is
the server's place in one. What is read at the start of a block and used after is kept in
`block.pid` and `block.kind`. `overdue` abstracts the run's time budget. Which executor the leader
lock admits is left open. The three reaper passes are separate blocks, and the read
and the kill of a stop are one step.

**CronSchedule.** The lengths of the hour and of the day are parameters. `NextRun`, `MissedFixedRuns` and
`ShouldDispatchNow` are written as the code computes them and compared with each other. A supported job has a
time or an interval and a day (`lib/cron-runtime.js:274`; the others are not scheduled), and the horizon of
the search for the next run is more than a week, as the code's two weeks are. Local time has no
daylight-saving changes.

**MemoryOutbox.** `row[k]` is the row with dedupe key `k`. A drain reclaims, selects, and
for each row marks, posts, and deletes or updates it by id; `todo` and `item` are the
snapshot it works from, which another process may have made stale. A POST is answered, lost on the
way, lost on the way back, or refused. The LIMIT of a drain is above the rows of the model.

**MemoryStoreLock.** `lock` is the file: who created it, and the PID in it, which is written in a
second step. A process that meets a file reads the PID (`Read`), asks whether that process lives
(`Check`) and removes whatever is at the path by then (`Remove`). `OpenStore`, `ClearStaleLock` and
`QuarantineDir` are the stages of an open, each of which may fail; what they do to the store is left
out. `Exit` kills a process anywhere. `misread` is a history variable: some reclaim has removed a
file it had not read the PID of: one that was read before the PID was in it, or one that was created
or replaced after the read.

**MemoryConsolidation.** `row[c]` is a capture, `batch[b]` a batch, `call[k]` the request of a client
and what the client has in hand while its model runs, `review[a]` an administrator's request. A
request is a sequence of statements, each an action: `Claim` (expired batches fail), `Release` (their
captures are freed), `Select`, `InsertBatch`, `Take`; `Report`, `Load`, `AssertItem`, `Publish`,
`Settle`, `Finish`; `Decide`, `AcceptPublish`, `SettleReview`. The redaction of old captures
(`Redacted`) goes with the statement next to it. Time is three facts: a capture is ripe, a batch is
expired, a decision is a month old. A behaviour has a scenario: which captures each client may claim,
and which of nine disturbances may happen. `cut` is a history
flag of a batch: a crash has ended its release between the two statements. What a publication writes to the index is left out.

**CompanyAuthority.** The store's operations lock the company or the Team, so each is one action; its
guard is what the transaction itself checks. What a route has looked up before is not relied on,
since it may be stale. Only `inviteMember` reads (`ReadInvitee`) and writes (`WriteInvitation`)
outside a transaction. Names of deleted Teams may be used again.

**Invitations.** `row[i]` is the membership row with its invitation's metadata, `call[r]` an
acceptance: claim, look again, look the account up, create it, note that, take the role, or release
the claim. `accounts` is the other store; an account is told by the issue of the invitation it was
created for. A claim lapses (`FiveMinutesPass`) while its request may go on; `Crash` cuts a request
off. The invitation is sent anew, revoked and expires, and the person's other standings change at any
time.

**TaskSession.** The server is one Node process, so a handler is cut only at its `await`s. The
manager's synchronous methods (`stopSession`, `handleTaskError`, `handleTurnComplete`, `spawnClaudeTurn`) are
operators on a record of what they change, and an action is a composition of them.
`row` is the task's row, `live` the process whose entry the map of sessions has, `entry[p]` the
entry itself, which its callbacks keep after it has left the map. `reply` and `kill` hold the
place of each request between its awaits. `claude[p]` is what Claude does: whether it owes a result, what
works in the background, and which of that the manager was never told of or has forgotten
with the turn (`unwatched`). `openAgents` is what the log says of agents, and `run[w]` what the
journal bridge knows of a run. The manager handles what any child of the task says as the task's own, also the late
output of a replaced one, and so does the model.

Bounds are named constants: `Scenarios` (what happens besides in one behaviour of `TaskSession` and
`MemoryConsolidation`), `Pids`, `MaxPid` (Claude processes: beyond it a spawn can only fail),
`MaxLoad` (queueings and Claude processes together), `MaxQueueings`, `MaxStarts`, `MaxManual`,
`LastMinute`, `MaxGap`, `MaxId`, `Batches` (names, given away again once nobody refers to them),
`MaxInviting`, `MaxIssues`, and the cap of a record's age at `StaleAge + 1`. Where a bound can be
spent, or where everybody may leave the store alone, the system may stop, and the configuration
switches the deadlock check off. `CronScheduling`, `CompanyAuthority` and `Invitations` are checked
for deadlock.

## 3. The runs

| Run | Instance | Checks |
|---|---|---|
| `cron_leadership` | a daemon and a server, staleness 1 | `TypeOK`, `LeadershipInv`, `ForeignRecordSurvives`, `LostLeaderDemotes`, `LeadershipRecovers` |
| `cron_leadership_overlap` | a dead daemon's stale record, a new daemon, two servers, nobody suspended | **violated:** `OnlyOneHostSchedules` |
| `cron_scheduling` | a daemon and a server, a fixed-time and an interval job, 3 minutes; or a calendar: days of 3 hours of 4 minutes, 8 days, gaps up to 30 minutes, 76 schedules | `TypeOK`, `OneRunPerMinute`, `CaughtUp`, `LockedMinutesNotReplayed`, `DispatchesOnce`; `NextRunIsNextDispatch`, `CatchUpIsExact` |
| `cron_execution` | 2 attempts, 2 Claude processes, 2 queueings, 3 of the two together, 1 restart; fair | `TypeOK`, `OneExecutionPerQueueing`, `ReaperAwaitsRuntime`, `TaskSettles` |
| `memory_outbox` | one write, two draining processes, 3 row ids | `OutboxInv`, `AtLeastOnce`, `EveryWriteSettles` |
| `memory_store_lock` | three processes | `LockTypeOK`, `AloneUnlessMisread`, `NeverWedged` |
| `memory_consolidation` | two clients, two captures, two batches, an administrator, six scenarios | `TypeOK`, `ClaimedIsHeld`, `WorkHasContent`, `CapturesSettle` |
| `memory_consolidation_crash` | one client that may vanish, one capture, two batches, a server that may end | **violated:** `ClaimsComeBack` |
| `company_authority` | three users, one Team | `TypeOK`, `AuthorityIsCurrent`, `OneCompanyOwner`, `OwnersRemain` |
| `invitations` | two acceptances at a time, a Team invitation sent twice, a company invitation | `TypeOK`, `AccountComesWithRole`, `SingleUse`, `ClaimRespected` |
| `task_session` | two Claude processes; queueing, a reply and a kill; two replies and a kill; a reply or a kill with an agent and a workflow run | `TypeOK`, `StoppedHasNoSession`, `GoalWaitsForItsWork`, `RunningSettles` |
| `task_session_workflow` | one Claude process, one workflow run, no user | **violated:** `NextResultEndsTheTurn` |

Why the bounds are enough.

* A lost or stolen leader record needs two hosts: one that judges and one whose record is judged; a third
  adds only further judges, except for the overlap, whose run has three. Staleness 1 distinguishes
  fresh, old and stale.
* Three minutes and a job due in two of them give a gap, a catch-up and a present minute. A week and a
  day meet every weekend and midnight. A behaviour of `cron_scheduling` is about the runtimes or about the calendar
  (`about`), since the two share no state; TLC checks that the runtimes' timetable is the one
  `ShouldDispatchNow` gives for two of the calendar's jobs (`TimetableOfCalendar`).
* That two runtimes sweep at once is left out of `cron_scheduling` (`MayClaim`), so `OneRunPerMinute` and
  `DispatchesOnce` are about hosts that take turns; the overlap is the subject of `cron_leadership_overlap`.
* Two queueings are needed for a second execution during a first, a second Claude process for a second
  attempt. Both in one behaviour would only add that the second attempt may be either execution's;
  the safety properties are proved for any number.
* Writes with different keys share no state but the ids. That ids are not mixed up (`KeyedRows` and
  `SnapshotsAgree` of `OutboxInv`) cannot go wrong with the one write of the run, and rests on the proofs,
  which cover any number; what the run tests of the outbox is loss, repetition, crashes and two drains of one row.
* Two processes in the store need a third, whose dead lock both have read.
* The scenarios of `memory_consolidation` set two clients after one capture, or one after two, with every
  disturbance in some scenario, and together those that concern one another.
* In `company_authority` three users are a manager, an owner and somebody whose standing changes; every
  rule relates a user to one Team at a time.
* An invitation that is sent anew under a request, and the other invitation beside it, need two requests and
  two issues.
* In `task_session` two processes give a replaced and a replacing child, and each scenario meets two
  user requests, or one and both kinds of background work; all of them at once are beyond a run of
  minutes. The safety invariants are proved for any number.

What the violated runs show, in the code's own terms:

* **Two hosts schedule at once** (`docs/multi-client-guide.md:319` promises one). To renew or judge the lock
  a host renames it away; another host meets no file, creates the lock, and
  both sweep. No host needs to be slow. `enqueueCronJob` deduplicates by a SELECT
  of its own, so the two may then both record a minute.
* **A capture stays claimed for ever** (`docs/memory/memory-schema.md:152` promises that expired claims are released "so
  captures do not stay stuck in `claimed`"). A request sets the expired batches to failed in one statement
  and frees their captures in the next (`lib/memory/api.ts:5520-5549`, no transaction around them). The server
  ends between the two; later requests look for batches that are still claimed, and pass this one by. The
  client need only have vanished.
* **A finished workflow run is waited for for ever** (`lib/process-manager.ts:3095` promises that the next result finishes the goal). `handleWorkflowRunTerminal` looks
  the session up by the bare task id, every other place by the key of the profile and the task. The run stays
  in the session's books, and each result of the turn is deferred. With equal keys
  (`HostTaskId = TaskKey`, as in the unit tests, which run without a profile) TLC finds no violation.

Seen while modelling. All of this happens in the models (unless said otherwise); the properties say
what holds besides.

* **Cron.** A crash between the two inserts of a dispatch leaves a task without a run, and the minute is
  queued again. The reaper may overwrite a task the daemon has just finished. An exit by signal has
  no exit code and is read as 0. An interval that does not divide the hour gives uneven runs. A
  restarted server moves a task of the working daemon to review if the hook has not reported the PID
  yet (`RecoverSelect`; the comment at `lib/queue-watcher.ts:219` says such tasks keep running). A
  stop kills the attempt, which counts as a failure, and the executor starts the next one
  (`StopKill`, `Tried`; `app/api/tasks/[id]/cancel/route.ts:14` speaks of stopping).
* **Outbox.** The dedupe key of a manual import is the hash of its content alone: a second import of one
  content to another path replaces the first, queued one. `OutboxDelivers` therefore has a hypothesis.
* **Store lock.** Two processes can be in the store: a lock file that is read before the PID is in it
  counts as unreadable and is removed, and of two reclaimers of a dead lock the second removes the
  first one's new lock. `AloneUnlessMisread` says that nothing else lets two in. Not in the model:
  a store that does not open is moved aside together with the queued writes of the outbox in it, also
  when the reason is a passing one; and the identity store is opened with the same option, which
  is documented as meant for derived stores.
* **Consolidation.** A stale `Take` takes captures by id that another report has decided meanwhile. A
  client that reports after its claim has lapsed may publish what another publishes too. A capture
  that is sent again after it was settled gets its old `eligible_after` and its content back. A
  report may leave captures out: its batch is completed all the same, and they stay claimed for ever, without any
  failure (`lib/memory/api.ts:5940`; `buildCompleteItems` does not ask the model for the rest). `ClaimsComeBack` is
  false of this too (scenario `omit`). `ClaimedIsHeld` excepts these captures, and those of a batch whose own release
  was cut short by a crash (the history flag `cut`); `CapturesSettle` excepts the scenarios with either.
* **Authority.** An invitation that was read before the invitee became a Team's owner is written over the
  ownership, and the Team may be left without one; `OwnersRemain` excepts that write.
* **Invitations.** When a request ends between the creation of the account and the note of it, outlives its
  lease there, or is refused after it, the invitation can no longer be accepted: the next request meets
  an account that exists. Two invitations accepted at once may give one person two credentials.
* **Sessions.** A reply that is sent during a stop clears the stop's mark, and the process it starts is
  dropped from the map when the stop ends. A queued task that is still active (waiting after an error,
  or in the middle of a kill) is skipped by the listener. A late result of a replaced child ends the
  turn of the new one. A kill that fails leaves a closing session in the map, which the reaper takes
  for active. Late errors and ends of agents overwrite "done". When a task is marked done, answered
  and queued again while an earlier `executeTask` still awaits the permission mode, that call deletes
  the logs under the live session, whose next result then ends the turn before its agents.
  `GoalWaitsForItsWork` therefore speaks of the agents the logs show as unfinished; it also leaves out
  what the manager was never told of and what an earlier turn left behind (`OwnWork`).

## 4. Fairness

* `CronLeadership`: time passes, system calls return, and timers fire as long as a process runs (strong
  fairness: a host is not always at rest when they do). A claim that meets the moment in
  which another host has the file renamed away starts over; `Decides` says that it does not meet
  that moment for ever, so `LeadershipRecovers` says nothing of two hosts that do. Heartbeats are 15 s apart and the moment takes microseconds.
* `CronExecution`: calls return, Claude ends by itself or by its time-out, budgets expire, the reaper's
  timer fires. Statements of an executor get strong fairness since a block of the server disables them for a while.
  No user action, stop, restart or crash is fair. `TaskSettles` is conditional on a server that stays up.
* `MemoryOutbox`: somebody drains again and again, time passes, and the API answers now and then. The
  statements need strong fairness, since a crash takes a drain back to its beginning.
* `MemoryStoreLock`: system calls return while the process lives. Nobody has to begin an open or to close
  the store; `NeverWedged` is about processes that keep trying.
* `MemoryConsolidation`: time passes, requests go on to their end, a client comes back for more now and
  then, and reports what its model has decided unless it is gone. In scenarios in which models are slow or
  leave captures out, servers crash, claims keep overlapping or captures are sent again,
  `CapturesSettle` promises nothing.
* `CompanyAuthority` and `Invitations` have no liveness properties, hence no fairness.
* `TaskSession`: awaits return, a kill ends or gives up, the journal of a finished run becomes final, the exit of a
  child is reported, the reaper's timer fires. Claude need not answer or exit, and the user need not
  act. `RunningSettles` excepts a kill that could not confirm the end of its process, of which the row tells the user.

`LostLeaderDemotes` and `LeadershipRecovers` are conditional on heartbeats in time, and on active jobs and a
runtime that stays up.

## 5. What is proved

For every value of the constants that satisfies the modules' assumptions:

* **`CronLeadership_proofs`.** `TypeCorrect`, `LeadershipInvariant`, `ForeignRecordsSurvive`. The
  heart is `LeadershipInv`, inductive with `TypeOK`: an entry lies under `p`'s claim path exactly while `p` is
  about to decide on it (so a second rename cannot bury the first), and a renewal is prepared only from
  `p`'s own record. From it follows that each deletion is of a record that was compared after the rename:
  it is the deleter's own, or stale, or torn. The staleness bound and the number of hosts do not matter.
* **`CronScheduling_proofs`, the tick.** `SchedulingTypes`, `OneRunPerMinuteHolds`, `NoReplay`, `NoSkip`,
  `RuntimesKeepPromise`. `OneRunPerMinute` is not
  inductive: it needs `SweepsUnderLock` (whoever is in a sweep holds the lock, hence one process is)
  and `AboutToRecord` (between its SELECT and its INSERT the entry has no row). `SchedulingInv` is their
  conjunction. What a step does to a runtime's memory of its sweeps is one of six things (`Remembering`), and
  nothing to the memory of the others. From that, `SequenceKnown` (`since` is where an unbroken sequence of
  sweeps began, and `lastSweepAt` is not before it) and `HandIsDue` (what a sweep has in hand is due and
  within the sequence) give `NoReplay`, since only what is in hand is recorded. `NoSkip` needs
  `NothingSkipped`: of the minutes a runtime answers for, those up to `lastSweepAt` are recorded, and those up
  to the present sweep are recorded or in its hand. With `OneRunPerMinute`, `HandIsDue` makes each INSERT a
  `Record` of `CronDispatch`, the clock's steps its `TimePasses`, and every other step a stutter.
* **`CronScheduling_proofs`, the schedule arithmetic.** `CatchUp`, `NextRunAnnounced`, `SweepsFollowCalendar`,
  for hours, days and gaps of any length, any times, weekdays and intervals, and any horizon of more than a
  week. The code walks over days and times,
  the definition of a dispatch asks about one minute; that both find the same minutes is arithmetic on quotients
  and remainders (`m = Day(m) * MinutesPerDay + Clock(m)`). That the announced run is the first one uses
  that a nonempty finite set of numbers has a least element; that there is one uses that a supported
  job matches some day of each week (`SomeDayMatches`) and that the horizon is longer.
  `SweepsFollowCalendar` ties the two modules: with the timetable of a calendar's job,
  `CronScheduling`'s `Missed` is `getMissedFixedRuns`.
* **`CronExecution_proofs`.** `OneExecutionPerQueueingHolds`: the strengthening is `ClaimInv`, a queued
  status is a queueing that nobody has claimed yet. `ExecutionTypes`: that an execution makes no more
  attempts than the job allows needs `AttemptsLeft`. `ReaperWaits`: `ReaperInv` says that the budget is
  not spent while a first execution's run is open (the guard of `BudgetExpires`: the code's budget is the sum of
  the attempts' time-outs and a margin), and that what a pass has decided still holds when
  it writes, since a pass is one block and no task is queued within it.
* **`LocalMemory_proofs`, the outbox.** `OutboxInvariant`, `OutboxDelivers`. `OutboxInv` says that ids are not
  reused and that the row a process selected still stands for a write with the selected key, if it is there at all.
  With keys that tell writes apart (the theorem's hypothesis; all but the keys of manual imports do) a
  deleted row is a delivered write, and each step of the outbox is a step or a stutter of
  `MemoryDelivery`.
* **`LocalMemory_proofs`, the open-lock.** `LockTypes`, `StoreIsExclusive`. The invariant says that only live
  processes are anywhere in an open, that who is about to remove a file has found the process whose PID
  it read dead (`OnlyTheLivingAct`), and that, unless a file has been removed whose PID was not read, whoever has created the
  file and not yet removed it finds it at the path, with its PID in it from the write on
  (`OwnersHaveTheFile`). An owner is alive, so without such a removal nobody takes its file; and a file has one
  creator.
* **`MemoryConsolidation_proofs`.** `ConsolidationTypes`, `ClaimsAreHeld`, `WorkKeepsContent`. The invariant
  (`ClaimedIsHeld` with its two exceptions, see section 3) says, besides, that two requests never work on one batch (`OwnBatch`), that a batch is open until its
  captures are taken (`TakesForOpen`), that what a report named and its batch still holds is in the rest
  of the report (`ReportGoesOn`), and that no request can redact what a claim has selected
  (`SelectedHasContent`).
* **`CompanyAuthority_proofs`.** `CompanyTypes`, `AuthorityStaysCurrent`, `NeverTwoOwners`,
  `OwnersAlwaysRemain`. The invariants are inductive as they stand, with the types: each operation that
  ends a standing or a Team has to end what rests on it. The action property follows from them, one
  operation after another.
* **`Invitations_proofs`.** `InvitationTypes`, `RoleComesWithAccount`, `AcceptedOnce`, `ClaimsAreRespected`. The
  heart of `InvitationInv` is `ClaimsAreForIssues`: a claim stands for the issue its holder presented,
  since sending the invitation anew removes the claim; so the account that was created under a claim
  is the one that is noted, and a spent token never comes back.
* **`TaskSession_proofs`.** `SessionInvariant`, `SessionTypes`, `StopIsFinal`, `TurnWaitsForItsWork`. The manager's methods are
  functions, and `Gentle` says what each of them keeps: the types, the mark of a stop, that under the
  mark no session is registered and no process recorded, and that no workflow run is added to the
  books. An action keeps what the methods it is composed of keep. `StoppedHasNoSession` is not
  inductive: `MarkIsHeld` adds that while the mark is set and the session or the PID is still there, a
  kill is to come or has failed. `Unlaunched` (a run that has yet to be launched is not at work) keeps
  active and terminalizing runs apart. `TurnWaitsForItsWork` rests on `Watched`: the books of the
  session have every agent and every run of its own turn that the logs and the journals show as
  unfinished; so a method that finds the books empty of them may end the turn. It is kept since a piece of work
  is done by one process (`WorkOnce`), since the methods take from the books only what is finished
  (`Minds`), and since what is begun is entered, or is not the manager's to wait for.

Only model-checked: the liveness properties (`LostLeaderDemotes`, `LeadershipRecovers`, `TaskSettles`,
`EveryWriteSettles`, `NeverWedged`, `CapturesSettle`, `RunningSettles`), since TLAPS has no rule for `ENABLED`
here. Every invariant, action property and refinement that a passing run checks is proved, under the
assumptions named above.

## 6. Not modelled

* Reply and resume of an execution's session, archiving, protected tasks and the daemon's status file in `CronExecution`;
  a status PATCH to anything but queued, review and done.
* In `TaskSession`: the first reply of a backlog subtask, plan approval, permission requests, a changed work scope, branches and container tasks,
  archiving, a restart of the server or a second one, the agents of a workflow run, a journal that cannot be finalized.
* A restart of the server in `TaskSession`: it would need children that outlive their server and whose output nobody
  reads. Start-up recovery itself is in `CronExecution`.
* In `MemoryStoreLock`: the contents of the store, reused PIDs, a lock file that cannot be removed.
* In `CompanyAuthority`: accounts, sessions, audit rows, and what routes look up before they call the store.
* In `Invitations`: that an invited person gets in. It would need strong fairness of some two dozen steps and
  requests that stop colliding, and is false after the cut-offs described in section 3.
* The user interface, installation scripts, search and ranking, file CRUD: no concurrency of their own.
  They are most of the repository's lines.
* More than one profile in one server; clocks that jump; file systems without hard links.

## 7. Plan

In this order:

1. `TaskSession` extended: a second server, a restart, permission requests, archiving, the agents of a
   workflow run.
2. The composition of `MemoryStoreLock` and `MemoryOutbox`: a quarantined store takes the outbox along.
3. `ProfileLifecycle`, `Approvals`, `TaskArchive`, `MemoryCapture`, `ContextSync`, `DaemonStartup`.
4. Proofs: an abstract lock that `CronLeadership` implements when no claim meets a rename; abstract
   specifications of an execution and of an invitation, and that the detailed ones implement them.
