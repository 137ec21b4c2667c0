---------------------------- MODULE CronExecution ----------------------------
(***************************************************************************)
(* The life of one queued cron task.  Two processes share its rows in      *)
(* `tasks` and `cron_runs`: the daemon, which polls for queued tasks, and  *)
(* the Command Centre server, whose queue watcher dispatches, recovers and *)
(* reaps tasks and whose routes take the user's requests and the reports   *)
(* of the hook that runs inside Claude.  Both execute a task with          *)
(* executeCronTask of cron-runtime.js.                                     *)
(*                                                                         *)
(* Every SQL statement commits on its own.  Inside the server a            *)
(* synchronous block (recovery, one reaper pass) admits no other handler   *)
(* of the server, but the daemon, Claude and the user's clock go on        *)
(* between two of its statements: `block` is the server's pc in one.       *)
(***************************************************************************)
EXTENDS Naturals, FiniteSets

CONSTANTS
    Daemon, Server,   \* the two processes
    MaxTries,         \* attempts of one execution: min(retry + 1, 2)
    MaxPid,           \* bound on the Claude processes spawned
    MaxQueueings,     \* bound on how often the task is queued
    MaxLoad,          \* bound on queueings and Claude processes together
    MaxStarts         \* bound on process starts

Executor == {Daemon, Server}
Pid      == 1 .. MaxPid
NoPid    == 0

ASSUME ConstantsOK ==
    /\ Daemon # Server
    /\ MaxTries \in Nat \ {0}
    /\ MaxPid \in Nat
    /\ MaxQueueings \in Nat \ {0}
    /\ MaxLoad \in Nat
    /\ MaxStarts \in Nat

Status  == {"queued", "running", "review", "done"}
Outcome == {"success", "question", "failure", "timeout"}
Run     == {"open", "success", "failure", "timeout", "inferred"}

VARIABLES
    status, needsInput, claudePid, started,   \* the row of `tasks`
    run, extra,        \* its row of `cron_runs`; rows added by later executions
    up,                \* the processes that run
    exec,              \* exec[e]: e's call of executeCronTask
    block,             \* the server's synchronous block
    stopping,          \* the server's cancelTask call
    alive,             \* the Claude processes alive
    spawned, reported, \* how many were spawned; whose hook has reported
    overdue,           \* the run is past its budget (getCronRunBudgetMs)
    queueings, claims, \* history: how often the task was queued and claimed
    starts             \* number of process starts

row     == <<status, needsInput, claudePid, started>>
table   == <<row, run, extra>>
claude  == <<alive, spawned, reported>>
history == <<queueings, claims>>
vars == <<table, up, exec, block, stopping, claude, overdue, starts, history>>

NoCall  == [at |-> "idle", tries |-> 0, child |-> NoPid, outcome |-> "failure", fresh |-> FALSE]
Call    == [at : {"idle", "spawn", "wait", "finalize", "close"}, tries : 0 .. MaxTries,
            child : Pid \cup {NoPid}, outcome : Outcome, fresh : BOOLEAN]
NoBlock == [at |-> "none", pid |-> NoPid, kind |-> "none"]
Block   == [at : {"none", "recoverTask", "recoverRuns", "recoverClose",
                  "judge", "update", "close"},
            pid : Pid \cup {NoPid},
            kind : {"none", "foreign", "own", "pid", "nullPid", "input"}]

TypeOK ==
    /\ status \in Status
    /\ needsInput \in BOOLEAN
    /\ claudePid \in Pid \cup {NoPid}
    /\ started \in BOOLEAN
    /\ run \in Run
    /\ extra \in Nat
    /\ up \subseteq Executor
    /\ exec \in [Executor -> Call]
    /\ block \in Block
    /\ stopping \in {"no", "kill", "finish"}
    /\ alive \subseteq 1 .. spawned
    /\ spawned \in 0 .. MaxPid
    /\ reported \subseteq 1 .. spawned
    /\ overdue \in BOOLEAN
    /\ queueings \in 1 .. MaxQueueings
    /\ claims \in Nat
    /\ starts \in 0 .. MaxStarts

\* enqueueCronJob has just inserted the task and its run.
Init ==
    /\ status = "queued"
    /\ needsInput = FALSE
    /\ claudePid = NoPid
    /\ started = FALSE
    /\ run = "open"
    /\ extra = 0
    /\ up \in SUBSET Executor
    /\ exec = [e \in Executor |-> NoCall]
    /\ block = NoBlock
    /\ stopping = "no"
    /\ alive = {}
    /\ spawned = 0
    /\ reported = {}
    /\ overdue = FALSE
    /\ queueings = 1
    /\ claims = 0
    /\ starts = 0

Executing(e) == exec[e].at # "idle"

\* The server is between two synchronous blocks.
ServerFree == Server \in up /\ block = NoBlock
Free(e)    == e \in up /\ (e = Server => block = NoBlock)

\* isLiveForeignProcess: no cron task has an ownedClaudePid.
LiveForeign(pid) == pid \in alive

-----------------------------------------------------------------------------
(***************************************************************************)
(* executeCronTask.                                                        *)
(***************************************************************************)

SetCall(e, c) == exec' = [exec EXCEPT ![e] = c]
GoTo(e, l)    == exec' = [exec EXCEPT ![e].at = l]

\* claimQueuedCronTask; the mutant drops AND status = 'queued'.
MutClaimable == status \in {"queued", "running"}
Claimable    == status = "queued"

\* The daemon's poll, the event listener, or the reaper's scan of queued tasks:
\* one execution at a time in each process (currentExecution, startingCronTaskIds).
\* Which of them the leader lock admits is left open: while leadership moves, both
\* may take themselves for the one to execute.
Claim(e) ==
    /\ Free(e)
    /\ ~Executing(e)
    /\ Claimable
    /\ status' = "running"
    /\ needsInput' = FALSE
    /\ started' = TRUE
    /\ overdue' = (overdue /\ started)
    /\ claims' = claims + 1
    /\ SetCall(e, [NoCall EXCEPT !.at = "spawn", !.fresh = ~started])
    /\ UNCHANGED <<claudePid, run, extra, up, block, stopping, claude,
                   starts, queueings>>

\* Another attempt, or the end of the loop.  The mutant makes one attempt too many.
MutTried(e, n, o) ==
    SetCall(e, [exec[e] EXCEPT
        !.tries = n,
        !.child = NoPid,
        !.outcome = o,
        !.at = IF o \in {"success", "question"} \/ n > MaxTries
                 THEN "finalize" ELSE "spawn"])
Tried(e, n, o) ==
    SetCall(e, [exec[e] EXCEPT
        !.tries = n,
        !.child = NoPid,
        !.outcome = o,
        !.at = IF o \in {"success", "question"} \/ n = MaxTries
                 THEN "finalize" ELSE "spawn"])

\* spawnClaudeRun starts Claude; the task row is not read again.
Spawn(e) ==
    /\ Free(e)
    /\ exec[e].at = "spawn"
    /\ spawned < MaxPid
    /\ spawned + queueings < MaxLoad
    /\ spawned' = spawned + 1
    /\ alive' = alive \cup {spawned'}
    /\ SetCall(e, [exec[e] EXCEPT !.at = "wait", !.child = spawned'])
    /\ UNCHANGED <<table, up, block, stopping, reported, overdue,
                   starts, history>>

\* The job file is gone (no attempt is made) or the spawn itself fails.
SpawnFails(e) ==
    /\ Free(e)
    /\ exec[e].at = "spawn"
    /\ \/ exec[e].tries = 0 /\ Tried(e, MaxTries, "failure")
       \/ Tried(e, exec[e].tries + 1, "failure")
    /\ UNCHANGED <<table, up, block, stopping, claude, overdue, starts, history>>

\* Claude has exited.  A process ended by a signal has no exit code, and
\* `code || 0` reads that as 0.
ChildClosed(e) ==
    /\ Free(e)
    /\ exec[e].at = "wait"
    /\ exec[e].child \notin alive
    /\ \E o \in {"success", "question", "failure"} : Tried(e, exec[e].tries + 1, o)
    /\ UNCHANGED <<table, up, block, stopping, claude, overdue, starts, history>>

\* The attempt's timeout: SIGTERM, then SIGKILL, exit code 124.
TimeOut(e) ==
    /\ Free(e)
    /\ exec[e].at = "wait"
    /\ exec[e].child \in alive
    /\ alive' = alive \ {exec[e].child}
    /\ Tried(e, exec[e].tries + 1, "timeout")
    /\ UNCHANGED <<table, up, block, stopping, spawned, reported, overdue,
                   starts, history>>

\* finalizeTask: WHERE id = ?, whatever has become of the task.
Finalize(e) ==
    /\ Free(e)
    /\ exec[e].at = "finalize"
    /\ status' = IF exec[e].outcome = "success" THEN "done" ELSE "review"
    /\ needsInput' = (exec[e].outcome = "question")
    /\ claudePid' = NoPid
    /\ GoTo(e, "close")
    /\ UNCHANGED <<started, run, extra, up, block, stopping, claude, overdue,
                   starts, history>>

\* completeCronRunForTask: close the open row, or insert a closed one.
Close(e) ==
    /\ Free(e)
    /\ exec[e].at = "close"
    /\ \/ /\ run = "open"
          /\ run' = IF exec[e].outcome = "question" THEN "failure" ELSE exec[e].outcome
          /\ UNCHANGED extra
       \/ /\ run # "open"
          /\ extra' = extra + 1
          /\ UNCHANGED run
    /\ SetCall(e, NoCall)
    /\ UNCHANGED <<row, up, block, stopping, claude, overdue, starts, history>>

-----------------------------------------------------------------------------
(***************************************************************************)
(* Claude and its SessionStart hook.                                       *)
(***************************************************************************)

Exit(p) ==
    /\ p \in alive
    /\ alive' = alive \ {p}
    /\ UNCHANGED <<table, up, exec, block, stopping, spawned, reported,
                   overdue, starts, history>>

\* POST /api/tasks/sync-session, once a process, at any time after its start: the
\* PID is recorded unless another recorded one is alive.
Report(p) ==
    /\ ServerFree
    /\ p \in (1 .. spawned) \ reported
    /\ reported' = reported \cup {p}
    /\ claudePid' = IF claudePid # p /\ claudePid \in alive THEN claudePid ELSE p
    /\ UNCHANGED <<status, needsInput, started, run, extra, up, exec, block,
                   stopping, alive, spawned, overdue, starts, history>>

-----------------------------------------------------------------------------
(***************************************************************************)
(* performStartupRecovery, statement by statement.                         *)
(***************************************************************************)

Enter(at, pid, kind) == block' = [at |-> at, pid |-> pid, kind |-> kind]

\* The snapshot of the leaf tasks left running or queued.  A block reads the task
\* when the server starts, before it does anything else.
RecoverSelect ==
    IF status \in {"running", "queued"} /\ ~LiveForeign(claudePid)
      THEN Enter("recoverTask", NoPid, "own")
      ELSE Enter("recoverRuns", NoPid,
                 IF status \in {"running", "queued"} THEN "foreign" ELSE "own")

\* UPDATE tasks SET status = 'review' ... WHERE id = ?
RecoverTask ==
    /\ block.at = "recoverTask"
    /\ status' = "review"
    /\ needsInput' = FALSE
    /\ Enter("recoverRuns", NoPid, "own")
    /\ UNCHANGED <<claudePid, started, run, extra, up, exec, stopping, claude,
                   overdue, starts, history>>

\* The open runs of tasks that no live foreign process was seen to hold.
RecoverRuns ==
    /\ block.at = "recoverRuns"
    /\ IF run = "open" /\ block.kind # "foreign"
         THEN Enter("recoverClose", NoPid, "own")
         ELSE block' = NoBlock
    /\ UNCHANGED <<table, up, exec, stopping, claude, overdue, starts, history>>

\* UPDATE cron_runs SET result = 'failure', resultSource = 'inferred' WHERE id = ?
RecoverClose ==
    /\ block.at = "recoverClose"
    /\ run' = "inferred"
    /\ block' = NoBlock
    /\ UNCHANGED <<row, extra, up, exec, stopping, claude, overdue, starts, history>>

-----------------------------------------------------------------------------
(***************************************************************************)
(* The reaper, every 10 s.                                                 *)
(***************************************************************************)

\* isAwaitingCronRuntime; the mutant waits for ever.
MutAwaiting == run = "open"
Awaiting    == run = "open" /\ ~overdue

\* The SELECTs of the three passes over running tasks.
ReapSelect ==
    /\ ServerFree
    /\ status = "running"
    /\ \/ claudePid # NoPid /\ Enter("judge", claudePid, "pid")
       \/ claudePid = NoPid /\ ~needsInput /\ Enter("judge", NoPid, "nullPid")
       \/ needsInput /\ Enter("judge", NoPid, "input")
    /\ UNCHANGED <<table, up, exec, stopping, claude, overdue, starts, history>>

\* A live process is somebody else's; a cron runtime within its budget is awaited.
\* The mutant takes a dead PID for the end of the execution.
MutReapable ==
    \/ block.kind = "pid" /\ block.pid \notin alive
    \/ block.kind = "nullPid" /\ ~Awaiting
    \/ block.kind = "input"

Reapable ==
    \/ block.kind = "pid" /\ block.pid \notin alive /\ ~Awaiting
    \/ block.kind = "nullPid" /\ ~Awaiting
    \/ block.kind = "input"

ReapJudge ==
    /\ block.at = "judge"
    /\ IF Reapable THEN Enter("update", block.pid, block.kind) ELSE block' = NoBlock
    /\ UNCHANGED <<table, up, exec, stopping, claude, overdue, starts, history>>

\* UPDATE tasks ... WHERE id = ?: done (nobody reviews a cron task), or review.
ReapUpdate ==
    /\ block.at = "update"
    /\ \/ /\ block.kind = "input"
          /\ status' = "review"
          /\ needsInput' = FALSE
          /\ UNCHANGED claudePid
       \/ /\ block.kind # "input"
          /\ status' = "done"
          /\ needsInput' = (needsInput /\ block.kind = "nullPid")
          /\ claudePid' = NoPid
    /\ Enter("close", NoPid, "none")
    /\ UNCHANGED <<started, run, extra, up, exec, stopping, claude, overdue,
                   starts, history>>

\* closeRunningCronRuns: WHERE taskId = ? AND result = 'running'.
ReapClose ==
    /\ block.at = "close"
    /\ run' = IF run = "open" THEN "inferred" ELSE run
    /\ block' = NoBlock
    /\ UNCHANGED <<row, extra, up, exec, stopping, claude, overdue, starts, history>>

\* UPDATE tasks SET claudePid = NULL WHERE status IN ('review', 'done')
ClearPid ==
    /\ ServerFree
    /\ status \in {"review", "done"}
    /\ claudePid # NoPid
    /\ claudePid' = NoPid
    /\ UNCHANGED <<status, needsInput, started, run, extra, up, exec, block,
                   stopping, claude, overdue, starts, history>>

-----------------------------------------------------------------------------
(***************************************************************************)
(* The user's requests.                                                    *)
(***************************************************************************)

\* cancelTask: mark, stop the recorded process, move the task to review.
StopMark ==
    /\ ServerFree
    /\ stopping = "no"
    /\ status \in {"queued", "running"}
    /\ stopping' = "kill"
    /\ UNCHANGED <<table, up, exec, block, claude, overdue, starts, history>>

\* killSession: the process tree is gone, there is none, or it cannot be stopped.
StopKill ==
    /\ ServerFree
    /\ stopping = "kill"
    /\ \/ /\ stopping' = "finish"
          /\ alive' = alive \ {claudePid}
          /\ claudePid' = NoPid
          /\ UNCHANGED needsInput
       \/ /\ claudePid \in alive
          /\ stopping' = "no"
          /\ needsInput' = TRUE
          /\ UNCHANGED <<alive, claudePid>>
    /\ UNCHANGED <<status, started, run, extra, up, exec, block, spawned,
                   reported, overdue, starts, history>>

StopFinish ==
    /\ ServerFree
    /\ stopping = "finish"
    /\ stopping' = "no"
    /\ status' = "review"
    /\ needsInput' = FALSE
    /\ claudePid' = NoPid
    /\ started' = FALSE
    /\ UNCHANGED <<run, extra, up, exec, block, claude, overdue, starts, history>>

\* POST execute refuses a running task, but it looks before an await and writes
\* after it; PATCH status: queued does not look at all.
Execute ==
    /\ ServerFree
    /\ queueings < MaxQueueings
    /\ spawned + queueings < MaxLoad
    /\ queueings' = queueings + 1
    /\ status' = "queued"
    /\ UNCHANGED <<needsInput, claudePid, started, run, extra, up, exec, block,
                   stopping, claude, overdue, starts, claims>>

\* PATCH status: review or done.  A cron task has no session to kill.
PatchStatus ==
    /\ ServerFree
    /\ status' \in {"review", "done"}
    /\ needsInput' = (needsInput /\ status' = "review")
    /\ started' = TRUE
    /\ UNCHANGED <<claudePid, run, extra, up, exec, block, stopping, claude,
                   overdue, starts, history>>

-----------------------------------------------------------------------------
(***************************************************************************)
(* Processes and time.                                                     *)
(***************************************************************************)

\* A server recovers before its watcher listens.
Start(e) ==
    /\ e \notin up
    /\ starts < MaxStarts
    /\ starts' = starts + 1
    /\ up' = up \cup {e}
    /\ IF e = Server THEN RecoverSelect ELSE UNCHANGED block
    /\ UNCHANGED <<table, exec, stopping, claude, overdue, history>>

\* A crash or an orderly exit, between any two statements: the call is lost, and
\* Claude runs on.
Down(e) ==
    /\ e \in up
    /\ up' = up \ {e}
    /\ SetCall(e, NoCall)
    /\ \/ /\ e = Server
          /\ block' = NoBlock
          /\ stopping' = "no"
       \/ /\ e = Daemon
          /\ UNCHANGED <<block, stopping>>
    /\ UNCHANGED <<table, claude, overdue, starts, history>>

\* The budget is the timeout of every attempt and ten minutes: no call that began
\* it outlives it.  It is counted from the first claim (COALESCE(startedAt, ?)).
BudgetExpires ==
    /\ ~overdue
    /\ started
    /\ run = "open"
    /\ \A e \in Executor : ~(Executing(e) /\ exec[e].fresh)
    /\ overdue' = TRUE
    /\ UNCHANGED <<table, up, exec, block, stopping, claude, starts, history>>

Attempt(e) ==
    \/ Spawn(e)
    \/ SpawnFails(e)
    \/ ChildClosed(e)
    \/ TimeOut(e)
    \/ Finalize(e)
    \/ Close(e)

InBlock ==
    \/ RecoverTask
    \/ RecoverRuns
    \/ RecoverClose
    \/ ReapJudge
    \/ ReapUpdate
    \/ ReapClose

Next ==
    \/ \E e \in Executor : Claim(e) \/ Attempt(e) \/ Start(e) \/ Down(e)
    \/ \E p \in Pid : Exit(p) \/ Report(p)
    \/ InBlock
    \/ ReapSelect
    \/ ClearPid
    \/ StopMark
    \/ StopKill
    \/ StopFinish
    \/ Execute
    \/ PatchStatus
    \/ BudgetExpires

Spec == Init /\ [][Next]_vars

\* Timers fire, calls return, Claude ends by itself or by its timeout, budgets
\* expire.  Nobody has to press a button and no process has to start or fail.
Fairness ==
    /\ \A e \in Executor : SF_vars(Attempt(e))
    /\ \A p \in Pid : WF_vars(Exit(p))
    /\ WF_vars(InBlock)
    /\ SF_vars(ReapSelect)
    /\ WF_vars(BudgetExpires)

FairSpec == Spec /\ Fairness

-----------------------------------------------------------------------------
(***************************************************************************)
(* Properties.                                                             *)
(***************************************************************************)

\* However many dispatchers see a queued task (daemon poll, task:created,
\* task:status, the reaper's scan), a queueing is executed at most once.
OneExecutionPerQueueing == claims <= queueings

\* The reaper leaves a task to the runtime that executes it: while the run of a
\* first execution is open, no reaper pass decides to finalize the task, whether
\* Claude has not reported yet, is between two attempts, or ended unseen.  (A stop
\* that failed is the exception: it hands the task back to the user.)
ReaperAwaitsRuntime ==
    \A e \in Executor :
        Executing(e) /\ exec[e].fresh /\ run = "open" /\ block.at = "update"
            => block.kind = "input"

\* A task does not stay running for ever: a live executor finishes it, and when
\* the executor is gone the reaper of a server that stays up does, once the budget
\* of the run has passed.
Served == Server \in up
TaskSettles == <>[]Served => (status = "running" ~> status # "running")

=============================================================================
