---------------------------- MODULE TaskSession ----------------------------
(***************************************************************************)
(* One interactive task of the Command Centre and the Claude processes     *)
(* that work on it (process-manager.ts, with the task routes and the       *)
(* reaper that use it).  The server is one Node process: a handler runs    *)
(* without interruption up to its next await, which is where an action     *)
(* ends.  Claude answers a message with a result; subagents and workflow   *)
(* runs of a turn go on in the background, and the manager keeps books on  *)
(* them to defer the end of the turn.                                      *)
(*                                                                         *)
(* The manager keeps its session entries under the key of the profile and  *)
(* the task (taskKey).  A session entry outlives its place in the map: the *)
(* callbacks of its child keep it, and look the task up again.             *)
(***************************************************************************)
EXTENDS FiniteSets

CONSTANTS
    Pids,                \* bound on the Claude processes spawned
    Replies, Kills,      \* the user's replies; the user's stops and "done"s
    Agents, Runs,        \* subagents and workflow runs Claude may launch
    None,
    TaskKey, HostTaskId, \* the key in the map of sessions, and the bare task id
    Scenarios            \* bound: what the user and Claude may do besides answering;
                         \* sets of replies, kills, agents, runs and "queue"

ASSUME SessionAssumption ==
    /\ None \notin Pids
    /\ Agents \cap Runs = {}
    /\ \A s \in Scenarios : s \subseteq Replies \cup Kills \cup Agents \cup Runs \cup {"queue"}

VARIABLES
    row,        \* the row of tasks: status, needsInput, cancelRequestedAt, claudePid
    live,       \* sessions: the process whose entry is in the map
    waiting,    \* waitingForReply
    exec,       \* executeTask; startingTasks has the task while it is not "off"
    entry,      \* the session entry of each process
    kid,        \* the processes
    claude,     \* what each Claude does: owes a result, works in the background
    openAgents, \* the agents task_logs shows as unfinished
    run,        \* the journal bridge's view of a workflow run
    reply,      \* the reply requests
    kill,       \* the cancel and PATCH-to-done requests
    todo,       \* what of the scenario has not happened yet
    subtask     \* the task has a parent

vars == <<row, live, waiting, exec, entry, kid, claude, openAgents, run,
          reply, kill, todo, subtask>>

Status == {"queued", "running", "review", "done"}
Work   == Agents \cup Runs

NewEntry == [closing |-> FALSE, agents |-> {}, runs |-> {}, terminalizing |-> {},
             pending |-> FALSE, deferred |-> FALSE, completed |-> FALSE]
Resting  == [owes |-> FALSE, doing |-> {}, unwatched |-> {}]
NoReply  == [at |-> "idle", marked |-> FALSE]
NoKill   == [at |-> "idle", stop |-> FALSE, target |-> None, runs |-> {}]

TypeOK ==
    /\ row \in [status : Status, needsInput : BOOLEAN, mark : BOOLEAN, pid : Pids \cup {None}]
    /\ live \in Pids \cup {None}
    /\ waiting \in BOOLEAN
    /\ exec \in {"off", "checking", "starting"}
    /\ entry \in [Pids -> [closing : BOOLEAN, agents : SUBSET Agents, runs : SUBSET Runs,
                           terminalizing : SUBSET Runs, pending : BOOLEAN,
                           deferred : BOOLEAN, completed : BOOLEAN]]
    /\ \A p \in Pids : entry[p].runs \cap entry[p].terminalizing = {}
    /\ kid \in [Pids -> {"unused", "up", "exiting", "dead", "closed"}]
    /\ claude \in [Pids -> [owes : BOOLEAN, doing : SUBSET Work, unwatched : SUBSET Work]]
    /\ openAgents \subseteq Agents
    /\ run \in [Runs -> [at : {"none", "opening", "observed", "failed", "finalizing", "terminal"},
                         owner : Pids \cup {None}]]
    /\ reply \in [Replies -> [at : {"idle", "checking", "cleared", "sending", "waking", "resuming"},
                              marked : BOOLEAN]]
    /\ kill \in [Kills -> [at : {"idle", "journals", "killing", "finishing", "failed"},
                           stop : BOOLEAN, target : Pids \cup {None}, runs : SUBSET Runs]]
    /\ todo \subseteq Replies \cup Kills \cup Work \cup {"queue"}
    /\ subtask \in BOOLEAN

\* A task has just been queued, and the listener has called executeTask.
Init ==
    /\ row = [status |-> "queued", needsInput |-> FALSE, mark |-> FALSE, pid |-> None]
    /\ live = None
    /\ waiting = FALSE
    /\ exec = "checking"
    /\ kid = [p \in Pids |-> "unused"]
    /\ claude = [p \in Pids |-> Resting]
    /\ entry = [p \in Pids |-> NewEntry]
    /\ openAgents = {}
    /\ run = [w \in Runs |-> [at |-> "none", owner |-> None]]
    /\ reply = [r \in Replies |-> NoReply]
    /\ kill = [k \in Kills |-> NoKill]
    /\ todo \in Scenarios
    /\ subtask \in BOOLEAN

-----------------------------------------------------------------------------
(***************************************************************************)
(* The manager's methods, as functions on what they change.                *)
(***************************************************************************)

World == [row |-> row, live |-> live, waiting |-> waiting,
          entry |-> entry, kid |-> kid, claude |-> claude]

Becomes(m) ==
    /\ row' = m.row
    /\ live' = m.live
    /\ waiting' = m.waiting
    /\ entry' = m.entry
    /\ kid' = m.kid
    /\ claude' = m.claude

\* SIGTERM to the process tree.
Terminated(m, p) == IF p = None \/ m.kid[p] # "up" THEN m ELSE [m EXCEPT !.kid[p] = "exiting"]

\* storeClaudePid: never on a task that is being stopped.
StorePid(m, p) == IF p = None \/ m.row.mark THEN m ELSE [m EXCEPT !.row.pid = p]

StatusSet(m, status, input) == [m EXCEPT !.row.status = status, !.row.needsInput = input]

\* The session entry in the map is closed and its process told to end.
LiveClosed(m) ==
    IF m.live = None THEN m
    ELSE [Terminated([m EXCEPT !.entry[m.live].closing = TRUE], m.live) EXCEPT !.live = None]

StopSession(m) == [LiveClosed(m) EXCEPT !.waiting = FALSE, !.row.pid = None]

HandleTaskError(m) ==
    IF m.row.mark THEN m
    ELSE [StopSession(StatusSet(m, "review", TRUE)) EXCEPT !.waiting = TRUE]

HandleLostLiveSession(m) ==
    IF m.row.mark THEN m
    ELSE [StatusSet(LiveClosed(m), "review", TRUE) EXCEPT !.waiting = TRUE, !.row.pid = None]

\* setNextTurnParser: the books of a turn are empty.
CleanBooks(m, p) == [m EXCEPT !.entry[p] = [NewEntry EXCEPT !.closing = m.entry[p].closing]]

\* The message reaches Claude, which from now on owes a result.
NextTurn(m, p) ==
    [CleanBooks(m, p) EXCEPT !.claude[p].owes = TRUE, !.claude[p].unwatched = m.claude[p].doing]

\* The preparation claim of spawnClaudeTurn; the mutant drops its condition.
MutSpawnAllowed(m) == TRUE
SpawnAllowed(m) == ~m.row.mark

\* spawnClaudeTurn, one synchronous block.  It can fail before the process exists (no
\* saved Claude session, no permission bridge, no executable), or on the first message.
\* An earlier entry is replaced in the map, not closed.
SpawnClaudeTurn(m) ==
    IF ~SpawnAllowed(m) THEN {m}
    ELSE LET unused  == {p \in Pids : m.kid[p] = "unused"}
             p       == CHOOSE q \in unused : TRUE
             started == StorePid(NextTurn([m EXCEPT !.live = p, !.kid[p] = "up"], p), p)
         IN {HandleTaskError(m)} \cup
            (IF unused = {} THEN {} ELSE {started, HandleLostLiveSession(started)})

\* What the end of a turn waits for; the mutant forgets the workflow runs.
MutPendingWork(e) == e.agents
PendingWork(e) == e.agents \cup e.runs \cup e.terminalizing

\* handleTurnComplete, of an interactive task.  Known agents are first compared with the logs.
HandleTurnComplete(m, question) ==
    LET s       == m.live
        agents  == IF s # None /\ m.entry[s].agents # {} THEN openAgents ELSE {}
        checked == IF s = None THEN m ELSE [m EXCEPT !.entry[s].agents = agents]
        settled == IF s = None THEN m
                   ELSE [checked EXCEPT !.entry[s].deferred = FALSE, !.entry[s].pending = FALSE]
    IN IF m.row.mark THEN m
       ELSE IF m.row.status = "done" THEN StopSession(m)
       ELSE IF s # None /\ PendingWork(checked.entry[s]) # {}
       THEN StorePid(StatusSet([checked EXCEPT
                         !.entry[s].deferred = TRUE,
                         !.entry[s].pending = /\ m.entry[s].runs = {}
                                              /\ m.entry[s].terminalizing # {}
                                              /\ agents = {}],
                     "running", FALSE), s)
       ELSE IF ~subtask
       THEN StorePid([StatusSet(settled, "review", TRUE) EXCEPT !.waiting = TRUE], s)
       ELSE IF question /\ s # None
       THEN StorePid([settled EXCEPT !.row.needsInput = TRUE, !.waiting = TRUE], s)
       ELSE StopSession(StatusSet(settled, "review", TRUE))

\* updateWorkflowWaitStatus and its kin: the task is running again.
Busy(m) == StatusSet(m, "running", FALSE)

HasActiveSession == live # None \/ waiting \/ exec # "off"

-----------------------------------------------------------------------------
(***************************************************************************)
(* Starting: the queue watcher's listener and executeTask.                 *)
(***************************************************************************)

\* The execute route, or a PATCH to queued; the route's look at the status lies before an
\* await and may be stale.  The listener runs in the same block, and leaves a task alone
\* that is active already.
Queue ==
    /\ "queue" \in todo
    /\ todo' = todo \ {"queue"}
    /\ row' = [row EXCEPT !.status = "queued", !.mark = FALSE]
    /\ exec' = IF HasActiveSession THEN exec ELSE "checking"
    /\ UNCHANGED <<live, waiting, entry, kid, claude, openAgents, run, reply, kill, subtask>>

\* After the check of the permission mode: the claim, and the start of a fresh turn,
\* which deletes the logs.
ExecuteClaims ==
    /\ exec = "checking"
    /\ IF row.status = "queued" /\ ~row.mark
       THEN /\ row' = [row EXCEPT !.status = "running", !.needsInput = FALSE]
            /\ exec' = "starting"
            /\ openAgents' = {}
       ELSE /\ exec' = "off"
            /\ UNCHANGED <<row, openAgents>>
    /\ UNCHANGED <<live, waiting, entry, kid, claude, run, reply, kill, todo, subtask>>

\* The file watcher is ready: Claude is spawned.
ExecuteSpawns ==
    /\ exec = "starting"
    /\ exec' = "off"
    /\ \E m \in SpawnClaudeTurn(World) : Becomes(m)
    /\ UNCHANGED <<openAgents, run, reply, kill, todo, subtask>>

\* The permission mode is not available, or the client's directory is gone.
ExecuteFails ==
    /\ exec # "off"
    /\ exec' = "off"
    /\ Becomes(HandleTaskError(World))
    /\ UNCHANGED <<openAgents, run, reply, kill, todo, subtask>>

-----------------------------------------------------------------------------
(***************************************************************************)
(* The reply route.                                                        *)
(***************************************************************************)

ReplyGoes(r, at) == reply' = [reply EXCEPT ![r] = [NoReply EXCEPT !.at = at]]
KeepsWorld == UNCHANGED <<live, waiting, entry, kid, claude>>

ReplyArrives(r) ==
    /\ r \in todo
    /\ row.needsInput \/ row.status \in {"running", "review", "done"}
    /\ todo' = todo \ {r}
    /\ reply' = [reply EXCEPT ![r] = [at |-> "checking", marked |-> row.mark]]
    /\ UNCHANGED <<row, exec, openAgents, run, kill, subtask>>
    /\ KeepsWorld

\* The route clears the stop it read before its first await.
ReplyClears(r) ==
    /\ reply[r].at = "checking"
    /\ row' = IF reply[r].marked THEN [row EXCEPT !.mark = FALSE] ELSE row
    /\ ReplyGoes(r, "cleared")
    /\ UNCHANGED <<exec, openAgents, run, kill, todo, subtask>>
    /\ KeepsWorld

\* Permission mode, authorization or an empty message: before or after the clearing.
ReplyRefused(r) ==
    /\ reply[r].at \in {"checking", "cleared"}
    /\ ReplyGoes(r, "idle")
    /\ UNCHANGED <<row, exec, openAgents, run, kill, todo, subtask>>
    /\ KeepsWorld

\* The row is set running; replyToTask looks the session up and awaits the Team context.
\* With no session and nothing waiting it answers false (needsInput has just been reset),
\* and the route turns to spawnContinueTurn.
ReplyAccepted(r) ==
    /\ reply[r].at = "cleared"
    /\ row' = [row EXCEPT !.status = "running", !.needsInput = FALSE]
    /\ ReplyGoes(r, IF live # None THEN "sending" ELSE IF waiting THEN "waking" ELSE "resuming")
    /\ UNCHANGED <<exec, openAgents, run, kill, todo, subtask>>
    /\ KeepsWorld

\* sendToLiveSession to the session that is in the map now.
ReplySent(r) ==
    /\ reply[r].at = "sending"
    /\ \/ /\ live # None
          /\ kid[live] \in {"up", "exiting"}
          /\ Becomes(StorePid([NextTurn(World, live) EXCEPT !.waiting = FALSE], live))
          /\ ReplyGoes(r, "idle")
       \/ /\ live # None
          /\ kid[live] # "up"
          /\ Becomes(StopSession(CleanBooks(World, live)))
          /\ ReplyGoes(r, "resuming")
       \/ /\ live = None
          /\ ReplyGoes(r, "resuming")
          /\ UNCHANGED row
          /\ KeepsWorld
    /\ UNCHANGED <<exec, openAgents, run, kill, todo, subtask>>

\* The Team context or skills have changed: the session is restarted.
ReplyRestarts(r) ==
    /\ reply[r].at = "sending"
    /\ \E m \in SpawnClaudeTurn(StopSession(World)) : Becomes(m)
    /\ ReplyGoes(r, "idle")
    /\ UNCHANGED <<exec, openAgents, run, kill, todo, subtask>>

\* replyToTask without a session: resume, unless the task is being stopped.
ReplyResumes(r) ==
    /\ reply[r].at = "waking"
    /\ IF row.mark
       THEN /\ waiting' = FALSE
            /\ ReplyGoes(r, "resuming")
            /\ UNCHANGED <<row, live, entry, kid, claude>>
       ELSE /\ \E m \in SpawnClaudeTurn([World EXCEPT !.waiting = FALSE]) : Becomes(m)
            /\ ReplyGoes(r, "idle")
    /\ UNCHANGED <<exec, openAgents, run, kill, todo, subtask>>

\* spawnContinueTurn, after its own look at the Team context.
ReplyContinues(r) ==
    /\ reply[r].at = "resuming"
    /\ \E m \in SpawnClaudeTurn([World EXCEPT !.waiting = FALSE]) : Becomes(m)
    /\ ReplyGoes(r, "idle")
    /\ UNCHANGED <<exec, openAgents, run, kill, todo, subtask>>

ReplyStep(r) ==
    \/ ReplyClears(r) \/ ReplyRefused(r) \/ ReplyAccepted(r) \/ ReplySent(r)
    \/ ReplyRestarts(r) \/ ReplyResumes(r) \/ ReplyContinues(r)

-----------------------------------------------------------------------------
(***************************************************************************)
(* Stopping and marking done.                                              *)
(***************************************************************************)

\* killSession up to its first await: it aims at the session in the map or, without one, at
\* the recorded PID.
Aimed(m) ==
    LET target == IF m.live # None THEN m.live ELSE m.row.pid
    IN Terminated(IF m.live = None THEN m ELSE [m EXCEPT !.entry[m.live].closing = TRUE], target)
TargetOf(m) == IF m.live # None THEN m.live ELSE m.row.pid

\* cancelTask marks the task and asks the journal bridge to finalize its runs.
StopMarks(k) ==
    /\ k \in todo
    /\ row.status \in {"queued", "running"}
    /\ todo' = todo \ {k}
    /\ row' = [row EXCEPT !.mark = TRUE]
    /\ kill' = [kill EXCEPT ![k] = [at |-> "journals", stop |-> TRUE, target |-> None,
                    runs |-> {w \in Runs : run[w].at \in {"observed", "finalizing"}}]]
    /\ run' = [w \in Runs |-> IF run[w].at = "observed"
                              THEN [run[w] EXCEPT !.at = "finalizing"] ELSE run[w]]
    /\ UNCHANGED <<exec, openAgents, reply, subtask>>
    /\ KeepsWorld

StopKills(k) ==
    /\ kill[k].at = "journals"
    /\ \A w \in kill[k].runs : run[w].at = "terminal"
    /\ Becomes(Aimed(World))
    /\ kill' = [kill EXCEPT ![k].at = "killing", ![k].target = TargetOf(World), ![k].runs = {}]
    /\ UNCHANGED <<exec, openAgents, run, reply, todo, subtask>>

\* PATCH to done: the row first, then the process if there is an active session.
MarkDone(k) ==
    /\ k \in todo
    /\ todo' = todo \ {k}
    /\ LET m == StatusSet(World, "done", FALSE)
       IN IF HasActiveSession
          THEN /\ Becomes(Aimed(m))
               /\ kill' = [kill EXCEPT ![k].at = "killing", ![k].target = TargetOf(m)]
          ELSE /\ Becomes(m)
               /\ UNCHANGED kill
    /\ UNCHANGED <<exec, openAgents, run, reply, subtask>>

\* The process is gone.  The map loses whatever entry it has by now.
KillSucceeds(k) ==
    /\ kill[k].at = "killing"
    /\ kill[k].target # None => kid[kill[k].target] \in {"dead", "closed"}
    /\ live' = None
    /\ waiting' = FALSE
    /\ row' = [row EXCEPT !.pid = None]
    /\ kill' = [kill EXCEPT ![k] = IF kill[k].stop THEN [NoKill EXCEPT !.at = "finishing"] ELSE NoKill]
    /\ UNCHANGED <<exec, entry, kid, claude, openAgents, run, reply, todo, subtask>>

\* It survived SIGKILL: a stop says so, the PATCH route swallows it.
KillFails(k) ==
    /\ kill[k].at = "killing"
    /\ kill[k].target # None
    /\ kid[kill[k].target] = "exiting"
    /\ kill' = [kill EXCEPT ![k] = [NoKill EXCEPT !.at = "failed"]]
    /\ row' = IF kill[k].stop THEN [row EXCEPT !.needsInput = TRUE] ELSE row
    /\ UNCHANGED <<exec, openAgents, run, reply, todo, subtask>>
    /\ KeepsWorld

StopFinishes(k) ==
    /\ kill[k].at = "finishing"
    /\ kill' = [kill EXCEPT ![k] = NoKill]
    /\ row' = [row EXCEPT !.status = "review", !.needsInput = FALSE, !.pid = None]
    /\ UNCHANGED <<exec, openAgents, run, reply, todo, subtask>>
    /\ KeepsWorld

KillStep(k) == StopKills(k) \/ KillSucceeds(k) \/ KillFails(k) \/ StopFinishes(k)

-----------------------------------------------------------------------------
(***************************************************************************)
(* Claude: its output, and its end.                                        *)
(***************************************************************************)

\* A process that was told to end, or has ended, may still have output in the pipe.
Speaks(p) == kid[p] \in {"up", "exiting", "dead"}
InTurn(p) == Speaks(p) /\ claude[p].owes

\* A result of the parent agent.  A second one within a turn counts only while the
\* completion is deferred or expected (shouldProcessResultAfterCompletion).
ParentResult(p) ==
    /\ InTurn(p)
    /\ LET heard == [World EXCEPT !.claude[p].owes = FALSE, !.entry[p].completed = TRUE]
       IN IF entry[p].completed /\ ~entry[p].deferred /\ ~entry[p].pending
          THEN Becomes([World EXCEPT !.claude[p].owes = FALSE])
          ELSE \/ \E question \in BOOLEAN : Becomes(HandleTurnComplete(heard, question))
               \/ Becomes(HandleTaskError(heard))
    /\ UNCHANGED <<exec, openAgents, run, reply, kill, todo, subtask>>

\* The parent asks the user something.
Question(p) ==
    /\ InTurn(p)
    /\ ~row.mark
    /\ row' = [row EXCEPT !.needsInput = TRUE]
    /\ UNCHANGED <<exec, openAgents, run, reply, kill, todo, subtask>>
    /\ KeepsWorld

\* addLogEntry, handleSubagentToolUse: nothing is noted while the task is being stopped, and
\* the entry it is noted in is the one in the map.
AgentStarts(p, a) ==
    /\ InTurn(p)
    /\ a \in todo
    /\ todo' = todo \ {a}
    /\ LET m == [World EXCEPT !.claude[p].doing = @ \cup {a}]
       IN IF row.mark
          THEN /\ Becomes([m EXCEPT !.claude[p].unwatched = @ \cup {a}])
               /\ UNCHANGED openAgents
          ELSE /\ openAgents' = openAgents \cup {a}
               /\ Becomes(IF live = None \/ a \in entry[live].agents THEN m
                          ELSE Busy([m EXCEPT !.entry[live].agents = @ \cup {a}]))
    /\ UNCHANGED <<exec, run, reply, kill, subtask>>

\* handleSubagentToolResult; the parent goes on to collect it.
AgentEnds(p, a) ==
    /\ Speaks(p)
    /\ a \in claude[p].doing
    /\ LET m == [World EXCEPT !.claude[p].doing = @ \ {a}, !.claude[p].owes = TRUE,
                              !.claude[p].unwatched = @ \ {a}]
           n == [m EXCEPT !.entry[live].agents = @ \ {a}]
       IN IF row.mark
          THEN /\ Becomes(m)
               /\ UNCHANGED openAgents
          ELSE /\ openAgents' = openAgents \ {a}
               /\ Becomes(IF live = None \/ a \notin entry[live].agents THEN m
                          ELSE IF n.entry[live].agents # {} THEN Busy(n)
                          ELSE StorePid(Busy(n), live))
    /\ UNCHANGED <<exec, run, reply, kill, todo, subtask>>

\* handleWorkflowLaunch; observeLaunch opens the journal meanwhile.
RunLaunched(p, w) ==
    /\ InTurn(p)
    /\ w \in todo
    /\ todo' = todo \ {w}
    /\ LET m == [World EXCEPT !.claude[p].doing = @ \cup {w}]
       IN IF row.mark \/ live = None
          THEN /\ Becomes([m EXCEPT !.claude[p].unwatched = @ \cup {w}])
               /\ run' = [run EXCEPT ![w].at = "failed"]
          ELSE /\ Becomes(Busy([m EXCEPT !.entry[live].runs = @ \cup {w},
                                         !.entry[live].pending = FALSE]))
               /\ run' = [run EXCEPT ![w] = [at |-> "opening", owner |-> live]]
    /\ UNCHANGED <<exec, openAgents, reply, kill, subtask>>

\* The journal is watched, or cannot be: then the run is no longer waited for.
JournalOpened(w) ==
    /\ run[w].at = "opening"
    /\ run' = [run EXCEPT ![w] = [at |-> "observed", owner |-> None]]
    /\ UNCHANGED <<row, exec, openAgents, reply, kill, todo, subtask>>
    /\ KeepsWorld

JournalFails(w) ==
    /\ run[w].at = "opening"
    /\ run' = [run EXCEPT ![w] = [at |-> "failed", owner |-> None]]
    /\ entry' = [entry EXCEPT ![run[w].owner].runs = @ \ {w}]
    /\ claude' = [p \in Pids |->
                    [claude[p] EXCEPT !.unwatched = @ \cup ({w} \cap claude[p].doing)]]
    /\ UNCHANGED <<row, live, waiting, kid, exec, openAgents, reply, kill, todo, subtask>>

\* The books after the end of a run: only the next result of the parent may end the turn,
\* and the run is terminalizing until its journal is final.  The mutant leaves it active.
MutRunIsOver(e, w, known) ==
    [e EXCEPT !.terminalizing = IF known THEN @ \cup {w} ELSE @,
              !.deferred = FALSE, !.pending = TRUE]
RunIsOver(e, w, known) ==
    [e EXCEPT !.runs = @ \ {w}, !.terminalizing = IF known THEN @ \cup {w} ELSE @,
              !.deferred = FALSE, !.pending = TRUE]

\* handleWorkflowTerminal: Claude is notified that the run is over.
RunEnds(p, w) ==
    /\ Speaks(p)
    /\ w \in claude[p].doing
    /\ LET m == [World EXCEPT !.claude[p].doing = @ \ {w}, !.claude[p].owes = TRUE,
                              !.claude[p].unwatched = @ \ {w}]
           known == run[w].at \in {"observed", "finalizing", "terminal"}
       IN IF row.mark
          THEN /\ Becomes(m)
               /\ UNCHANGED run
          ELSE /\ Becomes(IF live = None THEN m
                          ELSE Busy([m EXCEPT !.entry[live] = RunIsOver(@, w, known)]))
               /\ run' = IF run[w].at = "observed"
                         THEN [run EXCEPT ![w].at = "finalizing"] ELSE run
    /\ UNCHANGED <<exec, openAgents, reply, kill, todo, subtask>>

\* What the map has under a key.
SessionUnder(key) == IF key = TaskKey THEN live ELSE None

\* The journal is final: handleWorkflowRunTerminal looks the session up by the bare task id.
JournalFinal(w) ==
    /\ run[w].at = "finalizing"
    /\ run' = [run EXCEPT ![w].at = "terminal"]
    /\ LET s == SessionUnder(HostTaskId)
       IN Becomes(IF row.mark \/ s = None THEN World
                  ELSE LET m == [World EXCEPT !.entry[s].runs = @ \ {w},
                                              !.entry[s].terminalizing = @ \ {w}]
                       IN IF entry[s].pending /\ entry[s].deferred
                             /\ PendingWork(m.entry[s]) = {}
                          THEN HandleTurnComplete(m, FALSE)
                          ELSE Busy(m))
    /\ UNCHANGED <<exec, openAgents, reply, kill, todo, subtask>>

Dies(p) ==
    /\ kid[p] \in {"up", "exiting"}
    /\ kid' = [kid EXCEPT ![p] = "dead"]
    /\ UNCHANGED <<row, live, waiting, entry, claude, exec, openAgents, run, reply, kill,
                   todo, subtask>>

\* The close event of a child: all its output has been read.
Closes(p) ==
    /\ kid[p] = "dead"
    /\ LET m == [World EXCEPT !.kid[p] = "closed", !.claude[p] = Resting]
       IN IF row.mark
          THEN Becomes([m EXCEPT !.live = None, !.row.pid = None])
          ELSE IF live \notin {None, p}
          THEN Becomes(m)
          ELSE IF live = None \/ entry[p].closing
          THEN Becomes([m EXCEPT !.row.pid = None])
          ELSE \/ Becomes(HandleTaskError(m))        \* by the exit code
               \/ Becomes(HandleLostLiveSession(m))
    /\ UNCHANGED <<exec, openAgents, run, reply, kill, todo, subtask>>

-----------------------------------------------------------------------------
(***************************************************************************)
(* The reaper: one synchronous block, every ten seconds.                   *)
(***************************************************************************)

\* Its three passes over running tasks; the mutant has only the first.
MutStuck == row.status = "running" /\ row.pid # None
Stuck == row.status = "running"

Reap ==
    /\ IF Stuck /\ ~HasActiveSession
       THEN Becomes([StatusSet(Terminated(World, row.pid), "review", row.pid # None)
                     EXCEPT !.row.pid = None])
       ELSE /\ row' = IF row.status \in {"review", "done"} THEN [row EXCEPT !.pid = None] ELSE row
            /\ KeepsWorld
    /\ UNCHANGED <<exec, openAgents, run, reply, kill, todo, subtask>>

-----------------------------------------------------------------------------
Next ==
    \/ Queue \/ ExecuteClaims \/ ExecuteSpawns \/ ExecuteFails
    \/ \E r \in Replies : ReplyArrives(r) \/ ReplyStep(r)
    \/ \E k \in Kills : StopMarks(k) \/ MarkDone(k) \/ KillStep(k)
    \/ \E p \in Pids :
          \/ ParentResult(p) \/ Question(p) \/ Dies(p) \/ Closes(p)
          \/ \E a \in Agents : AgentStarts(p, a) \/ AgentEnds(p, a)
          \/ \E w \in Runs : RunLaunched(p, w) \/ RunEnds(p, w)
    \/ \E w \in Runs : JournalOpened(w) \/ JournalFails(w) \/ JournalFinal(w)
    \/ Reap

Spec == Init /\ [][Next]_vars

\* Awaits return, children that end are reported, and timers fire.  Nothing makes
\* Claude answer or end, and nothing makes the user act.
Fairness ==
    /\ WF_vars(ExecuteClaims) /\ WF_vars(ExecuteSpawns)
    /\ \A r \in Replies : WF_vars(ReplyStep(r))
    /\ \A k \in Kills : WF_vars(KillStep(k))
    /\ \A w \in Runs : WF_vars(JournalFinal(w))
    /\ \A p \in Pids : WF_vars(Closes(p))
    /\ WF_vars(Reap)

FairSpec == Spec /\ Fairness

-----------------------------------------------------------------------------
(***************************************************************************)
(* Properties.                                                             *)
(***************************************************************************)

\* Once a stop has succeeded, and until the user asks for more, the task has no session
\* and no recorded process, whatever starts, replies and late events were under way.
StoppedHasNoSession ==
    row.mark /\ (\A k \in Kills : kill[k].at = "idle")
        => live = None /\ row.pid = None

\* The end of a turn takes the task to the user only when everything the turn has set going
\* in the background is over: no agent that the logs show as unfinished, no workflow run
\* whose journal is not final.  Work that the manager was never told of, or that an earlier
\* turn left behind, does not count, and an agent whose log a start has deleted is forgotten.
OwnWork(p) == claude[p].doing \ claude[p].unwatched
GoalWaitsForItsWork ==
    [][live # None /\ live' = live /\ row.status = "running"
       /\ row'.status = "review" /\ row'.needsInput
         => /\ OwnWork(live)' \cap openAgents' = {}
            /\ \A w \in Runs \cap OwnWork(live)' : run'[w].at = "terminal"]_vars

\* No task stays running when no process works on it: the close handler or the reaper moves
\* it on.  The exception is a kill that could not confirm the end of the process:
\* when that process does end, its close leaves the task to the user's next stop or reply.
Unattended == row.status = "running" /\ \A p \in Pids : kid[p] \in {"unused", "closed"}
KillFailed == \E k \in Kills : kill[k].at = "failed"
RunningSettles == Unattended ~> (~Unattended \/ KillFailed)

\* A result of the parent that comes when all agents and all workflow runs of the turn are
\* over, journals included, ends the turn: the task goes to the user.
ResultIsLast(p) ==
    /\ live = p /\ live' = p
    /\ ~row.mark /\ row.status = "running" /\ ~entry[p].closing
    /\ InTurn(p) /\ ~claude'[p].owes
    /\ ~entry[p].completed \/ entry[p].deferred \/ entry[p].pending
    /\ entry[p].agents = {} /\ entry[p].runs = {}
    /\ \A w \in entry[p].terminalizing : run[w].at = "terminal"
NextResultEndsTheTurn == [][\A p \in Pids : ResultIsLast(p) => row'.needsInput]_vars

=============================================================================
