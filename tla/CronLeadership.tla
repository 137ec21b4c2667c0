--------------------------- MODULE CronLeadership ---------------------------
(***************************************************************************)
(* The leader lock of the cron runtimes: several processes (the detached   *)
(* daemon of scripts/cron-daemon.cjs and the in-process scheduler of every *)
(* Command Centre server, cron-scheduler.ts) share one JSON file,          *)
(* .command-centre/cron-runtime-lock.json.  They create, renew, steal and  *)
(* release it with claimRuntimeLeadership, refreshRuntimeHeartbeat and     *)
(* releaseRuntimeLeadership of cron-runtime.js, which are built from the   *)
(* rename-claim-check-publish operations of owned-file.cjs.                *)
(*                                                                         *)
(* The grain is one action per system call another process can observe:    *)
(* JavaScript runs a whole tick without yielding to its own timers, but    *)
(* nothing stops two processes from interleaving between two calls.  Time  *)
(* is the age of a record (RUNTIME_STALE_MS is StaleAge); a process may be *)
(* suspended for any time between two calls.                               *)
(***************************************************************************)
EXTENDS Naturals, FiniteSets

CONSTANTS
    Daemon,      \* incarnations of `cron-daemon.cjs serve`
    InProcess,   \* incarnations of a Command Centre server
    StaleAge,    \* a record older than this is stale
    NoFile,      \* there is no file at the path
    Torn         \* the file holds no parsable record

Runtime == Daemon \cup InProcess
Record  == [owner : Runtime, age : 0 .. StaleAge + 1]
Content == Record \cup {NoFile, Torn}

\* What p publishes names p itself: `identifier: candidate.identifier`.
Draft(p) == {r \in Record : r.owner = p} \cup {NoFile}

ASSUME ConstantsOK ==
    /\ Daemon \cap InProcess = {}
    /\ StaleAge \in Nat
    /\ NoFile \notin Record
    /\ Torn \notin Record
    /\ NoFile # Torn

VARIABLES
    lock,        \* content of the canonical lock path
    claim,       \* claim[p]: the entry p has renamed to a private claim path
    stranded,    \* owners of the records left behind under a claim path
    at,          \* at[p]: the system call p is about to make
    job,         \* job[p]: the owned-file operation p is in, and for whom
    seen,        \* seen[p]: the record p read before it decided (`current`)
    draft,       \* draft[p]: the record p is going to publish
    leads,       \* leads[p]: p's `isLeader` flag
    activeJobs   \* some cron job is active (the job files on disk)

vars == <<lock, claim, stranded, at, job, seen, draft, leads, activeJobs>>
files == <<lock, claim, stranded>>

Places == {"off", "idle", "create", "inspect", "sweep", "reread",
           "precheck", "rename", "settle", "dead"}
Jobs   == {"none", "dropTorn", "renew", "dropStale",
           "refresh", "release", "exit"}

TypeOK ==
    /\ lock \in Content
    /\ claim \in [Runtime -> Content]
    /\ stranded \subseteq Runtime
    /\ at \in [Runtime -> Places]
    /\ job \in [Runtime -> Jobs]
    /\ seen \in [Runtime -> Content]
    /\ draft \in [Runtime -> Content]
    /\ \A p \in Runtime : draft[p] \in Draft(p)
    /\ leads \in [Runtime -> BOOLEAN]
    /\ activeJobs \in BOOLEAN

Up(p)    == at[p] \notin {"off", "dead"}

\* isRuntimeRecordStale; the mutant never gives a dead leader up.
MutStale(r) == r.age > StaleAge + 1
Stale(r)    == r.age > StaleAge

Fresh(p) == [owner |-> p, age |-> 0]
Owns(p, c) == c \in Record /\ c.owner = p

\* current.identifier === candidate.identifier; the mutant takes any record for its
\* own.
MutSameIdentifier(p, r) == r.owner \in Runtime
SameIdentifier(p, r)    == r.owner = p

(***************************************************************************)
(* Init: no runtime is up, and there is no lock file or one that a host    *)
(* crash has torn.  A runtime that dies leaves its record in a behaviour;  *)
(* a record of an earlier boot is the Init of the overlap instance.        *)
(***************************************************************************)
Init ==
    /\ lock \in {NoFile, Torn}
    /\ claim = [p \in Runtime |-> NoFile]
    /\ stranded = {}
    /\ at = [p \in Runtime |-> "off"]
    /\ job = [p \in Runtime |-> "none"]
    /\ seen = [p \in Runtime |-> NoFile]
    /\ draft = [p \in Runtime |-> NoFile]
    /\ leads = [p \in Runtime |-> FALSE]
    /\ activeJobs \in BOOLEAN

-----------------------------------------------------------------------------
(***************************************************************************)
(* Where a routine goes when the owned-file operation it called returns.   *)
(***************************************************************************)

\* p's locals become: place l, job j, the record read s, the record drafted d.
Locals(p, l, j, s, d) ==
    /\ at'    = [at EXCEPT ![p] = l]
    /\ job'   = [job EXCEPT ![p] = j]
    /\ seen'  = [seen EXCEPT ![p] = s]
    /\ draft' = [draft EXCEPT ![p] = d]

Lead(p, b) == leads' = [leads EXCEPT ![p] = b]

\* claimRuntimeLeadership builds its record and tries the exclusive create; the mutant
\* starts over, after it has cleared a record away, with `current` for `candidate`.
MutEnterClaim(p) ==
    Locals(p, "create", "none", NoFile,
           IF job[p] = "dropStale" THEN Fresh(seen[p].owner) ELSE Fresh(p))
EnterClaim(p) == Locals(p, "create", "none", NoFile, Fresh(p))

Rest(p)   == Locals(p, "idle", "none", NoFile, NoFile)

\* A claim that returns null; the mutant forgets `isLeader = false`.
MutStandBy(p) == Rest(p) /\ UNCHANGED leads
StandBy(p)    == Rest(p) /\ Lead(p, FALSE)

Finish(p) == Locals(p, "dead", "none", NoFile, NoFile)

\* The operation returned ok.  Only the daemon reads what a refresh returned.
Returned(p, ok) ==
    \/ /\ job[p] \in {"dropTorn", "dropStale"}
       /\ EnterClaim(p)
       /\ UNCHANGED leads
    \/ /\ job[p] = "renew"
       /\ ok
       /\ Locals(p, "sweep", "none", NoFile, NoFile)
       /\ Lead(p, TRUE)
    \/ /\ job[p] = "renew"
       /\ ~ok
       /\ EnterClaim(p)
       /\ UNCHANGED leads
    \/ /\ job[p] = "refresh"
       /\ Rest(p)
       /\ Lead(p, leads[p] /\ (ok \/ p \in InProcess))
    \/ /\ job[p] = "release"
       /\ Rest(p)
       /\ Lead(p, FALSE)
    \/ /\ job[p] = "exit"
       /\ Finish(p)
       /\ Lead(p, FALSE)

\* OwnedFilePreservationError leaves a timer callback: a daemon's exit handlers
\* run `cleanup`, a server logs it and keeps its flag.
Thrown(p) ==
    \/ /\ p \in Daemon
       /\ job[p] # "exit"
       /\ Locals(p, "precheck", "exit", NoFile, NoFile)
       /\ UNCHANGED leads
    \/ /\ p \in InProcess
       /\ job[p] # "exit"
       /\ Rest(p)
       /\ UNCHANGED leads
    \/ /\ job[p] = "exit"
       /\ Finish(p)
       /\ Lead(p, FALSE)

\* The mutant trusts the read before the rename and drops whatever record it took.
MutMatches(p, c) ==
    \/ job[p] = "dropTorn" /\ c = Torn
    \/ job[p] \in {"renew", "refresh"} /\ c = seen[p]
    \/ job[p] = "dropStale" /\ c \in Record
    \/ job[p] \in {"release", "exit"} /\ Owns(p, c)

\* The ownership matcher each caller hands to owned-file.cjs.
Matches(p, c) ==
    \/ job[p] = "dropTorn" /\ c = Torn
    \/ job[p] \in {"renew", "refresh"} /\ c = seen[p]
    \/ job[p] = "dropStale" /\ c = seen[p] /\ Stale(c)
    \/ job[p] \in {"release", "exit"} /\ Owns(p, c)

Replaces(p) == job[p] \in {"renew", "refresh"}

-----------------------------------------------------------------------------
(***************************************************************************)
(* The system calls.                                                       *)
(***************************************************************************)

\* writeFileExclusivelyAtomically: link the finished temporary file.
CreateLock(p) ==
    /\ at[p] = "create"
    /\ \/ /\ lock = NoFile
          /\ lock' = draft[p]
          /\ Locals(p, "sweep", "none", NoFile, NoFile)
          /\ Lead(p, TRUE)
       \/ /\ lock # NoFile
          /\ at' = [at EXCEPT ![p] = "inspect"]
          /\ UNCHANGED <<lock, job, seen, draft, leads>>
    /\ UNCHANGED <<claim, stranded, activeJobs>>

\* The file exists: read it, and renew, steal, clear or respect it.
InspectLock(p) ==
    /\ at[p] = "inspect"
    /\ \/ /\ lock \in {NoFile, Torn}
          /\ Locals(p, "precheck", "dropTorn", NoFile, NoFile)
          /\ UNCHANGED leads
       \/ /\ lock \in Record
          /\ SameIdentifier(p, lock)
          /\ Locals(p, "precheck", "renew", lock, draft[p])
          /\ UNCHANGED leads
       \/ /\ lock \in Record
          /\ ~SameIdentifier(p, lock)
          /\ Stale(lock)
          /\ Locals(p, "precheck", "dropStale", lock, NoFile)
          /\ UNCHANGED leads
       \/ /\ lock \in Record
          /\ ~SameIdentifier(p, lock)
          /\ ~Stale(lock)
          /\ StandBy(p)
    /\ UNCHANGED <<files, activeJobs>>

\* The leader has enqueued the due jobs; its tick ends with a heartbeat.
EndSweep(p) ==
    /\ at[p] = "sweep"
    /\ at' = [at EXCEPT ![p] = "reread"]
    /\ job' = [job EXCEPT ![p] = "refresh"]
    /\ UNCHANGED <<files, seen, draft, leads, activeJobs>>

\* refreshRuntimeHeartbeat reads the record and drafts the renewed one.
RereadLock(p) ==
    /\ at[p] = "reread"
    /\ \/ /\ Owns(p, lock)
          /\ Locals(p, "precheck", job[p], lock, Fresh(p))
          /\ UNCHANGED leads
       \/ /\ ~Owns(p, lock)
          /\ Returned(p, FALSE)
    /\ UNCHANGED <<files, activeJobs>>

\* The read before the rename: nothing is touched unless it matches.
Precheck(p) ==
    /\ at[p] = "precheck"
    /\ \/ /\ Matches(p, lock)
          /\ at' = [at EXCEPT ![p] = "rename"]
          /\ UNCHANGED <<job, seen, draft, leads>>
       \/ /\ ~Matches(p, lock)
          /\ Returned(p, FALSE)
    /\ UNCHANGED <<files, activeJobs>>

\* rename(lock, claim): takes whatever is at the path now.
RenameToClaim(p) ==
    /\ at[p] = "rename"
    /\ \/ /\ lock # NoFile
          /\ claim' = [claim EXCEPT ![p] = lock]
          /\ lock' = NoFile
          /\ at' = [at EXCEPT ![p] = "settle"]
          /\ UNCHANGED <<job, seen, draft, leads>>
       \/ /\ lock = NoFile
          /\ Returned(p, FALSE)
          /\ UNCHANGED <<lock, claim>>
    /\ UNCHANGED <<stranded, activeJobs>>

\* The claimed entry matches: delete it, or publish the draft in its place; a
\* replacement that finds the path occupied gives way to the foreign entry.
SettleMatched(p) ==
    /\ at[p] = "settle"
    /\ Matches(p, claim[p])
    /\ claim' = [claim EXCEPT ![p] = NoFile]
    /\ lock' = IF Replaces(p) /\ lock = NoFile THEN draft[p] ELSE lock
    /\ Returned(p, Replaces(p) => lock \in {NoFile, draft[p]})
    /\ UNCHANGED <<stranded, activeJobs>>

\* It is somebody else's: link it back.  If the path is occupied by another
\* content the claim stays on disk and the operation throws.
SettleForeign(p) ==
    /\ at[p] = "settle"
    /\ ~Matches(p, claim[p])
    /\ claim' = [claim EXCEPT ![p] = NoFile]
    /\ \/ /\ lock = NoFile
          /\ lock' = claim[p]
          /\ Returned(p, FALSE)
          /\ UNCHANGED stranded
       \/ /\ lock = claim[p]
          /\ Returned(p, FALSE)
          /\ UNCHANGED <<lock, stranded>>
       \/ /\ lock \notin {NoFile, claim[p]}
          /\ stranded' = stranded \cup {q \in Runtime : Owns(q, claim[p])}
          /\ Thrown(p)
          /\ UNCHANGED lock
    /\ UNCHANGED activeJobs

-----------------------------------------------------------------------------
(***************************************************************************)
(* What starts a routine: the process, its timers, the profile, a signal.  *)
(***************************************************************************)

\* claimDaemonPid admits one live daemon; any number of servers may run.
StartRuntime(p) ==
    /\ at[p] = "off"
    /\ p \in Daemon => \A d \in Daemon : ~Up(d)
    /\ at' = [at EXCEPT ![p] = "idle"]
    /\ UNCHANGED <<files, job, seen, draft, leads, activeJobs>>

\* The 60 s timer: claim when a job is active, else release what is held.
Tick(p) ==
    /\ at[p] = "idle"
    /\ \/ /\ activeJobs
          /\ EnterClaim(p)
       \/ /\ ~activeJobs
          /\ leads[p]
          /\ Locals(p, "precheck", "release", NoFile, NoFile)
    /\ UNCHANGED <<files, leads, activeJobs>>

\* The 15 s timer.
Heartbeat(p) ==
    /\ at[p] = "idle"
    /\ leads[p]
    /\ Locals(p, "reread", "refresh", NoFile, NoFile)
    /\ UNCHANGED <<files, leads, activeJobs>>

\* pauseSchedulerForProfile: the profile is locked or being switched.
PauseScheduler(p) ==
    /\ p \in InProcess
    /\ at[p] = "idle"
    /\ leads[p]
    /\ Lead(p, FALSE)
    /\ Locals(p, "precheck", "release", NoFile, NoFile)
    /\ UNCHANGED <<files, activeJobs>>

\* SIGTERM, SIGINT or (daemon) a profile that is no longer active.
Shutdown(p) ==
    /\ at[p] = "idle"
    /\ \/ /\ p \in Daemon \/ leads[p]
          /\ Locals(p, "precheck", "exit", NoFile, NoFile)
       \/ /\ p \in InProcess
          /\ ~leads[p]
          /\ Finish(p)
    /\ UNCHANGED <<files, leads, activeJobs>>

\* SIGKILL, a host crash: between any two system calls.
Crash(p) ==
    /\ Up(p)
    /\ Finish(p)
    /\ Lead(p, FALSE)
    /\ claim' = [claim EXCEPT ![p] = NoFile]
    /\ stranded' = stranded \cup {q \in Runtime : Owns(q, claim[p])}
    /\ UNCHANGED <<lock, activeJobs>>

\* Job files are edited.
ToggleJobs ==
    /\ activeJobs' = ~activeJobs
    /\ UNCHANGED <<files, at, job, seen, draft, leads>>

\* A copy of a record, older by one step; stale is as old as a record gets here.
Older(c) ==
    IF c \in Record /\ ~Stale(c) THEN [c EXCEPT !.age = @ + 1] ELSE c

\* Time passes for every copy of every record.
Age ==
    /\ lock'  = Older(lock)
    /\ claim' = [p \in Runtime |-> Older(claim[p])]
    /\ seen'  = [p \in Runtime |-> Older(seen[p])]
    /\ draft' = [p \in Runtime |-> Older(draft[p])]
    /\ UNCHANGED <<stranded, at, job, leads, activeJobs>>

SystemCall(p) ==
    \/ CreateLock(p)
    \/ InspectLock(p)
    \/ EndSweep(p)
    \/ RereadLock(p)
    \/ Precheck(p)
    \/ RenameToClaim(p)
    \/ SettleMatched(p)
    \/ SettleForeign(p)

Prompt(p) ==
    \/ SystemCall(p)
    \/ StartRuntime(p)
    \/ Tick(p)
    \/ Heartbeat(p)
    \/ PauseScheduler(p)
    \/ Shutdown(p)
    \/ Crash(p)

Next ==
    \/ \E p \in Runtime : Prompt(p)
    \/ ToggleJobs
    \/ Age

Spec == Init /\ [][Next]_vars

\* Timers fire again and again while the process runs, a system call returns,
\* and time passes.  A claim starts over when it meets the microseconds in which
\* another runtime has the file renamed away; heartbeats are 15 s apart, so it
\* does not meet them for ever: what it could decide again and again it decides.
Decides(p) ==
    \/ CreateLock(p) /\ at'[p] = "sweep"
    \/ InspectLock(p) /\ at'[p] = "idle"

Fairness ==
    /\ WF_vars(Age)
    /\ \A p \in Runtime :
         /\ WF_vars(SystemCall(p))
         /\ SF_vars(Decides(p))
         /\ SF_vars(Tick(p))
         /\ SF_vars(Heartbeat(p))

FairSpec == Spec /\ Fairness

-----------------------------------------------------------------------------
(***************************************************************************)
(* Properties.                                                             *)
(***************************************************************************)

Held == {lock} \cup {claim[p] : p \in Runtime}

\* An entry is isolated under p's claim path exactly while p decides about it,
\* so that a second rename can never bury the first claim (siblingPath is private
\* to one operation).
ClaimIsolated ==
    \A p \in Runtime : (claim[p] # NoFile) <=> (at[p] = "settle")

\* A renewal is only ever prepared from a record of the runtime itself: the reads
\* of claimRuntimeLeadership and refreshRuntimeHeartbeat compare the identifier.
RenewsOwnRecord ==
    \A p \in Runtime :
        Replaces(p) /\ at[p] \in {"precheck", "rename", "settle"} => Owns(p, seen[p])

\* The two together make every deletion safe (see CronLeadership_proofs).
LeadershipInv == ClaimIsolated /\ RenewsOwnRecord

\* No step of another process deletes the record of a runtime that has kept its
\* heartbeat: the record stays at the lock path or under a claim path, or is
\* left behind as a recoverable copy (removeFileIfMatchesAtomically: validate
\* after the rename, not before it).
KeepsForeignRecords ==
    \A q \in Runtime :
        (/\ \E c \in Held : Owns(q, c) /\ ~Stale(c)
         /\ at'[q] = at[q] /\ job'[q] = job[q])
        => \/ \E c \in Held' : Owns(q, c)
           \/ q \in stranded'

ForeignRecordSurvives == [][KeepsForeignRecords]_vars

\* No record of a running runtime grows stale (15 s against 120 s).
HeartbeatsOnTime ==
    \A p \in Runtime, c \in Held : Up(p) /\ Owns(p, c) => ~Stale(c)

\* A daemon's or server's belief that it leads is corrected: a runtime that
\* still runs and whose record is gone from the lock path demotes itself or
\* gets the lock back.
LostLeaderDemotes ==
    <>[]HeartbeatsOnTime =>
        \A p \in Runtime :
            (leads[p] /\ Up(p) /\ ~Owns(p, lock)) ~>
                (~leads[p] \/ ~Up(p) \/ Owns(p, lock))

Led == \E p \in Runtime : Up(p) /\ leads[p] /\ Owns(p, lock)

\* Scheduling never stops for good: if jobs stay active and some runtime stays
\* up, a running runtime holds the lock again and again, whatever records dead
\* or suspended runtimes, torn files and crashed renames left behind.
LeadershipRecovers ==
    (<>[]activeJobs /\ \E p \in Runtime : <>[]Up(p)) => []<>Led

\* docs/multi-client-guide.md:319: "a shared leader lock in `.command-centre/`
\* ensures only one host schedules jobs at a time".  A runtime schedules from
\* its successful claim to the end of its sweep.
OnlyOneHostSchedules ==
    \A p, q \in Runtime : at[p] = "sweep" /\ at[q] = "sweep" => p = q

=============================================================================
