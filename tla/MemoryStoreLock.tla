-------------------------- MODULE MemoryStoreLock --------------------------
(***************************************************************************)
(* The open-lock of the local memory store (pglite-adapter.ts): a file     *)
(* beside the store's directory with the PID of the process that has the   *)
(* store open.  PGlite is single-user, so the lock is all that keeps two   *)
(* processes out of one directory, and the recovery steps of an open       *)
(* (clearStaleLock, quarantineDir) away from a store that is in use.       *)
(*                                                                         *)
(* One action for each system call that another process can observe; an    *)
(* open of PGlite itself is one call that succeeds or fails.  A process is *)
(* told by its PID; PIDs are not reused.  It has one open at a time: for   *)
(* another one the lock names a live process, itself.                      *)
(*                                                                         *)
(* The names are unlike those of MemoryOutbox, the table that lives in the *)
(* store, so that a module can extend both.                                *)
(***************************************************************************)
CONSTANTS
    Opener,       \* the processes that open the store
    None          \* no process: a lock file without a PID in it

ASSUME NoneAssumption == None \notin Opener

VARIABLES
    lock,         \* the lock file
    stage,        \* where the open or close of each process is
    again,        \* the second of the two attempts to create the lock
    seen,         \* the PID it has read
    alive,        \* the processes
    misread       \* history: a process has removed a file it had not read the PID of

lockVars == <<lock, stage, again, seen, alive, misread>>

NoFile == [creator |-> None, pid |-> None]
\* A file is told by who created it: nobody creates a second one before it has written to
\* the first.
File(p, pid) == [creator |-> p, pid |-> pid]

Acquiring == {"create", "write", "read", "check", "reclaim"}
Inside    == {"opening", "clearing", "reopening", "moving", "opening anew", "open"}
Leaving   == {"release", "unlink"}

LockTypeOK ==
    /\ lock \in [creator : Opener \cup {None}, pid : Opener \cup {None}]
    /\ lock.pid \in {None, lock.creator}
    /\ stage \in [Opener -> {"out"} \cup Acquiring \cup Inside \cup Leaving]
    /\ again \in [Opener -> BOOLEAN]
    /\ seen \in [Opener -> Opener \cup {None}]
    /\ alive \subseteq Opener
    /\ misread \in BOOLEAN

\* No lock, or one that a process left behind when it was killed.
LockInit ==
    /\ alive \in SUBSET Opener
    /\ lock \in {NoFile} \cup {File(p, pid) : p \in Opener \ alive, pid \in Opener \cup {None}}
    /\ lock.pid \in {None, lock.creator}
    /\ stage = [p \in Opener |-> "out"]
    /\ again = [p \in Opener |-> FALSE]
    /\ seen = [p \in Opener |-> None]
    /\ misread = FALSE

----------------------------------------------------------------------------
Enter(p, place) == stage' = [stage EXCEPT ![p] = place]

Move(p, from, place) ==
    /\ p \in alive
    /\ stage[p] = from
    /\ Enter(p, place)
    /\ UNCHANGED <<again, seen, alive>>

(***************************************************************************)
(* acquireOwnerLock                                                        *)
(***************************************************************************)
Begin(p) ==
    /\ p \in alive
    /\ stage[p] = "out"
    /\ Enter(p, "create")
    /\ again' = [again EXCEPT ![p] = FALSE]
    /\ seen' = [seen EXCEPT ![p] = None]
    /\ UNCHANGED <<lock, alive, misread>>

\* openSync(lockPath, "wx")
Create(p) ==
    /\ \/ lock = NoFile /\ Move(p, "create", "write") /\ lock' = File(p, None)
       \/ lock # NoFile /\ Move(p, "create", "read") /\ UNCHANGED lock
    /\ UNCHANGED misread

\* The PID goes into the file that was created, which may be at the path no longer; the
\* mutant writes to the path.
MutWrite(p) ==
    /\ Move(p, "write", "opening")
    /\ lock' = [lock EXCEPT !.pid = p]
    /\ UNCHANGED misread
Write(p) ==
    /\ Move(p, "write", "opening")
    /\ lock' = IF lock.creator = p THEN File(p, p) ELSE lock
    /\ UNCHANGED misread

\* readLockPid: nothing if the file is gone or has no PID yet.
Read(p) ==
    /\ p \in alive
    /\ stage[p] = "read"
    /\ Enter(p, "check")
    /\ seen' = [seen EXCEPT ![p] = lock.pid]
    /\ UNCHANGED <<lock, again, alive, misread>>

\* isProcessAlive; the mutants take every owner for dead, or for alive.
MutStale(p)    == TRUE
MutNotStale(p) == seen[p] = None
Stale(p)       == seen[p] \notin alive

Check(p) ==
    /\ \/ Stale(p) /\ Move(p, "check", "reclaim")
       \/ ~Stale(p) /\ Move(p, "check", "out")
    /\ UNCHANGED <<lock, misread>>

\* rmSync removes what is at the path by now; then the second attempt, if there is one.
Remove(p) ==
    /\ p \in alive
    /\ stage[p] = "reclaim"
    /\ lock' = NoFile
    /\ misread' = (misread \/ (lock # NoFile /\ lock.creator # seen[p]))
    /\ Enter(p, IF again[p] THEN "out" ELSE "create")
    /\ again' = [again EXCEPT ![p] = TRUE]
    /\ seen' = [seen EXCEPT ![p] = None]
    /\ UNCHANGED alive

(***************************************************************************)
(* openPersisted, and the close of the handle                              *)
(***************************************************************************)
Silently(p, from, place) == Move(p, from, place) /\ UNCHANGED <<lock, misread>>

\* The directory opens at once, after clearStaleLock has removed an orphaned
\* postmaster.pid, or after it has been moved aside, if the caller allows that.
OpenStore(p) ==
    \/ \E place \in {"open", "clearing"} : Silently(p, "opening", place)
    \/ \E place \in {"open", "moving"} : Silently(p, "reopening", place)
    \/ \E place \in {"open", "release"} : Silently(p, "opening anew", place)

ClearStaleLock(p) == \E place \in {"reopening", "moving"} : Silently(p, "clearing", place)
QuarantineDir(p)  == \E place \in {"opening anew", "release"} : Silently(p, "moving", place)
Close(p)          == Silently(p, "open", "release")

\* releaseOwnerLock: reads the PID, and removes the file if it is its own.
ReleaseReads(p) == Silently(p, "release", IF lock.pid = p THEN "unlink" ELSE "out")

Unlink(p) ==
    /\ Move(p, "unlink", "out")
    /\ lock' = NoFile
    /\ UNCHANGED misread

\* The process exits or is killed, between any two calls.
Exit(p) ==
    /\ p \in alive
    /\ alive' = alive \ {p}
    /\ Enter(p, "out")
    /\ UNCHANGED <<lock, again, seen, misread>>

----------------------------------------------------------------------------
Step(p) ==
    \/ Create(p) \/ Write(p) \/ Read(p) \/ Check(p) \/ Remove(p)
    \/ OpenStore(p) \/ ClearStaleLock(p) \/ QuarantineDir(p)
    \/ ReleaseReads(p) \/ Unlink(p)

LockNext == \E p \in Opener : Begin(p) \/ Step(p) \/ Close(p) \/ Exit(p)

LockSpec == LockInit /\ [][LockNext]_lockVars

\* System calls return, as long as the process lives.  Nobody has to begin or to close.
LockFairness == \A p \in Opener : WF_lockVars(Step(p))

FairLockSpec == LockSpec /\ LockFairness

----------------------------------------------------------------------------
(***************************************************************************)
(* Properties                                                              *)
(***************************************************************************)
InStore(p) == stage[p] \in Inside

\* pglite-adapter.ts:83: "Cross-process mutual exclusion for a PERSISTED store": two
\* processes are in the store at once, recovery steps included, only if some reclaim has
\* removed a lock whose PID it had not read: one that was created or replaced after its read,
\* or read before the PID was in it.  Every other interleaving of opens, closes, exits
\* and reclaims is excluded.
AloneUnlessMisread ==
    \A p, q \in Opener : p # q /\ InStore(p) /\ InStore(q) => misread

\* pglite-adapter.ts:176: "a kill -9 / power loss never wedges the local store permanently".
\* As long as somebody keeps trying, somebody gets in again and again, whoever has died
\* with the lock and wherever.
NeverWedged ==
    \A p \in Opener : []<>(stage[p] = "create") => []<>(\E q \in Opener : InStore(q))

=============================================================================
