------------------------ MODULE CronExecution_proofs ------------------------
(***************************************************************************)
(* A queueing is executed at most once, and the reaper leaves a task to    *)
(* the runtime that executes it, for every number of attempts, Claude      *)
(* processes, queueings and process starts.                                *)
(***************************************************************************)
EXTENDS CronExecution, TLAPS

\* A task that waits in the queue has a queueing that nobody has claimed yet:
\* the conditional UPDATE of claimQueuedCronTask spends it, and only a request of
\* the user makes another.
Unspent == IF status = "queued" THEN 1 ELSE 0

ClaimInv ==
    /\ claims \in Nat
    /\ queueings \in Nat
    /\ claims + Unspent <= queueings

LEMMA ClaimInit == Init => ClaimInv
  BY DEF Init, ClaimInv, Unspent

\* Only a claim and a queueing count; every other step leaves both counters alone
\* and puts nothing into the queue.
LEMMA ClaimStep == ClaimInv /\ [Next]_vars => ClaimInv'
<1> SUFFICES ASSUME ClaimInv, [Next]_vars
             PROVE  ClaimInv'
  OBVIOUS
<1> USE DEF ClaimInv, Unspent
<1> DEFINE Quiet == UNCHANGED <<claims, queueings>> /\ (status' = "queued" => status = "queued")
<1>1. Quiet => ClaimInv'
  OBVIOUS
<1>2. ASSUME NEW e \in Executor, Claim(e)
      PROVE  ClaimInv'
  BY <1>2 DEF Claim, Claimable
<1>3. CASE Execute
  BY <1>3 DEF Execute
<1>4. ASSUME NEW e \in Executor, Attempt(e)
      PROVE  Quiet
  <2>1. CASE Finalize(e)
    BY <2>1 DEF Finalize, history
  <2>2. CASE Spawn(e) \/ SpawnFails(e) \/ ChildClosed(e) \/ TimeOut(e) \/ Close(e)
    BY <2>2 DEF Spawn, SpawnFails, ChildClosed, TimeOut, Close, table, row, history
  <2> QED
    BY <1>4, <2>1, <2>2 DEF Attempt
<1>5. ASSUME NEW e \in Executor, Start(e) \/ Down(e)
      PROVE  Quiet
  BY <1>5 DEF Start, Down, table, row, history
<1>6. ASSUME NEW p \in Pid, Exit(p) \/ Report(p)
      PROVE  Quiet
  BY <1>6 DEF Exit, Report, table, row, history
<1>7. CASE InBlock
  <2>1. CASE RecoverTask \/ ReapUpdate
    BY <2>1 DEF RecoverTask, ReapUpdate, history
  <2>2. CASE RecoverRuns \/ RecoverClose \/ ReapJudge \/ ReapClose
    BY <2>2 DEF RecoverRuns, RecoverClose, ReapJudge, ReapClose, table, row, history
  <2> QED
    BY <1>1, <1>7, <2>1, <2>2 DEF InBlock
<1>8. CASE ReapSelect \/ ClearPid \/ StopMark \/ StopKill \/ BudgetExpires
  <2>1. Quiet
    BY <1>8 DEF ReapSelect, ClearPid, StopMark, StopKill, BudgetExpires, table, row, history
  <2> QED
    BY <1>1, <2>1
<1>9. CASE StopFinish \/ PatchStatus
  <2>1. Quiet
    BY <1>9 DEF StopFinish, PatchStatus, history
  <2> QED
    BY <1>1, <2>1
<1>10. CASE UNCHANGED vars
  BY <1>10 DEF vars, table, row, history
<1> QED
  BY <1>1, <1>2, <1>3, <1>4, <1>5, <1>6, <1>7, <1>8, <1>9, <1>10 DEF Next

\* However many dispatchers see a queued task, claimQueuedCronTask lets one of
\* them execute it: OneExecutionPerQueueing in every behaviour.
THEOREM OneExecutionPerQueueingHolds == Spec => []OneExecutionPerQueueing
<1>1. ClaimInv => OneExecutionPerQueueing
  BY DEF ClaimInv, Unspent, OneExecutionPerQueueing
<1> QED
  BY ClaimInit, ClaimStep, <1>1, PTL DEF Spec

-----------------------------------------------------------------------------
(***************************************************************************)
(* Types.                                                                  *)
(***************************************************************************)

\* An execution that is at an attempt has attempts left.
AttemptsLeft ==
    \A e \in Executor : exec[e].at \in {"spawn", "wait"} => exec[e].tries < MaxTries

Types == TypeOK /\ AttemptsLeft

LEMMA NoCallType == NoCall \in Call /\ NoCall.at = "idle" /\ NoCall.tries = 0
  BY ConstantsOK DEF NoCall, Call, Pid, NoPid, Outcome

LEMMA ClaimedCallType ==
  ASSUME NEW b \in BOOLEAN
  PROVE  LET c == [NoCall EXCEPT !.at = "spawn", !.fresh = b]
         IN c \in Call /\ c.tries < MaxTries
<1> DEFINE c == [NoCall EXCEPT !.at = "spawn", !.fresh = b]
<1>1. c \in Call
  BY NoCallType DEF Call
<1>2. c.tries = 0
  BY NoCallType DEF Call
<1> HIDE DEF c
<1>3. c \in Call /\ c.tries < MaxTries
  BY <1>1, <1>2, ConstantsOK
<1> QED
  BY <1>3 DEF c

LEMMA EnterType ==
  ASSUME NEW at \in {"recoverTask", "recoverRuns", "recoverClose", "judge", "update", "close"},
         NEW pid \in Pid \cup {NoPid},
         NEW kind \in {"none", "foreign", "own", "pid", "nullPid", "input"},
         Enter(at, pid, kind)
  PROVE  block' \in Block
  BY DEF Enter, Block

LEMMA NoBlockType == NoBlock \in Block
  BY DEF NoBlock, Block, Pid, NoPid

\* Whoever changes one call only, to one of the right type, keeps the types of all.
LEMMA CallType ==
  ASSUME Types, NEW e \in Executor, NEW c \in Call, SetCall(e, c),
         c.at \in {"spawn", "wait"} => c.tries < MaxTries
  PROVE  exec' \in [Executor -> Call] /\ AttemptsLeft'
  BY DEF Types, TypeOK, AttemptsLeft, SetCall

LEMMA TriedType ==
  ASSUME Types, NEW e \in Executor, NEW n \in 1 .. MaxTries, NEW o \in Outcome, Tried(e, n, o)
  PROVE  exec' \in [Executor -> Call] /\ AttemptsLeft'
<1> DEFINE at == IF o \in {"success", "question"} \/ n = MaxTries THEN "finalize" ELSE "spawn"
           c  == [exec[e] EXCEPT !.tries = n, !.child = NoPid, !.outcome = o, !.at = at]
<1>1. exec[e] \in Call
  BY DEF Types, TypeOK
<1>2. at \in {"finalize", "spawn"} /\ (at = "spawn" => n < MaxTries)
  BY ConstantsOK
<1>3. SetCall(e, c)
  BY DEF Tried
<1> HIDE DEF at
<1>4. c \in Call /\ c.at = at /\ c.tries = n
  <2>1. n \in 0 .. MaxTries /\ at \in {"idle", "spawn", "wait", "finalize", "close"}
    BY <1>2, ConstantsOK
  <2> QED
    BY <1>1, <2>1 DEF Call
<1> HIDE DEF c
<1> QED
  BY <1>2, <1>3, <1>4, CallType

LEMMA TypesInit == Init => Types
<1> SUFFICES ASSUME Init PROVE Types
  OBVIOUS
<1>1. exec \in [Executor -> Call] /\ AttemptsLeft
  BY NoCallType DEF Init, AttemptsLeft
<1>2. TypeOK
  <2>1. alive = {} /\ reported = {} /\ spawned = 0 /\ queueings = 1 /\ claims = 0 /\ starts = 0
    BY DEF Init
  <2>2. alive \subseteq 1 .. spawned /\ reported \subseteq 1 .. spawned
    BY <2>1
  <2>3. spawned \in 0 .. MaxPid /\ queueings \in 1 .. MaxQueueings /\ claims \in Nat /\ starts \in 0 .. MaxStarts
    BY <2>1, ConstantsOK
  <2>4. block \in Block /\ up \subseteq Executor
    BY NoBlockType DEF Init
  <2>5. status \in Status /\ needsInput \in BOOLEAN /\ claudePid \in Pid \cup {NoPid} /\ started \in BOOLEAN
        /\ run \in Run /\ extra \in Nat /\ stopping \in {"no", "kill", "finish"} /\ overdue \in BOOLEAN
    BY DEF Init, Status, Run
  <2> QED
    BY <1>1, <2>2, <2>3, <2>4, <2>5 DEF TypeOK
<1> QED
  BY <1>1, <1>2 DEF Types

LEMMA TypesStep == Types /\ [Next]_vars => Types'
<1> SUFFICES ASSUME Types, [Next]_vars
             PROVE  Types'
  OBVIOUS
<1> DEFINE SameCalls == exec' \in [Executor -> Call] /\ AttemptsLeft'
<1> USE DEF Types, Pid, NoPid, Status, Run
<1>0. ASSUME UNCHANGED exec
      PROVE  SameCalls
  BY <1>0 DEF TypeOK, AttemptsLeft
<1>1. ASSUME NEW e \in Executor, Claim(e)
      PROVE  Types'
  <2> DEFINE first == ~started
             c == [NoCall EXCEPT !.at = "spawn", !.fresh = first]
  <2>0. first \in BOOLEAN
    BY DEF TypeOK
  <2> HIDE DEF first
  <2>1. c \in Call /\ c.tries < MaxTries
    BY <2>0, ClaimedCallType
  <2>2. SetCall(e, c)
    BY <1>1 DEF Claim, first
  <2> HIDE DEF c
  <2>3. SameCalls
    BY <2>1, <2>2, CallType
  <2>4. claims' \in Nat
    BY <1>1 DEF Claim, TypeOK
  <2> QED
    BY <1>1, <2>3, <2>4 DEF Claim, claude, TypeOK
<1>2. ASSUME NEW e \in Executor, Spawn(e)
      PROVE  Types'
  <2> DEFINE c == [exec[e] EXCEPT !.at = "wait", !.child = spawned']
  <2>1. exec[e] \in Call /\ exec[e].tries < MaxTries
    BY <1>2 DEF Spawn, TypeOK, AttemptsLeft
  <2>2. spawned' \in 1 .. MaxPid /\ spawned' = spawned + 1 /\ spawned \in Nat
    BY <1>2, ConstantsOK DEF Spawn, TypeOK
  <2>3. c \in Call /\ c.tries < MaxTries
    BY <2>1, <2>2 DEF Call
  <2>4. SetCall(e, c)
    BY <1>2 DEF Spawn
  <2> HIDE DEF c
  <2>5. SameCalls
    BY <2>3, <2>4, CallType
  <2>6. alive' \subseteq 1 .. spawned' /\ reported' \subseteq 1 .. spawned' /\ spawned' \in 0 .. MaxPid
    BY <1>2, <2>2 DEF Spawn, TypeOK
  <2> QED
    BY <1>2, <2>5, <2>6 DEF Spawn, table, row, history, TypeOK
<1>3. ASSUME NEW e \in Executor, SpawnFails(e) \/ ChildClosed(e) \/ TimeOut(e)
      PROVE  Types'
  <2>1. PICK n \in 1 .. MaxTries, o \in Outcome : Tried(e, n, o)
    <3>1. exec[e] \in Call /\ exec[e].tries \in 0 .. MaxTries /\ exec[e].tries < MaxTries
      BY <1>3 DEF SpawnFails, ChildClosed, TimeOut, TypeOK, AttemptsLeft, Call
    <3>2. MaxTries \in 1 .. MaxTries /\ exec[e].tries + 1 \in 1 .. MaxTries
      BY <3>1, ConstantsOK
    <3>3. {"success", "question", "failure", "timeout"} = Outcome
      BY DEF Outcome
    <3> QED
      BY <1>3, <3>2, <3>3 DEF SpawnFails, ChildClosed, TimeOut
  <2>2. SameCalls
    BY <2>1, TriedType
  <2>3. alive' \subseteq 1 .. spawned'
    BY <1>3 DEF SpawnFails, ChildClosed, TimeOut, claude, TypeOK
  <2> QED
    BY <1>3, <2>2, <2>3 DEF SpawnFails, ChildClosed, TimeOut, table, row, claude, history, TypeOK
<1>4. ASSUME NEW e \in Executor, Finalize(e)
      PROVE  Types'
  <2> DEFINE c == [exec[e] EXCEPT !.at = "close"]
  <2>1. c \in Call /\ c.at = "close"
    BY DEF TypeOK, Call
  <2>2. SetCall(e, c)
    BY <1>4 DEF Finalize, GoTo, SetCall
  <2> HIDE DEF c
  <2>3. SameCalls
    BY <2>1, <2>2, CallType
  <2> QED
    BY <1>4, <2>3 DEF Finalize, claude, history, TypeOK
<1>5. ASSUME NEW e \in Executor, Close(e)
      PROVE  Types'
  <2>1. SameCalls
    BY <1>5, NoCallType, CallType DEF Close
  <2>2. exec[e].outcome \in Outcome
    BY DEF TypeOK, Call
  <2>3. run' \in Run /\ extra' \in Nat
    BY <1>5, <2>2 DEF Close, TypeOK, Outcome
  <2> QED
    BY <1>5, <2>1, <2>3 DEF Close, row, claude, history, TypeOK
<1>6. ASSUME NEW e \in Executor, Start(e)
      PROVE  Types'
  <2>1. block' \in Block
    BY <1>6, EnterType DEF Start, RecoverSelect, TypeOK
  <2>2. starts' \in 0 .. MaxStarts
    BY <1>6, ConstantsOK DEF Start, TypeOK
  <2> QED
    BY <1>0, <1>6, <2>1, <2>2 DEF Start, table, row, claude, history, TypeOK
<1>7. ASSUME NEW e \in Executor, Down(e)
      PROVE  Types'
  <2>1. SameCalls
    BY <1>7, NoCallType, CallType DEF Down
  <2> QED
    BY <1>7, <2>1, NoBlockType DEF Down, table, row, claude, history, TypeOK
<1>8. ASSUME NEW p \in Pid, Exit(p) \/ Report(p)
      PROVE  Types'
  BY <1>0, <1>8 DEF Exit, Report, table, row, history, TypeOK
<1>9. CASE InBlock
  <2>1. block' \in Block
    <3>1. block.pid \in Pid \cup {NoPid} /\ block.kind \in {"none", "foreign", "own", "pid", "nullPid", "input"}
      BY DEF TypeOK, Block
    <3> QED
      BY <1>9, <3>1, EnterType, NoBlockType
      DEF InBlock, RecoverTask, RecoverRuns, RecoverClose, ReapJudge, ReapUpdate, ReapClose
  <2>2. status' \in Status /\ needsInput' \in BOOLEAN /\ claudePid' \in Pid \cup {NoPid} /\ run' \in Run
        /\ UNCHANGED <<started, extra, up, exec, stopping, claude, overdue, starts, history>>
    BY <1>9 DEF InBlock, RecoverTask, RecoverRuns, RecoverClose, ReapJudge, ReapUpdate, ReapClose,
                table, row, TypeOK
  <2> QED
    BY <1>0, <2>1, <2>2 DEF claude, history, TypeOK
<1>10. CASE ReapSelect
  <2>1. block' \in Block
    BY <1>10, EnterType DEF ReapSelect, TypeOK
  <2> QED
    BY <1>0, <1>10, <2>1 DEF ReapSelect, table, row, claude, history, TypeOK
<1>11. CASE ClearPid \/ StopMark \/ StopKill \/ StopFinish
  BY <1>0, <1>11 DEF ClearPid, StopMark, StopKill, StopFinish, table, row, claude, history, TypeOK
<1>12. CASE Execute
  <2>1. queueings' \in 1 .. MaxQueueings
    BY <1>12, ConstantsOK DEF Execute, TypeOK
  <2> QED
    BY <1>0, <1>12, <2>1 DEF Execute, claude, TypeOK
<1>13. CASE PatchStatus \/ BudgetExpires \/ UNCHANGED vars
  BY <1>0, <1>13 DEF PatchStatus, BudgetExpires, vars, table, row, claude, history, TypeOK
<1> QED
  BY <1>1, <1>2, <1>3, <1>4, <1>5, <1>6, <1>7, <1>8, <1>9, <1>10, <1>11, <1>12, <1>13
  DEF Next, Attempt

\* The rows, the calls and the server's block keep their types: no execution makes more
\* attempts than the job allows, and no hook reports a process nobody has started.
THEOREM ExecutionTypes == Spec => []TypeOK
<1>1. Types => TypeOK
  BY DEF Types
<1> QED
  BY TypesInit, TypesStep, <1>1, PTL DEF Spec

-----------------------------------------------------------------------------
(***************************************************************************)
(* The reaper and the executor.                                            *)
(***************************************************************************)

\* The budget of a run does not expire during the first execution.
FirstIsInTime ==
    \A e \in Executor : Executing(e) /\ exec[e].fresh /\ run = "open" => ~overdue

\* A pass that decides to finalize a running task has seen its run closed or overdue ...
DecidedRightly ==
    block.at = "update" /\ block.kind # "input" /\ run = "open" => overdue

\* ... and nobody claims the task during the pass: to be claimed it would have to be queued,
\* and queueing is the server's, which is busy with the pass.
NotQueuedInPass == block.at \in {"judge", "update", "close"} => status # "queued"

ReaperInv == FirstIsInTime /\ DecidedRightly /\ NotQueuedInPass

LEMMA ReaperInit == Init => ReaperInv
  BY DEF Init, ReaperInv, FirstIsInTime, DecidedRightly, NotQueuedInPass, NoBlock

\* What an execution that has begun does to its call.
LEMMA CallsKept ==
  ASSUME Types, NEW e \in Executor, NEW n, NEW o, Tried(e, n, o) \/ (\E l \in {"close"} : GoTo(e, l))
  PROVE  \A f \in Executor : exec'[f].fresh = exec[f].fresh /\ (f # e => exec'[f] = exec[f])
<1> exec[e] \in Call /\ exec \in [Executor -> Call]
  BY DEF Types, TypeOK
<1>1. CASE Tried(e, n, o)
  <2> DEFINE at == IF o \in {"success", "question"} \/ n = MaxTries THEN "finalize" ELSE "spawn"
             c  == [exec[e] EXCEPT !.tries = n, !.child = NoPid, !.outcome = o, !.at = at]
  <2>1. exec' = [exec EXCEPT ![e] = c]
    BY <1>1 DEF Tried, SetCall
  <2> HIDE DEF at
  <2>2. c.fresh = exec[e].fresh
    BY DEF Call
  <2> HIDE DEF c
  <2> QED
    BY <2>1, <2>2
<1>2. CASE \E l \in {"close"} : GoTo(e, l)
  BY <1>2 DEF GoTo, Call
<1> QED
  BY <1>1, <1>2

LEMMA ReaperStep == Types /\ ReaperInv /\ [Next]_vars => ReaperInv'
<1> SUFFICES ASSUME Types, ReaperInv, [Next]_vars
             PROVE  ReaperInv'
  OBVIOUS
<1> USE DEF ReaperInv
<1>1. ASSUME UNCHANGED <<run, overdue, block>>, status' = "queued" => status = "queued",
             \A f \in Executor : Executing(f)' => Executing(f) /\ exec'[f].fresh = exec[f].fresh
      PROVE  ReaperInv'
  BY <1>1 DEF FirstIsInTime, DecidedRightly, NotQueuedInPass, Executing
<1>2. ASSUME NEW e \in Executor, Claim(e)
      PROVE  ReaperInv'
  <2>1. block' = block /\ run' = run /\ block.at \notin {"judge", "update", "close"}
    BY <1>2 DEF Claim, Claimable, NotQueuedInPass
  <2>2. ASSUME NEW f \in Executor, Executing(f)', exec'[f].fresh, run' = "open"
        PROVE  ~overdue'
    <3>1. CASE f = e
      <4>1. exec'[e].fresh = ~started
        BY <1>2 DEF Claim, SetCall, NoCall, Types, TypeOK
      <4> QED
        BY <1>2, <2>2, <3>1, <4>1 DEF Claim
    <3>2. CASE f # e
      BY <1>2, <2>2, <3>2 DEF Claim, SetCall, FirstIsInTime, Executing, Types, TypeOK
    <3> QED
      BY <3>1, <3>2
  <2> QED
    BY <2>1, <2>2 DEF FirstIsInTime, DecidedRightly, NotQueuedInPass
<1>3. ASSUME NEW e \in Executor, Spawn(e)
      PROVE  ReaperInv'
  <2>1. \A f \in Executor : Executing(f)' => Executing(f) /\ exec'[f].fresh = exec[f].fresh
    BY <1>3 DEF Spawn, SetCall, Executing, Types, TypeOK, Call
  <2> QED
    BY <1>1, <1>3, <2>1 DEF Spawn, table, row
<1>4. ASSUME NEW e \in Executor, SpawnFails(e) \/ ChildClosed(e) \/ TimeOut(e)
      PROVE  ReaperInv'
  <2>1. PICK n, o : Tried(e, n, o)
    BY <1>4 DEF SpawnFails, ChildClosed, TimeOut
  <2>2. Executing(e)
    BY <1>4 DEF SpawnFails, ChildClosed, TimeOut, Executing
  <2>3. \A f \in Executor : Executing(f)' => Executing(f) /\ exec'[f].fresh = exec[f].fresh
    BY <2>1, <2>2, CallsKept DEF Executing
  <2> QED
    BY <1>1, <1>4, <2>3 DEF SpawnFails, ChildClosed, TimeOut, table, row
<1>5. ASSUME NEW e \in Executor, Finalize(e)
      PROVE  ReaperInv'
  <2>1. GoTo(e, "close") /\ Executing(e)
    BY <1>5 DEF Finalize, Executing
  <2>2. \A f \in Executor : Executing(f)' => Executing(f) /\ exec'[f].fresh = exec[f].fresh
    BY <2>1, CallsKept DEF Executing
  <2> QED
    BY <1>1, <1>5, <2>2 DEF Finalize
<1>6. ASSUME NEW e \in Executor, Close(e)
      PROVE  ReaperInv'
  <2>1. run' # "open"
    <3>1. exec[e].outcome \in Outcome
      BY DEF Types, TypeOK, Call
    <3> QED
      BY <1>6, <3>1 DEF Close, Outcome
  <2> QED
    BY <1>6, <2>1 DEF Close, row, FirstIsInTime, DecidedRightly, NotQueuedInPass
<1>7. ASSUME NEW e \in Executor, Start(e)
      PROVE  ReaperInv'
  <2>1. CASE e = Server
    <3>1. block'.at \in {"recoverTask", "recoverRuns"}
      BY <1>7, <2>1 DEF Start, RecoverSelect, Enter
    <3> QED
      BY <1>7, <3>1 DEF Start, table, row, FirstIsInTime, DecidedRightly, NotQueuedInPass, Executing
  <2>2. CASE e # Server
    BY <1>1, <1>7, <2>2 DEF Start, table, row, Executing
  <2> QED
    BY <2>1, <2>2
<1>8. ASSUME NEW e \in Executor, Down(e)
      PROVE  ReaperInv'
  <2>1. \A f \in Executor : Executing(f)' => Executing(f) /\ exec'[f].fresh = exec[f].fresh
    BY <1>8, NoCallType DEF Down, SetCall, Executing, Types, TypeOK
  <2>2. block' = block \/ block'.at = "none"
    BY <1>8 DEF Down, NoBlock
  <2> QED
    BY <1>8, <2>1, <2>2 DEF Down, table, row, FirstIsInTime, DecidedRightly, NotQueuedInPass
<1>9. ASSUME NEW p \in Pid, Exit(p) \/ Report(p)
      PROVE  ReaperInv'
  BY <1>1, <1>9 DEF Exit, Report, table, row, Executing
<1>10. CASE RecoverTask
  BY <1>10 DEF RecoverTask, Enter, FirstIsInTime, DecidedRightly, NotQueuedInPass, Executing
<1>11. CASE RecoverRuns
  <2>1. block'.at \in {"recoverClose", "none"}
    BY <1>11 DEF RecoverRuns, Enter, NoBlock
  <2> QED
    BY <1>11, <2>1 DEF RecoverRuns, table, row, FirstIsInTime, DecidedRightly, NotQueuedInPass, Executing
<1>12. CASE RecoverClose \/ ReapClose
  <2>1. block'.at = "none" /\ run' # "open" /\ UNCHANGED <<exec, overdue, status>>
    BY <1>12 DEF RecoverClose, ReapClose, NoBlock, row
  <2> QED
    BY <2>1 DEF FirstIsInTime, DecidedRightly, NotQueuedInPass
<1>13. CASE ReapSelect
  <2>1. block'.at = "judge" /\ status = "running"
    BY <1>13 DEF ReapSelect, Enter
  <2> QED
    BY <1>13, <2>1 DEF ReapSelect, table, row, FirstIsInTime, DecidedRightly, NotQueuedInPass, Executing
<1>14. CASE ReapJudge
  <2>1. CASE Reapable
    <3>1. block' = [at |-> "update", pid |-> block.pid, kind |-> block.kind]
          /\ UNCHANGED <<run, exec, overdue, status>> /\ status # "queued"
      BY <1>14, <2>1 DEF ReapJudge, Enter, table, row, NotQueuedInPass
    <3>2. block.kind = "input" \/ run # "open" \/ overdue
      BY <2>1 DEF Reapable, Awaiting
    <3> QED
      BY <3>1, <3>2 DEF FirstIsInTime, DecidedRightly, NotQueuedInPass, Executing
  <2>2. CASE ~Reapable
    BY <1>14, <2>2 DEF ReapJudge, NoBlock, table, row, FirstIsInTime, DecidedRightly, NotQueuedInPass, Executing
  <2> QED
    BY <2>1, <2>2
<1>15. CASE ReapUpdate
  BY <1>15 DEF ReapUpdate, Enter, FirstIsInTime, DecidedRightly, NotQueuedInPass, Executing
<1>16. CASE ClearPid \/ StopMark \/ StopKill \/ StopFinish \/ PatchStatus
  BY <1>1, <1>16 DEF ClearPid, StopMark, StopKill, StopFinish, PatchStatus, table, row, Executing
<1>17. CASE Execute
  <2>1. block.at = "none"
    BY <1>17 DEF Execute, ServerFree, NoBlock
  <2> QED
    BY <1>17, <2>1 DEF Execute, FirstIsInTime, DecidedRightly, NotQueuedInPass, Executing
<1>18. CASE BudgetExpires
  BY <1>18 DEF BudgetExpires, table, row, FirstIsInTime, DecidedRightly, NotQueuedInPass, Executing
<1>19. CASE UNCHANGED vars
  BY <1>1, <1>19 DEF vars, table, row, Executing
<1> QED
  BY <1>2, <1>3, <1>4, <1>5, <1>6, <1>7, <1>8, <1>9, <1>10, <1>11, <1>12, <1>13, <1>14, <1>15,
     <1>16, <1>17, <1>18, <1>19 DEF Next, Attempt, InBlock

\* isAwaitingCronRuntime keeps every pass of the reaper away from a task whose first
\* execution is under way, whatever the executor, the hook and Claude do meanwhile.
THEOREM ReaperWaits == Spec => []ReaperAwaitsRuntime
<1>1. ReaperInv => ReaperAwaitsRuntime
  BY DEF ReaperInv, FirstIsInTime, DecidedRightly, ReaperAwaitsRuntime
<1> QED
  BY TypesInit, TypesStep, ReaperInit, ReaperStep, <1>1, PTL DEF Spec

=============================================================================
