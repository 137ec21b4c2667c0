----------------------------- MODULE MemoryOutbox -----------------------------
(***************************************************************************)
(* The offline outbox of scripts/lib/memory-sync-outbox.cjs.  A Team OS    *)
(* memory write whose POST fails is queued as a row of memory_sync_outbox; *)
(* the hooks and `team memory sync` drain the table later.  One row        *)
(* exists for each dedupe key.                                             *)
(*                                                                         *)
(* Every SQL statement commits on its own, a POST lies between two of      *)
(* them, and a process may end at any point.  Several processes drain at   *)
(* once when the store is a Postgres (with PGLite the store's lock only    *)
(* removes behaviours).  The LIMIT of a drain is above the rows here.      *)
(***************************************************************************)
EXTENDS Naturals

CONSTANTS
    Process,   \* the processes that drain: hooks, `team memory sync`
    Request,   \* the memory writes
    Slot,      \* the dedupe keys
    Key,       \* Key[r]: dedupeKeyFor(r)
    MaxId,     \* bound on the rows inserted
    NoRow

Status == {"queued", "syncing", "failed"}
Id     == 1 .. MaxId
Item   == [id : Id, req : Request]
Row    == [id : Id, req : Request, status : Status, due : BOOLEAN, stale : BOOLEAN]

ASSUME ConstantsOK ==
    /\ Key \in [Request -> Slot]
    /\ MaxId \in Nat
    /\ NoRow \notin Row

VARIABLES
    row,       \* row[k]: the row with dedupe key k
    lastId,    \* the id of the latest row
    at,        \* at[p]: the statement process p is at
    todo,      \* todo[p]: the rows p selected and has not dealt with
    item,      \* item[p]: the row p is dealing with
    got        \* the writes the Team OS API has received

vars == <<row, lastId, at, todo, item, got>>

NoItem == [id |-> 0]

TypeOK ==
    /\ row \in [Slot -> Row \cup {NoRow}]
    /\ lastId \in 0 .. MaxId
    /\ at \in [Process -> {"off", "select", "mark", "post", "delete", "retry", "fail"}]
    /\ todo \in [Process -> SUBSET Item]
    /\ item \in [Process -> Item \cup {NoItem}]
    /\ got \subseteq Request

Init ==
    /\ row = [k \in Slot |-> NoRow]
    /\ lastId = 0
    /\ at = [p \in Process |-> "off"]
    /\ todo = [p \in Process |-> {}]
    /\ item = [p \in Process |-> NoItem]
    /\ got = {}

Present(k)  == row[k] # NoRow
Holds(k, i) == Present(k) /\ row[k].id = i

GoTo(p, l) == at' = [at EXCEPT ![p] = l]

-----------------------------------------------------------------------------
(***************************************************************************)
(* The statements.                                                         *)
(***************************************************************************)

\* The POST that is tried first reaches the API; whether its answer comes back
\* decides whether the write is queued as well.
Direct(r) ==
    /\ got' = got \cup {r}
    /\ UNCHANGED <<row, lastId, at, todo, item>>

\* queueMemoryOutboxItem: INSERT ... ON CONFLICT (dedupe_key) DO UPDATE.
Queue(r) ==
    LET k == Key[r]
        Queued(i) == [id |-> i, req |-> r, status |-> "queued",
                      due |-> TRUE, stale |-> FALSE]
    IN  /\ \/ /\ ~Present(k)
              /\ lastId < MaxId
              /\ lastId' = lastId + 1
              /\ row' = [row EXCEPT ![k] = Queued(lastId')]
           \/ /\ Present(k)
              /\ row' = [row EXCEPT ![k] = Queued(row[k].id)]
              /\ UNCHANGED lastId
        /\ UNCHANGED <<at, todo, item, got>>

\* What reclaimStaleSyncingItems makes of a row; the mutant reclaims nothing.
MutReclaimed(r) == r
Reclaimed(r) ==
    IF r # NoRow /\ r.status = "syncing" /\ r.stale
      THEN [r EXCEPT !.status = "queued", !.due = TRUE, !.stale = FALSE]
      ELSE r

\* A drain begins.
Reclaim(p) ==
    /\ at[p] = "off"
    /\ row' = [k \in Slot |-> Reclaimed(row[k])]
    /\ GoTo(p, "select")
    /\ UNCHANGED <<lastId, todo, item, got>>

\* The due rows; `team memory sync --failed` takes the failed ones too.
Selected(statuses) ==
    {[id |-> row[k].id, req |-> row[k].req] :
        k \in {l \in Slot : Present(l) /\ row[l].status \in statuses /\ row[l].due}}

Select(p) ==
    /\ at[p] = "select"
    /\ \E statuses \in {{"queued"}, {"queued", "failed"}} :
        /\ todo' = [todo EXCEPT ![p] = Selected(statuses)]
        /\ GoTo(p, IF Selected(statuses) = {} THEN "off" ELSE "mark")
    /\ UNCHANGED <<row, lastId, item, got>>

\* UPDATE ... WHERE id = ?: nothing happens when the row is gone.
Update(i, status, due) ==
    row' = [k \in Slot |->
              IF Holds(k, i)
                THEN [row[k] EXCEPT !.status = status, !.due = due, !.stale = FALSE]
                ELSE row[k]]

\* ORDER BY created_at.
Mark(p) ==
    /\ at[p] = "mark"
    /\ \E i \in todo[p] :
        /\ \A j \in todo[p] : i.id <= j.id
        /\ item' = [item EXCEPT ![p] = i]
        /\ todo' = [todo EXCEPT ![p] = @ \ {i}]
        /\ row' = [k \in Slot |->
                     IF Holds(k, i.id)
                       THEN [row[k] EXCEPT !.status = "syncing", !.stale = FALSE]
                       ELSE row[k]]
    /\ GoTo(p, "post")
    /\ UNCHANGED <<lastId, got>>

\* The POST of the body that was selected, and what comes back: success; nothing,
\* with or without the write having arrived; a refusal (4xx).
Answered(p) ==
    /\ at[p] = "post"
    /\ got' = got \cup {item[p].req}
    /\ GoTo(p, "delete")
    /\ UNCHANGED <<row, lastId, todo, item>>

AnswerLost(p) ==
    /\ at[p] = "post"
    /\ got' = got \cup {item[p].req}
    /\ GoTo(p, "retry")
    /\ UNCHANGED <<row, lastId, todo, item>>

\* The mutant takes a lost connection for an answer.
MutUnreachable(p) ==
    /\ at[p] = "post"
    /\ GoTo(p, "delete")
    /\ UNCHANGED <<row, lastId, todo, item, got>>
Unreachable(p) ==
    /\ at[p] = "post"
    /\ GoTo(p, "retry")
    /\ UNCHANGED <<row, lastId, todo, item, got>>

Refused(p) ==
    /\ at[p] = "post"
    /\ GoTo(p, "fail")
    /\ UNCHANGED <<row, lastId, todo, item, got>>

Continue(p) ==
    /\ item' = [item EXCEPT ![p] = NoItem]
    /\ GoTo(p, IF todo[p] = {} THEN "off" ELSE "mark")
    /\ UNCHANGED <<lastId, todo, got>>

\* DELETE ... WHERE id = ?
Delete(p) ==
    /\ at[p] = "delete"
    /\ row' = [k \in Slot |-> IF Holds(k, item[p].id) THEN NoRow ELSE row[k]]
    /\ Continue(p)

\* The DELETE is inside the try: when it fails the row is retried.
DeleteFails(p) ==
    /\ at[p] = "delete"
    /\ GoTo(p, "retry")
    /\ UNCHANGED <<row, lastId, todo, item, got>>

\* Due again in five minutes.
Retry(p) ==
    /\ at[p] = "retry"
    /\ Update(item[p].id, "queued", FALSE)
    /\ Continue(p)

\* The mutant drops what the API has refused.
MutGiveUp(p) ==
    /\ at[p] = "fail"
    /\ row' = [k \in Slot |-> IF Holds(k, item[p].id) THEN NoRow ELSE row[k]]
    /\ Continue(p)
GiveUp(p) ==
    /\ at[p] = "fail"
    /\ Update(item[p].id, "failed", TRUE)
    /\ Continue(p)

\* The process ends, or a statement throws out of the drain.
Crash(p) ==
    /\ at[p] # "off"
    /\ GoTo(p, "off")
    /\ todo' = [todo EXCEPT ![p] = {}]
    /\ item' = [item EXCEPT ![p] = NoItem]
    /\ UNCHANGED <<row, lastId, got>>

\* Five minutes since a failed attempt; ten since a row was marked.
BecomesDue(k) ==
    /\ Present(k)
    /\ ~row[k].due
    /\ row' = [row EXCEPT ![k].due = TRUE]
    /\ UNCHANGED <<lastId, at, todo, item, got>>

BecomesStale(k) ==
    /\ Present(k)
    /\ row[k].status = "syncing"
    /\ ~row[k].stale
    /\ row' = [row EXCEPT ![k].stale = TRUE]
    /\ UNCHANGED <<lastId, at, todo, item, got>>

Drain(p) ==
    \/ Reclaim(p)
    \/ Select(p)
    \/ Mark(p)
    \/ Answered(p)
    \/ AnswerLost(p)
    \/ Unreachable(p)
    \/ Refused(p)
    \/ Delete(p)
    \/ DeleteFails(p)
    \/ Retry(p)
    \/ GiveUp(p)
    \/ Crash(p)

Next ==
    \/ \E r \in Request : Direct(r) \/ Queue(r)
    \/ \E p \in Process : Drain(p)
    \/ \E k \in Slot : BecomesDue(k) \/ BecomesStale(k)

Spec == Init /\ [][Next]_vars

\* Somebody drains again and again, time passes, a process that keeps trying gets
\* through its statements now and then, and the API answers now and then.
Fairness ==
    /\ \A k \in Slot : WF_vars(BecomesDue(k)) /\ WF_vars(BecomesStale(k))
    /\ \A p \in Process :
        /\ WF_vars(Reclaim(p) \/ Retry(p) \/ GiveUp(p))
        /\ SF_vars(Select(p))
        /\ SF_vars(Mark(p))
        /\ SF_vars(Answered(p))
        /\ SF_vars(Delete(p))

FairSpec == Spec /\ Fairness

-----------------------------------------------------------------------------
(***************************************************************************)
(* Properties.                                                             *)
(***************************************************************************)

\* What is in the table.
Owed == {row[k].req : k \in {l \in Slot : Present(l)}}

D == INSTANCE MemoryDelivery WITH owed <- Owed, got <- got

\* At-least-once delivery: whatever is lost, repeated, interrupted or drained by
\* two processes at once, a queued write leaves the table only when the API has it.
AtLeastOnce == D!Spec

\* A row belongs to its dedupe key, ids are not reused, a selected row still
\* stands for the write that was selected, and a row is deleted only for a write
\* the API has answered.
KeyedRows ==
    /\ \A k \in Slot : Present(k) => Key[row[k].req] = k /\ row[k].id <= lastId
    /\ \A k, l \in Slot : Present(k) /\ Holds(l, row[k].id) => k = l

Busy(p) == at[p] \notin {"off", "select", "mark"}

SnapshotsAgree ==
    \A p \in Process :
        /\ Busy(p) => item[p] \in Item
        /\ \A i \in todo[p] \cup {item[p]} :
              /\ i.id <= lastId
              /\ \A k \in Slot : Holds(k, i.id) => Key[i.req] = k

DeletesReceived == \A p \in Process : at[p] = "delete" => item[p].req \in got

OutboxInv == TypeOK /\ KeyedRows /\ SnapshotsAgree /\ DeletesReceived

\* No row is stuck: a queued write leaves the table, or the API has refused it and
\* it waits for --failed; also after a crash between marking a row and the answer.
Refusal(r)  == \E k \in Slot : Present(k) /\ row[k].req = r /\ row[k].status = "failed"
EveryWriteSettles == \A r \in Request : r \in Owed ~> (r \notin Owed \/ Refusal(r))

=============================================================================
