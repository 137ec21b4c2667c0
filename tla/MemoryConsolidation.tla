------------------------ MODULE MemoryConsolidation ------------------------
(***************************************************************************)
(* Staged session captures and their consolidation into shared memory      *)
(* (command-centre/src/lib/memory/api.ts, scripts/memory-consolidate.cjs). *)
(* A client claims a batch of pending captures, has a model decide about   *)
(* them, and reports the decisions; administrators decide about what went  *)
(* to review.  No request of the server is a transaction: an action is one *)
(* SQL statement, where the redaction of old captures at the start and the *)
(* end of a request goes with the statement next to it.                    *)
(***************************************************************************)
EXTENDS Naturals, FiniteSets

CONSTANTS
  Captures,      \* the rows of memory_capture_events of one scope
  Clients,       \* machines that consolidate
  Admins,        \* administrators who work on the review queue
  Batches,       \* bound: names for memory_consolidation_batches, given away again
  NoBatch,       \* claimed_batch_id IS NULL
  Session,       \* the session of each capture
  Threshold,     \* CAPTURE_VOLUME_THRESHOLD
  Dispositions,  \* what the model may decide: publish, review, discard
  Scenarios      \* bound: the environments to consider, one for each behaviour

ASSUME NoBatchAssumption == NoBatch \notin Batches

(***************************************************************************)
(* A scenario says which captures each client may claim (its own, or all), *)
(* and what may happen besides: a capture is sent again, a client is gone  *)
(* while its model runs, the model leaves captures out or names one twice, *)
(* a claim expires before or during its report, claims overlap, the queue  *)
(* is reviewed, a month passes, the server crashes.                        *)
(***************************************************************************)
Events == {"resend", "gone", "omit", "twice", "slow", "race", "review", "month", "crash"}
ASSUME ScenariosAssumption ==
  Scenarios \subseteq [visible : [Clients -> SUBSET Captures], events : SUBSET Events]
ASSUME DispositionsAssumption == Dispositions \subseteq {"publish", "review", "discard"}

VARIABLES
  row,       \* memory_capture_events
  batch,     \* memory_consolidation_batches
  call,      \* the request of each client, and what the client knows of its batch
  review,    \* the request of each administrator
  scenario   \* the environment of this behaviour

vars == <<row, batch, call, review, scenario>>

Items == [caps : SUBSET Captures, disp : Dispositions]

(***************************************************************************)
(* Of a capture: whether its content is still there (raw), whether         *)
(* eligible_after has passed (ripe), and how long ago it was decided       *)
(* (processed_at).  owner is claimed_batch_id; the code reads it of        *)
(* claimed captures only, so that of any other is not kept.                *)
(* Of a batch: named is the set of captures its report was about, and cut  *)
(* tells that a crash ended the release of its captures; both are history, *)
(* which the properties alone read.  Completed stands for review, too.     *)
(***************************************************************************)
RowType == [status : {"none", "pending", "claimed", "processed", "review", "redacted"},
            owner : Batches \cup {NoBatch}, raw : BOOLEAN, ripe : BOOLEAN,
            decided : {"never", "lately", "longago"}]
BatchType == [status : {"none", "claimed", "completed", "failed"}, expired : BOOLEAN,
              named : SUBSET Captures, cut : BOOLEAN]
CallType == [at : {"idle", "release", "select", "insert", "take", "model",
                   "load", "assert", "publish", "settle", "finish"},
             batch : Batches \cup {NoBatch}, expired : SUBSET Batches,
             caps : SUBSET Captures, disp : Dispositions \cup {"none"}, todo : SUBSET Items]
ReviewType == [at : {"idle", "publish", "settle"}, caps : SUBSET Captures]

TypeOK ==
  /\ row \in [Captures -> RowType]
  /\ batch \in [Batches -> BatchType]
  /\ call \in [Clients -> CallType]
  /\ review \in [Admins -> ReviewType]
  /\ scenario \in Scenarios

May(event) == event \in scenario.events

Idle == [at |-> "idle", batch |-> NoBatch, expired |-> {}, caps |-> {}, disp |-> "none",
         todo |-> {}]
NoReview == [at |-> "idle", caps |-> {}]
NoBatchRow == [status |-> "none", expired |-> FALSE, named |-> {}, cut |-> FALSE]
NoRow == [status |-> "none", owner |-> NoBatch, raw |-> FALSE, ripe |-> FALSE,
          decided |-> "never"]

Init ==
  /\ row = [c \in Captures |-> NoRow]
  /\ batch = [b \in Batches |-> NoBatchRow]
  /\ call = [k \in Clients |-> Idle]
  /\ review = [a \in Admins |-> NoReview]
  /\ scenario \in Scenarios

----------------------------------------------------------------------------
(***************************************************************************)
(* Statements                                                              *)
(***************************************************************************)
\* The rows whose content goes: decided over 30 days ago, and still settled.
Redactable(r) == r.status \in {"processed", "review"} /\ r.decided = "longago"

MutRedacted ==
  [c \in Captures |->
     IF Redactable(row[c]) THEN [row[c] EXCEPT !.status = "redacted", !.raw = FALSE]
     ELSE IF row[c].decided = "longago" THEN [row[c] EXCEPT !.raw = FALSE] ELSE row[c]]

\* redactProcessedCaptures
Redacted ==
  [c \in Captures |-> IF Redactable(row[c]) THEN [row[c] EXCEPT !.status = "redacted", !.raw = FALSE]
                                            ELSE row[c]]

MutSettled(caps, status) ==
  [c \in Captures |->
     IF c \in caps
       THEN [row[c] EXCEPT !.status = IF status = "processed" THEN "completed" ELSE status,
                           !.decided = "lately", !.owner = NoBatch]
       ELSE row[c]]

\* UPDATE ... SET status, processed_at = now() WHERE id = ANY(caps): whatever the rows are by now.
Settled(caps, status) ==
  [c \in Captures |->
     IF c \in caps
       THEN [row[c] EXCEPT !.status = status, !.decided = "lately", !.owner = NoBatch]
       ELSE row[c]]

Expired == {b \in Batches : batch[b].status = "claimed" /\ batch[b].expired}

MutFreed(ids) == {c \in Captures : row[c].status = "claimed" /\ row[c].owner \in ids /\ row[c].ripe}

\* UPDATE ... WHERE claimed_batch_id = ANY(ids) AND status = 'claimed'
Freed(ids) == {c \in Captures : row[c].status = "claimed" /\ row[c].owner \in ids}

SessionPending(k, c) ==
  {d \in scenario.visible[k] : row[d].status = "pending" /\ Session[d] = Session[c]}

MutClaimable(k) ==
  {c \in scenario.visible[k] :
     row[c].status = "pending" /\ Cardinality(SessionPending(k, c)) >= Threshold}

\* findClaimableCaptures: quiet for long enough, or many in one session.
Claimable(k) ==
  {c \in scenario.visible[k] :
     /\ row[c].status = "pending"
     /\ row[c].ripe \/ Cardinality(SessionPending(k, c)) >= Threshold}

\* Names for a new batch: nothing can tell these from ones that were never given away.
Unused ==
  {b \in Batches : /\ batch[b].status # "claimed"
                   /\ \A c \in Captures : row[c].owner # b
                   /\ \A k \in Clients : call[k].batch # b /\ b \notin call[k].expired}

\* What the model may answer to these captures, after normalizeModelItems and buildCompleteItems.
Answers(caps) ==
  LET items == {i \in Items : i.caps # {} /\ i.caps \subseteq caps}
  IN  {todo \in SUBSET items :
         /\ todo # {} /\ Cardinality(todo) <= Cardinality(caps)
         /\ May("omit") \/ caps = UNION {i.caps : i \in todo}
         /\ May("twice") \/ \A i, j \in todo : i = j \/ i.caps \cap j.caps = {}}

At(k, place) == call[k].at = place
Goto(k, place) == call' = [call EXCEPT ![k].at = place]
Return(k) == call' = [call EXCEPT ![k] = Idle]

----------------------------------------------------------------------------
(***************************************************************************)
(* POST /v1/memory/captures.  The insertion or update of the row and the   *)
(* deferral of its session's other captures are one step.  A client may    *)
(* send a capture again: one that is not pending keeps its eligible_after, *)
(* and the others get the same.                                            *)
(***************************************************************************)
StillEligible(c) == row[c].ripe /\ row[c].status \notin {"none", "pending"}

Capture(c) ==
  /\ c \in UNION {scenario.visible[k] : k \in Clients}
  /\ row[c].status = "none" \/ May("resend")
  /\ row' = [d \in Captures |->
       IF d = c
         THEN IF row[c].status = "none" THEN [NoRow EXCEPT !.status = "pending", !.raw = TRUE]
              ELSE [Redacted[c] EXCEPT !.raw = TRUE, !.ripe = StillEligible(c)]
         ELSE IF row[d].status = "pending" /\ Session[d] = Session[c]
              THEN [row[d] EXCEPT !.ripe = StillEligible(c)]
              ELSE Redacted[d]]
  /\ UNCHANGED <<batch, call, review, scenario>>

(***************************************************************************)
(* POST /v1/memory/consolidation/claim                                     *)
(***************************************************************************)
\* Redaction, and the first statement of releaseExpiredConsolidationBatches.
Claim(k) ==
  /\ At(k, "idle")
  /\ May("race") \/ \A other \in Clients : call[other].at \notin {"release", "select", "insert", "take"}
  /\ row' = Redacted
  /\ batch' = [b \in Batches |-> IF b \in Expired THEN [batch[b] EXCEPT !.status = "failed", !.expired = FALSE]
                                                  ELSE batch[b]]
  /\ call' = [call EXCEPT ![k] = [Idle EXCEPT !.at = IF Expired = {} THEN "select" ELSE "release",
                                              !.expired = Expired]]
  /\ UNCHANGED <<review, scenario>>

Release(k) ==
  /\ At(k, "release")
  /\ row' = [c \in Captures |->
       IF c \in Freed(call[k].expired) THEN [row[c] EXCEPT !.status = "pending", !.owner = NoBatch]
                                       ELSE row[c]]
  /\ call' = [call EXCEPT ![k].at = "select", ![k].expired = {}]
  /\ UNCHANGED <<batch, review, scenario>>

Select(k) ==
  /\ At(k, "select")
  /\ IF Claimable(k) = {} \/ Unused = {} THEN Return(k)
     ELSE call' = [call EXCEPT ![k].at = "insert", ![k].caps = Claimable(k)]
  /\ UNCHANGED <<row, batch, review, scenario>>

\* insertConsolidationBatch
InsertBatch(k) ==
  /\ At(k, "insert")
  /\ Unused # {}
  /\ LET b == CHOOSE free \in Unused : TRUE
     IN
       /\ batch' = [batch EXCEPT ![b] = [NoBatchRow EXCEPT !.status = "claimed"]]
       /\ call' = [call EXCEPT ![k].at = "take", ![k].batch = b]
  /\ UNCHANGED <<row, review, scenario>>

\* UPDATE ... SET status = 'claimed' WHERE id = ANY(ids): the SELECT's rows, pending or not.
Take(k) ==
  /\ At(k, "take")
  /\ row' = [c \in Captures |->
       IF c \in call[k].caps THEN [row[c] EXCEPT !.status = "claimed", !.owner = call[k].batch]
                             ELSE row[c]]
  /\ Goto(k, "model")
  /\ UNCHANGED <<batch, review, scenario>>

(***************************************************************************)
(* The client: the model answers, and the report is sent; or the client is *)
(* gone, or its answer to the claim was lost.                              *)
(***************************************************************************)
Report(k) ==
  /\ At(k, "model")
  /\ \E todo \in Answers(call[k].caps) :
       call' = [call EXCEPT ![k].at = "load", ![k].caps = {}, ![k].todo = todo]
  /\ UNCHANGED <<row, batch, review, scenario>>

ClientGone(k) ==
  /\ May("gone")
  /\ At(k, "model")
  /\ Return(k)
  /\ UNCHANGED <<row, batch, review, scenario>>

(***************************************************************************)
(* POST /v1/memory/consolidation/complete                                  *)
(***************************************************************************)
Load(k) ==
  /\ At(k, "load")
  /\ LET b == call[k].batch
     IN  IF batch[b].status = "claimed"
           THEN /\ batch' = [batch EXCEPT ![b].named = UNION {i.caps : i \in call[k].todo}]
                /\ Goto(k, "assert")
           ELSE /\ Return(k)
                /\ UNCHANGED batch
  /\ UNCHANGED <<row, review, scenario>>

\* assertBatchCaptures
Held(b, caps) == \A c \in caps : row[c].status = "claimed" /\ row[c].owner = b

\* The next item: 409 ends the request when a capture is no longer the batch's.
AssertItem(k) ==
  /\ At(k, "assert")
  /\ \E i \in call[k].todo :
       IF Held(call[k].batch, i.caps)
         THEN call' = [call EXCEPT ![k].at = IF i.disp = "publish" THEN "publish" ELSE "settle",
                                   ![k].caps = i.caps, ![k].disp = i.disp,
                                   ![k].todo = @ \ {i}]
         ELSE Return(k)
  /\ UNCHANGED <<row, batch, review, scenario>>

\* ingestPreparedContent and insertSourceProvenance: other tables.
Publish(k) ==
  /\ At(k, "publish")
  /\ Goto(k, "settle")
  /\ UNCHANGED <<row, batch, review, scenario>>

\* The item's captures get their status by id, and the loop goes on.
Settle(k) ==
  /\ At(k, "settle")
  /\ row' = Settled(call[k].caps, IF call[k].disp = "review" THEN "review" ELSE "processed")
  /\ call' = [call EXCEPT ![k].at = IF call[k].todo = {} THEN "finish" ELSE "assert",
                          ![k].caps = {}, ![k].disp = "none"]
  /\ UNCHANGED <<batch, review, scenario>>

\* UPDATE ... SET status = 'completed' WHERE id: whatever the batch is by now.  Redaction.
Finish(k) ==
  /\ At(k, "finish")
  /\ batch' = [batch EXCEPT ![call[k].batch].status = "completed",
                            ![call[k].batch].expired = FALSE]
  /\ row' = Redacted
  /\ Return(k)
  /\ UNCHANGED <<review, scenario>>

(***************************************************************************)
(* handleMemoryReviewActionRequest: accept and discard.                    *)
(***************************************************************************)
\* loadReviewCaptureForDecision
Decide(a) ==
  /\ May("review")
  /\ review[a].at = "idle"
  /\ \E c \in Captures, at \in {"publish", "settle"} :
       /\ row[c].status = "review"
       /\ review' = [review EXCEPT ![a] = [at |-> at, caps |-> {c}]]
  /\ UNCHANGED <<row, batch, call, scenario>>

AcceptPublish(a) ==
  /\ review[a].at = "publish"
  /\ review' = [review EXCEPT ![a].at = "settle"]
  /\ UNCHANGED <<row, batch, call, scenario>>

\* UPDATE ... SET status = 'processed' WHERE id: another administrator may have decided.
SettleReview(a) ==
  /\ review[a].at = "settle"
  /\ row' = Settled(review[a].caps, "processed")
  /\ review' = [review EXCEPT ![a] = NoReview]
  /\ UNCHANGED <<batch, call, scenario>>

----------------------------------------------------------------------------
(***************************************************************************)
(* Time and faults                                                         *)
(***************************************************************************)
\* 20 minutes without a capture of the session.
BecomesRipe(c) ==
  /\ row[c].status # "none" /\ ~row[c].ripe
  /\ row' = [row EXCEPT ![c].ripe = TRUE]
  /\ UNCHANGED <<batch, call, review, scenario>>

\* 30 minutes after the claim.  The request that inserted the batch is over by then, and unless
\* the client is slow (its model ends after 8 minutes) so is its report.
Expires(b) ==
  /\ batch[b].status = "claimed" /\ ~batch[b].expired
  /\ \A k \in Clients : call[k].batch = b => May("slow") /\ ~At(k, "take")
  /\ batch' = [batch EXCEPT ![b].expired = TRUE]
  /\ UNCHANGED <<row, call, review, scenario>>

\* 30 days after the decisions; no request and no run of a model takes that long.
AMonthPasses ==
  /\ May("month")
  /\ \A k \in Clients : At(k, "idle")
  /\ \A a \in Admins : review[a] = NoReview
  /\ \E c \in Captures : row[c].decided = "lately"
  /\ row' = [c \in Captures |-> IF row[c].decided = "lately"
                                  THEN [row[c] EXCEPT !.decided = "longago"] ELSE row[c]]
  /\ UNCHANGED <<batch, call, review, scenario>>

\* The batch is closed, and the request that closed it has still to free its captures.
Releasing(b) == \E k \in Clients : At(k, "release") /\ b \in call[k].expired

\* Every request ends where it is; the clients' models run on.
ServerCrash ==
  /\ May("crash")
  /\ batch' = [b \in Batches |-> [batch[b] EXCEPT !.cut = @ \/ Releasing(b)]]
  /\ call' = [k \in Clients |-> IF At(k, "model") THEN call[k] ELSE Idle]
  /\ review' = [a \in Admins |-> NoReview]
  /\ UNCHANGED <<row, scenario>>

----------------------------------------------------------------------------
Request(k) ==
  \/ Release(k) \/ Select(k) \/ InsertBatch(k) \/ Take(k)
  \/ Load(k) \/ AssertItem(k) \/ Publish(k) \/ Settle(k) \/ Finish(k)

Next ==
  \/ \E c \in Captures : Capture(c) \/ BecomesRipe(c)
  \/ \E k \in Clients : Claim(k) \/ Request(k) \/ Report(k) \/ ClientGone(k)
  \/ \E a \in Admins : Decide(a) \/ AcceptPublish(a) \/ SettleReview(a)
  \/ \E b \in Batches : Expires(b)
  \/ AMonthPasses \/ ServerCrash

(***************************************************************************)
(* Requests go on and time passes.  Every client claims again and again    *)
(* (the tick after a session), and now and then its model answers.         *)
(***************************************************************************)
Fairness ==
  /\ \A c \in Captures : SF_vars(BecomesRipe(c))
  /\ \A b \in Batches : WF_vars(Expires(b))
  /\ \A k \in Clients : SF_vars(Claim(k)) /\ WF_vars(Request(k)) /\ SF_vars(Report(k))

Spec == Init /\ [][Next]_vars /\ Fairness

----------------------------------------------------------------------------
(***************************************************************************)
(* Properties                                                              *)
(***************************************************************************)
\* A claimed capture can be reported by its claimant or goes back to the queue: its batch is
\* open (and expires), or about to be released.  Excepted are the captures of a batch whose
\* own release a crash has cut short and those the report of their batch left out: what
\* becomes of them is the question of ClaimsComeBack.
ClaimedIsHeld ==
  \A c \in Captures : row[c].status = "claimed" =>
    LET b == row[c].owner
    IN  \/ batch[b].status = "claimed"
        \/ batch[b].status = "failed" /\ (Releasing(b) \/ batch[b].cut)
        \/ batch[b].status = "completed" /\ c \notin batch[b].named

\* What still waits for a decision has its content, however stale the request that
\* claimed it and although captures that were decided long ago lose theirs.
WorkHasContent ==
  \A c \in Captures : row[c].status \in {"pending", "claimed"} => row[c].raw

\* A capture that is staged is decided in the end, whatever clients are lost on the way and whoever
\* releases their claims: if models answer completely and in time, claims of the same captures do not
\* overlap again and again, the server does not crash, and the session is quiet at last (a capture
\* that is sent again defers it).
Undecided(c) == row[c].status \in {"pending", "claimed"}
CapturesSettle ==
  \A c \in Captures :
    Undecided(c) ~> (~Undecided(c) \/ scenario.events \cap {"omit", "slow", "race", "crash", "resend"} # {})

\* docs/memory/memory-schema.md:152: "Expired claims are released before the next claim so captures do
\* not stay stuck in `claimed`".
ClaimsComeBack == \A c \in Captures : row[c].status = "claimed" ~> row[c].status # "claimed"
=============================================================================
