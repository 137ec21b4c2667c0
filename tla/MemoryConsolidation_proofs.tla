---------------------- MODULE MemoryConsolidation_proofs ----------------------
(***************************************************************************)
(* Proofs about MemoryConsolidation: types, and the two invariants.        *)
(* ClaimedIsHeld needs that two requests never work on one batch, that a   *)
(* batch is open until its captures are taken, and that a report has       *)
(* settled all it named when it completes the batch.  WorkHasContent needs *)
(* that the captures a stale claim will take cannot have been redacted.    *)
(***************************************************************************)
EXTENDS MemoryConsolidation, TLAPS

Claiming == {"insert", "take"}
Reporting == {"assert", "publish", "settle", "finish"}
WithBatch == {"take", "model", "load"} \cup Reporting

\* A request that has a batch has it alone.
OwnBatch ==
  /\ \A k \in Clients : call[k].batch # NoBatch <=> call[k].at \in WithBatch
  /\ \A k, j \in Clients : call[k].batch = call[j].batch /\ call[k].batch # NoBatch => k = j

\* The batches a request releases are closed, and it has some only while it releases them.
ReleasesClosed ==
  \A k \in Clients : \A b \in call[k].expired :
    At(k, "release") /\ batch[b].status \in {"failed", "completed"}

\* A batch does not expire before its captures are taken.
TakesForOpen ==
  \A k \in Clients : At(k, "take") =>
    batch[call[k].batch].status = "claimed" /\ ~batch[call[k].batch].expired

\* What a claim has selected still has its content, and no request can redact it.
SelectedHasContent ==
  \A k \in Clients : call[k].at \in Claiming =>
    \A c \in call[k].caps : row[c].raw /\ ~Redactable(row[c])

\* What a report named and its batch still holds is in the rest of the report.
Rest(k) == call[k].caps \cup UNION {i.caps : i \in call[k].todo}
ReportGoesOn ==
  \A k \in Clients :
    /\ call[k].at \in Reporting =>
         \A c \in batch[call[k].batch].named :
           row[c].status = "claimed" /\ row[c].owner = call[k].batch => c \in Rest(k)
    /\ At(k, "finish") => Rest(k) = {}
    /\ call[k].at \in {"idle", "release", "select", "load", "assert", "finish"} => call[k].caps = {}

ClaimedHasOwner == \A c \in Captures : row[c].status = "claimed" => row[c].owner \in Batches

ConsolidationInv ==
  /\ TypeOK
  /\ OwnBatch
  /\ ReleasesClosed
  /\ TakesForOpen
  /\ SelectedHasContent
  /\ ReportGoesOn
  /\ ClaimedHasOwner
  /\ ClaimedIsHeld
  /\ WorkHasContent

LEMMA InitTypes == Init => TypeOK
  BY DEF Init, TypeOK, RowType, BatchType, CallType, ReviewType, NoRow, NoBatchRow, Idle, NoReview

LEMMA RowTypes ==
  ASSUME TypeOK
  PROVE  /\ Redacted \in [Captures -> RowType]
         /\ \A caps \in SUBSET Captures, st \in {"processed", "review"} :
              Settled(caps, st) \in [Captures -> RowType]
<1>1. \A r \in RowType : [r EXCEPT !.status = "redacted", !.raw = FALSE] \in RowType
  BY DEF RowType
<1>2. \A r \in RowType, st \in {"processed", "review"} :
        [r EXCEPT !.status = st, !.decided = "lately", !.owner = NoBatch] \in RowType
  BY DEF RowType
<1> QED
  BY <1>1, <1>2 DEF TypeOK, Redacted, Settled

\* Records that differ in the fields an action writes.
LEMMA Edits ==
  /\ \A r \in RowType, b \in Batches :
       /\ [r EXCEPT !.status = "claimed", !.owner = b] \in RowType
       /\ [r EXCEPT !.status = "pending", !.owner = NoBatch] \in RowType
  /\ \A r \in CallType :
       /\ [r EXCEPT !.at = "model"] \in CallType
       /\ [r EXCEPT !.at = "assert"] \in CallType
       /\ [r EXCEPT !.at = "select", !.expired = {}] \in CallType
       /\ \A todo \in SUBSET Items : [r EXCEPT !.at = "load", !.caps = {}, !.todo = todo] \in CallType
       /\ [r EXCEPT !.at = "finish", !.caps = {}, !.disp = "none"] \in CallType
       /\ [r EXCEPT !.at = "assert", !.caps = {}, !.disp = "none"] \in CallType
  BY DEF RowType, CallType

LEMMA IdleTypes == Idle \in CallType /\ NoReview \in ReviewType /\ NoRow \in RowType
  BY DEF Idle, NoReview, NoRow, CallType, ReviewType, RowType

LEMMA ExpiredTypes == Expired \subseteq Batches
  BY DEF Expired

\* Every step keeps the types.
LEMMA TypeStep ==
  ASSUME TypeOK, OwnBatch, [Next]_vars
  PROVE  TypeOK'
<1> USE DEF TypeOK
<1>1. ASSUME NEW c \in Captures, Capture(c) PROVE TypeOK'
  <2>1. Redacted \in [Captures -> RowType]
    BY RowTypes
  <2>2. StillEligible(c) \in BOOLEAN
    BY DEF StillEligible, RowType
  <2>3. \A r \in RowType : /\ [r EXCEPT !.raw = TRUE, !.ripe = StillEligible(c)] \in RowType
                           /\ [r EXCEPT !.ripe = StillEligible(c)] \in RowType
    BY <2>2 DEF RowType
  <2>4. [NoRow EXCEPT !.status = "pending", !.raw = TRUE] \in RowType
    BY DEF NoRow, RowType
  <2>5. row' \in [Captures -> RowType]
    BY <1>1, <2>1, <2>3, <2>4 DEF Capture
  <2> QED BY <1>1, <2>5 DEF Capture
<1>2. ASSUME NEW c \in Captures, BecomesRipe(c) PROVE TypeOK'
  BY <1>2 DEF BecomesRipe, RowType
<1>3. ASSUME NEW k \in Clients, Claim(k) PROVE TypeOK'
  <2>1. row' \in [Captures -> RowType]
    BY <1>3, RowTypes DEF Claim
  <2>2. batch' \in [Batches -> BatchType]
    BY <1>3 DEF Claim, BatchType
  <2>3. [Idle EXCEPT !.at = IF Expired = {} THEN "select" ELSE "release", !.expired = Expired] \in CallType
    BY IdleTypes, ExpiredTypes DEF CallType
  <2> QED BY <1>3, <2>1, <2>2, <2>3 DEF Claim
<1>4. ASSUME NEW k \in Clients, Release(k) PROVE TypeOK'
  <2>1. row' \in [Captures -> RowType]
    <3>1. \A r \in RowType : [r EXCEPT !.status = "pending", !.owner = NoBatch] \in RowType
      BY DEF RowType
    <3> QED BY <1>4, <3>1 DEF Release
  <2>2. call' \in [Clients -> CallType]
    BY <1>4, Edits DEF Release
  <2> QED BY <1>4, <2>1, <2>2 DEF Release
<1>5. ASSUME NEW k \in Clients, Select(k) PROVE TypeOK'
  <2>1. Claimable(k) \subseteq Captures
    <3>1. scenario.visible[k] \subseteq Captures
      BY ScenariosAssumption
    <3> QED BY <3>1 DEF Claimable
  <2>2. [call[k] EXCEPT !.at = "insert", !.caps = Claimable(k)] \in CallType
    BY <2>1 DEF CallType
  <2> QED BY <1>5, <2>2, IdleTypes DEF Select, Return
<1>6. ASSUME NEW k \in Clients, InsertBatch(k) PROVE TypeOK'
  <2> DEFINE b == CHOOSE free \in Unused : TRUE
  <2>1. b \in Batches
    BY <1>6 DEF InsertBatch, Unused
  <2>2. [NoBatchRow EXCEPT !.status = "claimed"] \in BatchType
    BY DEF NoBatchRow, BatchType
  <2>3. [call[k] EXCEPT !.at = "take", !.batch = b] \in CallType
    BY <2>1 DEF CallType
  <2> HIDE DEF b
  <2>4. batch' = [batch EXCEPT ![b] = [NoBatchRow EXCEPT !.status = "claimed"]]
        /\ call' = [call EXCEPT ![k].at = "take", ![k].batch = b]
    BY <1>6 DEF InsertBatch, b
  <2> QED BY <1>6, <2>1, <2>2, <2>3, <2>4 DEF InsertBatch
<1>7. ASSUME NEW k \in Clients, Take(k) PROVE TypeOK'
  <2>1. call[k].batch \in Batches
    BY <1>7, OwnBatch, NoBatchAssumption DEF Take, At, OwnBatch, WithBatch, CallType
  <2> QED BY <1>7, <2>1, Edits DEF Take, Goto
<1>8. ASSUME NEW k \in Clients, Report(k) PROVE TypeOK'
  <2>1. PICK todo \in Answers(call[k].caps) :
          call' = [call EXCEPT ![k].at = "load", ![k].caps = {}, ![k].todo = todo]
    BY <1>8 DEF Report
  <2>2. todo \subseteq Items
    BY <2>1 DEF Answers
  <2> QED BY <1>8, <2>1, <2>2, Edits DEF Report
<1>9. ASSUME NEW k \in Clients, ClientGone(k) PROVE TypeOK'
  BY <1>9, IdleTypes DEF ClientGone, Return
<1>10. ASSUME NEW k \in Clients, Load(k) PROVE TypeOK'
  <2>1. UNION {i.caps : i \in call[k].todo} \subseteq Captures
    BY DEF CallType, Items
  <2>2. batch' \in [Batches -> BatchType]
    BY <1>10, <2>1 DEF Load, BatchType
  <2>3. call' \in [Clients -> CallType]
    <3>1. Return(k) \/ Goto(k, "assert")
      BY <1>10 DEF Load
    <3>2. CASE Return(k)
      BY <3>2, IdleTypes DEF Return
    <3>3. CASE Goto(k, "assert")
      BY <3>3, Edits DEF Goto
    <3> QED BY <3>1, <3>2, <3>3
  <2> QED BY <1>10, <2>2, <2>3 DEF Load
<1>11. ASSUME NEW k \in Clients, AssertItem(k) PROVE TypeOK'
  <2>1. PICK i \in call[k].todo :
          IF Held(call[k].batch, i.caps)
            THEN call' = [call EXCEPT ![k].at = IF i.disp = "publish" THEN "publish" ELSE "settle",
                                      ![k].caps = i.caps, ![k].disp = i.disp,
                                      ![k].todo = @ \ {i}]
            ELSE Return(k)
    BY <1>11 DEF AssertItem
  <2>2. i.caps \subseteq Captures /\ i.disp \in Dispositions
    BY DEF CallType, Items
  <2>3. [call[k] EXCEPT !.at = IF i.disp = "publish" THEN "publish" ELSE "settle",
                        !.caps = i.caps, !.disp = i.disp, !.todo = @ \ {i}] \in CallType
    BY <2>2 DEF CallType
  <2> QED BY <1>11, <2>1, <2>3, IdleTypes DEF AssertItem, Return
<1>12. ASSUME NEW k \in Clients, Publish(k) PROVE TypeOK'
  BY <1>12 DEF Publish, Goto, CallType
<1>13. ASSUME NEW k \in Clients, Settle(k) PROVE TypeOK'
  <2>1. row' \in [Captures -> RowType]
    BY <1>13, RowTypes DEF Settle, CallType
  <2>2. call' \in [Clients -> CallType]
    BY <1>13, Edits DEF Settle
  <2> QED BY <1>13, <2>1, <2>2 DEF Settle
<1>14. ASSUME NEW k \in Clients, Finish(k) PROVE TypeOK'
  BY <1>14, RowTypes, IdleTypes DEF Finish, Return, BatchType
<1>15. ASSUME NEW a \in Admins, Decide(a) PROVE TypeOK'
  BY <1>15 DEF Decide, ReviewType
<1>16. ASSUME NEW a \in Admins, AcceptPublish(a) PROVE TypeOK'
  BY <1>16 DEF AcceptPublish, ReviewType
<1>17. ASSUME NEW a \in Admins, SettleReview(a) PROVE TypeOK'
  BY <1>17, RowTypes, IdleTypes DEF SettleReview, ReviewType
<1>18. ASSUME NEW b \in Batches, Expires(b) PROVE TypeOK'
  BY <1>18 DEF Expires, BatchType
<1>19. CASE AMonthPasses
  BY <1>19 DEF AMonthPasses, RowType
<1>20. CASE ServerCrash
  <2>1. \A b \in Batches : [batch[b] EXCEPT !.cut = @ \/ Releasing(b)] \in BatchType
    BY DEF BatchType, Releasing
  <2> QED BY <1>20, <2>1, IdleTypes DEF ServerCrash
<1>21. CASE UNCHANGED vars
  BY <1>21 DEF vars
<1> QED
  BY <1>1, <1>2, <1>3, <1>4, <1>5, <1>6, <1>7, <1>8, <1>9, <1>10, <1>11, <1>12, <1>13, <1>14,
     <1>15, <1>16, <1>17, <1>18, <1>19, <1>20, <1>21 DEF Next, Request

\* Only the last statement of a claim makes captures claimed; only the passing of a month makes
\* content removable.
NoNewClaims ==
  \A c \in Captures : row'[c].status = "claimed" =>
    row[c].status = "claimed" /\ row'[c].owner = row[c].owner
Safe(r) == r.raw /\ ~Redactable(r)
ContentKept == \A c \in Captures : Safe(row[c]) => Safe(row'[c])
NewWorkIsSafe ==
  \A c \in Captures : row'[c].status \in {"pending", "claimed"} =>
    Safe(row'[c]) \/ row[c].status \in {"pending", "claimed"}

LEMMA RowEffects ==
  ASSUME TypeOK
  PROVE  /\ row' = Redacted => NoNewClaims /\ ContentKept /\ NewWorkIsSafe
         /\ \A caps \in SUBSET Captures, st \in {"processed", "review"} :
              row' = Settled(caps, st) => NoNewClaims /\ ContentKept /\ NewWorkIsSafe
         /\ row' = row => NoNewClaims /\ ContentKept /\ NewWorkIsSafe
<1> USE DEF TypeOK, NoNewClaims, ContentKept, NewWorkIsSafe, Safe, Redactable
<1>1. ASSUME row' = Redacted PROVE NoNewClaims /\ ContentKept /\ NewWorkIsSafe
  BY <1>1 DEF Redacted, RowType
<1>2. ASSUME NEW caps \in SUBSET Captures, NEW st \in {"processed", "review"},
             row' = Settled(caps, st)
      PROVE  NoNewClaims /\ ContentKept /\ NewWorkIsSafe
  BY <1>2 DEF Settled, RowType
<1> QED BY <1>1, <1>2

LEMMA RowSteps ==
  ASSUME TypeOK, [Next]_vars
  PROVE  /\ (\E k \in Clients : Take(k)) \/ (NoNewClaims /\ NewWorkIsSafe)
         /\ AMonthPasses \/ ContentKept
         /\ scenario' = scenario
<1> DEFINE Good == NoNewClaims /\ ContentKept /\ NewWorkIsSafe
<1>1. ASSUME NEW c \in Captures, Capture(c) PROVE Good /\ scenario' = scenario
  BY <1>1 DEF Capture, TypeOK, NoNewClaims, ContentKept, NewWorkIsSafe, Safe, Redactable, Redacted, NoRow, RowType
<1>2. ASSUME NEW c \in Captures, BecomesRipe(c) PROVE Good /\ scenario' = scenario
  BY <1>2 DEF BecomesRipe, TypeOK, NoNewClaims, ContentKept, NewWorkIsSafe, Safe, Redactable, RowType
<1>3. ASSUME NEW k \in Clients, Release(k) PROVE Good /\ scenario' = scenario
  BY <1>3 DEF Release, Freed, TypeOK, NoNewClaims, ContentKept, NewWorkIsSafe, Safe, Redactable, RowType
<1>4. ASSUME NEW k \in Clients, Take(k) PROVE ContentKept /\ scenario' = scenario
  BY <1>4 DEF Take, TypeOK, ContentKept, Safe, Redactable, RowType
<1>5. CASE AMonthPasses
  BY <1>5 DEF AMonthPasses, TypeOK, NoNewClaims, NewWorkIsSafe, Safe, RowType
<1>6. ASSUME NEW k \in Clients, Claim(k) \/ Finish(k) PROVE Good /\ scenario' = scenario
  BY <1>6, RowEffects DEF Claim, Finish
<1>7. ASSUME NEW k \in Clients, Settle(k) PROVE Good /\ scenario' = scenario
  <2>1. call[k].caps \in SUBSET Captures
    BY DEF TypeOK, CallType
  <2> QED BY <1>7, <2>1, RowEffects DEF Settle
<1>8. ASSUME NEW a \in Admins, SettleReview(a) PROVE Good /\ scenario' = scenario
  <2>1. review[a].caps \in SUBSET Captures
    BY DEF TypeOK, ReviewType
  <2> QED BY <1>8, <2>1, RowEffects DEF SettleReview
<1>9. ASSUME NEW k \in Clients,
             \/ Select(k) \/ InsertBatch(k) \/ Report(k) \/ ClientGone(k)
             \/ Load(k) \/ AssertItem(k) \/ Publish(k)
      PROVE  Good /\ scenario' = scenario
  BY <1>9, RowEffects DEF Select, InsertBatch, Report, ClientGone, Load, AssertItem, Publish
<1>10. ASSUME NEW a \in Admins, Decide(a) \/ AcceptPublish(a) PROVE Good /\ scenario' = scenario
  BY <1>10, RowEffects DEF Decide, AcceptPublish
<1>11. ASSUME NEW b \in Batches, Expires(b) PROVE Good /\ scenario' = scenario
  BY <1>11, RowEffects DEF Expires
<1>12. CASE ServerCrash \/ UNCHANGED vars
  BY <1>12, RowEffects DEF ServerCrash, vars
<1> QED
  BY <1>1, <1>2, <1>3, <1>4, <1>5, <1>6, <1>7, <1>8, <1>9, <1>10, <1>11, <1>12 DEF Next, Request

\* The calls of the other clients do not change with a client's step.
LEMMA OneCall ==
  ASSUME TypeOK, NEW k \in Clients, Claim(k) \/ Request(k) \/ Report(k) \/ ClientGone(k)
  PROVE  /\ \A j \in Clients \ {k} : call'[j] = call[j]
         /\ DOMAIN call' = Clients
  BY DEF TypeOK, Claim, Request, Report, ClientGone, Release, Select, InsertBatch, Take, Load, AssertItem,
         Publish, Settle, Finish, Return, Goto

\* What a client's step does to its own request.
LEMMA OwnCall ==
  ASSUME TypeOK, NEW k \in Clients
  PROVE  /\ Claim(k) => /\ call'[k].at \in {"select", "release"} /\ call'[k].batch = NoBatch
                        /\ call'[k].expired = Expired /\ call'[k].caps = {}
                        /\ Expired # {} => call'[k].at = "release"
         /\ Release(k) => /\ call'[k].at = "select" /\ call'[k].batch = call[k].batch
                          /\ call'[k].expired = {} /\ call'[k].caps = call[k].caps
         /\ Select(k) => \/ call'[k] = Idle
                         \/ /\ call'[k].at = "insert" /\ call'[k].batch = call[k].batch
                            /\ call'[k].expired = call[k].expired /\ call'[k].caps = Claimable(k)
         /\ Take(k) => /\ call'[k].at = "model" /\ call'[k].batch = call[k].batch
                       /\ call'[k].expired = call[k].expired /\ call'[k].caps = call[k].caps
         /\ Report(k) => /\ call'[k].at = "load" /\ call'[k].batch = call[k].batch
                         /\ call'[k].expired = call[k].expired /\ call'[k].caps = {}
         /\ ClientGone(k) => call'[k] = Idle
         /\ Load(k) => \/ call'[k] = Idle
                       \/ call'[k] = [call[k] EXCEPT !.at = "assert"]
         /\ AssertItem(k) => \/ call'[k] = Idle
                             \/ \E i \in call[k].todo :
                                  /\ Held(call[k].batch, i.caps)
                                  /\ call'[k].at \in {"publish", "settle"}
                                  /\ call'[k].batch = call[k].batch
                                  /\ call'[k].expired = call[k].expired
                                  /\ call'[k].caps = i.caps
                                  /\ call'[k].todo = call[k].todo \ {i}
         /\ Publish(k) => call'[k] = [call[k] EXCEPT !.at = "settle"]
         /\ Settle(k) => /\ call'[k].at = IF call[k].todo = {} THEN "finish" ELSE "assert"
                         /\ call'[k].batch = call[k].batch
                         /\ call'[k].expired = call[k].expired
                         /\ call'[k].caps = {} /\ call'[k].todo = call[k].todo
         /\ Finish(k) => call'[k] = Idle
<1> USE DEF TypeOK
<1>1. Claim(k) => /\ call'[k].at \in {"select", "release"} /\ call'[k].batch = NoBatch
                  /\ call'[k].expired = Expired /\ call'[k].caps = {}
                  /\ Expired # {} => call'[k].at = "release"
  BY DEF Claim, Idle
<1>2. Release(k) => /\ call'[k].at = "select" /\ call'[k].batch = call[k].batch
                    /\ call'[k].expired = {} /\ call'[k].caps = call[k].caps
  BY DEF Release, CallType
<1>3. Select(k) => \/ call'[k] = Idle
                   \/ /\ call'[k].at = "insert" /\ call'[k].batch = call[k].batch
                      /\ call'[k].expired = call[k].expired /\ call'[k].caps = Claimable(k)
  BY DEF Select, Return, CallType
<1>4. Take(k) => /\ call'[k].at = "model" /\ call'[k].batch = call[k].batch
                 /\ call'[k].expired = call[k].expired /\ call'[k].caps = call[k].caps
  BY DEF Take, Goto, CallType
<1>5. Report(k) => /\ call'[k].at = "load" /\ call'[k].batch = call[k].batch
                   /\ call'[k].expired = call[k].expired /\ call'[k].caps = {}
  BY DEF Report, CallType
<1>6. Load(k) => call'[k] = Idle \/ call'[k] = [call[k] EXCEPT !.at = "assert"]
  BY DEF Load, Return, Goto
<1>7. AssertItem(k) => \/ call'[k] = Idle
                       \/ \E i \in call[k].todo :
                            /\ Held(call[k].batch, i.caps)
                            /\ call'[k].at \in {"publish", "settle"}
                            /\ call'[k].batch = call[k].batch
                            /\ call'[k].expired = call[k].expired
                            /\ call'[k].caps = i.caps
                            /\ call'[k].todo = call[k].todo \ {i}
  BY DEF AssertItem, Return, CallType
<1>8. Settle(k) => /\ call'[k].at = IF call[k].todo = {} THEN "finish" ELSE "assert"
                   /\ call'[k].batch = call[k].batch
                   /\ call'[k].expired = call[k].expired
                   /\ call'[k].caps = {} /\ call'[k].todo = call[k].todo
  <2> DEFINE place == IF call[k].todo = {} THEN "finish" ELSE "assert"
  <2> HIDE DEF place
  <2>1. Settle(k) => call'[k] = [call[k] EXCEPT !.at = place, !.caps = {}, !.disp = "none"]
    BY DEF Settle, place
  <2>2. call[k] \in CallType
    OBVIOUS
  <2>3. Settle(k) => /\ call'[k].at = place /\ call'[k].batch = call[k].batch
                     /\ call'[k].expired = call[k].expired
                     /\ call'[k].caps = {} /\ call'[k].todo = call[k].todo
    BY <2>1, <2>2 DEF CallType
  <2> QED BY <2>3 DEF place
<1>9. /\ ClientGone(k) => call'[k] = Idle
      /\ Publish(k) => call'[k] = [call[k] EXCEPT !.at = "settle"]
      /\ Finish(k) => call'[k] = Idle
  BY DEF ClientGone, Publish, Finish, Return, Goto
<1> HIDE DEF TypeOK
<1> QED
  BY <1>1, <1>2, <1>3, <1>4, <1>5, <1>6, <1>7, <1>8, <1>9

\* A step of anybody else than a client leaves the requests alone, or ends some of them.
LEMMA OtherSteps ==
  ASSUME TypeOK, [Next]_vars,
         ~\E k \in Clients : Claim(k) \/ Request(k) \/ Report(k) \/ ClientGone(k)
  PROVE  /\ \/ call' = call
            \/ /\ ServerCrash
               /\ \A k \in Clients : call'[k] = Idle \/ call'[k] = call[k]
         /\ batch' = batch \/ (\E b \in Batches : Expires(b)) \/ ServerCrash
  BY DEF TypeOK, Next, vars, Capture, BecomesRipe, Decide, AcceptPublish, SettleReview, Expires, AMonthPasses, ServerCrash

LEMMA OwnBatchStep ==
  ASSUME TypeOK, OwnBatch, [Next]_vars
  PROVE  OwnBatch'
<1> DEFINE Fits(r) == r.batch # NoBatch <=> r.at \in WithBatch
<1>1. ASSUME NEW k \in Clients, Claim(k) \/ Request(k) \/ Report(k) \/ ClientGone(k)
      PROVE  OwnBatch'
  <2>1. /\ \A j \in Clients \ {k} : call'[j] = call[j]
        /\ DOMAIN call' = Clients
    BY <1>1, OneCall
  <2>2. CASE InsertBatch(k)
    <3>1. PICK b \in Unused : call' = [call EXCEPT ![k].at = "take", ![k].batch = b]
      BY <2>2 DEF InsertBatch
    <3>2. b \in Batches /\ \A j \in Clients : call[j].batch # b
      BY <3>1 DEF Unused
    <3>3. call'[k].at = "take" /\ call'[k].batch = b
      BY <3>1 DEF TypeOK, CallType
    <3> QED BY <2>1, <3>2, <3>3, NoBatchAssumption DEF OwnBatch, WithBatch
  <2>3. ASSUME ~InsertBatch(k) PROVE Fits(call'[k]) /\ (call'[k].batch = NoBatch \/ call'[k].batch = call[k].batch)
    <3>1. Fits(Idle) /\ Idle.batch = NoBatch
      BY DEF Idle, WithBatch, Reporting
    <3>2. Fits(call[k])
      BY DEF OwnBatch
    <3>3. /\ Load(k) => call[k].at = "load"
          /\ Publish(k) => call[k].at = "publish"
          /\ Settle(k) => call[k].at = "settle"
          /\ AssertItem(k) => call[k].at = "assert"
          /\ Report(k) => call[k].at = "model"
          /\ Take(k) => call[k].at = "take"
          /\ Release(k) => call[k].at = "release"
          /\ Select(k) => call[k].at = "select"
      BY DEF Load, Publish, Settle, AssertItem, Report, Take, Release, Select, At
    <3>4. \A place \in {"assert", "settle"} :
            /\ [call[k] EXCEPT !.at = place].at = place
            /\ [call[k] EXCEPT !.at = place].batch = call[k].batch
      BY DEF TypeOK, CallType
    <3> QED BY <1>1, <2>3, <3>1, <3>2, <3>3, <3>4, OwnCall DEF Request, WithBatch, Reporting
  <2> QED BY <2>1, <2>2, <2>3 DEF OwnBatch
<1>2. ASSUME ~\E k \in Clients : Claim(k) \/ Request(k) \/ Report(k) \/ ClientGone(k)
      PROVE  OwnBatch'
  <2>1. \A k \in Clients : call'[k] = Idle \/ call'[k] = call[k]
    BY <1>2, OtherSteps
  <2>2. Fits(Idle) /\ Idle.batch = NoBatch
    BY DEF Idle, WithBatch, Reporting
  <2> QED BY <2>1, <2>2 DEF OwnBatch
<1> QED BY <1>1, <1>2

\* How a step changes the batches: a claim closes expired ones, an insertion opens an unused one, a
\* report names what it is about and completes its own, a crash only tells of a release it cuts short.
LEMMA BatchSteps ==
  ASSUME TypeOK, [Next]_vars, NEW b \in Batches
  PROVE  \/ batch'[b] = batch[b]
         \/ \E k \in Clients : Claim(k) /\ b \in Expired /\ batch'[b].status = "failed"
                               /\ batch'[b].named = batch[b].named
         \/ \E k \in Clients : InsertBatch(k) /\ b \in Unused /\ call'[k].batch = b
                               /\ batch'[b].status = "claimed" /\ ~batch'[b].expired
         \/ \E k \in Clients : Load(k) /\ b = call[k].batch /\ batch[b].status = "claimed"
                               /\ batch'[b] = [batch[b] EXCEPT !.named = UNION {i.caps : i \in call[k].todo}]
         \/ \E k \in Clients : Finish(k) /\ b = call[k].batch /\ batch'[b].status = "completed"
                               /\ batch'[b].named = batch[b].named
         \/ Expires(b) /\ batch'[b].status = "claimed" /\ batch'[b].named = batch[b].named
         \/ /\ ServerCrash
            /\ batch'[b].status = batch[b].status /\ batch'[b].expired = batch[b].expired
            /\ batch'[b].named = batch[b].named /\ batch'[b].cut = (batch[b].cut \/ Releasing(b))
<1> USE DEF TypeOK
<1>1. ASSUME NEW k \in Clients, Claim(k)
      PROVE  batch'[b] = batch[b] \/ (b \in Expired /\ batch'[b].status = "failed" /\ batch'[b].named = batch[b].named)
  BY <1>1 DEF Claim, BatchType
<1>2. ASSUME NEW k \in Clients, InsertBatch(k)
      PROVE  batch'[b] = batch[b] \/ (b \in Unused /\ call'[k].batch = b /\ batch'[b].status = "claimed" /\ ~batch'[b].expired)
  <2>1. PICK u \in Unused : /\ batch' = [batch EXCEPT ![u] = [NoBatchRow EXCEPT !.status = "claimed"]]
                            /\ call' = [call EXCEPT ![k].at = "take", ![k].batch = u]
    BY <1>2 DEF InsertBatch
  <2>2. call'[k].batch = u
    BY <2>1 DEF CallType
  <2> QED BY <2>1, <2>2 DEF NoBatchRow
<1>3. ASSUME NEW k \in Clients, Load(k)
      PROVE  \/ batch'[b] = batch[b]
             \/ /\ b = call[k].batch /\ batch[b].status = "claimed"
                /\ batch'[b] = [batch[b] EXCEPT !.named = UNION {i.caps : i \in call[k].todo}]
  BY <1>3 DEF Load
<1>4. ASSUME NEW k \in Clients, Finish(k)
      PROVE  batch'[b] = batch[b] \/ (b = call[k].batch /\ batch'[b].status = "completed" /\ batch'[b].named = batch[b].named)
  BY <1>4 DEF Finish, BatchType
<1>5. ASSUME NEW a \in Batches, Expires(a)
      PROVE  batch'[b] = batch[b] \/ (Expires(b) /\ batch'[b].status = "claimed" /\ batch'[b].named = batch[b].named)
  BY <1>5 DEF Expires, BatchType
<1>6. ASSUME NEW k \in Clients,
             \/ Release(k) \/ Select(k) \/ Take(k) \/ Report(k) \/ ClientGone(k)
             \/ AssertItem(k) \/ Publish(k) \/ Settle(k)
      PROVE  batch' = batch
  BY <1>6 DEF Release, Select, Take, Report, ClientGone, AssertItem, Publish, Settle
<1>7. ASSUME ~\E k \in Clients : Claim(k) \/ Request(k) \/ Report(k) \/ ClientGone(k)
      PROVE  batch' = batch \/ (\E a \in Batches : Expires(a)) \/ ServerCrash
  BY <1>7, OtherSteps
<1>8. ASSUME ServerCrash
      PROVE  /\ batch'[b].status = batch[b].status /\ batch'[b].expired = batch[b].expired
             /\ batch'[b].named = batch[b].named /\ batch'[b].cut = (batch[b].cut \/ Releasing(b))
  BY <1>8 DEF ServerCrash, BatchType
<1> HIDE DEF TypeOK
<1> QED
  BY <1>1, <1>2, <1>3, <1>4, <1>5, <1>6, <1>7, <1>8 DEF Request

LEMMA CallSteps ==
  ASSUME TypeOK, [Next]_vars, NEW k \in Clients
  PROVE  \/ call'[k] = call[k]
         \/ call'[k] = Idle
         \/ Claim(k) \/ Request(k) \/ Report(k)
  BY OneCall, OtherSteps DEF ClientGone, Return, TypeOK

LEMMA ReleasesStep ==
  ASSUME TypeOK, ReleasesClosed, TakesForOpen, OwnBatch, [Next]_vars
  PROVE  ReleasesClosed' /\ TakesForOpen'
<1>1. SUFFICES ASSUME NEW k \in Clients
               PROVE  /\ \A b \in call'[k].expired :
                           call'[k].at = "release" /\ batch'[b].status \in {"failed", "completed"}
                      /\ call'[k].at = "take" =>
                           batch'[call'[k].batch].status = "claimed" /\ ~batch'[call'[k].batch].expired
  BY DEF ReleasesClosed, TakesForOpen, At
<1>2. \A b \in call[k].expired : b \in Batches /\ call[k].at = "release" /\ batch[b].status \in {"failed", "completed"}
  BY DEF ReleasesClosed, TypeOK, CallType, At
<1>3. \A b \in Batches : (b \in call[k].expired) => batch'[b].status \in {"failed", "completed"}
  <2> TAKE b \in Batches
  <2> HAVE b \in call[k].expired
  <2>1. batch[b].status # "claimed" /\ b \notin Unused /\ b \notin Expired /\ ~Expires(b)
    BY <1>2 DEF Unused, Expired, Expires
  <2> QED BY <1>2, <2>1, BatchSteps
<1>4. ASSUME call[k].at = "take"
      PROVE  batch'[call[k].batch].status = "claimed" /\ ~batch'[call[k].batch].expired
  <2>1. /\ call[k].batch \in Batches /\ call[k].batch \notin Expired /\ ~Expires(call[k].batch)
        /\ call[k].batch \notin Unused
        /\ batch[call[k].batch].status = "claimed" /\ ~batch[call[k].batch].expired
    BY <1>4 DEF TakesForOpen, At, OwnBatch, WithBatch, TypeOK, CallType, Expired, Expires, Unused
  <2>2. \A j \in Clients : call[j].batch = call[k].batch => j = k
    BY <2>1, NoBatchAssumption DEF OwnBatch
  <2>3. ~Load(k) /\ ~Finish(k)
    BY <1>4 DEF Load, Finish, At
  <2> QED BY <2>1, <2>2, <2>3, BatchSteps
<1>5. CASE call'[k] = call[k]
  BY <1>2, <1>3, <1>4, <1>5
<1>6. CASE call'[k] = Idle
  BY <1>6 DEF Idle
<1>7. CASE Claim(k)
  <2>1. \A b \in Expired : batch'[b].status = "failed"
    BY <1>7 DEF Claim, Expired, TypeOK, BatchType
  <2> QED BY <1>7, <2>1, OwnCall
<1>8. CASE InsertBatch(k)
  <2>1. PICK u \in Unused : /\ batch' = [batch EXCEPT ![u] = [NoBatchRow EXCEPT !.status = "claimed"]]
                            /\ call' = [call EXCEPT ![k].at = "take", ![k].batch = u]
    BY <1>8 DEF InsertBatch
  <2>2. call'[k].batch = u /\ call'[k].expired = call[k].expired /\ u \in Batches
    BY <2>1 DEF CallType, TypeOK, Unused
  <2>3. call[k].expired = {}
    BY <1>2, <1>8 DEF InsertBatch, At
  <2> QED BY <2>1, <2>2, <2>3 DEF NoBatchRow, TypeOK
<1>9. CASE (Request(k) /\ ~InsertBatch(k)) \/ Report(k)
  <2>1. /\ Select(k) \/ Take(k) \/ Report(k) \/ Load(k) \/ AssertItem(k) \/ Publish(k) \/ Settle(k) \/ Finish(k)
           => call[k].expired = {}
    BY <1>2 DEF Select, Take, Report, Load, AssertItem, Publish, Settle, Finish, At
  <2>2. \A place \in {"assert", "settle"} :
          /\ [call[k] EXCEPT !.at = place].at = place
          /\ [call[k] EXCEPT !.at = place].expired = call[k].expired
    BY DEF TypeOK, CallType
  <2>3. Idle.at = "idle" /\ Idle.expired = {}
    BY DEF Idle
  <2> QED BY <1>9, <2>1, <2>2, <2>3, OwnCall DEF Request
<1> QED
  BY <1>5, <1>6, <1>7, <1>8, <1>9, CallSteps

\* The content of what is selected, and of what waits.  A month does not pass during a claim, so the
\* rows a stale claim takes were not redacted.
LEMMA ContentStep ==
  ASSUME TypeOK, SelectedHasContent, WorkHasContent, [Next]_vars
  PROVE  SelectedHasContent' /\ WorkHasContent'
<1>1. SelectedHasContent'
  <2>1. SUFFICES ASSUME NEW k \in Clients, call'[k].at \in Claiming, NEW c \in call'[k].caps
                 PROVE  Safe(row'[c])
    BY DEF SelectedHasContent, Safe, Redactable
  <2>2. ASSUME call[k].at \in Claiming, c \in call[k].caps PROVE Safe(row'[c])
    <3>1. Safe(row[c]) /\ c \in Captures
      BY <2>2 DEF SelectedHasContent, Safe, TypeOK, CallType
    <3>2. ~AMonthPasses
      BY <2>2 DEF AMonthPasses, At, Claiming
    <3> QED BY <3>1, <3>2, RowSteps DEF ContentKept
  <2>3. CASE call'[k] = call[k]
    BY <2>1, <2>2, <2>3
  <2>4. CASE Select(k)
    <3>1. call'[k] = Idle \/ call'[k].caps = Claimable(k)
      BY <2>4, OwnCall
    <3>2. Idle.at \notin Claiming
      BY DEF Idle, Claiming
    <3>3. c \in Claimable(k)
      BY <2>1, <3>1, <3>2
    <3>4. c \in Captures /\ row[c].status = "pending"
      BY <3>3, ScenariosAssumption DEF Claimable, TypeOK
    <3>5. row' = row
      BY <2>4 DEF Select
    <3> QED BY <3>4, <3>5 DEF WorkHasContent, Safe, Redactable
  <2>5. CASE InsertBatch(k)
    <3>1. call[k].at = "insert" /\ call'[k].caps = call[k].caps
      BY <2>5 DEF InsertBatch, At, TypeOK, CallType
    <3> QED BY <2>1, <2>2, <3>1 DEF Claiming
  <2>6. Idle.at \notin Claiming /\ \A place \in {"assert", "settle"} : [call[k] EXCEPT !.at = place].at \notin Claiming
    BY DEF Idle, Claiming, TypeOK, CallType
  <2> QED BY <2>1, <2>3, <2>4, <2>5, <2>6, CallSteps, OwnCall DEF Request, Claiming
<1>2. WorkHasContent'
  <2>1. SUFFICES ASSUME NEW c \in Captures, row'[c].status \in {"pending", "claimed"}
                 PROVE  row'[c].raw
    BY DEF WorkHasContent
  <2>2. CASE row[c].status \in {"pending", "claimed"}
    <3>1. row[c].raw /\ Safe(row[c])
      BY <2>2 DEF WorkHasContent, Safe, Redactable
    <3>2. CASE AMonthPasses
      BY <3>1, <3>2 DEF AMonthPasses, TypeOK, RowType
    <3> QED BY <3>1, <3>2, RowSteps DEF ContentKept, Safe
  <2>3. ASSUME NEW k \in Clients, Take(k), row[c].status \notin {"pending", "claimed"}
        PROVE  row'[c].raw
    <3>1. c \in call[k].caps
      BY <2>1, <2>3 DEF Take, TypeOK
    <3>2. row[c].raw
      BY <2>3, <3>1 DEF Take, At, SelectedHasContent, Claiming
    <3> QED BY <2>3, <3>1, <3>2 DEF Take, TypeOK, RowType
  <2> QED BY <2>1, <2>2, <2>3, RowSteps DEF NewWorkIsSafe, Safe
<1> QED BY <1>1, <1>2

LEMMA OwnerStep ==
  ASSUME TypeOK, OwnBatch, ClaimedHasOwner, [Next]_vars
  PROVE  ClaimedHasOwner'
<1>1. ASSUME NEW k \in Clients, Take(k) PROVE ClaimedHasOwner'
  <2>1. call[k].batch \in Batches
    BY <1>1, NoBatchAssumption DEF Take, At, OwnBatch, WithBatch, TypeOK, CallType
  <2> QED BY <1>1, <2>1 DEF Take, ClaimedHasOwner, TypeOK, RowType
<1> QED BY <1>1, RowSteps DEF NoNewClaims, ClaimedHasOwner

\* A capture that is claimed after a step was claimed by the same batch before, or is taken by it.
LEMMA ClaimsBefore ==
  ASSUME TypeOK, [Next]_vars, NEW c \in Captures, row'[c].status = "claimed"
  PROVE  \/ row[c].status = "claimed" /\ row'[c].owner = row[c].owner
         \/ \E k \in Clients : Take(k) /\ row'[c].owner = call[k].batch
<1>1. ASSUME NEW k \in Clients, Take(k)
      PROVE  row'[c].owner = call[k].batch \/ row'[c] = row[c]
  BY <1>1 DEF Take, TypeOK, RowType
<1> QED BY <1>1, RowSteps DEF NoNewClaims

\* A report is alone with its batch, and settles item by item what it named.
LEMMA ReportStep ==
  ASSUME TypeOK, OwnBatch, ReportGoesOn, [Next]_vars
  PROVE  ReportGoesOn'
<1> DEFINE Quiet == {"idle", "release", "select", "load", "assert", "finish"}
           Todo(k) == UNION {i.caps : i \in call[k].todo}
<1>1. SUFFICES ASSUME NEW k \in Clients
               PROVE  /\ call'[k].at \in Reporting =>
                           \A c \in batch'[call'[k].batch].named :
                             row'[c].status = "claimed" /\ row'[c].owner = call'[k].batch => c \in Rest(k)'
                      /\ call'[k].at = "finish" => Rest(k)' = {}
                      /\ call'[k].at \in Quiet => call'[k].caps = {}
  BY DEF ReportGoesOn, At
<1> DEFINE b == call[k].batch
           Kept == \A c \in batch'[b].named :
                     row'[c].status = "claimed" /\ row'[c].owner = b => c \in Rest(k)
<1>2. /\ call[k].at \in Reporting => \A c \in batch[b].named :
                                        row[c].status = "claimed" /\ row[c].owner = b => c \in Rest(k)
      /\ call[k].at = "finish" => Rest(k) = {}
      /\ call[k].at \in Quiet => call[k].caps = {}
  BY DEF ReportGoesOn, At
<1>3. ASSUME call[k].at \in Reporting PROVE Kept
  <2>1. b \in Batches /\ b \notin Unused /\ \A j \in Clients : call[j].batch = b => j = k
    BY <1>3, NoBatchAssumption DEF OwnBatch, WithBatch, TypeOK, CallType, Unused
  <2>2. ~Load(k) /\ ~Take(k)
    BY <1>3 DEF Load, Take, At, Reporting
  <2>3. batch'[b].named = batch[b].named
    BY <2>1, <2>2, BatchSteps
  <2>4. batch[b].named \subseteq Captures
    BY <2>1 DEF TypeOK, BatchType
  <2> QED BY <1>2, <1>3, <2>1, <2>2, <2>3, <2>4, ClaimsBefore
<1> HIDE DEF Kept
<1>4. CASE call'[k] = call[k]
  BY <1>2, <1>3, <1>4 DEF Kept, Rest
<1>5. CASE call'[k] = Idle
  BY <1>5 DEF Idle, Reporting
<1>6. CASE Claim(k)
  BY <1>6, OwnCall DEF Reporting
<1>7. CASE Load(k) /\ call'[k] # Idle
  <2>1. call[k].at = "load" /\ call'[k] = [call[k] EXCEPT !.at = "assert"]
    BY <1>7, OwnCall DEF Load, At
  <2>2. call'[k].at = "assert" /\ call'[k].batch = b /\ call'[k].caps = {} /\ call'[k].todo = call[k].todo
    BY <1>2, <2>1 DEF TypeOK, CallType
  <2>3. b \in Batches
    BY <2>1, NoBatchAssumption DEF OwnBatch, WithBatch, TypeOK, CallType
  <2>4. batch' = [batch EXCEPT ![b].named = Todo(k)]
    <3>1. CASE batch[b].status = "claimed"
      BY <1>7, <3>1 DEF Load
    <3>2. CASE batch[b].status # "claimed"
      BY <1>7, <3>2 DEF Load, Return, TypeOK
    <3> QED BY <3>1, <3>2
  <2>5. batch'[b].named = Todo(k)
    BY <2>3, <2>4 DEF TypeOK, BatchType
  <2> QED BY <2>2, <2>5 DEF Rest
<1>8. CASE AssertItem(k) /\ call'[k] # Idle
  <2>1. PICK i \in call[k].todo : /\ call'[k].at \in {"publish", "settle"}
                                  /\ call'[k].batch = b
                                  /\ call'[k].caps = i.caps
                                  /\ call'[k].todo = call[k].todo \ {i}
    BY <1>8, OwnCall
  <2>2. call[k].at = "assert" /\ Rest(k) = Todo(k)
    BY <1>2, <1>8 DEF AssertItem, At, Rest
  <2>3. Todo(k) \subseteq Rest(k)'
    BY <2>1 DEF Rest
  <2> QED BY <1>3, <2>1, <2>2, <2>3 DEF Kept, Reporting
<1>9. CASE Publish(k)
  <2>1. call[k].at = "publish" /\ call'[k] = [call[k] EXCEPT !.at = "settle"]
    BY <1>9, OwnCall DEF Publish, At
  <2>2. call'[k].at = "settle" /\ call'[k].batch = b /\ Rest(k)' = Rest(k)
    BY <2>1 DEF TypeOK, CallType, Rest
  <2> QED BY <1>3, <2>1, <2>2 DEF Kept, Reporting
<1>10. CASE Settle(k)
  <2>1. /\ call[k].at = "settle"
        /\ call'[k].at = IF call[k].todo = {} THEN "finish" ELSE "assert"
        /\ call'[k].batch = b /\ call'[k].caps = {} /\ call'[k].todo = call[k].todo
    BY <1>10, OwnCall DEF Settle, At
  <2>2. \A c \in call[k].caps : row'[c].status # "claimed"
    BY <1>10 DEF Settle, Settled, TypeOK, CallType, RowType
  <2>3. Rest(k)' = Todo(k) /\ Rest(k) = call[k].caps \cup Todo(k)
    BY <2>1 DEF Rest
  <2>4. call[k].todo = {} => Todo(k) = {}
    OBVIOUS
  <2> QED BY <1>3, <2>1, <2>2, <2>3, <2>4 DEF Kept, Reporting
<1>11. CASE Release(k) \/ Select(k) \/ InsertBatch(k) \/ Take(k) \/ Report(k)
  <2>1. CASE Release(k)
    BY <1>2, <2>1, OwnCall DEF Release, At, Reporting
  <2>2. CASE InsertBatch(k)
    <3>1. call'[k].at = "take"
      BY <2>2 DEF InsertBatch, TypeOK, CallType
    <3> QED BY <3>1 DEF Reporting
  <2>3. CASE Select(k) \/ Take(k) \/ Report(k)
    BY <1>5, <2>3, OwnCall DEF Reporting
  <2> QED BY <1>11, <2>1, <2>2, <2>3
<1>12. CASE Finish(k)
  BY <1>5, <1>12, OwnCall
<1> QED
  BY <1>4, <1>5, <1>6, <1>7, <1>8, <1>9, <1>10, <1>11, <1>12, CallSteps DEF Request

\* A release goes on until it has freed the captures of its batches, or the server crashes.
LEMMA ReleaseGoesOn ==
  ASSUME TypeOK, [Next]_vars, NEW k \in Clients, At(k, "release")
  PROVE  call'[k] = call[k] \/ Release(k) \/ ServerCrash
<1>1. ~Claim(k) /\ ~Report(k) /\ ~ClientGone(k) /\ (Request(k) => Release(k))
  BY DEF At, Claim, Report, ClientGone, Request, Select, InsertBatch, Take, Load, AssertItem, Publish, Settle, Finish
<1> QED BY <1>1, OneCall, OtherSteps

LEMMA HeldStep ==
  ASSUME ConsolidationInv, [Next]_vars
  PROVE  ClaimedIsHeld'
<1> USE DEF ConsolidationInv
<1>1. SUFFICES ASSUME NEW c \in Captures, NEW b, row'[c].status = "claimed", row'[c].owner = b
               PROVE  \/ batch'[b].status = "claimed"
                      \/ batch'[b].status = "failed" /\ (Releasing(b)' \/ batch'[b].cut)
                      \/ batch'[b].status = "completed" /\ c \notin batch'[b].named
  BY DEF ClaimedIsHeld
<1>2. ASSUME NEW k \in Clients, Take(k), b = call[k].batch
      PROVE  batch'[b].status = "claimed"
  BY <1>2 DEF Take, TakesForOpen
<1>3. ASSUME row[c].status = "claimed", row[c].owner = b
      PROVE  \/ batch'[b].status = "claimed"
             \/ batch'[b].status = "failed" /\ (Releasing(b)' \/ batch'[b].cut)
             \/ batch'[b].status = "completed" /\ c \notin batch'[b].named
  <2>1. b \in Batches /\ b \notin Unused
    BY <1>3 DEF ClaimedHasOwner, Unused
  <2>2. \/ batch[b].status = "claimed"
        \/ batch[b].status = "failed" /\ (Releasing(b) \/ batch[b].cut)
        \/ batch[b].status = "completed" /\ c \notin batch[b].named
    BY <1>3 DEF ClaimedIsHeld
  <2>3. CASE ServerCrash
    <3>1. /\ batch'[b].status = batch[b].status /\ batch'[b].named = batch[b].named
          /\ batch'[b].cut = (batch[b].cut \/ Releasing(b))
      BY <2>1, <2>3 DEF ServerCrash, TypeOK, BatchType
    <3> QED BY <2>2, <3>1
  <2>4. ASSUME Releasing(b), ~ServerCrash PROVE Releasing(b)'
    <3>1. PICK k \in Clients : At(k, "release") /\ b \in call[k].expired
      BY <2>4 DEF Releasing
    <3>2. ~Release(k)
      <4>1. SUFFICES ASSUME Release(k) PROVE FALSE
        OBVIOUS
      <4>2. c \in Freed(call[k].expired)
        BY <1>3, <3>1 DEF Freed
      <4>3. row'[c].status = "pending"
        BY <4>1, <4>2 DEF Release, TypeOK, RowType
      <4> QED BY <1>1, <4>3
    <3>3. CASE call'[k] = call[k]
      BY <3>1, <3>3 DEF Releasing, At
    <3> QED BY <2>4, <3>1, <3>2, <3>3, ReleaseGoesOn
  <2>5. CASE batch'[b] = batch[b] /\ ~ServerCrash
    BY <2>2, <2>4, <2>5
  <2>6. ASSUME NEW k \in Clients, Claim(k), b \in Expired, batch'[b].status = "failed"
        PROVE  Releasing(b)'
    <3>1. call'[k].at = "release" /\ call'[k].expired = Expired
      BY <2>6, OwnCall
    <3> QED BY <2>6, <3>1 DEF Releasing, At
  <2>7. ASSUME NEW k \in Clients, Finish(k), b = call[k].batch, batch'[b].named = batch[b].named
        PROVE  c \notin batch'[b].named
    <3>1. call[k].at = "finish" /\ Rest(k) = {}
      BY <2>7 DEF Finish, At, ReportGoesOn
    <3> QED BY <1>3, <2>7, <3>1 DEF ReportGoesOn, Reporting
  <2>8. ASSUME NEW k \in Clients, Load(k), b = call[k].batch, batch[b].status = "claimed",
               batch'[b] = [batch[b] EXCEPT !.named = UNION {i.caps : i \in call[k].todo}]
        PROVE  batch'[b].status = "claimed"
    BY <2>1, <2>8 DEF TypeOK, BatchType
  <2> QED BY <2>1, <2>3, <2>5, <2>6, <2>7, <2>8, BatchSteps
<1> QED BY <1>1, <1>2, <1>3, ClaimsBefore

LEMMA InitInv == Init => ConsolidationInv
<1> SUFFICES ASSUME Init PROVE ConsolidationInv
  OBVIOUS
<1>1. \A k \in Clients : call[k].at = "idle" /\ call[k].batch = NoBatch /\ call[k].expired = {} /\ call[k].caps = {}
  BY DEF Init, Idle
<1>2. \A c \in Captures : row[c].status = "none"
  BY DEF Init, NoRow
<1> QED
  BY <1>1, <1>2, InitTypes
     DEF ConsolidationInv, OwnBatch, ReleasesClosed, TakesForOpen, SelectedHasContent, ReportGoesOn,
         ClaimedHasOwner, ClaimedIsHeld, WorkHasContent, At, WithBatch, Reporting, Claiming

LEMMA StepInv == ConsolidationInv /\ [Next]_vars => ConsolidationInv'
<1> SUFFICES ASSUME ConsolidationInv, [Next]_vars PROVE ConsolidationInv'
  OBVIOUS
<1> QED
  BY TypeStep, OwnBatchStep, ReleasesStep, ContentStep, ReportStep, OwnerStep, HeldStep DEF ConsolidationInv

LEMMA AlwaysInv == Spec => []ConsolidationInv
  BY InitInv, StepInv, PTL DEF Spec

\* Every request of the server leaves rows, batches and requests within their types, whatever
\* requests run at once.
THEOREM ConsolidationTypes == Spec => []TypeOK
<1>1. ConsolidationInv => TypeOK
  BY DEF ConsolidationInv
<1> QED BY <1>1, AlwaysInv, PTL

\* No claim is forgotten: a claimed capture is its claimant's to report or about to be released, unless
\* the report of its batch left it out or a crash has cut the release of that very batch short.
THEOREM ClaimsAreHeld == Spec => []ClaimedIsHeld
<1>1. ConsolidationInv => ClaimedIsHeld
  BY DEF ConsolidationInv
<1> QED BY <1>1, AlwaysInv, PTL

\* The removal of the content of old decisions never takes what a client has still to decide about.
THEOREM WorkKeepsContent == Spec => []WorkHasContent
<1>1. ConsolidationInv => WorkHasContent
  BY DEF ConsolidationInv
<1> QED BY <1>1, AlwaysInv, PTL
=============================================================================
