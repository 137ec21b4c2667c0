------------------------- MODULE LocalMemory_proofs --------------------------
(***************************************************************************)
(* Proofs about the two parts of the local memory that outlive a process.  *)
(*                                                                         *)
(* The outbox: the invariant OutboxInv, and that the outbox implements     *)
(* MemoryDelivery when no two writes share a dedupe key.  A deleted row is *)
(* settled in MemoryDelivery because a row of an id stands for the write   *)
(* it was selected for (SnapshotsAgree) and the API has answered that      *)
(* write (DeletesReceived).                                                *)
(*                                                                         *)
(* The open-lock: two processes have the store open only if some reclaim   *)
(* has removed a lock file whose PID it had not read: it had read the file *)
(* before the PID was in it, or the file was created or replaced after the *)
(* read, as by another reclaimer of the same dead lock.                    *)
(***************************************************************************)
EXTENDS MemoryOutbox, MemoryStoreLock, TLAPS

\* What the UPDATEs of a drain may do to a row: they keep its id and its write; the
\* DELETE removes it.
Kept(r, s) ==
    \/ s = r
    \/ r # NoRow /\ s \in Row /\ s.id = r.id /\ s.req = r.req

Touched(r, s) == Kept(r, s) \/ s = NoRow

LEMMA ItemType == \A i \in Item : i.id \in Id /\ i.req \in Request
  BY DEF Item

LEMMA NoItemType == NoItem \notin Item /\ NoItem.id = 0
  BY DEF NoItem, Item, Id

LEMMA RowTypes ==
  ASSUME NEW r \in Row, NEW st \in Status, NEW d \in BOOLEAN
  PROVE  /\ [r EXCEPT !.status = st, !.due = d, !.stale = FALSE] \in Row
         /\ [r EXCEPT !.status = st, !.stale = FALSE] \in Row
         /\ [r EXCEPT !.due = TRUE] \in Row
         /\ [r EXCEPT !.stale = TRUE] \in Row
         /\ \A s \in {[r EXCEPT !.status = st, !.due = d, !.stale = FALSE],
                      [r EXCEPT !.status = st, !.stale = FALSE],
                      [r EXCEPT !.due = TRUE],
                      [r EXCEPT !.stale = TRUE]} : s.id = r.id /\ s.req = r.req
  BY DEF Row

\* A step that only touches rows keeps the parts of the invariant about rows.
LEMMA TouchedRowsKeep ==
  ASSUME OutboxInv,
         lastId' = lastId,
         row' \in [Slot -> Row \cup {NoRow}],
         \A k \in Slot : Touched(row[k], row'[k])
  PROVE  /\ KeyedRows'
         /\ \A k \in Slot : \A i : Holds(k, i)' => Holds(k, i)
  BY ConstantsOK DEF OutboxInv, TypeOK, KeyedRows, Touched, Kept, Present, Holds, Row

\* The statements of a drain only touch rows.
LEMMA DrainTouches ==
  ASSUME OutboxInv,
         \/ \E p \in Process : Drain(p)
         \/ \E k \in Slot : BecomesDue(k) \/ BecomesStale(k)
  PROVE  /\ lastId' = lastId
         /\ row' \in [Slot -> Row \cup {NoRow}]
         /\ \A k \in Slot : Touched(row[k], row'[k])
         /\ (\E p \in Process : Delete(p)) \/ \A k \in Slot : Kept(row[k], row'[k])
<1> USE ConstantsOK DEF OutboxInv, TypeOK
<1>s. Status = {"queued", "syncing", "failed"}
  BY DEF Status
<1>n. \A r \in Row : r # NoRow
  OBVIOUS
<1>1. ASSUME NEW p \in Process, Reclaim(p)
      PROVE  /\ lastId' = lastId
             /\ row' \in [Slot -> Row \cup {NoRow}]
             /\ \A k \in Slot : Kept(row[k], row'[k])
  <2>1. \A r \in Row \cup {NoRow} : Reclaimed(r) \in Row \cup {NoRow} /\ Kept(r, Reclaimed(r))
    BY <1>s, <1>n DEF Reclaimed, Kept, Row
  <2> QED
    BY <1>1, <2>1 DEF Reclaim
<1>2. ASSUME NEW p \in Process, Mark(p)
      PROVE  /\ lastId' = lastId
             /\ row' \in [Slot -> Row \cup {NoRow}]
             /\ \A k \in Slot : Kept(row[k], row'[k])
  <2>1. \A r \in Row : /\ [r EXCEPT !.status = "syncing", !.stale = FALSE] \in Row
                       /\ Kept(r, [r EXCEPT !.status = "syncing", !.stale = FALSE])
    BY <1>s, <1>n DEF Kept, Row
  <2>2. PICK i \in todo[p] :
           row' = [k \in Slot |->
                     IF Holds(k, i.id)
                       THEN [row[k] EXCEPT !.status = "syncing", !.stale = FALSE]
                       ELSE row[k]]
    BY <1>2 DEF Mark
  <2>3. \A k \in Slot : Holds(k, i.id) => row[k] \in Row
    BY DEF Holds, Present
  <2>4. \A k \in Slot : row'[k] \in Row \cup {NoRow} /\ Kept(row[k], row'[k])
    BY <2>1, <2>2, <2>3 DEF Kept
  <2> QED
    BY <1>2, <2>2, <2>4 DEF Mark
<1>3. ASSUME NEW i, NEW st \in Status, NEW d \in BOOLEAN, Update(i, st, d)
      PROVE  /\ row' \in [Slot -> Row \cup {NoRow}]
             /\ \A k \in Slot : Kept(row[k], row'[k])
  <2>1. \A r \in Row : /\ [r EXCEPT !.status = st, !.due = d, !.stale = FALSE] \in Row
                       /\ Kept(r, [r EXCEPT !.status = st, !.due = d, !.stale = FALSE])
    BY <1>n DEF Kept, Row
  <2>2. \A k \in Slot : Holds(k, i) => row[k] \in Row
    BY DEF Holds, Present
  <2>3. \A k \in Slot : row'[k] \in Row \cup {NoRow} /\ Kept(row[k], row'[k])
    BY <1>3, <2>1, <2>2 DEF Update, Kept
  <2> QED
    BY <1>3, <2>3 DEF Update
<1>4. ASSUME NEW p \in Process, Delete(p)
      PROVE  /\ lastId' = lastId
             /\ row' \in [Slot -> Row \cup {NoRow}]
             /\ \A k \in Slot : Touched(row[k], row'[k])
  BY <1>4 DEF Delete, Continue, Touched, Kept
<1>5. ASSUME NEW k \in Slot, BecomesDue(k) \/ BecomesStale(k)
      PROVE  /\ lastId' = lastId
             /\ row' \in [Slot -> Row \cup {NoRow}]
             /\ \A l \in Slot : Kept(row[l], row'[l])
  <2>1. row[k] \in Row
    BY <1>5 DEF BecomesDue, BecomesStale, Present
  <2>2. /\ [row[k] EXCEPT !.due = TRUE] \in Row /\ [row[k] EXCEPT !.stale = TRUE] \in Row
        /\ Kept(row[k], [row[k] EXCEPT !.due = TRUE])
        /\ Kept(row[k], [row[k] EXCEPT !.stale = TRUE])
    BY <2>1, <1>n DEF Kept, Row
  <2>3. \/ row' = [row EXCEPT ![k] = [row[k] EXCEPT !.due = TRUE]]
        \/ row' = [row EXCEPT ![k] = [row[k] EXCEPT !.stale = TRUE]]
    BY <1>5 DEF BecomesDue, BecomesStale
  <2>4. lastId' = lastId
    BY <1>5 DEF BecomesDue, BecomesStale
  <2> QED
    BY <2>2, <2>3, <2>4 DEF Kept
<1>6. ASSUME NEW p \in Process, Retry(p) \/ GiveUp(p)
      PROVE  /\ lastId' = lastId
             /\ row' \in [Slot -> Row \cup {NoRow}]
             /\ \A k \in Slot : Kept(row[k], row'[k])
  BY <1>6, <1>3, <1>s DEF Retry, GiveUp, Continue
<1>7. ASSUME NEW p \in Process,
             Select(p) \/ Answered(p) \/ AnswerLost(p) \/ Unreachable(p) \/ Refused(p)
               \/ DeleteFails(p) \/ Crash(p)
      PROVE  /\ lastId' = lastId
             /\ row' \in [Slot -> Row \cup {NoRow}]
             /\ \A k \in Slot : Kept(row[k], row'[k])
  BY <1>7 DEF Select, Answered, AnswerLost, Unreachable, Refused, DeleteFails, Crash, Kept
<1>8. CASE \E p \in Process : Delete(p)
  BY <1>4, <1>8
<1>9. CASE ~\E p \in Process : Delete(p)
  BY <1>1, <1>2, <1>5, <1>6, <1>7, <1>9 DEF Drain, Touched
<1> QED
  BY <1>8, <1>9

-----------------------------------------------------------------------------
(***************************************************************************)
(* The invariant.                                                          *)
(***************************************************************************)

\* What a process selects stands for the write its row holds.
LEMMA SelectedAgree ==
  ASSUME OutboxInv, NEW statuses
  PROVE  /\ Selected(statuses) \subseteq Item
         /\ \A i \in Selected(statuses) :
               /\ i.id <= lastId
               /\ \A k \in Slot : Holds(k, i.id) => Key[i.req] = k
<1> USE DEF OutboxInv
<1>1. SUFFICES ASSUME NEW i \in Selected(statuses)
               PROVE  /\ i \in Item
                      /\ i.id <= lastId
                      /\ \A k \in Slot : Holds(k, i.id) => Key[i.req] = k
  OBVIOUS
<1>2. PICK k \in Slot : Present(k) /\ i = [id |-> row[k].id, req |-> row[k].req]
  BY DEF Selected
<1>3. row[k] \in Row
  BY <1>2 DEF TypeOK, Present
<1>4. i \in Item /\ i.id = row[k].id /\ i.req = row[k].req
  BY <1>2, <1>3 DEF Item, Row
<1> QED
  BY <1>2, <1>4 DEF KeyedRows

LEMMA ItemsInit == Init => OutboxInv
<1> SUFFICES ASSUME Init PROVE OutboxInv
  OBVIOUS
<1>1. TypeOK
  BY ConstantsOK DEF Init, TypeOK
<1>2. KeyedRows
  BY DEF Init, KeyedRows, Present
<1>3. SnapshotsAgree
  <2>1. \A p \in Process : ~Busy(p) /\ todo[p] = {} /\ item[p] = NoItem
    BY DEF Init, Busy
  <2>2. NoItem.id <= lastId /\ \A k \in Slot : \A i : ~Holds(k, i)
    BY NoItemType DEF Init, Holds, Present
  <2> QED
    BY <2>1, <2>2 DEF SnapshotsAgree
<1>4. DeletesReceived
  BY DEF Init, DeletesReceived
<1> QED
  BY <1>1, <1>2, <1>3, <1>4 DEF OutboxInv

\* The invariant survives a step after which the rows have no id they had not
\* before and each process deals with items it had, or has just selected.
LEMMA ItemsKeep ==
  ASSUME OutboxInv,
         TypeOK',
         lastId' = lastId,
         \A k \in Slot : \A i : Holds(k, i)' => Holds(k, i),
         \A p \in Process :
            \/ /\ todo'[p] \cup {item'[p]} \subseteq todo[p] \cup {item[p], NoItem}
            \/ /\ item'[p] = item[p]
               /\ \E statuses : todo'[p] = Selected(statuses),
         \A p \in Process : Busy(p)' => item'[p] \in Item
  PROVE  SnapshotsAgree'
<1>1. \A p \in Process : \A i \in todo'[p] \cup {item'[p]} :
         i.id <= lastId /\ \A k \in Slot : Holds(k, i.id) => Key[i.req] = k
  <2> SUFFICES ASSUME NEW p \in Process, NEW i \in (todo'[p] \cup {item'[p]})
               PROVE  i.id <= lastId /\ \A k \in Slot : Holds(k, i.id) => Key[i.req] = k
    OBVIOUS
  <2>1. CASE i \in todo[p] \cup {item[p]}
    BY <2>1 DEF OutboxInv, SnapshotsAgree
  <2>2. CASE i = NoItem
    BY <2>2, NoItemType, ConstantsOK DEF OutboxInv, TypeOK, Holds, Present, Row, Id
  <2>3. CASE \E statuses : i \in Selected(statuses)
    BY <2>3, SelectedAgree
  <2> QED
    BY <2>1, <2>2, <2>3
<1> QED
  BY <1>1 DEF SnapshotsAgree

LEMMA DrainKeepsTypes ==
  ASSUME OutboxInv,
         \/ \E p \in Process : Drain(p)
         \/ \E k \in Slot : BecomesDue(k) \/ BecomesStale(k)
  PROVE  /\ TypeOK'
         /\ \A p \in Process : Busy(p)' => item'[p] \in Item
         /\ \A p \in Process :
              \/ /\ todo'[p] \cup {item'[p]} \subseteq todo[p] \cup {item[p], NoItem}
              \/ /\ item'[p] = item[p]
                 /\ \E statuses : todo'[p] = Selected(statuses)
         /\ DeletesReceived'
<1>0. lastId' = lastId /\ row' \in [Slot -> Row \cup {NoRow}]
  BY DrainTouches
<1> USE DEF OutboxInv, TypeOK
<1>b. \A p \in Process : Busy(p) => item[p] \in Item
  BY DEF SnapshotsAgree
<1>1. ASSUME NEW p \in Process, Reclaim(p) \/ DeleteFails(p) \/ Refused(p) \/ Unreachable(p)
      PROVE  /\ todo' = todo /\ item' = item /\ got' = got
             /\ at' \in [Process -> {"off", "select", "mark", "post", "delete", "retry", "fail"}]
             /\ \A q \in Process : at'[q] = "delete" => at[q] = "delete"
             /\ \A q \in Process : Busy(q)' => Busy(q)
  BY <1>1 DEF Reclaim, DeleteFails, Refused, Unreachable, GoTo, Busy
<1>2. ASSUME NEW p \in Process, Answered(p) \/ AnswerLost(p)
      PROVE  /\ todo' = todo /\ item' = item /\ got' = got \cup {item[p].req}
             /\ item[p].req \in Request
             /\ at' \in [Process -> {"off", "select", "mark", "post", "delete", "retry", "fail"}]
             /\ \A q \in Process : at'[q] = "delete" => at[q] = "delete" \/ q = p
             /\ \A q \in Process : Busy(q)' => Busy(q)
  BY <1>2, <1>b, ItemType DEF Answered, AnswerLost, GoTo, Busy
<1>3. ASSUME NEW p \in Process, Delete(p) \/ Retry(p) \/ GiveUp(p) \/ Crash(p)
      PROVE  /\ item' = [item EXCEPT ![p] = NoItem] /\ got' = got
             /\ todo' \in [Process -> SUBSET Item]
             /\ \A q \in Process : todo'[q] \subseteq todo[q]
             /\ at' \in [Process -> {"off", "select", "mark", "post", "delete", "retry", "fail"}]
             /\ \A q \in Process : at'[q] = "delete" => at[q] = "delete" /\ q # p
             /\ \A q \in Process : Busy(q)' => Busy(q) /\ q # p
  BY <1>3 DEF Delete, Retry, GiveUp, Crash, Continue, GoTo, Busy
<1>4. ASSUME NEW p \in Process, Mark(p)
      PROVE  /\ \E i \in todo[p] : /\ item' = [item EXCEPT ![p] = i]
                                   /\ todo' = [todo EXCEPT ![p] = @ \ {i}]
             /\ got' = got
             /\ at' \in [Process -> {"off", "select", "mark", "post", "delete", "retry", "fail"}]
             /\ \A q \in Process : at'[q] = "delete" => at[q] = "delete" /\ q # p
             /\ \A q \in Process : Busy(q)' => Busy(q) \/ q = p
  BY <1>4 DEF Mark, GoTo, Busy
<1>5. ASSUME NEW p \in Process, Select(p)
      PROVE  /\ \E statuses : todo' = [todo EXCEPT ![p] = Selected(statuses)]
             /\ todo' \in [Process -> SUBSET Item]
             /\ item' = item /\ got' = got
             /\ at' \in [Process -> {"off", "select", "mark", "post", "delete", "retry", "fail"}]
             /\ \A q \in Process : at'[q] = "delete" => at[q] = "delete"
             /\ \A q \in Process : Busy(q)' => Busy(q)
  <2>0. PICK statuses \in {{"queued"}, {"queued", "failed"}} :
          /\ todo' = [todo EXCEPT ![p] = Selected(statuses)]
          /\ GoTo(p, IF Selected(statuses) = {} THEN "off" ELSE "mark")
    BY <1>5, ZenonT(30) DEF Select
  <2>1. /\ todo' = [todo EXCEPT ![p] = Selected(statuses)]
        /\ at' = [at EXCEPT ![p] = "off"] \/ at' = [at EXCEPT ![p] = "mark"]
    BY <2>0 DEF GoTo
  <2>2. Selected(statuses) \subseteq Item
    BY SelectedAgree
  <2>3. item' = item /\ got' = got
    BY <1>5 DEF Select
  <2> QED
    BY <2>1, <2>2, <2>3 DEF Busy
<1>6. ASSUME NEW k \in Slot, BecomesDue(k) \/ BecomesStale(k)
      PROVE  UNCHANGED <<at, todo, item, got>>
  BY <1>6 DEF BecomesDue, BecomesStale
<1>d. \A q \in Process : at[q] = "delete" => item[q].req \in got
  BY DEF DeletesReceived
<1>7. CASE \E p \in Process : Reclaim(p) \/ DeleteFails(p) \/ Refused(p) \/ Unreachable(p)
  BY <1>7, <1>0, <1>1, <1>b, <1>d DEF DeletesReceived
<1>8. CASE \E p \in Process : Answered(p) \/ AnswerLost(p)
  BY <1>8, <1>0, <1>2, <1>b, <1>d DEF DeletesReceived
<1>9. CASE \E p \in Process : Delete(p) \/ Retry(p) \/ GiveUp(p) \/ Crash(p)
  BY <1>9, <1>0, <1>3, <1>b, <1>d DEF DeletesReceived
<1>10. CASE \E p \in Process : Mark(p)
  BY <1>10, <1>0, <1>4, <1>b, <1>d DEF DeletesReceived
<1>11. CASE \E p \in Process : Select(p)
  BY <1>11, <1>0, <1>5, <1>b, <1>d DEF DeletesReceived
<1>12. CASE \E k \in Slot : BecomesDue(k) \/ BecomesStale(k)
  BY <1>12, <1>0, <1>6, <1>b, <1>d DEF DeletesReceived, Busy
<1> QED
  BY <1>7, <1>8, <1>9, <1>10, <1>11, <1>12 DEF Drain

LEMMA DirectAndQueueKeep ==
  ASSUME OutboxInv, NEW r \in Request, Direct(r) \/ Queue(r)
  PROVE  OutboxInv'
<1> USE ConstantsOK DEF OutboxInv, TypeOK
<1>1. CASE Direct(r)
  BY <1>1 DEF Direct, KeyedRows, SnapshotsAgree, DeletesReceived, Present, Holds, Busy
<1>2. CASE Queue(r)
  <2> DEFINE k == Key[r]
             Queued(i) == [id |-> i, req |-> r, status |-> "queued",
                           due |-> TRUE, stale |-> FALSE]
  <2>k. k \in Slot
    OBVIOUS
  <2>u. UNCHANGED <<at, todo, item, got>>
    BY <1>2 DEF Queue
  <2>q. \A i \in Id : /\ Queued(i) \in Row /\ Queued(i) # NoRow
                      /\ Queued(i).id = i /\ Queued(i).req = r
    <3> SUFFICES ASSUME NEW i \in Id
                 PROVE  /\ Queued(i) \in Row /\ Queued(i) # NoRow
                        /\ Queued(i).id = i /\ Queued(i).req = r
      OBVIOUS
    <3>1. Queued(i) \in Row
      BY DEF Row, Status
    <3> QED
      BY <3>1
  <2>1. PICK i \in Id : /\ row' = [row EXCEPT ![k] = Queued(i)]
                       /\ lastId' \in 0 .. MaxId /\ lastId <= lastId' /\ i <= lastId'
                       /\ \/ i = lastId + 1
                          \/ Holds(k, i)
    <3>1. CASE Present(k)
      <4>1. row' = [row EXCEPT ![k] = Queued(row[k].id)] /\ lastId' = lastId
        BY <1>2, <3>1 DEF Queue
      <4>2. row[k].id \in Id /\ row[k].id <= lastId /\ Holds(k, row[k].id)
        BY <3>1, <2>k DEF KeyedRows, Present, Holds, Row
      <4>3. lastId' \in 0 .. MaxId /\ lastId <= lastId' /\ row[k].id <= lastId'
        BY <4>1, <4>2
      <4> row[k].id \in Id
        BY <4>2
      <4> WITNESS row[k].id \in Id
      <4> QED
        BY <4>1, <4>2, <4>3, Zenon
    <3>2. CASE ~Present(k)
      <4>1. lastId < MaxId /\ lastId' = lastId + 1 /\ row' = [row EXCEPT ![k] = Queued(lastId')]
        BY <1>2, <3>2 DEF Queue
      <4>2. /\ lastId' \in Id /\ lastId' \in 0 .. MaxId
            /\ lastId <= lastId' /\ lastId' <= lastId'
        BY <4>1 DEF Id
      <4> lastId' \in Id
        BY <4>2
      <4> WITNESS lastId' \in Id
      <4> QED
        BY <4>1, <4>2, Zenon
    <3> QED
      BY <3>1, <3>2
  <2> HIDE DEF Queued, k
  <2>2. row'[k] = Queued(i) /\ \A l \in Slot : l # k => row'[l] = row[l]
    BY <2>1, <2>k
  <2>3. TypeOK'
    BY <2>1, <2>2, <2>k, <2>q, <2>u
  <2>4. KeyedRows'
    <3>1. \A l \in Slot : Present(l)' => Key[row'[l].req] = l /\ row'[l].id <= lastId'
      <4>1. \A l \in Slot : Present(l) => row[l].id \in Id
        BY DEF Present, Row
      <4> QED
        BY <4>1, <2>1, <2>2, <2>q DEF KeyedRows, Present, Id, k
    <3>2. \A l \in Slot : l # k /\ Present(l) => row[l].id # i
      <4>1. \A l \in Slot : Present(l) => row[l].id \in Id /\ row[l].id <= lastId
        BY DEF KeyedRows, Present, Row
      <4> QED
        BY <4>1, <2>1, <2>k DEF KeyedRows, Present, Holds, Id
    <3>3. \A l, j \in Slot : Present(l)' /\ Holds(j, row[l].id)' => l = j
      BY <3>2, <2>2, <2>q, <2>k DEF KeyedRows, Present, Holds
    <3> QED
      BY <3>1, <3>3 DEF KeyedRows
  <2>5. SnapshotsAgree'
    <3> SUFFICES ASSUME NEW p \in Process, NEW j \in todo[p] \cup {item[p]}
                 PROVE  /\ j.id <= lastId'
                        /\ \A l \in Slot : Holds(l, j.id)' => Key[j.req] = l
      BY <2>u DEF SnapshotsAgree, Busy
    <3>1. j.id \in Nat /\ j.id <= lastId
      BY NoItemType, ItemType DEF SnapshotsAgree, Id
    <3>2. \A l \in Slot : Holds(l, j.id) => Key[j.req] = l
      BY DEF SnapshotsAgree
    <3>3. ASSUME NEW l \in Slot, Holds(l, j.id)' PROVE Holds(l, j.id)
      <4>1. CASE l = k
        BY <3>1, <3>3, <4>1, <2>1, <2>2, <2>q DEF Holds, Present, Id
      <4>2. CASE l # k
        BY <3>3, <4>2, <2>2 DEF Holds, Present
      <4> QED
        BY <4>1, <4>2
    <3> QED
      BY <3>1, <3>2, <3>3, <2>1
  <2>6. DeletesReceived'
    BY <2>u DEF DeletesReceived
  <2> QED
    BY <2>3, <2>4, <2>5, <2>6
<1> QED
  BY <1>1, <1>2

LEMMA StepKeepsInv == OutboxInv /\ [Next]_vars => OutboxInv'
<1> SUFFICES ASSUME OutboxInv, [Next]_vars PROVE OutboxInv'
  OBVIOUS
<1>1. CASE \E r \in Request : Direct(r) \/ Queue(r)
  BY <1>1, DirectAndQueueKeep
<1>2. CASE \/ \E p \in Process : Drain(p)
          \/ \E k \in Slot : BecomesDue(k) \/ BecomesStale(k)
  <2>1. /\ lastId' = lastId
        /\ row' \in [Slot -> Row \cup {NoRow}]
        /\ \A k \in Slot : Touched(row[k], row'[k])
    BY <1>2, DrainTouches
  <2>2. KeyedRows' /\ \A k \in Slot : \A i : Holds(k, i)' => Holds(k, i)
    BY <2>1, TouchedRowsKeep
  <2>3. /\ TypeOK'
        /\ \A p \in Process : Busy(p)' => item'[p] \in Item
        /\ \A p \in Process :
              \/ /\ todo'[p] \cup {item'[p]} \subseteq todo[p] \cup {item[p], NoItem}
              \/ /\ item'[p] = item[p]
                 /\ \E statuses : todo'[p] = Selected(statuses)
        /\ DeletesReceived'
    BY <1>2, DrainKeepsTypes
  <2>4. SnapshotsAgree'
    BY <2>1, <2>2, <2>3, ItemsKeep
  <2> QED
    BY <2>2, <2>3, <2>4 DEF OutboxInv
<1>3. CASE UNCHANGED vars
  BY <1>3 DEF vars, OutboxInv, TypeOK, KeyedRows, SnapshotsAgree, DeletesReceived,
              Present, Holds, Busy
<1> QED
  BY <1>1, <1>2, <1>3 DEF Next

\* A row belongs to its dedupe key, a selected row stands for the write it was
\* selected with, and a row is about to be deleted only for a write the API has
\* answered: for any number of writes, draining processes and rows.
THEOREM OutboxInvariant == Spec => []OutboxInv
  BY ItemsInit, StepKeepsInv, PTL DEF Spec

-----------------------------------------------------------------------------
(***************************************************************************)
(* The refinement.                                                         *)
(***************************************************************************)

\* At-least-once delivery: when no two writes have one dedupe key, the outbox
\* implements MemoryDelivery.  The dedupe key of a manual import is the hash of its content
\* alone, so that imports of one content do not satisfy the hypothesis.
THEOREM OutboxDelivers ==
  ASSUME \A r, s \in Request : Key[r] = Key[s] => r = s
  PROVE  Spec => AtLeastOnce
<1>i. Init => D!Init
  BY DEF Init, D!Init, Owed, Present
<1>n. OutboxInv /\ [Next]_vars => [D!Next]_<<Owed, got>>
  <2> SUFFICES ASSUME OutboxInv, [Next]_vars
               PROVE  D!Next \/ (Owed' = Owed /\ got' = got)
    BY DEF D!Next
  <2> USE ConstantsOK DEF OutboxInv
  <2>k. \A k, l \in Slot : Present(k) /\ Present(l) /\ row[k].req = row[l].req => k = l
    BY DEF KeyedRows
  <2>t. \A k \in Slot : Present(k) => row[k].req \in Request
    BY DEF TypeOK, Present, Row
  <2>s. ASSUME \A k \in Slot : Kept(row[k], row'[k]) PROVE Owed' = Owed
    <3>1. \A k \in Slot : Present(k)' <=> Present(k)
      BY <2>s DEF Kept, Present
    <3>2. \A k \in Slot : Present(k) => row'[k].req = row[k].req
      BY <2>s DEF Kept
    <3> QED
      BY <3>1, <3>2 DEF Owed
  <2>1. ASSUME NEW r \in Request, Direct(r) PROVE D!Receive(r)
    BY <2>1 DEF Direct, D!Receive, Owed, Present
  <2>2. ASSUME NEW r \in Request, Queue(r) PROVE D!Accept(r)
    <3> DEFINE k == Key[r]
    <3>k. k \in Slot
      OBVIOUS
    <3>1. got' = got /\ \E i : row' = [row EXCEPT ![k] = [id |-> i, req |-> r,
                                 status |-> "queued", due |-> TRUE, stale |-> FALSE]]
      BY <2>2 DEF Queue
    <3>2. row'[k].req = r /\ \A l \in Slot : l # k => row'[l] = row[l]
      BY <3>1, <3>k DEF TypeOK
    <3>3. row' \in [Slot -> Row \cup {NoRow}] /\ Present(k)'
      <4>1. TypeOK'
        BY <2>2, DirectAndQueueKeep
      <4>2. row'[k] # NoRow
        <5>1. PICK i \in Id : row' = [row EXCEPT ![k] = [id |-> i, req |-> r,
                                 status |-> "queued", due |-> TRUE, stale |-> FALSE]]
          BY <2>2, <4>1, <3>k DEF Queue, TypeOK, Present, Row, Id
        <5>2. row'[k] = [id |-> i, req |-> r, status |-> "queued", due |-> TRUE, stale |-> FALSE]
          BY <5>1, <3>k DEF TypeOK
        <5>3. row'[k] \in Row
          BY <5>2 DEF Row, Status
        <5> QED
          BY <5>3
      <4> QED
        BY <4>1, <4>2, <3>k DEF TypeOK, Present
    <3>4. Present(k) => row[k].req = r
      BY <2>t, <3>k DEF KeyedRows
    <3>5. \A x : x \in Owed' <=> x \in Owed \cup {r}
      BY <3>2, <3>3, <3>4, <3>k DEF Owed, Present
    <3> QED
      BY <3>1, <3>5 DEF D!Accept
  <2>3. ASSUME NEW p \in Process, Delete(p)
        PROVE  D!Next \/ (Owed' = Owed /\ got' = got)
    <3>1. /\ got' = got
          /\ row' = [k \in Slot |-> IF Holds(k, item[p].id) THEN NoRow ELSE row[k]]
      BY <2>3 DEF Delete, Continue
    <3>2. CASE \E k \in Slot : Holds(k, item[p].id)
      <4>1. PICK k \in Slot : Holds(k, item[p].id)
        BY <3>2
      <4>2. /\ Present(k) /\ row[k].req \in Request
            /\ \A l \in Slot : Holds(l, item[p].id) => l = k
        BY <4>1, <2>t DEF Holds, KeyedRows
      <4>3. row[k].req = item[p].req /\ row[k].req \in got
        <5>1. item[p] \in Item /\ Key[item[p].req] = k /\ item[p].req \in got
          BY <2>3, <4>1 DEF Delete, SnapshotsAgree, DeletesReceived, Busy
        <5>2. Key[row[k].req] = k
          BY <4>2 DEF KeyedRows
        <5> QED
          BY <5>1, <5>2, <4>2, ItemType
      <4>4. row'[k] = NoRow /\ \A l \in Slot : l # k => row'[l] = row[l]
        BY <3>1, <4>1, <4>2
      <4>5. \A x : x \in Owed' <=> x \in Owed \ {row[k].req}
        BY <4>2, <4>4, <2>k DEF Owed, Present
      <4>6. row[k].req \in Owed
        BY <4>2 DEF Owed
      <4>7. D!Settle(row[k].req)
        BY <3>1, <4>3, <4>5, <4>6 DEF D!Settle
      <4> QED
        BY <4>2, <4>7 DEF D!Next
    <3>3. CASE ~\E k \in Slot : Holds(k, item[p].id)
      BY <3>1, <3>3 DEF Owed, Present
    <3> QED
      BY <3>2, <3>3
  <2>4. ASSUME NEW p \in Process, Drain(p)
        PROVE  got' = got \/ \E r \in Request : got' = got \cup {r}
    <3>1. CASE Answered(p) \/ AnswerLost(p)
      <4>1. item[p] \in Item
        BY <3>1 DEF Answered, AnswerLost, SnapshotsAgree, Busy
      <4> QED
        BY <3>1, <4>1, ItemType DEF Answered, AnswerLost
    <3>2. CASE ~(Answered(p) \/ AnswerLost(p))
      BY <2>4, <3>2 DEF Drain, Reclaim, Select, Mark, Unreachable, Refused, Delete, DeleteFails,
                        Retry, GiveUp, Continue, Crash
    <3> QED
      BY <3>1, <3>2
  <2>5. ASSUME NEW k \in Slot, BecomesDue(k) \/ BecomesStale(k) PROVE got' = got
    BY <2>5 DEF BecomesDue, BecomesStale
  <2>6. CASE UNCHANGED vars
    BY <2>6 DEF vars, Owed, Present
  <2>7. CASE \E r \in Request : Direct(r) \/ Queue(r)
    BY <2>7, <2>1, <2>2 DEF D!Next
  <2>8. CASE \E p \in Process : Delete(p)
    BY <2>8, <2>3
  <2>9. CASE /\ ~\E p \in Process : Delete(p)
             /\ \/ \E p \in Process : Drain(p)
                \/ \E k \in Slot : BecomesDue(k) \/ BecomesStale(k)
    <3>1. Owed' = Owed
      BY <2>9, <2>s, DrainTouches
    <3>2. got' = got \/ \E r \in Request : got' = got \cup {r}
      BY <2>9, <2>4, <2>5
    <3> QED
      BY <3>1, <3>2 DEF D!Next, D!Receive
  <2> QED
    BY <2>6, <2>7, <2>8, <2>9 DEF Next
<1> QED
  BY <1>i, <1>n, OutboxInvariant, PTL DEF Spec, AtLeastOnce, D!Spec

-----------------------------------------------------------------------------
(***************************************************************************)
(* The open-lock of the store the outbox lives in, MemoryStoreLock.        *)
(***************************************************************************)

\* A live process only is somewhere in an open, and it removes the file of a dead one.
OnlyTheLivingAct ==
    \A p \in Opener :
        /\ stage[p] # "out" => p \in alive
        /\ stage[p] = "reclaim" => seen[p] \notin alive

Owns(p) == stage[p] \in {"write"} \cup Inside \cup Leaving

\* Unless a file has been removed unread, whoever has created the file and not yet removed
\* it finds its own file at the path, with its PID from the write on.
OwnersHaveTheFile ==
    misread \/ \A p \in Opener :
        Owns(p) => lock = File(p, IF stage[p] = "write" THEN None ELSE p)

LockInv == LockTypeOK /\ OnlyTheLivingAct /\ OwnersHaveTheFile

\* Where a process may be.
Place == {"out"} \cup Acquiring \cup Inside \cup Leaving

LEMMA PlaceList ==
  Place = {"out", "create", "write", "read", "check", "reclaim", "opening", "clearing",
           "reopening", "moving", "opening anew", "open", "release", "unlink"}
  BY DEF Place, Acquiring, Inside, Leaving

LEMMA LockInvInit ==
  ASSUME LockInit
  PROVE  LockInv
<1>1. LockTypeOK
  <2>1. lock \in [creator : Opener \cup {None}, pid : Opener \cup {None}]
    <3>1. CASE lock = NoFile
      BY <3>1 DEF NoFile
    <3>2. CASE lock # NoFile
      <4>1. PICK p \in Opener \ alive, pid \in Opener \cup {None} : lock = File(p, pid)
        BY <3>2 DEF LockInit
      <4> QED
        BY <4>1 DEF File
    <3> QED
      BY <3>1, <3>2
  <2>2. /\ alive \in SUBSET Opener
        /\ lock.pid \in {None, lock.creator}
        /\ stage = [p \in Opener |-> "out"]
        /\ again = [p \in Opener |-> FALSE]
        /\ seen = [p \in Opener |-> None]
        /\ misread = FALSE
    BY DEF LockInit
  <2> QED
    BY <2>1, <2>2 DEF LockTypeOK
<1>2. OnlyTheLivingAct
  BY DEF LockInit, OnlyTheLivingAct
<1>3. OwnersHaveTheFile
  BY DEF LockInit, OwnersHaveTheFile, Owns, Inside, Leaving
<1> QED
  BY <1>1, <1>2, <1>3 DEF LockInv

\* What every step does to the places: one process goes on, the others stay.
LEMMA OneMoves ==
  ASSUME LockTypeOK, NEW p \in Opener,
         Begin(p) \/ Step(p) \/ Close(p) \/ Exit(p)
  PROVE  /\ stage' \in [Opener -> Place]
         /\ \A q \in Opener : q # p => stage'[q] = stage[q] /\ seen'[q] = seen[q]
         /\ p \in alive
         /\ alive' = alive \/ (alive' = alive \ {p} /\ stage'[p] = "out")
<1> USE DEF LockTypeOK, Move, Enter, Silently
<1>1. stage \in [Opener -> Place]
  BY DEF Place
<1>2. CASE Begin(p)
  BY <1>1, <1>2, PlaceList DEF Begin
<1>3. CASE Create(p) \/ Write(p) \/ Read(p) \/ Check(p)
  BY <1>1, <1>3, PlaceList DEF Create, Write, Read, Check
<1>4. CASE Remove(p)
  BY <1>1, <1>4, PlaceList DEF Remove
<1>5. CASE OpenStore(p) \/ ClearStaleLock(p) \/ QuarantineDir(p)
           \/ Close(p)
  BY <1>1, <1>5, PlaceList
     DEF OpenStore, ClearStaleLock, QuarantineDir, Close
<1>6. CASE ReleaseReads(p) \/ Unlink(p)
  BY <1>1, <1>6, PlaceList DEF ReleaseReads, Unlink
<1>7. CASE Exit(p)
  BY <1>1, <1>7, PlaceList DEF Exit
<1> QED
  BY <1>2, <1>3, <1>4, <1>5, <1>6, <1>7 DEF Step

LEMMA LockTypesStep ==
  ASSUME LockTypeOK, [LockNext]_lockVars
  PROVE  LockTypeOK'
<1>1. CASE UNCHANGED lockVars
  BY <1>1 DEF lockVars, LockTypeOK
<1>2. ASSUME NEW p \in Opener,
             Begin(p) \/ Step(p) \/ Close(p) \/ Exit(p)
      PROVE  LockTypeOK'
  <2>1. stage' \in [Opener -> Place] /\ alive' \subseteq Opener
    BY <1>2, OneMoves DEF LockTypeOK
  <2>2. /\ again' \in [Opener -> BOOLEAN]
        /\ seen' \in [Opener -> Opener \cup {None}]
        /\ misread' \in BOOLEAN
    BY <1>2 DEF LockTypeOK, Begin, Step, Close, Exit, Create,
                Write, Read, Check, Remove, OpenStore,
                ClearStaleLock, QuarantineDir, ReleaseReads, Unlink,
                Silently, Move
  <2>3. \/ lock' = lock
        \/ lock' = NoFile
        \/ lock' \in {File(p, None), File(p, p)}
    BY <1>2 DEF Begin, Step, Close, Exit, Create,
                Write, Read, Check, Remove, OpenStore,
                ClearStaleLock, QuarantineDir, ReleaseReads, Unlink,
                Silently, Move
  <2>4. /\ lock' \in [creator : Opener \cup {None}, pid : Opener \cup {None}]
        /\ lock'.pid \in {None, lock'.creator}
    BY <2>3 DEF LockTypeOK, NoFile, File
  <2> QED
    BY <2>1, <2>2, <2>4 DEF LockTypeOK, Place
<1> QED
  BY <1>1, <1>2 DEF LockNext

LEMMA OnlyTheLivingActStep ==
  ASSUME LockTypeOK, OnlyTheLivingAct, [LockNext]_lockVars
  PROVE  OnlyTheLivingAct'
<1>1. CASE UNCHANGED lockVars
  BY <1>1 DEF lockVars, OnlyTheLivingAct
<1>2. ASSUME NEW p \in Opener,
             Begin(p) \/ Step(p) \/ Close(p) \/ Exit(p)
      PROVE  OnlyTheLivingAct'
  <2>1. /\ \A q \in Opener : q # p => stage'[q] = stage[q] /\ seen'[q] = seen[q]
        /\ p \in alive
        /\ alive' = alive \/ (alive' = alive \ {p} /\ stage'[p] = "out")
    BY <1>2, OneMoves
  <2>2. stage'[p] = "reclaim" => seen'[p] = seen[p] /\ seen[p] \notin alive
    <3>1. stage \in [Opener -> Place]
      BY DEF LockTypeOK, Place
    <3>2. CASE Check(p)
      BY <3>1, <3>2 DEF Check, Stale, Move, Enter
    <3>3. CASE ~Check(p)
      <4>1. stage'[p] # "reclaim"
        BY <1>2, <3>1, <3>3
           DEF Begin, Step, Close, Exit, Create, Write,
               Read, Remove, OpenStore, ClearStaleLock,
               QuarantineDir, ReleaseReads, Unlink, Silently,
               Move, Enter
      <4> QED
        BY <4>1
    <3> QED
      BY <3>2, <3>3
  <2> QED
    BY <2>1, <2>2 DEF OnlyTheLivingAct
<1> QED
  BY <1>1, <1>2 DEF LockNext

\* The heart: an owner's file is removed by another process only unread, because who
\* removes a file after reading its PID has found that process dead, and an owner is alive.
LEMMA OwnersHaveTheFileStep ==
  ASSUME LockInv, [LockNext]_lockVars
  PROVE  OwnersHaveTheFile'
<1> USE DEF LockInv
<1>1. CASE UNCHANGED lockVars
  BY <1>1 DEF lockVars, OwnersHaveTheFile, Owns
<1>2. ASSUME NEW p \in Opener,
             Begin(p) \/ Step(p) \/ Close(p) \/ Exit(p), ~misread'
      PROVE  \A q \in Opener :
                Owns(q)' => lock' = File(q, IF stage'[q] = "write" THEN None ELSE q)
  <2>a. ~misread
    BY <1>2 DEF Begin, Step, Close, Exit, Create, Write,
                Read, Check, Remove, OpenStore, ClearStaleLock,
                QuarantineDir, ReleaseReads, Unlink, Silently, Move
  <2>b. \A q \in Opener :
            Owns(q) => lock = File(q, IF stage[q] = "write" THEN None ELSE q)
    BY <2>a DEF OwnersHaveTheFile
  <2>c. \A q \in Opener : Owns(q) => q \in alive /\ lock.creator = q
    <3> SUFFICES ASSUME NEW q \in Opener, Owns(q)
                 PROVE  q \in alive /\ lock.creator = q
      OBVIOUS
    <3>1. stage[q] # "out"
      BY DEF Owns, Inside, Leaving
    <3>2. lock = File(q, IF stage[q] = "write" THEN None ELSE q)
      BY <2>b
    <3> QED
      BY <3>1, <3>2 DEF OnlyTheLivingAct, File
  <2>d. /\ stage' \in [Opener -> Place]
        /\ \A q \in Opener : q # p => stage'[q] = stage[q]
    BY <1>2, OneMoves
  <2>e. \A q \in Opener : q # p /\ Owns(q)' => Owns(q)
    BY <2>d DEF Owns
  \* The steps that neither create nor remove a file, nor bring a process to own one.
  <2>f. ASSUME lock' = lock, Owns(p)' => Owns(p) /\ stage[p] # "write"
                                         /\ stage'[p] # "write"
        PROVE  \A q \in Opener :
                  Owns(q)' => lock' = File(q, IF stage'[q] = "write" THEN None ELSE q)
    BY <2>b, <2>d, <2>e, <2>f
  <2>1. CASE Create(p)
    <3>1. CASE lock = NoFile /\ Move(p, "create", "write")
               /\ lock' = File(p, None)
      <4>1. \A q \in Opener : ~Owns(q)
        BY <2>c, <3>1, NoneAssumption DEF NoFile
      <4>2. stage'[p] = "write"
        BY <3>1 DEF Move, Enter, LockTypeOK
      <4> QED
        BY <2>e, <3>1, <4>1, <4>2
    <3>2. CASE Move(p, "create", "read") /\ UNCHANGED lock
      <4>1. ~Owns(p)'
        BY <3>2 DEF Move, Enter, LockTypeOK, Owns, Inside, Leaving
      <4> QED
        BY <2>f, <3>2, <4>1
    <3> QED
      BY <2>1, <3>1, <3>2 DEF Create
  <2>2. CASE Write(p)
    <3>1. /\ stage[p] = "write" /\ stage'[p] = "opening"
          /\ lock' = IF lock.creator = p THEN File(p, p) ELSE lock
      BY <2>2 DEF Write, Move, Enter, LockTypeOK
    <3>2. lock' = File(p, p)
      BY <2>c, <3>1 DEF Owns
    <3>3. \A q \in Opener : q # p => ~Owns(q)
      BY <2>c, <3>1 DEF Owns
    <3> QED
      BY <2>e, <3>1, <3>2, <3>3
  <2>3. CASE Remove(p)
    <3>1. /\ stage[p] = "reclaim" /\ stage'[p] \in {"out", "create"}
          /\ lock = NoFile \/ lock.creator = seen[p]
      BY <1>2, <2>3 DEF Remove, Enter, LockTypeOK
    <3>2. seen[p] \notin alive
      BY <3>1 DEF OnlyTheLivingAct
    <3>3. \A q \in Opener : ~Owns(q)
      BY <2>c, <3>1, <3>2, NoneAssumption DEF NoFile
    <3>4. ~Owns(p)'
      BY <3>1 DEF Owns, Inside, Leaving
    <3> QED
      BY <2>e, <3>3, <3>4
  <2>4. CASE Unlink(p)
    <3>1. stage[p] = "unlink" /\ stage'[p] = "out"
      BY <2>4 DEF Unlink, Move, Enter, LockTypeOK
    <3>2. \A q \in Opener : q # p => ~Owns(q)
      BY <2>c, <3>1 DEF Owns, Leaving
    <3>3. ~Owns(p)'
      BY <3>1 DEF Owns, Inside, Leaving
    <3> QED
      BY <2>e, <3>2, <3>3
  <2>5. CASE Begin(p) \/ Read(p) \/ Check(p) \/ Exit(p)
    <3>1. lock' = lock /\ stage'[p] \in {"out", "create", "check", "reclaim"}
      BY <2>5 DEF Begin, Read, Check, Exit, Move, Enter,
                  LockTypeOK
    <3>2. ~Owns(p)'
      BY <3>1 DEF Owns, Inside, Leaving
    <3> QED
      BY <2>f, <3>1, <3>2
  <2>6. CASE OpenStore(p) \/ ClearStaleLock(p) \/ QuarantineDir(p)
             \/ Close(p) \/ ReleaseReads(p)
    <3>1. /\ lock' = lock
          /\ stage[p] \in Inside \cup {"release"}
          /\ stage'[p] \in Inside \cup Leaving \cup {"out"}
      BY <2>6 DEF OpenStore, ClearStaleLock, QuarantineDir, Close,
                  ReleaseReads, Silently, Move, Enter, LockTypeOK,
                  Inside, Leaving
    <3>2. Owns(p) /\ stage[p] # "write" /\ stage'[p] # "write"
      BY <3>1 DEF Owns, Inside, Leaving
    <3> QED
      BY <2>f, <3>1, <3>2
  <2> QED
    BY <1>2, <2>1, <2>2, <2>3, <2>4, <2>5, <2>6 DEF Step
<1> QED
  BY <1>1, <1>2 DEF LockNext, OwnersHaveTheFile

LEMMA LockInvariant == LockSpec => []LockInv
<1>1. LockInit => LockInv
  BY LockInvInit
<1>2. LockInv /\ [LockNext]_lockVars => LockInv'
  BY LockTypesStep, OnlyTheLivingActStep, OwnersHaveTheFileStep DEF LockInv
<1> QED
  BY <1>1, <1>2, PTL DEF LockSpec

\* The lock file, the PIDs read from it and the stages of each open keep their types, for any
\* number of processes.
THEOREM LockTypes == LockSpec => []LockTypeOK
<1>1. LockInv => LockTypeOK
  BY DEF LockInv
<1> QED
  BY <1>1, LockInvariant, PTL

\* Cross-process mutual exclusion of the store, recovery steps included, for any number of
\* processes that open, close, reclaim and die: two of them are inside only if a reclaim has
\* removed a lock file whose PID it had not read.
THEOREM StoreIsExclusive == LockSpec => []AloneUnlessMisread
<1>1. LockInv => AloneUnlessMisread
  <2> SUFFICES ASSUME LockInv, NEW p \in Opener, NEW q \in Opener,
                      stage[p] \in Inside, stage[q] \in Inside, ~misread
               PROVE  p = q
    BY DEF AloneUnlessMisread, InStore
  <2>1. lock = File(p, p) /\ lock = File(q, q)
    BY DEF LockInv, OwnersHaveTheFile, Owns, Inside
  <2> QED
    BY <2>1 DEF File
<1> QED
  BY <1>1, LockInvariant, PTL

=============================================================================
