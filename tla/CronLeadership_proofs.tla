----------------------- MODULE CronLeadership_proofs -----------------------
(***************************************************************************)
(* What CronLeadership guarantees for any number of daemons and servers:   *)
(* its types, the inductive invariant LeadershipInv, and the promise of    *)
(* owned-file.cjs that no process deletes a live record of another one.    *)
(***************************************************************************)
EXTENDS CronLeadership, TLAPS

\* A fresh record is a record, and ageing keeps a record and its owner.
LEMMA FreshRecord ==
    ASSUME NEW p \in Runtime
    PROVE  Fresh(p) \in Record /\ Owns(p, Fresh(p)) /\ Fresh(p) \in Draft(p)
  BY ConstantsOK DEF Fresh, Record, Owns, Draft

LEMMA OlderContent ==
    ASSUME NEW c \in Content
    PROVE  /\ Older(c) \in Content
           /\ (Older(c) = NoFile) <=> (c = NoFile)
           /\ \A q \in Runtime : Owns(q, c) => Owns(q, Older(c))
           /\ \A q \in Runtime : c \in Draft(q) => Older(c) \in Draft(q)
  <1>1. CASE c \in Record /\ ~Stale(c)
    <2>1. c.owner \in Runtime /\ c.age \in 0 .. StaleAge
      BY <1>1, ConstantsOK DEF Record, Stale
    <2>2. Older(c) = [owner |-> c.owner, age |-> c.age + 1]
      BY <1>1 DEF Older, Record
    <2>3. Older(c) \in Record /\ Older(c).owner = c.owner
      BY <2>1, <2>2, ConstantsOK DEF Record
    <2> QED
      BY <1>1, <2>3, ConstantsOK DEF Content, Owns, Draft
  <1>2. CASE ~(c \in Record /\ ~Stale(c))
    BY <1>2 DEF Older
  <1> QED
    BY <1>1, <1>2

-----------------------------------------------------------------------------
(***************************************************************************)
(* Types.                                                                  *)
(***************************************************************************)

LEMMA InitTypeOK == Init => TypeOK
  BY DEF Init, TypeOK, Content, Places, Jobs, Draft

\* The helper that sets a process's locals keeps their types.
LEMMA LocalsType ==
    ASSUME TypeOK, NEW p \in Runtime,
           NEW l \in Places, NEW j \in Jobs, NEW s \in Content, NEW d \in Draft(p),
           Locals(p, l, j, s, d)
    PROVE  /\ at' \in [Runtime -> Places]
           /\ job' \in [Runtime -> Jobs]
           /\ seen' \in [Runtime -> Content]
           /\ draft' \in [Runtime -> Content]
           /\ \A q \in Runtime : draft'[q] \in Draft(q)
  BY DEF TypeOK, Locals, Draft, Content

LEMMA ReturnedType ==
    ASSUME TypeOK, NEW p \in Runtime, NEW ok \in BOOLEAN, Returned(p, ok)
    PROVE  /\ at' \in [Runtime -> Places]
           /\ job' \in [Runtime -> Jobs]
           /\ seen' \in [Runtime -> Content]
           /\ draft' \in [Runtime -> Content]
           /\ \A q \in Runtime : draft'[q] \in Draft(q)
           /\ leads' \in [Runtime -> BOOLEAN]
  <1>1. Fresh(p) \in Draft(p) /\ NoFile \in Draft(p)
    BY FreshRecord DEF Draft
  <1>2. leads' \in [Runtime -> BOOLEAN]
    <2>1. (leads[p] /\ (ok \/ p \in InProcess)) \in BOOLEAN
      OBVIOUS
    <2>2. PICK b \in BOOLEAN : UNCHANGED leads \/ leads' = [leads EXCEPT ![p] = b]
      BY <2>1 DEF Returned, Lead
    <2> QED
      BY <2>2 DEF TypeOK
  <1>3. PICK l \in Places, j \in Jobs, s \in Content, d \in Draft(p) : Locals(p, l, j, s, d)
    BY <1>1 DEF Returned, EnterClaim, Rest, Finish, Places, Jobs, Content
  <1> QED
    BY <1>2, <1>3, LocalsType

LEMMA ThrownType ==
    ASSUME TypeOK, NEW p \in Runtime, Thrown(p)
    PROVE  /\ at' \in [Runtime -> Places]
           /\ job' \in [Runtime -> Jobs]
           /\ seen' \in [Runtime -> Content]
           /\ draft' \in [Runtime -> Content]
           /\ \A q \in Runtime : draft'[q] \in Draft(q)
           /\ leads' \in [Runtime -> BOOLEAN]
  <1>1. PICK l \in Places, j \in Jobs : Locals(p, l, j, NoFile, NoFile)
    BY DEF Thrown, Rest, Finish, Places, Jobs
  <1>2. leads' \in [Runtime -> BOOLEAN]
    BY DEF TypeOK, Thrown, Lead
  <1> QED
    BY <1>1, <1>2, LocalsType DEF Content, Draft

LEMMA NextTypeOK == TypeOK /\ [Next]_vars => TypeOK'
  <1> SUFFICES ASSUME TypeOK, [Next]_vars
               PROVE  TypeOK'
    OBVIOUS
  <1>1. ASSUME NEW p \in Runtime, CreateLock(p)
        PROVE  TypeOK'
    <2>1. CASE lock = NoFile
      <3>1. Locals(p, "sweep", "none", NoFile, NoFile) /\ Lead(p, TRUE) /\ lock' = draft[p]
        BY <1>1, <2>1 DEF CreateLock
      <3>2. leads' \in [Runtime -> BOOLEAN] /\ lock' \in Content
        BY <3>1 DEF Lead, TypeOK
      <3> QED
        BY <1>1, <3>1, <3>2, LocalsType DEF CreateLock, TypeOK, Places, Jobs, Content, Draft
    <2>2. CASE lock # NoFile
      BY <1>1, <2>2 DEF CreateLock, TypeOK, Places
    <2> QED
      BY <2>1, <2>2
  <1>2. ASSUME NEW p \in Runtime, InspectLock(p)
        PROVE  TypeOK'
    <2>1. PICK l \in Places, j \in Jobs, s \in Content, d \in Draft(p) : Locals(p, l, j, s, d)
      <3>1. NoFile \in Draft(p) /\ draft[p] \in Draft(p)
        BY DEF Draft, TypeOK
      <3> QED
        BY <1>2, <3>1 DEF InspectLock, StandBy, Rest, Places, Jobs, Content, TypeOK
    <2>2. leads' \in [Runtime -> BOOLEAN]
      BY <1>2 DEF InspectLock, StandBy, Lead, TypeOK
    <2> QED
      BY <1>2, <2>1, <2>2, LocalsType DEF InspectLock, TypeOK, files
  <1>3. ASSUME NEW p \in Runtime, EndSweep(p)
        PROVE  TypeOK'
    BY <1>3 DEF EndSweep, TypeOK, Places, Jobs, files
  <1>4. ASSUME NEW p \in Runtime, RereadLock(p)
        PROVE  TypeOK'
    <2>1. CASE Owns(p, lock)
      BY <1>4, <2>1, FreshRecord DEF RereadLock, TypeOK, Locals, Places, Jobs, Content, files
    <2>2. CASE ~Owns(p, lock)
      BY <1>4, <2>2, ReturnedType DEF RereadLock, TypeOK, files
    <2> QED
      BY <2>1, <2>2
  <1>5. ASSUME NEW p \in Runtime, Precheck(p)
        PROVE  TypeOK'
    <2>1. CASE Matches(p, lock)
      BY <1>5, <2>1 DEF Precheck, TypeOK, Places, files
    <2>2. CASE ~Matches(p, lock)
      BY <1>5, <2>2, ReturnedType DEF Precheck, TypeOK, files
    <2> QED
      BY <2>1, <2>2
  <1>6. ASSUME NEW p \in Runtime, RenameToClaim(p)
        PROVE  TypeOK'
    <2>1. CASE lock # NoFile
      <3>1. lock' \in Content /\ claim' \in [Runtime -> Content]
        BY <1>6, <2>1 DEF RenameToClaim, TypeOK, Content
      <3>2. at' \in [Runtime -> Places]
        BY <1>6, <2>1 DEF RenameToClaim, TypeOK, Places
      <3> QED
        BY <1>6, <2>1, <3>1, <3>2 DEF RenameToClaim, TypeOK
    <2>2. CASE lock = NoFile
      BY <1>6, <2>2, ReturnedType DEF RenameToClaim, TypeOK
    <2> QED
      BY <2>1, <2>2
  <1>7. ASSUME NEW p \in Runtime, SettleMatched(p)
        PROVE  TypeOK'
    <2>1. PICK ok \in BOOLEAN : Returned(p, ok)
      BY <1>7 DEF SettleMatched
    <2>2. lock' \in Content /\ claim' \in [Runtime -> Content]
      BY <1>7 DEF SettleMatched, TypeOK, Content
    <2> QED
      BY <1>7, <2>1, <2>2, ReturnedType DEF SettleMatched, TypeOK
  <1>8. ASSUME NEW p \in Runtime, SettleForeign(p)
        PROVE  TypeOK'
    <2>1. /\ lock' \in Content
          /\ claim' \in [Runtime -> Content]
          /\ stranded' \subseteq Runtime
      BY <1>8 DEF SettleForeign, TypeOK, Content
    <2>2. Returned(p, FALSE) \/ Thrown(p)
      BY <1>8 DEF SettleForeign
    <2> QED
      BY <1>8, <2>1, <2>2, ReturnedType, ThrownType DEF SettleForeign, TypeOK
  <1>9. ASSUME NEW p \in Runtime,
               StartRuntime(p) \/ Tick(p) \/ Heartbeat(p) \/ PauseScheduler(p)
               \/ Shutdown(p) \/ Crash(p)
        PROVE  TypeOK'
    <2>1. CASE StartRuntime(p)
      BY <2>1 DEF StartRuntime, TypeOK, Places, files
    <2>2. ASSUME NEW l \in Places, NEW j \in Jobs, NEW d \in Draft(p), Locals(p, l, j, NoFile, d),
                 leads' \in [Runtime -> BOOLEAN], claim' \in [Runtime -> Content],
                 stranded' \subseteq Runtime, UNCHANGED <<lock, activeJobs>>
          PROVE  TypeOK'
      BY <2>2, LocalsType DEF TypeOK, Content
    <2>3. CASE Tick(p)
      <3>1. PICK d \in Draft(p), l \in {"create", "precheck"}, j \in {"none", "release"} :
              Locals(p, l, j, NoFile, d)
        BY <2>3, FreshRecord DEF Tick, EnterClaim, Draft
      <3> QED
        BY <2>2, <2>3, <3>1 DEF Tick, TypeOK, files, Places, Jobs
    <2>4. ASSUME Heartbeat(p) \/ PauseScheduler(p) \/ Shutdown(p) \/ Crash(p)
          PROVE  TypeOK'
      <3>1. PICK l \in {"reread", "precheck", "dead"}, j \in {"refresh", "release", "exit", "none"} :
              Locals(p, l, j, NoFile, NoFile)
        BY <2>4 DEF Heartbeat, PauseScheduler, Shutdown, Crash, Finish
      <3>2. /\ leads' \in [Runtime -> BOOLEAN] /\ claim' \in [Runtime -> Content]
            /\ stranded' \subseteq Runtime /\ UNCHANGED <<lock, activeJobs>>
        BY <2>4 DEF Heartbeat, PauseScheduler, Shutdown, Crash, Lead, TypeOK, files, Content
      <3> QED
        BY <2>2, <3>1, <3>2 DEF Places, Jobs, Draft
    <2> QED
      BY <1>9, <2>1, <2>3, <2>4
  <1>10. CASE ToggleJobs
    BY <1>10 DEF ToggleJobs, TypeOK, files
  <1>11. CASE Age
    BY <1>11, OlderContent DEF Age, TypeOK
  <1>12. CASE UNCHANGED vars
    BY <1>12 DEF vars, TypeOK
  <1> QED
    BY <1>1, <1>2, <1>3, <1>4, <1>5, <1>6, <1>7, <1>8, <1>9, <1>10, <1>11, <1>12
    DEF Next, Prompt, SystemCall

\* The lock file, the claims and every process's locals keep their types
\* whatever the processes do.
THEOREM TypeCorrect == Spec => []TypeOK
  BY InitTypeOK, NextTypeOK, PTL DEF Spec

-----------------------------------------------------------------------------
(***************************************************************************)
(* LeadershipInv is inductive.                                             *)
(***************************************************************************)

\* A step of p that moves it to place l, job j with s read preserves the
\* invariant if p's own two obligations hold afterwards.
LEMMA LocalStep ==
    ASSUME TypeOK, LeadershipInv, NEW p \in Runtime,
           NEW l \in Places, NEW j \in Jobs, NEW s \in Content, NEW d \in Content,
           Locals(p, l, j, s, d),
           claim' \in [Runtime -> Content],
           \A q \in Runtime \ {p} : claim'[q] = claim[q],
           (claim'[p] # NoFile) <=> (l = "settle"),
           j \in {"renew", "refresh"} /\ l \in {"precheck", "rename", "settle"}
              => Owns(p, s)
    PROVE  LeadershipInv'
  <1>1. /\ at'[p] = l /\ job'[p] = j /\ seen'[p] = s
        /\ \A q \in Runtime \ {p} :
              at'[q] = at[q] /\ job'[q] = job[q] /\ seen'[q] = seen[q]
    BY DEF Locals, TypeOK
  <1>2. ClaimIsolated'
    BY <1>1 DEF LeadershipInv, ClaimIsolated
  <1>3. RenewsOwnRecord'
    BY <1>1 DEF LeadershipInv, RenewsOwnRecord, Replaces, Owns
  <1> QED
    BY <1>2, <1>3 DEF LeadershipInv

\* An operation that returns or throws leaves p outside any settle, and with no
\* renewal prepared.
LEMMA AfterOperation ==
    ASSUME TypeOK, LeadershipInv, NEW p \in Runtime,
           (\E ok \in BOOLEAN : Returned(p, ok)) \/ Thrown(p),
           claim' \in [Runtime -> Content],
           \A q \in Runtime \ {p} : claim'[q] = claim[q],
           claim'[p] = NoFile
    PROVE  LeadershipInv'
  <1>1. Fresh(p) \in Content
    BY FreshRecord DEF Content
  <1>2. PICK l \in {"create", "sweep", "idle", "dead", "precheck"},
             j \in {"none", "exit"}, d \in Content :
             Locals(p, l, j, NoFile, d)
    BY <1>1 DEF Returned, Thrown, EnterClaim, Rest, Finish, Content
  <1>3. /\ l \in Places /\ j \in Jobs /\ NoFile \in Content
        /\ l # "settle" /\ j \notin {"renew", "refresh"}
    BY <1>2 DEF Places, Jobs, Content
  <1> QED
    BY <1>2, <1>3, LocalStep

LEMMA InitLeadershipInv == Init => LeadershipInv
  BY DEF Init, LeadershipInv, ClaimIsolated, RenewsOwnRecord, Replaces

LEMMA NextLeadershipInv == TypeOK /\ LeadershipInv /\ [Next]_vars => LeadershipInv'
  <1> SUFFICES ASSUME TypeOK, LeadershipInv, [Next]_vars
               PROVE  LeadershipInv'
    OBVIOUS
  <1>t. TypeOK'
    BY NextTypeOK
  <1>0. claim' \in [Runtime -> Content]
    BY <1>t DEF TypeOK
  <1>1. ASSUME NEW p \in Runtime, CreateLock(p)
        PROVE  LeadershipInv'
    <2>1. CASE lock = NoFile
      <3>1. Locals(p, "sweep", "none", NoFile, NoFile) /\ UNCHANGED claim /\ at[p] = "create"
        BY <1>1, <2>1 DEF CreateLock
      <3> QED
        BY <3>1, <1>0, LocalStep DEF Places, Jobs, Content, LeadershipInv, ClaimIsolated
    <2>2. CASE lock # NoFile
      <3>1. /\ at[p] = "create"
            /\ at' = [at EXCEPT ![p] = "inspect"]
            /\ UNCHANGED <<job, seen, claim>>
        BY <1>1, <2>2 DEF CreateLock
      <3>2. ClaimIsolated'
        BY <3>1 DEF LeadershipInv, ClaimIsolated, TypeOK
      <3>3. RenewsOwnRecord'
        BY <3>1 DEF LeadershipInv, RenewsOwnRecord, Replaces, TypeOK, Owns
      <3> QED
        BY <3>2, <3>3 DEF LeadershipInv
    <2> QED
      BY <2>1, <2>2
  <1>2. ASSUME NEW p \in Runtime, InspectLock(p)
        PROVE  LeadershipInv'
    <2>1. UNCHANGED claim /\ claim[p] = NoFile
      BY <1>2 DEF InspectLock, files, LeadershipInv, ClaimIsolated
    <2>2. PICK l \in {"precheck", "idle"}, j \in Jobs, s \in Content, d \in Content :
             /\ Locals(p, l, j, s, d)
             /\ j \in {"renew", "refresh"} => Owns(p, s)
      BY <1>2 DEF InspectLock, StandBy, SameIdentifier, Owns, Rest, Jobs, Content, TypeOK
    <2> QED
      BY <1>0, <2>1, <2>2, LocalStep DEF Places
  <1>3. ASSUME NEW p \in Runtime, EndSweep(p)
        PROVE  LeadershipInv'
    BY <1>3 DEF EndSweep, files, LeadershipInv, ClaimIsolated, RenewsOwnRecord, Replaces, TypeOK
  <1>4. ASSUME NEW p \in Runtime, RereadLock(p)
        PROVE  LeadershipInv'
    <2>1. UNCHANGED claim /\ claim[p] = NoFile
      BY <1>4 DEF RereadLock, files, LeadershipInv, ClaimIsolated
    <2>2. CASE Owns(p, lock)
      <3>1. Locals(p, "precheck", job[p], lock, Fresh(p))
        BY <1>4, <2>2 DEF RereadLock
      <3>2. Fresh(p) \in Content
        BY FreshRecord DEF Content
      <3>3. job[p] \in Jobs /\ lock \in Content
        BY DEF TypeOK
      <3> QED
        BY <1>0, <2>1, <2>2, <3>1, <3>2, <3>3, LocalStep DEF Places
    <2>3. CASE ~Owns(p, lock)
      BY <1>0, <1>4, <2>1, <2>3, AfterOperation DEF RereadLock
    <2> QED
      BY <2>2, <2>3
  <1>5. ASSUME NEW p \in Runtime, Precheck(p)
        PROVE  LeadershipInv'
    <2>1. UNCHANGED claim /\ claim[p] = NoFile
      BY <1>5 DEF Precheck, files, LeadershipInv, ClaimIsolated
    <2>2. CASE Matches(p, lock)
      BY <1>5, <2>1, <2>2 DEF Precheck, LeadershipInv, ClaimIsolated, RenewsOwnRecord,
         Replaces, TypeOK, Owns
    <2>3. CASE ~Matches(p, lock)
      BY <1>0, <1>5, <2>1, <2>3, AfterOperation DEF Precheck
    <2> QED
      BY <2>2, <2>3
  <1>6. ASSUME NEW p \in Runtime, RenameToClaim(p)
        PROVE  LeadershipInv'
    <2>1. CASE lock # NoFile
      BY <1>6, <2>1 DEF RenameToClaim, LeadershipInv, ClaimIsolated, RenewsOwnRecord,
         Replaces, TypeOK, Owns
    <2>2. CASE lock = NoFile
      <3>1. UNCHANGED claim /\ claim[p] = NoFile /\ Returned(p, FALSE)
        BY <1>6, <2>2 DEF RenameToClaim, LeadershipInv, ClaimIsolated
      <3> QED
        BY <1>0, <3>1, AfterOperation
    <2> QED
      BY <2>1, <2>2
  <1>7. ASSUME NEW p \in Runtime, SettleMatched(p)
        PROVE  LeadershipInv'
    <2>1. claim' = [claim EXCEPT ![p] = NoFile] /\ \E ok \in BOOLEAN : Returned(p, ok)
      BY <1>7 DEF SettleMatched
    <2> QED
      BY <1>0, <2>1, AfterOperation DEF TypeOK
  <1>8. ASSUME NEW p \in Runtime, SettleForeign(p)
        PROVE  LeadershipInv'
    <2>1. /\ claim' = [claim EXCEPT ![p] = NoFile]
          /\ Returned(p, FALSE) \/ Thrown(p)
      BY <1>8 DEF SettleForeign
    <2> QED
      BY <1>0, <2>1, AfterOperation DEF TypeOK
  <1>9. ASSUME NEW p \in Runtime,
               StartRuntime(p) \/ Tick(p) \/ Heartbeat(p) \/ PauseScheduler(p)
               \/ Shutdown(p)
        PROVE  LeadershipInv'
    <2>1. UNCHANGED claim /\ claim[p] = NoFile
      BY <1>9 DEF StartRuntime, Tick, Heartbeat, PauseScheduler, Shutdown, files,
         LeadershipInv, ClaimIsolated
    <2>2. CASE StartRuntime(p)
      BY <2>1, <2>2 DEF StartRuntime, LeadershipInv, ClaimIsolated, RenewsOwnRecord,
         Replaces, TypeOK
    <2>3. CASE ~StartRuntime(p)
      <3>1. Fresh(p) \in Content
        BY FreshRecord DEF Content
      <3>2. PICK l \in {"create", "precheck", "reread", "dead"},
                 j \in {"none", "release", "refresh", "exit"}, d \in Content :
                 /\ Locals(p, l, j, NoFile, d)
                 /\ l = "precheck" => j # "refresh"
        BY <1>9, <2>3, <3>1 DEF Tick, Heartbeat, PauseScheduler, Shutdown, EnterClaim,
           Finish, Content
      <3>3. l \in Places /\ j \in Jobs /\ NoFile \in Content
        BY <3>2 DEF Places, Jobs, Content
      <3>4. (claim'[p] # NoFile) <=> (l = "settle")
        BY <2>1, <3>2
      <3>5. ~(j \in {"renew", "refresh"} /\ l \in {"precheck", "rename", "settle"})
        BY <3>2
      <3> QED
        BY <1>0, <2>1, <3>2, <3>3, <3>4, <3>5, LocalStep
    <2> QED
      BY <2>2, <2>3
  <1>10. ASSUME NEW p \in Runtime, Crash(p)
        PROVE  LeadershipInv'
    <2>1. Locals(p, "dead", "none", NoFile, NoFile) /\ claim' = [claim EXCEPT ![p] = NoFile]
      BY <1>10 DEF Crash, Finish
    <2> QED
      BY <1>0, <2>1, LocalStep DEF Places, Jobs, Content, TypeOK
  <1>11. CASE ToggleJobs
    BY <1>11 DEF ToggleJobs, files, LeadershipInv, ClaimIsolated, RenewsOwnRecord, Replaces, Owns
  <1>12. CASE Age
    <2>1. ClaimIsolated'
      BY <1>12, OlderContent DEF Age, LeadershipInv, ClaimIsolated, TypeOK
    <2>2. RenewsOwnRecord'
      BY <1>12, OlderContent DEF Age, LeadershipInv, RenewsOwnRecord, Replaces, TypeOK
    <2> QED
      BY <2>1, <2>2 DEF LeadershipInv
  <1>13. CASE UNCHANGED vars
    BY <1>13 DEF vars, LeadershipInv, ClaimIsolated, RenewsOwnRecord, Replaces, Owns
  <1> QED
    BY <1>1, <1>2, <1>3, <1>4, <1>5, <1>6, <1>7, <1>8, <1>9, <1>10, <1>11, <1>12, <1>13
    DEF Next, Prompt, SystemCall

\* A claimed entry is never buried by a second rename, and a renewal is only ever
\* prepared from the runtime's own record.
THEOREM LeadershipInvariant == Spec => []LeadershipInv
  BY InitLeadershipInv, NextLeadershipInv, InitTypeOK, NextTypeOK, PTL DEF Spec

-----------------------------------------------------------------------------
(***************************************************************************)
(* No process deletes a live record of another one.                        *)
(***************************************************************************)

\* What is still somewhere afterwards survives.
LEMMA SurvivesIn ==
    ASSUME NEW q \in Runtime, NEW c, Owns(q, c),
           \/ lock' = c
           \/ \E r \in Runtime : claim'[r] = c
    PROVE  \E e \in Held' : Owns(q, e)
  BY DEF Held, Owns

\* An operation that ends moves its process.
LEMMA EndsElsewhere ==
    ASSUME TypeOK, NEW p \in Runtime, at[p] = "settle",
           (\E ok \in BOOLEAN : Returned(p, ok)) \/ Thrown(p)
    PROVE  at'[p] # at[p]
  BY DEF TypeOK, Returned, Thrown, EnterClaim, Rest, Finish, Locals

LEMMA StepKeepsForeignRecords ==
    TypeOK /\ LeadershipInv /\ [Next]_vars => KeepsForeignRecords
  <1> SUFFICES ASSUME TypeOK, LeadershipInv, [Next]_vars,
                      NEW q \in Runtime, NEW c \in Held,
                      Owns(q, c), ~Stale(c),
                      at'[q] = at[q], job'[q] = job[q]
               PROVE  (\E e \in Held' : Owns(q, e)) \/ q \in stranded'
    BY DEF KeepsForeignRecords
  <1>a. c # NoFile /\ c # Torn
    BY ConstantsOK DEF Owns
  <1>b. c = lock \/ \E r \in Runtime : c = claim[r]
    BY DEF Held
  <1>1. CASE UNCHANGED <<lock, claim>>
    BY <1>1, <1>b, SurvivesIn
  <1>2. ASSUME NEW p \in Runtime, CreateLock(p)
        PROVE  \E e \in Held' : Owns(q, e)
    <2>1. UNCHANGED claim /\ (lock = NoFile \/ UNCHANGED lock)
      BY <1>2 DEF CreateLock
    <2> QED
      BY <1>a, <1>b, <2>1, SurvivesIn
  <1>3. ASSUME NEW p \in Runtime, RenameToClaim(p)
        PROVE  \E e \in Held' : Owns(q, e)
    <2>1. claim[p] = NoFile
      BY <1>3 DEF RenameToClaim, LeadershipInv, ClaimIsolated
    <2>2. CASE lock # NoFile
      <3>1. claim' = [claim EXCEPT ![p] = lock]
        BY <1>3, <2>2 DEF RenameToClaim
      <3>2. \E r \in Runtime : claim'[r] = c
        BY <1>a, <1>b, <2>1, <3>1 DEF TypeOK
      <3> QED
        BY <3>2, SurvivesIn
    <2>3. CASE lock = NoFile
      BY <1>3, <1>b, <2>3, SurvivesIn DEF RenameToClaim
    <2> QED
      BY <2>2, <2>3
  <1>4. ASSUME NEW p \in Runtime, SettleMatched(p)
        PROVE  \E e \in Held' : Owns(q, e)
    <2>1. /\ at[p] = "settle"
          /\ Matches(p, claim[p])
          /\ claim' = [claim EXCEPT ![p] = NoFile]
          /\ lock = NoFile \/ UNCHANGED lock
          /\ \E ok \in BOOLEAN : Returned(p, ok)
      BY <1>4 DEF SettleMatched
    <2>2. q # p
      BY <2>1, EndsElsewhere
    <2>3. ~Owns(p, c)
      BY <2>2 DEF Owns
    <2>4. c # claim[p]
      BY <1>a, <2>1, <2>3 DEF Matches, LeadershipInv, RenewsOwnRecord, Replaces
    <2>5. \/ lock' = c
          \/ \E r \in Runtime : claim'[r] = c
      BY <1>a, <1>b, <2>1, <2>4 DEF TypeOK
    <2> QED
      BY <2>5, SurvivesIn
  <1>5. ASSUME NEW p \in Runtime, SettleForeign(p)
        PROVE  (\E e \in Held' : Owns(q, e)) \/ q \in stranded'
    <2>1. claim' = [claim EXCEPT ![p] = NoFile]
      BY <1>5 DEF SettleForeign
    <2>2. CASE c = claim[p]
      <3>1. lock' = c \/ q \in stranded'
        BY <1>5, <2>2 DEF SettleForeign
      <3> QED
        BY <3>1, SurvivesIn
    <2>3. CASE c # claim[p]
      <3>1. \/ lock' = c
            \/ \E r \in Runtime : claim'[r] = c
        BY <1>5, <1>a, <1>b, <2>1, <2>3 DEF SettleForeign, TypeOK
      <3> QED
        BY <3>1, SurvivesIn
    <2> QED
      BY <2>2, <2>3
  <1>6. ASSUME NEW p \in Runtime, Crash(p)
        PROVE  (\E e \in Held' : Owns(q, e)) \/ q \in stranded'
    <2>1. /\ claim' = [claim EXCEPT ![p] = NoFile]
          /\ stranded' = stranded \cup {r \in Runtime : Owns(r, claim[p])}
          /\ UNCHANGED lock
      BY <1>6 DEF Crash
    <2>2. CASE c = claim[p]
      BY <2>1, <2>2
    <2>3. CASE c # claim[p]
      <3>1. \/ lock' = c
            \/ \E r \in Runtime : claim'[r] = c
        BY <1>b, <2>1, <2>3 DEF TypeOK
      <3> QED
        BY <3>1, SurvivesIn
    <2> QED
      BY <2>2, <2>3
  <1>7. CASE Age
    <2>1. Owns(q, Older(c))
      BY <1>b, OlderContent DEF TypeOK
    <2>2. \/ lock' = Older(c)
          \/ \E r \in Runtime : claim'[r] = Older(c)
      BY <1>7, <1>b DEF Age
    <2> QED
      BY <2>1, <2>2, SurvivesIn
  <1>8. ASSUME NEW p \in Runtime,
               Prompt(p),
               ~CreateLock(p), ~RenameToClaim(p), ~SettleMatched(p), ~SettleForeign(p), ~Crash(p)
        PROVE  UNCHANGED <<lock, claim>>
    BY <1>8 DEF Prompt, SystemCall, InspectLock, EndSweep, RereadLock, Precheck,
       StartRuntime, Tick, Heartbeat, PauseScheduler, Shutdown, files
  <1>9. CASE ToggleJobs \/ UNCHANGED vars
    BY <1>9, <1>1 DEF ToggleJobs, files, vars
  <1> QED
    BY <1>1, <1>2, <1>3, <1>4, <1>5, <1>6, <1>7, <1>8, <1>9 DEF Next, Prompt, SystemCall

\* owned-file.cjs: whatever the interleaving of claims, heartbeats, releases and
\* crashes, a step of one process never deletes the fresh record of another.
THEOREM ForeignRecordsSurvive == Spec => ForeignRecordSurvives
  <1>1. TypeOK /\ LeadershipInv /\ [Next]_vars => [KeepsForeignRecords]_vars
    BY StepKeepsForeignRecords
  <1> QED
    BY <1>1, TypeCorrect, LeadershipInvariant, PTL DEF Spec, ForeignRecordSurvives

=============================================================================
