------------------------- MODULE Invitations_proofs -------------------------
(***************************************************************************)
(* Proofs about Invitations for any number of requests and of issues.      *)
(* InvitationInv is inductive.  Its heart is ClaimsAreForIssues: a claim   *)
(* stands for the issue its holder presented, for sending the invitation   *)
(* anew removes it; so an account that was created while the claim held    *)
(* belongs to the issue that Mark notes it for.                            *)
(***************************************************************************)
EXTENDS Invitations, TLAPS

Issued ==
  /\ \A i \in Invitation : row[i].token => row[i].issue # NoIssue
  /\ \A r \in Request : call[r].at # "idle" => call[r].issue # NoIssue
ClaimsAreForIssues ==
  \A r \in Request, i \in Invitation : row[i].claim = r =>
    /\ call[r].at \notin {"idle", "claim"}
    /\ Inv(r) = i
    /\ call[r].issue = row[i].issue
AccountsAreNoted ==
  /\ \A i \in Invitation : row[i].ready => <<i, row[i].issue>> \in accounts
  /\ \A r \in Request : call[r].at = "mark" => <<Inv(r), call[r].issue>> \in accounts
SpentIsSpent ==
  \A i \in Invitation, n \in Issue : <<i, n>> \in accepted =>
    /\ n <= row[i].issue
    /\ n = row[i].issue => ~row[i].token /\ row[i].claim = Nobody

InvitationInv == TypeOK /\ Issued /\ ClaimsAreForIssues /\ AccountsAreNoted /\ SpentIsSpent

\* What a row without a claim is.
LEMMA CleanRows ==
  ASSUME NEW status \in {"none", "invited", "active", "inactive"}, NEW n \in Issue \cup {NoIssue}, NEW token \in BOOLEAN
  PROVE  /\ Clean(status, n, token) \in InviteRow
         /\ Clean(status, n, token).issue = n
         /\ Clean(status, n, token).token = token
         /\ Clean(status, n, token).claim = Nobody
         /\ ~Clean(status, n, token).ready
         /\ ~Clean(status, n, token).fresh
  BY DEF Clean, InviteRow

LEMMA IdleCall == Idle \in Call
  BY DEF Idle, Call, Stage, Invitation, Issue, NoIssue

\* What a change of one row has to observe when no request takes a step.
Sound(old, new, i) ==
  /\ new \in InviteRow
  /\ new.fresh => new.claim # Nobody
  /\ new.token => new.issue # NoIssue
  /\ new.ready => <<i, new.issue>> \in accounts
  /\ new.issue >= old.issue
  /\ new.issue = old.issue => (new.token => old.token) /\ (old.claim = Nobody /\ ~old.token => new.claim = Nobody)

LEMMA RowChange ==
  ASSUME InvitationInv, NEW i \in Invitation, NEW new,
         Write(i, new), Sound(row[i], new, i),
         \A r \in Request : new.claim = r => row[i].claim = r /\ new.issue = row[i].issue,
         UNCHANGED <<accounts, call, accepted>>,
         inviting' \in [Invitation -> {"no", "invite", "promote"}], owns' \in BOOLEAN, teamOpen' \in BOOLEAN
  PROVE  InvitationInv'
<1> USE DEF InvitationInv, Write, Sound, Inv
<1>0. row' = [row EXCEPT ![i] = new] /\ new \in InviteRow /\ row \in [Invitation -> InviteRow]
  BY DEF TypeOK
<1>1. TypeOK'
  BY <1>0 DEF TypeOK
<1>2. Issued'
  BY <1>0 DEF Issued
<1>3. ClaimsAreForIssues'
  BY <1>0 DEF ClaimsAreForIssues
<1>4. AccountsAreNoted'
  BY <1>0 DEF AccountsAreNoted
<1>5. SpentIsSpent'
  BY <1>0 DEF SpentIsSpent, InviteRow, Issue, NoIssue
<1> QED BY <1>1, <1>2, <1>3, <1>4, <1>5

\* The same where r takes a step, to c, and changes the row of its own invitation.
LEMMA RequestChange ==
  ASSUME InvitationInv, NEW r \in Request, NEW new, NEW c \in Call,
         Write(Inv(r), new), Sound(Row(r), new, Inv(r)),
         call' = [call EXCEPT ![r] = c],
         c.at # "idle" => c.issue = call[r].issue /\ c.inv = Inv(r) /\ call[r].at # "idle",
         c.at = "mark" => FALSE,
         new.claim = r => c.at \notin {"idle", "claim"} /\ c.issue = new.issue,
         \A q \in Request \ {r} : new.claim = q => Row(r).claim = q /\ new.issue = Row(r).issue,
         \A i \in Invitation \ {Inv(r)} : row[i].claim # r,
         UNCHANGED <<accounts, inviting, owns, teamOpen, accepted>>
  PROVE  InvitationInv'
<1> USE DEF InvitationInv, Write, Sound, Inv, Row
<1>0. /\ row' = [row EXCEPT ![Inv(r)] = new] /\ new \in InviteRow /\ row \in [Invitation -> InviteRow]
      /\ Inv(r) \in Invitation /\ call \in [Request -> Call] /\ call' \in [Request -> Call]
  BY DEF TypeOK, Call
<1>1. TypeOK'
  BY <1>0 DEF TypeOK
<1>2. Issued'
  BY <1>0 DEF Issued
<1>3. ClaimsAreForIssues'
  BY <1>0 DEF ClaimsAreForIssues
<1>4. AccountsAreNoted'
  BY <1>0 DEF AccountsAreNoted
<1>5. SpentIsSpent'
  BY <1>0 DEF SpentIsSpent, InviteRow, Issue, NoIssue
<1> QED BY <1>1, <1>2, <1>3, <1>4, <1>5

\* A claim of r is on the invitation r accepts.
LEMMA OwnClaim ==
  ASSUME InvitationInv, NEW r \in Request
  PROVE  /\ Inv(r) \in Invitation /\ Row(r) \in InviteRow /\ call[r] \in Call
         /\ \A i \in Invitation \ {Inv(r)} : row[i].claim # r
         /\ Row(r).claim = r => Row(r).issue = call[r].issue /\ call[r].at \notin {"idle", "claim"}
  BY DEF InvitationInv, TypeOK, ClaimsAreForIssues, Inv, Row, Call

\* What the invariant says of one row.
LEMMA RowTypes ==
  ASSUME InvitationInv, NEW i \in Invitation
  PROVE  row[i] \in InviteRow /\ row[i].issue \in Issue \cup {NoIssue} /\ row[i].issue \in Nat
<1>1. row[i] \in InviteRow
  BY DEF InvitationInv, TypeOK
<1> QED BY <1>1 DEF InviteRow, Issue, NoIssue

LEMMA RowFacts ==
  ASSUME InvitationInv, NEW i \in Invitation
  PROVE  /\ row[i].fresh => row[i].claim # Nobody
         /\ row[i].token => row[i].issue # NoIssue
         /\ row[i].ready => <<i, row[i].issue>> \in accounts
  BY DEF InvitationInv, TypeOK, Issued, AccountsAreNoted

\* Most changes leave the issue, and give up what they change.
LEMMA SoundChange ==
  ASSUME InvitationInv, NEW i \in Invitation, NEW new \in InviteRow,
         new.issue = row[i].issue,
         new.token => row[i].token,
         new.ready => row[i].ready,
         new.fresh => new.claim # Nobody,
         row[i].claim = Nobody /\ ~row[i].token => new.claim = Nobody
  PROVE  Sound(row[i], new, i)
<1>1. new.issue >= row[i].issue
  BY RowTypes
<1> QED BY <1>1, RowFacts DEF Sound

LEMMA InitInv == Init => InvitationInv
<1> SUFFICES ASSUME Init PROVE InvitationInv
  OBVIOUS
<1> DEFINE clean == Clean("none", NoIssue, FALSE)
<1>0. /\ clean \in InviteRow /\ clean.claim = Nobody /\ ~clean.ready
      /\ ~clean.token /\ ~clean.fresh
  BY CleanRows
<1>1. \A i \in Invitation : row[i] = clean
  BY DEF Init
<1>2. \A r \in Request : call[r] = Idle /\ r # Nobody
  BY RequestsAreNotWords DEF Init
<1> HIDE DEF clean
<1>3. TypeOK
  BY <1>0, <1>1 DEF Init, TypeOK, Idle, Call, Stage, Invitation, clean
<1>4. Issued /\ ClaimsAreForIssues /\ AccountsAreNoted /\ SpentIsSpent
  BY <1>0, <1>1, <1>2 DEF Init, Issued, ClaimsAreForIssues, AccountsAreNoted, SpentIsSpent, Idle
<1> QED BY <1>3, <1>4 DEF InvitationInv

LEMMA StepInv == InvitationInv /\ [Next]_vars => InvitationInv'
<1> SUFFICES ASSUME InvitationInv, [Next]_vars PROVE InvitationInv'
  OBVIOUS
<1> USE RequestsAreNotWords, IdleCall DEF Row, Inv, GoTo, Ended
<1>1. ASSUME NEW r \in Request, Claim(r) PROVE InvitationInv'
  <2> DEFINE new == [Row(r) EXCEPT !.claim = r, !.fresh = TRUE]
             c == [call[r] EXCEPT !.at = IF Inv(r) = "team" THEN "recheck" ELSE CreateOrNot(r)]
  <2>0. Row(r) \in InviteRow /\ Inv(r) \in Invitation /\ call[r] \in Call
    BY OwnClaim
  <2>1. Write(Inv(r), new) /\ call' = [call EXCEPT ![r] = c] /\ UNCHANGED <<accounts, inviting, owns, teamOpen, accepted>>
    BY <1>1, <2>0 DEF Claim, InvitationInv, TypeOK, Write
  <2>2. /\ new \in InviteRow
        /\ new.issue = Row(r).issue
        /\ new.token => Row(r).token
        /\ Row(r).claim = Nobody /\ ~Row(r).token => new.claim = Nobody
    BY <1>1, <2>0, RowTypes DEF Claim, Claimable, CreateOrNot, InviteRow
  <2>9. new.fresh => new.claim # Nobody
    BY <1>1, <2>0, RowTypes, RowFacts, RequestsAreNotWords DEF Claim, Claimable, CreateOrNot, InviteRow, Gone, Nobody
  <2>3. c \in Call /\ c.at # "mark" /\ (c.at # "idle" => c.issue = call[r].issue /\ c.inv = Inv(r) /\ call[r].at # "idle")
    BY <1>1, <2>0 DEF Claim, Claimable, CreateOrNot, Call, Stage, Idle
  <2>4. new.claim = r => c.at \notin {"idle", "claim"} /\ c.issue = new.issue
    BY <1>1, <2>0, OwnClaim DEF Claim, Claimable, CreateOrNot, Call, InviteRow, Idle
  <2>5. \A q \in Request \ {r} : new.claim = q => Row(r).claim = q /\ new.issue = Row(r).issue
    BY <1>1, <2>0 DEF Claim, Claimable, CreateOrNot, InviteRow
  <2>6. \A i \in Invitation \ {Inv(r)} : row[i].claim # r
    BY OwnClaim
  <2>7. new.ready => <<Inv(r), new.issue>> \in accounts
    BY <1>1, <2>0, RowTypes, RowFacts DEF Claim, Claimable, CreateOrNot, InviteRow
  <2> HIDE DEF new, c
  <2>8. Sound(Row(r), new, Inv(r))
    <3>1. new.issue >= Row(r).issue
      BY <2>0, <2>2, RowTypes
    <3>2. new.token => new.issue # NoIssue
      BY <2>0, <2>2, RowFacts
    <3> QED BY <2>0, <2>2, <2>7, <2>9, <3>1, <3>2 DEF Sound
  <2> QED BY <2>1, <2>3, <2>4, <2>5, <2>6, <2>8, RequestChange
<1>2. ASSUME NEW r \in Request, ClaimRefused(r) PROVE InvitationInv'
  <2>1. TypeOK'
    BY <1>2 DEF ClaimRefused, InvitationInv, Idle, TypeOK, Call, Stage, InviteRow
  <2>2. Issued'
    BY <1>2 DEF ClaimRefused, InvitationInv, Idle, Issued, Call
  <2>3. ClaimsAreForIssues'
    BY <1>2 DEF ClaimRefused, InvitationInv, Idle, ClaimsAreForIssues, InviteRow, Call
  <2>4. AccountsAreNoted'
    BY <1>2 DEF ClaimRefused, InvitationInv, Idle, AccountsAreNoted
  <2>5. SpentIsSpent'
    BY <1>2 DEF ClaimRefused, InvitationInv, Idle, SpentIsSpent
  <2> QED BY <2>1, <2>2, <2>3, <2>4, <2>5 DEF InvitationInv
<1>3. ASSUME NEW r \in Request, Recheck(r) PROVE InvitationInv'
  <2>1. TypeOK'
    BY <1>3 DEF Recheck, CreateOrNot, InvitationInv, Idle, TypeOK, Call, Stage, InviteRow
  <2>2. Issued'
    BY <1>3 DEF Recheck, CreateOrNot, InvitationInv, Idle, Issued, Call
  <2>3. ClaimsAreForIssues'
    BY <1>3 DEF Recheck, CreateOrNot, InvitationInv, Idle, ClaimsAreForIssues, InviteRow, Call
  <2>4. AccountsAreNoted'
    BY <1>3 DEF Recheck, CreateOrNot, InvitationInv, Idle, AccountsAreNoted
  <2>5. SpentIsSpent'
    BY <1>3 DEF Recheck, CreateOrNot, InvitationInv, Idle, SpentIsSpent
  <2> QED BY <2>1, <2>2, <2>3, <2>4, <2>5 DEF InvitationInv
<1>4. ASSUME NEW r \in Request, LookUp(r) PROVE InvitationInv'
  <2>1. TypeOK'
    BY <1>4 DEF LookUp, InvitationInv, Idle, TypeOK, Call, Stage, InviteRow
  <2>2. Issued'
    BY <1>4 DEF LookUp, InvitationInv, Idle, Issued, Call
  <2>3. ClaimsAreForIssues'
    BY <1>4 DEF LookUp, InvitationInv, Idle, ClaimsAreForIssues, InviteRow, Call
  <2>4. AccountsAreNoted'
    BY <1>4 DEF LookUp, InvitationInv, Idle, AccountsAreNoted
  <2>5. SpentIsSpent'
    BY <1>4 DEF LookUp, InvitationInv, Idle, SpentIsSpent
  <2> QED BY <2>1, <2>2, <2>3, <2>4, <2>5 DEF InvitationInv
<1>5. ASSUME NEW r \in Request, Link(r) PROVE InvitationInv'
  <2>1. TypeOK'
    BY <1>5 DEF Link, Issued, InvitationInv, Idle, TypeOK, Call, Stage, InviteRow
  <2>2. Issued'
    BY <1>5 DEF Link, Issued, InvitationInv, Idle, Issued, Call
  <2>3. ClaimsAreForIssues'
    BY <1>5 DEF Link, Issued, InvitationInv, Idle, ClaimsAreForIssues, InviteRow, Call
  <2>4. AccountsAreNoted'
    BY <1>5 DEF Link, Issued, InvitationInv, Idle, AccountsAreNoted
  <2>5. SpentIsSpent'
    BY <1>5 DEF Link, Issued, InvitationInv, Idle, SpentIsSpent
  <2> QED BY <2>1, <2>2, <2>3, <2>4, <2>5 DEF InvitationInv
<1>6. ASSUME NEW r \in Request, CreateFails(r) PROVE InvitationInv'
  <2>1. TypeOK'
    BY <1>6 DEF CreateFails, InvitationInv, Idle, TypeOK, Call, Stage, InviteRow
  <2>2. Issued'
    BY <1>6 DEF CreateFails, InvitationInv, Idle, Issued, Call
  <2>3. ClaimsAreForIssues'
    BY <1>6 DEF CreateFails, InvitationInv, Idle, ClaimsAreForIssues, InviteRow, Call
  <2>4. AccountsAreNoted'
    BY <1>6 DEF CreateFails, InvitationInv, Idle, AccountsAreNoted
  <2>5. SpentIsSpent'
    BY <1>6 DEF CreateFails, InvitationInv, Idle, SpentIsSpent
  <2> QED BY <2>1, <2>2, <2>3, <2>4, <2>5 DEF InvitationInv
<1>7. ASSUME NEW r \in Request, Mark(r) PROVE InvitationInv'
  <2> DEFINE new == [Row(r) EXCEPT !.ready = TRUE]
             c == [call[r] EXCEPT !.at = "finalize"]
  <2>0. Row(r) \in InviteRow /\ Inv(r) \in Invitation /\ call[r] \in Call
    BY OwnClaim
  <2>1. Write(Inv(r), new) /\ call' = [call EXCEPT ![r] = c] /\ UNCHANGED <<accounts, inviting, owns, teamOpen, accepted>>
    BY <1>7, <2>0 DEF Mark, InvitationInv, TypeOK, Write
  <2>2. /\ new \in InviteRow
        /\ new.issue = Row(r).issue
        /\ new.token => Row(r).token
        /\ Row(r).claim = Nobody /\ ~Row(r).token => new.claim = Nobody
    BY <1>7, <2>0, RowTypes DEF Mark, Holds, InvitationInv, AccountsAreNoted, InviteRow
  <2>9. new.fresh => new.claim # Nobody
    BY <1>7, <2>0, RowTypes, RowFacts, RequestsAreNotWords DEF Mark, Holds, InvitationInv, AccountsAreNoted, InviteRow, Gone, Nobody
  <2>3. c \in Call /\ c.at # "mark" /\ (c.at # "idle" => c.issue = call[r].issue /\ c.inv = Inv(r) /\ call[r].at # "idle")
    BY <1>7, <2>0 DEF Mark, Holds, InvitationInv, AccountsAreNoted, Call, Stage, Idle
  <2>4. new.claim = r => c.at \notin {"idle", "claim"} /\ c.issue = new.issue
    BY <1>7, <2>0, OwnClaim DEF Mark, Holds, InvitationInv, AccountsAreNoted, Call, InviteRow, Idle
  <2>5. \A q \in Request \ {r} : new.claim = q => Row(r).claim = q /\ new.issue = Row(r).issue
    BY <1>7, <2>0 DEF Mark, Holds, InvitationInv, AccountsAreNoted, InviteRow
  <2>6. \A i \in Invitation \ {Inv(r)} : row[i].claim # r
    BY OwnClaim
  <2>7. new.ready => <<Inv(r), new.issue>> \in accounts
    BY <1>7, <2>0, RowTypes, RowFacts, OwnClaim DEF Mark, Holds, InvitationInv, AccountsAreNoted, InviteRow
  <2> HIDE DEF new, c
  <2>8. Sound(Row(r), new, Inv(r))
    <3>1. new.issue >= Row(r).issue
      BY <2>0, <2>2, RowTypes
    <3>2. new.token => new.issue # NoIssue
      BY <2>0, <2>2, RowFacts
    <3> QED BY <2>0, <2>2, <2>7, <2>9, <3>1, <3>2 DEF Sound
  <2> QED BY <2>1, <2>3, <2>4, <2>5, <2>6, <2>8, RequestChange
<1>8. ASSUME NEW r \in Request, MarkRefused(r) PROVE InvitationInv'
  <2>1. CASE Inv(r) = "team"
    <3>0. /\ UNCHANGED <<row, inviting, accounts, owns, teamOpen, accepted>>
          /\ call' = [call EXCEPT ![r].at = "release"] /\ call[r].at # "idle"
      BY <1>8, <2>1 DEF MarkRefused
    <3>1. TypeOK'
      BY <3>0 DEF InvitationInv, Idle, TypeOK, Call, Stage, InviteRow
    <3>2. Issued'
      BY <3>0 DEF InvitationInv, Idle, Issued, Call
    <3>3. ClaimsAreForIssues'
      BY <3>0 DEF InvitationInv, Idle, ClaimsAreForIssues, InviteRow, Call
    <3>4. AccountsAreNoted'
      BY <3>0 DEF InvitationInv, Idle, AccountsAreNoted
    <3>5. SpentIsSpent'
      BY <3>0 DEF InvitationInv, Idle, SpentIsSpent
    <3> QED BY <3>1, <3>2, <3>3, <3>4, <3>5 DEF InvitationInv
  <2>2. CASE Inv(r) # "team"
    <3> DEFINE new == ClaimGone(Row(r), r)
               c == Idle
    <3>0. Row(r) \in InviteRow /\ Inv(r) \in Invitation /\ call[r] \in Call
      BY OwnClaim
    <3>1. Write(Inv(r), new) /\ call' = [call EXCEPT ![r] = c] /\ UNCHANGED <<accounts, inviting, owns, teamOpen, accepted>>
      BY <1>8, <2>2, <3>0 DEF MarkRefused, Ends, InvitationInv, TypeOK, Write
    <3>2. /\ new \in InviteRow
          /\ new.issue = Row(r).issue
          /\ new.token => Row(r).token
          /\ Row(r).claim = Nobody /\ ~Row(r).token => new.claim = Nobody
      BY <1>8, <2>2, <3>0, RowTypes DEF MarkRefused, ClaimGone, InviteRow
    <3>9. new.fresh => new.claim # Nobody
      BY <1>8, <2>2, <3>0, RowTypes, RowFacts, RequestsAreNotWords DEF MarkRefused, ClaimGone, InviteRow, Gone, Nobody
    <3>3. c \in Call /\ c.at # "mark" /\ (c.at # "idle" => c.issue = call[r].issue /\ c.inv = Inv(r) /\ call[r].at # "idle")
      BY <1>8, <2>2, <3>0 DEF MarkRefused, ClaimGone, Call, Stage, Idle
    <3>4. new.claim = r => c.at \notin {"idle", "claim"} /\ c.issue = new.issue
      BY <1>8, <2>2, <3>0, OwnClaim DEF MarkRefused, ClaimGone, Call, InviteRow, Idle
    <3>5. \A q \in Request \ {r} : new.claim = q => Row(r).claim = q /\ new.issue = Row(r).issue
      BY <1>8, <2>2, <3>0 DEF MarkRefused, ClaimGone, InviteRow
    <3>6. \A i \in Invitation \ {Inv(r)} : row[i].claim # r
      BY OwnClaim
    <3>7. new.ready => <<Inv(r), new.issue>> \in accounts
      BY <1>8, <2>2, <3>0, RowTypes, RowFacts DEF MarkRefused, ClaimGone, InviteRow
    <3> HIDE DEF new, c
    <3>8. Sound(Row(r), new, Inv(r))
      <4>1. new.issue >= Row(r).issue
        BY <3>0, <3>2, RowTypes
      <4>2. new.token => new.issue # NoIssue
        BY <3>0, <3>2, RowFacts
      <4> QED BY <3>0, <3>2, <3>7, <3>9, <4>1, <4>2 DEF Sound
    <3> QED BY <3>1, <3>3, <3>4, <3>5, <3>6, <3>8, RequestChange
  <2> QED BY <2>1, <2>2
<1>9. ASSUME NEW r \in Request, Accept(r) PROVE InvitationInv'
  <2> DEFINE new == Spent(Row(r))
  <2>0. Row(r) \in InviteRow /\ Inv(r) \in Invitation /\ call[r] \in Call
    BY OwnClaim
  <2>1. /\ row' = [row EXCEPT ![Inv(r)] = new] /\ call' = [call EXCEPT ![r] = Idle]
        /\ UNCHANGED <<accounts, inviting, owns, teamOpen>>
    BY <1>9 DEF Accept, Write
  <2>2. /\ new \in InviteRow /\ new.issue = Row(r).issue
        /\ ~new.token /\ ~new.ready /\ ~new.fresh /\ new.claim = Nobody
    BY <2>0, CleanRows DEF Spent, InviteRow
  <2>3. Row(r).issue \in Issue /\ accepted' = accepted \cup {<<Inv(r), Row(r).issue>>}
    BY <1>9, <2>0, OwnClaim DEF Accept, Acceptable, Holds, InvitationInv, Issued, InviteRow
  <2> HIDE DEF new
  <2>4. row \in [Invitation -> InviteRow] /\ call \in [Request -> Call] /\ call' \in [Request -> Call]
    BY <2>1 DEF InvitationInv, TypeOK
  <2>5. TypeOK'
    BY <2>0, <2>1, <2>2, <2>3, <2>4 DEF InvitationInv, TypeOK
  <2>6. Issued'
    BY <2>0, <2>1, <2>2, <2>4 DEF InvitationInv, Issued, Idle
  <2>7. ClaimsAreForIssues'
    BY <2>0, <2>1, <2>2, <2>4, OwnClaim DEF InvitationInv, ClaimsAreForIssues
  <2>8. AccountsAreNoted'
    BY <2>0, <2>1, <2>2, <2>4 DEF InvitationInv, AccountsAreNoted, Idle
  <2>9. SpentIsSpent'
    BY <2>0, <2>1, <2>2, <2>3, <2>4 DEF InvitationInv, SpentIsSpent, InviteRow, Issue
  <2> QED BY <2>5, <2>6, <2>7, <2>8, <2>9 DEF InvitationInv
<1>10. ASSUME NEW r \in Request, AcceptRefused(r) PROVE InvitationInv'
  <2>1. CASE Inv(r) = "team"
    <3>0. /\ UNCHANGED <<row, inviting, accounts, owns, teamOpen, accepted>>
          /\ call' = [call EXCEPT ![r].at = "release"] /\ call[r].at # "idle"
      BY <1>10, <2>1 DEF AcceptRefused
    <3>1. TypeOK'
      BY <3>0 DEF InvitationInv, Idle, TypeOK, Call, Stage, InviteRow
    <3>2. Issued'
      BY <3>0 DEF InvitationInv, Idle, Issued, Call
    <3>3. ClaimsAreForIssues'
      BY <3>0 DEF InvitationInv, Idle, ClaimsAreForIssues, InviteRow, Call
    <3>4. AccountsAreNoted'
      BY <3>0 DEF InvitationInv, Idle, AccountsAreNoted
    <3>5. SpentIsSpent'
      BY <3>0 DEF InvitationInv, Idle, SpentIsSpent
    <3> QED BY <3>1, <3>2, <3>3, <3>4, <3>5 DEF InvitationInv
  <2>2. CASE Inv(r) # "team"
    <3> DEFINE new == Released(r)
               c == Idle
    <3>0. Row(r) \in InviteRow /\ Inv(r) \in Invitation /\ call[r] \in Call
      BY OwnClaim
    <3>1. Write(Inv(r), new) /\ call' = [call EXCEPT ![r] = c] /\ UNCHANGED <<accounts, inviting, owns, teamOpen, accepted>>
      BY <1>10, <2>2, <3>0 DEF AcceptRefused, Invitation, InvitationInv, TypeOK, Write
    <3>2. /\ new \in InviteRow
          /\ new.issue = Row(r).issue
          /\ new.token => Row(r).token
          /\ Row(r).claim = Nobody /\ ~Row(r).token => new.claim = Nobody
      BY <1>10, <2>2, <3>0, RowTypes DEF AcceptRefused, Released, Holds, ClaimGone, Unclaimed, InviteRow
    <3>9. new.fresh => new.claim # Nobody
      BY <1>10, <2>2, <3>0, RowTypes, RowFacts, RequestsAreNotWords DEF AcceptRefused, Released, Holds, ClaimGone, Unclaimed, InviteRow, Gone, Nobody
    <3>3. c \in Call /\ c.at # "mark" /\ (c.at # "idle" => c.issue = call[r].issue /\ c.inv = Inv(r) /\ call[r].at # "idle")
      BY <1>10, <2>2, <3>0 DEF AcceptRefused, Released, Holds, ClaimGone, Unclaimed, Call, Stage, Idle
    <3>4. new.claim = r => c.at \notin {"idle", "claim"} /\ c.issue = new.issue
      BY <1>10, <2>2, <3>0, OwnClaim DEF AcceptRefused, Released, Holds, ClaimGone, Unclaimed, Call, InviteRow, Idle
    <3>5. \A q \in Request \ {r} : new.claim = q => Row(r).claim = q /\ new.issue = Row(r).issue
      BY <1>10, <2>2, <3>0 DEF AcceptRefused, Released, Holds, ClaimGone, Unclaimed, InviteRow
    <3>6. \A i \in Invitation \ {Inv(r)} : row[i].claim # r
      BY OwnClaim
    <3>7. new.ready => <<Inv(r), new.issue>> \in accounts
      BY <1>10, <2>2, <3>0, RowTypes, RowFacts DEF AcceptRefused, Released, Holds, ClaimGone, Unclaimed, InviteRow
    <3> HIDE DEF new, c
    <3>8. Sound(Row(r), new, Inv(r))
      <4>1. new.issue >= Row(r).issue
        BY <3>0, <3>2, RowTypes
      <4>2. new.token => new.issue # NoIssue
        BY <3>0, <3>2, RowFacts
      <4> QED BY <3>0, <3>2, <3>7, <3>9, <4>1, <4>2 DEF Sound
    <3> QED BY <3>1, <3>3, <3>4, <3>5, <3>6, <3>8, RequestChange
  <2> QED BY <2>1, <2>2
<1>11. ASSUME NEW r \in Request, Release(r) PROVE InvitationInv'
  <2> DEFINE new == Released(r)
             c == Idle
  <2>0. Row(r) \in InviteRow /\ Inv(r) \in Invitation /\ call[r] \in Call
    BY OwnClaim
  <2>1. Write(Inv(r), new) /\ call' = [call EXCEPT ![r] = c] /\ UNCHANGED <<accounts, inviting, owns, teamOpen, accepted>>
    BY <1>11, <2>0 DEF Release, InvitationInv, TypeOK, Write
  <2>2. /\ new \in InviteRow
        /\ new.issue = Row(r).issue
        /\ new.token => Row(r).token
        /\ Row(r).claim = Nobody /\ ~Row(r).token => new.claim = Nobody
    BY <1>11, <2>0, RowTypes DEF Release, Released, Holds, ClaimGone, Unclaimed, InviteRow
  <2>9. new.fresh => new.claim # Nobody
    BY <1>11, <2>0, RowTypes, RowFacts, RequestsAreNotWords DEF Release, Released, Holds, ClaimGone, Unclaimed, InviteRow, Gone, Nobody
  <2>3. c \in Call /\ c.at # "mark" /\ (c.at # "idle" => c.issue = call[r].issue /\ c.inv = Inv(r) /\ call[r].at # "idle")
    BY <1>11, <2>0 DEF Release, Released, Holds, ClaimGone, Unclaimed, Call, Stage, Idle
  <2>4. new.claim = r => c.at \notin {"idle", "claim"} /\ c.issue = new.issue
    BY <1>11, <2>0, OwnClaim DEF Release, Released, Holds, ClaimGone, Unclaimed, Call, InviteRow, Idle
  <2>5. \A q \in Request \ {r} : new.claim = q => Row(r).claim = q /\ new.issue = Row(r).issue
    BY <1>11, <2>0 DEF Release, Released, Holds, ClaimGone, Unclaimed, InviteRow
  <2>6. \A i \in Invitation \ {Inv(r)} : row[i].claim # r
    BY OwnClaim
  <2>7. new.ready => <<Inv(r), new.issue>> \in accounts
    BY <1>11, <2>0, RowTypes, RowFacts DEF Release, Released, Holds, ClaimGone, Unclaimed, InviteRow
  <2> HIDE DEF new, c
  <2>8. Sound(Row(r), new, Inv(r))
    <3>1. new.issue >= Row(r).issue
      BY <2>0, <2>2, RowTypes
    <3>2. new.token => new.issue # NoIssue
      BY <2>0, <2>2, RowFacts
    <3> QED BY <2>0, <2>2, <2>7, <2>9, <3>1, <3>2 DEF Sound
  <2> QED BY <2>1, <2>3, <2>4, <2>5, <2>6, <2>8, RequestChange
<1>12. ASSUME NEW r \in Request, Crash(r) PROVE InvitationInv'
  <2> DEFINE new == ClaimGone(Row(r), r)
             c == Idle
  <2>0. Row(r) \in InviteRow /\ Inv(r) \in Invitation /\ call[r] \in Call
    BY OwnClaim
  <2>1. Write(Inv(r), new) /\ call' = [call EXCEPT ![r] = c] /\ UNCHANGED <<accounts, inviting, owns, teamOpen, accepted>>
    BY <1>12, <2>0 DEF Crash, Ends, InvitationInv, TypeOK, Write
  <2>2. /\ new \in InviteRow
        /\ new.issue = Row(r).issue
        /\ new.token => Row(r).token
        /\ Row(r).claim = Nobody /\ ~Row(r).token => new.claim = Nobody
    BY <1>12, <2>0, RowTypes DEF Crash, ClaimGone, InviteRow
  <2>9. new.fresh => new.claim # Nobody
    BY <1>12, <2>0, RowTypes, RowFacts, RequestsAreNotWords DEF Crash, ClaimGone, InviteRow, Gone, Nobody
  <2>3. c \in Call /\ c.at # "mark" /\ (c.at # "idle" => c.issue = call[r].issue /\ c.inv = Inv(r) /\ call[r].at # "idle")
    BY <1>12, <2>0 DEF Crash, ClaimGone, Call, Stage, Idle
  <2>4. new.claim = r => c.at \notin {"idle", "claim"} /\ c.issue = new.issue
    BY <1>12, <2>0, OwnClaim DEF Crash, ClaimGone, Call, InviteRow, Idle
  <2>5. \A q \in Request \ {r} : new.claim = q => Row(r).claim = q /\ new.issue = Row(r).issue
    BY <1>12, <2>0 DEF Crash, ClaimGone, InviteRow
  <2>6. \A i \in Invitation \ {Inv(r)} : row[i].claim # r
    BY OwnClaim
  <2>7. new.ready => <<Inv(r), new.issue>> \in accounts
    BY <1>12, <2>0, RowTypes, RowFacts DEF Crash, ClaimGone, InviteRow
  <2> HIDE DEF new, c
  <2>8. Sound(Row(r), new, Inv(r))
    <3>1. new.issue >= Row(r).issue
      BY <2>0, <2>2, RowTypes
    <3>2. new.token => new.issue # NoIssue
      BY <2>0, <2>2, RowFacts
    <3> QED BY <2>0, <2>2, <2>7, <2>9, <3>1, <3>2 DEF Sound
  <2> QED BY <2>1, <2>3, <2>4, <2>5, <2>6, <2>8, RequestChange
<1>13. ASSUME NEW r \in Request, NEW i \in Invitation, Admit(r, i) PROVE InvitationInv'
  <2>1. TypeOK'
    BY <1>13 DEF Admit, InvitationInv, Idle, TypeOK, Call, Stage, InviteRow
  <2>2. Issued'
    BY <1>13 DEF Admit, InvitationInv, Idle, Issued, Call
  <2>3. ClaimsAreForIssues'
    BY <1>13 DEF Admit, InvitationInv, Idle, ClaimsAreForIssues, InviteRow, Call
  <2>4. AccountsAreNoted'
    BY <1>13 DEF Admit, InvitationInv, Idle, AccountsAreNoted
  <2>5. SpentIsSpent'
    BY <1>13 DEF Admit, InvitationInv, Idle, SpentIsSpent
  <2> QED BY <2>1, <2>2, <2>3, <2>4, <2>5 DEF InvitationInv
<1>14. ASSUME NEW i \in Invitation, ReadInvitee(i) PROVE InvitationInv'
  <2>1. TypeOK'
    BY <1>14 DEF ReadInvitee, InvitationInv, Idle, TypeOK, Call, Stage, InviteRow
  <2>2. Issued'
    BY <1>14 DEF ReadInvitee, InvitationInv, Idle, Issued, Call
  <2>3. ClaimsAreForIssues'
    BY <1>14 DEF ReadInvitee, InvitationInv, Idle, ClaimsAreForIssues, InviteRow, Call
  <2>4. AccountsAreNoted'
    BY <1>14 DEF ReadInvitee, InvitationInv, Idle, AccountsAreNoted
  <2>5. SpentIsSpent'
    BY <1>14 DEF ReadInvitee, InvitationInv, Idle, SpentIsSpent
  <2> QED BY <2>1, <2>2, <2>3, <2>4, <2>5 DEF InvitationInv
<1>15. ASSUME NEW i \in Invitation, WriteInvitation(i) PROVE InvitationInv'
  <2>0. /\ UNCHANGED <<accounts, call, accepted>>
        /\ inviting' \in [Invitation -> {"no", "invite", "promote"}] /\ owns' \in BOOLEAN /\ teamOpen' \in BOOLEAN
    BY <1>15 DEF InvitationInv, TypeOK, WriteInvitation
  <2> DEFINE promoted == Clean("active", row[i].issue, FALSE)
             invited == Clean("invited", row[i].issue + 1, TRUE)
  <2>1. CASE Write(i, promoted)
    <3>1. /\ promoted \in InviteRow /\ promoted.issue = row[i].issue /\ promoted.claim = Nobody
          /\ ~promoted.token /\ ~promoted.ready /\ ~promoted.fresh
      BY RowTypes, CleanRows
    <3> HIDE DEF promoted
    <3>2. Sound(row[i], promoted, i) /\ \A r \in Request : promoted.claim # r
      BY <3>1, RequestsAreNotWords, SoundChange
    <3> QED BY <2>0, <2>1, <3>2, RowChange
  <2>2. CASE Write(i, invited)
    <3>1. row[i].issue + 1 \in Issue
      BY RowTypes DEF Issue, NoIssue
    <3>2. /\ invited \in InviteRow /\ invited.issue = row[i].issue + 1 /\ invited.claim = Nobody
          /\ ~invited.ready /\ ~invited.fresh
      BY <3>1, CleanRows
    <3> HIDE DEF invited
    <3>3. invited.issue >= row[i].issue /\ invited.issue # row[i].issue /\ invited.issue # NoIssue
      BY <3>2, RowTypes DEF NoIssue
    <3>4. Sound(row[i], invited, i) /\ \A r \in Request : invited.claim # r
      BY <3>2, <3>3, RequestsAreNotWords DEF Sound
    <3> QED BY <2>0, <2>2, <3>4, RowChange
  <2>3. CASE UNCHANGED row
    BY <2>0, <2>3 DEF InvitationInv, TypeOK, Issued, ClaimsAreForIssues, AccountsAreNoted, SpentIsSpent
  <2> QED BY <1>15, <2>1, <2>2, <2>3 DEF WriteInvitation
<1>16. ASSUME NEW i \in Invitation, TakeIn(i) PROVE InvitationInv'
  <2> DEFINE new == Clean("active", row[i].issue, FALSE)
  <2>1. /\ Write(i, new) /\ UNCHANGED <<accounts, call, accepted>> /\ i \in Invitation
        /\ inviting' \in [Invitation -> {"no", "invite", "promote"}] /\ owns' \in BOOLEAN /\ teamOpen' \in BOOLEAN
    BY <1>16 DEF TakeIn, Invitation, InvitationInv, TypeOK
  <2>2. /\ new \in InviteRow /\ new.issue = row[i].issue /\ new.claim = Nobody
        /\ ~new.token /\ ~new.ready /\ ~new.fresh
    BY <2>1, RowTypes, CleanRows
  <2> HIDE DEF new
  <2>3. Sound(row[i], new, i) /\ \A r \in Request : new.claim # r
    BY <2>1, <2>2, SoundChange, RequestsAreNotWords
  <2> QED BY <2>1, <2>3, RowChange
<1>17. ASSUME NEW i \in Invitation, FiveMinutesPass(i) PROVE InvitationInv'
  <2> DEFINE new == [row[i] EXCEPT !.fresh = FALSE]
  <2>1. /\ Write(i, new) /\ UNCHANGED <<accounts, call, accepted>> /\ i \in Invitation
        /\ inviting' \in [Invitation -> {"no", "invite", "promote"}] /\ owns' \in BOOLEAN /\ teamOpen' \in BOOLEAN
    BY <1>17 DEF FiveMinutesPass, Invitation, InvitationInv, TypeOK
  <2>2. new \in InviteRow /\ new.issue = row[i].issue /\ new.claim = row[i].claim
    BY <2>1, RowTypes DEF InviteRow
  <2>3. (new.token => row[i].token) /\ (new.ready => row[i].ready) /\ (new.fresh => row[i].fresh)
    BY <2>1, RowTypes DEF InviteRow
  <2> HIDE DEF new
  <2>4. Sound(row[i], new, i)
    BY <2>1, <2>2, <2>3, RowFacts, SoundChange
  <2> QED BY <2>1, <2>2, <2>4, RowChange
<1>18. ASSUME NEW i \in Invitation, Expire(i) PROVE InvitationInv'
  <2> DEFINE new == [row[i] EXCEPT !.token = FALSE]
  <2>1. /\ Write(i, new) /\ UNCHANGED <<accounts, call, accepted>> /\ i \in Invitation
        /\ inviting' \in [Invitation -> {"no", "invite", "promote"}] /\ owns' \in BOOLEAN /\ teamOpen' \in BOOLEAN
    BY <1>18 DEF Expire, Invitation, InvitationInv, TypeOK
  <2>2. new \in InviteRow /\ new.issue = row[i].issue /\ new.claim = row[i].claim
    BY <2>1, RowTypes DEF InviteRow
  <2>3. (new.token => row[i].token) /\ (new.ready => row[i].ready) /\ (new.fresh => row[i].fresh)
    BY <2>1, RowTypes DEF InviteRow
  <2> HIDE DEF new
  <2>4. Sound(row[i], new, i)
    BY <2>1, <2>2, <2>3, RowFacts, SoundChange
  <2> QED BY <2>1, <2>2, <2>4, RowChange
<1>19. ASSUME NEW status \in {"invited", "active", "inactive"}, SetMembershipStatus(status) PROVE InvitationInv'
  <2> DEFINE new == [row["team"] EXCEPT !.status = status]
  <2>1. /\ Write("team", new) /\ UNCHANGED <<accounts, call, accepted>> /\ "team" \in Invitation
        /\ inviting' \in [Invitation -> {"no", "invite", "promote"}] /\ owns' \in BOOLEAN /\ teamOpen' \in BOOLEAN
    BY <1>19 DEF SetMembershipStatus, Invitation, InvitationInv, TypeOK
  <2>2. new \in InviteRow /\ new.issue = row["team"].issue /\ new.claim = row["team"].claim
    BY <2>1, RowTypes DEF InviteRow
  <2>3. (new.token => row["team"].token) /\ (new.ready => row["team"].ready) /\ (new.fresh => row["team"].fresh)
    BY <2>1, RowTypes DEF InviteRow
  <2> HIDE DEF new
  <2>4. Sound(row["team"], new, "team")
    BY <2>1, <2>2, <2>3, RowFacts, SoundChange
  <2> QED BY <2>1, <2>2, <2>4, RowChange
<1>20. ASSUME RemoveCompanyAdmin PROVE InvitationInv'
  <2> DEFINE new == [row["company"] EXCEPT !.status = "inactive", !.token = FALSE]
  <2>1. /\ Write("company", new) /\ UNCHANGED <<accounts, call, accepted>> /\ "company" \in Invitation
        /\ inviting' \in [Invitation -> {"no", "invite", "promote"}] /\ owns' \in BOOLEAN /\ teamOpen' \in BOOLEAN
    BY <1>20 DEF RemoveCompanyAdmin, Invitation, InvitationInv, TypeOK
  <2>2. new \in InviteRow /\ new.issue = row["company"].issue /\ new.claim = row["company"].claim
    BY <2>1, RowTypes DEF InviteRow
  <2>3. (new.token => row["company"].token) /\ (new.ready => row["company"].ready) /\ (new.fresh => row["company"].fresh)
    BY <2>1, RowTypes DEF InviteRow
  <2> HIDE DEF new
  <2>4. Sound(row["company"], new, "company")
    BY <2>1, <2>2, <2>3, RowFacts, SoundChange
  <2> QED BY <2>1, <2>2, <2>4, RowChange
<1>21. ASSUME RecoverCompanyOwner PROVE InvitationInv'
  <2> DEFINE new == [row["company"] EXCEPT !.status = "active", !.token = FALSE]
  <2>1. /\ Write("company", new) /\ UNCHANGED <<accounts, call, accepted>> /\ "company" \in Invitation
        /\ inviting' \in [Invitation -> {"no", "invite", "promote"}] /\ owns' \in BOOLEAN /\ teamOpen' \in BOOLEAN
    BY <1>21 DEF RecoverCompanyOwner, Invitation, InvitationInv, TypeOK
  <2>2. new \in InviteRow /\ new.issue = row["company"].issue /\ new.claim = row["company"].claim
    BY <2>1, RowTypes DEF InviteRow
  <2>3. (new.token => row["company"].token) /\ (new.ready => row["company"].ready) /\ (new.fresh => row["company"].fresh)
    BY <2>1, RowTypes DEF InviteRow
  <2> HIDE DEF new
  <2>4. Sound(row["company"], new, "company")
    BY <2>1, <2>2, <2>3, RowFacts, SoundChange
  <2> QED BY <2>1, <2>2, <2>4, RowChange
<1>22. ASSUME AddTeamOwner PROVE InvitationInv'
  <2> DEFINE new == Clean("active", row["team"].issue, FALSE)
  <2>1. /\ Write("team", new) /\ UNCHANGED <<accounts, call, accepted>> /\ "team" \in Invitation
        /\ inviting' \in [Invitation -> {"no", "invite", "promote"}] /\ owns' \in BOOLEAN /\ teamOpen' \in BOOLEAN
    BY <1>22 DEF AddTeamOwner, Invitation, InvitationInv, TypeOK
  <2>2. /\ new \in InviteRow /\ new.issue = row["team"].issue /\ new.claim = Nobody
        /\ ~new.token /\ ~new.ready /\ ~new.fresh
    BY <2>1, RowTypes, CleanRows
  <2> HIDE DEF new
  <2>3. Sound(row["team"], new, "team") /\ \A r \in Request : new.claim # r
    BY <2>1, <2>2, SoundChange, RequestsAreNotWords
  <2> QED BY <2>1, <2>3, RowChange
<1>23. ASSUME OwnAnotherTeam PROVE InvitationInv'
  <2>1. TypeOK'
    BY <1>23 DEF OwnAnotherTeam, InvitationInv, Idle, TypeOK, Call, Stage, InviteRow
  <2>2. Issued'
    BY <1>23 DEF OwnAnotherTeam, InvitationInv, Idle, Issued, Call
  <2>3. ClaimsAreForIssues'
    BY <1>23 DEF OwnAnotherTeam, InvitationInv, Idle, ClaimsAreForIssues, InviteRow, Call
  <2>4. AccountsAreNoted'
    BY <1>23 DEF OwnAnotherTeam, InvitationInv, Idle, AccountsAreNoted
  <2>5. SpentIsSpent'
    BY <1>23 DEF OwnAnotherTeam, InvitationInv, Idle, SpentIsSpent
  <2> QED BY <2>1, <2>2, <2>3, <2>4, <2>5 DEF InvitationInv
<1>24. ASSUME ArchiveOrReactivate PROVE InvitationInv'
  <2>1. TypeOK'
    BY <1>24 DEF ArchiveOrReactivate, InvitationInv, Idle, TypeOK, Call, Stage, InviteRow
  <2>2. Issued'
    BY <1>24 DEF ArchiveOrReactivate, InvitationInv, Idle, Issued, Call
  <2>3. ClaimsAreForIssues'
    BY <1>24 DEF ArchiveOrReactivate, InvitationInv, Idle, ClaimsAreForIssues, InviteRow, Call
  <2>4. AccountsAreNoted'
    BY <1>24 DEF ArchiveOrReactivate, InvitationInv, Idle, AccountsAreNoted
  <2>5. SpentIsSpent'
    BY <1>24 DEF ArchiveOrReactivate, InvitationInv, Idle, SpentIsSpent
  <2> QED BY <2>1, <2>2, <2>3, <2>4, <2>5 DEF InvitationInv
<1>25. ASSUME UNCHANGED vars PROVE InvitationInv'
  <2>1. TypeOK'
    BY <1>25 DEF vars, InvitationInv, Idle, TypeOK, Call, Stage, InviteRow
  <2>2. Issued'
    BY <1>25 DEF vars, InvitationInv, Idle, Issued, Call
  <2>3. ClaimsAreForIssues'
    BY <1>25 DEF vars, InvitationInv, Idle, ClaimsAreForIssues, InviteRow, Call
  <2>4. AccountsAreNoted'
    BY <1>25 DEF vars, InvitationInv, Idle, AccountsAreNoted
  <2>5. SpentIsSpent'
    BY <1>25 DEF vars, InvitationInv, Idle, SpentIsSpent
  <2> QED BY <2>1, <2>2, <2>3, <2>4, <2>5 DEF InvitationInv
<1> QED BY <1>1, <1>2, <1>3, <1>4, <1>5, <1>6, <1>7, <1>8, <1>9, <1>10, <1>11, <1>12, <1>13, <1>14, <1>15, <1>16, <1>17, <1>18, <1>19, <1>20, <1>21, <1>22, <1>23, <1>24, <1>25 DEF Next, Step, Others

LEMMA Invariant == Spec => []InvitationInv
  BY InitInv, StepInv, PTL DEF Spec

\* Rows, requests, accounts and what was accepted keep their types.
THEOREM InvitationTypes == Spec => []TypeOK
<1>1. InvitationInv => TypeOK
  BY DEF InvitationInv
<1> QED BY <1>1, Invariant, PTL

\* identity/invites.ts:337: who accepts an invitation has an account, which was created for the
\* very issue that is accepted, whatever overlaps, is cut off or comes late.
THEOREM RoleComesWithAccount == Spec => AccountComesWithRole
<1>1. InvitationInv /\ [Next]_vars => [\A r \in Request : Accept(r) => <<Inv(r), Row(r).issue>> \in accounts]_vars
  <2> SUFFICES ASSUME InvitationInv, NEW r \in Request, Accept(r)
               PROVE  <<Inv(r), Row(r).issue>> \in accounts
    OBVIOUS
  <2>1. Inv(r) \in Invitation
    BY OwnClaim
  <2> QED BY <2>1 DEF Accept, Acceptable, InvitationInv, AccountsAreNoted, Row
<1> QED BY <1>1, Invariant, PTL DEF Spec, AccountComesWithRole

\* docs/team-os-manual-verification.md:280: an issue gives a role once.
THEOREM AcceptedOnce == Spec => SingleUse
<1>1. InvitationInv /\ [Next]_vars => [\A r \in Request : Accept(r) => <<Inv(r), Row(r).issue>> \notin accepted]_vars
  <2> SUFFICES ASSUME InvitationInv, NEW r \in Request, Accept(r)
               PROVE  <<Inv(r), Row(r).issue>> \notin accepted
    OBVIOUS
  <2>1. Inv(r) \in Invitation /\ Row(r).claim = r /\ r # Nobody
    BY OwnClaim, RequestsAreNotWords DEF Accept, Acceptable, Holds
  <2>2. Row(r).issue \in Issue
    BY <2>1, OwnClaim DEF InvitationInv, Issued, InviteRow
  <2> QED BY <2>1, <2>2 DEF InvitationInv, SpentIsSpent, Row
<1> QED BY <1>1, Invariant, PTL DEF Spec, SingleUse

\* A claim that has not lapsed is nobody's to take or to clear but its holder's and those who
\* send, give and remove.
Taken(r, q) ==
  q # r /\ call[r].at # "idle" /\ Holds(r) /\ Row(r).fresh /\ call'[q] # call[q]
THEOREM ClaimsAreRespected == Spec => ClaimRespected
<1>1. InvitationInv /\ [Next]_vars => [\A r, q \in Request : Taken(r, q) => Holds(r)']_vars
  <2> SUFFICES ASSUME InvitationInv, Next, NEW r \in Request, NEW q \in Request, Taken(r, q)
               PROVE  Holds(r)'
    OBVIOUS
  <2>0. /\ row \in [Invitation -> InviteRow] /\ call \in [Request -> Call]
        /\ Inv(r) \in Invitation /\ Inv(q) \in Invitation /\ r # q /\ r # Nobody /\ r # Gone
        /\ Row(r).status = "invited" /\ Row(r).claim = r /\ Row(r).fresh
    BY OwnClaim, RequestsAreNotWords DEF InvitationInv, TypeOK, Taken, Holds
  <2>1. Step(q) \/ Crash(q) \/ \E i \in Invitation : Admit(q, i)
    <3>1. ASSUME NEW p \in Request, p # q, Step(p) \/ Crash(p) \/ \E i \in Invitation : Admit(p, i)
          PROVE  call'[q] = call[q]
      BY <2>0, <3>1 DEF Step, Claim, ClaimRefused, Recheck, LookUp, Link, CreateFails, Mark, MarkRefused, Accept,
         AcceptRefused, Release, Crash, Admit, Ends, Ended, GoTo
    <3>2. ASSUME Others \/ \E i \in Invitation : FiveMinutesPass(i) \/ Expire(i)
          PROVE  call' = call
      BY <3>2 DEF Others, ReadInvitee, WriteInvitation, TakeIn, SetMembershipStatus, RemoveCompanyAdmin,
         RecoverCompanyOwner, AddTeamOwner, OwnAnotherTeam, ArchiveOrReactivate, FiveMinutesPass, Expire
    <3> QED BY <3>1, <3>2 DEF Next, Taken
  <2>2. call'[r] = call[r]
    BY <2>0, <2>1 DEF Step, Claim, ClaimRefused, Recheck, LookUp, Link, CreateFails, Mark, MarkRefused, Accept,
       AcceptRefused, Release, Crash, Admit, Ends, Ended, GoTo
  <2>3. PICK new : /\ row' = row \/ Write(Inv(q), new)
                   /\ Free(Inv(q)) \/ Holds(q) \/ new \in {Row(q), Released(q), ClaimGone(Row(q), q)}
    <3>1. CASE Claim(q)
      BY <3>1 DEF Claim, Claimable
    <3>2. CASE Mark(q) \/ Accept(q)
      BY <3>2 DEF Mark, Accept, Acceptable
    <3>3. CASE MarkRefused(q) \/ Release(q) \/ Crash(q)
      BY <3>3 DEF MarkRefused, Release, Crash, Ends
    <3>4. CASE AcceptRefused(q)
      BY <2>0, <3>4 DEF AcceptRefused, Invitation
    <3>5. CASE UNCHANGED row
      BY <3>5
    <3> QED BY <2>1, <3>1, <3>2, <3>3, <3>4, <3>5 DEF Step, ClaimRefused, Recheck, LookUp, Link, CreateFails, Admit
  <2>4. CASE Inv(q) # Inv(r)
    <3>1. row'[Inv(r)] = row[Inv(r)]
      BY <2>0, <2>3, <2>4 DEF Write
    <3> QED BY <2>0, <2>2, <3>1 DEF Holds, Row, Inv
  <2>5. CASE Inv(q) = Inv(r)
    <3>1. Row(q) = Row(r) /\ Row(q).claim # q
      BY <2>0, <2>5 DEF Row
    <3>2. ~Holds(q) /\ Released(q) = Row(q) /\ ClaimGone(Row(q), q) = Row(q) /\ ~Free(Inv(q))
      BY <2>0, <3>1 DEF Holds, Released, ClaimGone, Free, Row
    <3>3. row'[Inv(r)] = row[Inv(r)]
      BY <2>0, <2>3, <2>5, <3>1, <3>2 DEF Write, Row
    <3> QED BY <2>0, <2>2, <3>3 DEF Holds, Row, Inv
  <2> QED BY <2>4, <2>5
<1> QED BY <1>1, Invariant, PTL DEF Spec, ClaimRespected, Taken

=============================================================================
