---------------------------- MODULE Invitations ----------------------------
(***************************************************************************)
(* How one person who was invited to a Team, to the company, or to both    *)
(* comes to an account and a role on a Team OS server.  An acceptance is a *)
(* request of several statements: it claims the invitation for five        *)
(* minutes, creates the account in another store (Better Auth), notes that *)
(* in the invitation and only then takes the role.  Requests overlap, are  *)
(* cut off anywhere, repeat each other and outlive their claim, while the  *)
(* invitation is sent anew and the person's standing changes.              *)
(* The users row stays active: the server never disables it.               *)
(***************************************************************************)
EXTENDS Naturals, FiniteSets

CONSTANTS
  Request,    \* acceptances that can be under way at once
  MaxIssues   \* bound: how often each invitation is sent

Invitation == {"team", "company"}

ASSUME BoundOK == MaxIssues \in [Invitation -> Nat]

Issue      == Nat \ {0}
NoIssue    == 0
Nobody     == "nobody"   \* no claim
Gone       == "gone"     \* the claim of a request that has ended
Existing   == <<"existing", NoIssue>>

ASSUME RequestsAreNotWords == Request \cap {Nobody, Gone} = {}

VARIABLES
  row,       \* the row of memberships and of company_memberships
  inviting,  \* an invitation between the reads of its handler and its write
  accounts,  \* the credentials of the person: the issues they were created for
  call,      \* the acceptances
  owns,      \* the person is an owner of some Team
  teamOpen,  \* the Team is active
  accepted   \* history: the issues a role was taken with

vars == <<row, inviting, accounts, call, owns, teamOpen, accepted>>

Stage == {"idle", "claim", "recheck", "lookUp", "link", "mark", "finalize", "release"}
Idle  == [at |-> "idle", inv |-> "team", issue |-> NoIssue]
Call  == [at : Stage, inv : Invitation, issue : Issue \cup {NoIssue}]
\* A row without a usable token, whose metadata holds no claim.
Clean(status, issue, token) ==
  [status |-> status, issue |-> issue, token |-> token,
   claim |-> Nobody, fresh |-> FALSE, ready |-> FALSE]
InviteRow == [status : {"none", "invited", "active", "inactive"}, issue : Issue \cup {NoIssue},
              token : BOOLEAN, claim : Request \cup {Nobody, Gone}, fresh : BOOLEAN, ready : BOOLEAN]

TypeOK ==
  /\ row \in [Invitation -> InviteRow]
  /\ \A i \in Invitation : row[i].fresh => row[i].claim # Nobody
  /\ inviting \in [Invitation -> {"no", "invite", "promote"}]
  /\ accounts \subseteq (Invitation \X Issue) \cup {Existing}
  /\ call \in [Request -> Call]
  /\ owns \in BOOLEAN
  /\ teamOpen \in BOOLEAN
  /\ accepted \subseteq Invitation \X Issue

\* Somebody the server does not know, or who has an account already.
Init ==
  /\ row = [i \in Invitation |-> Clean("none", NoIssue, FALSE)]
  /\ inviting = [i \in Invitation |-> "no"]
  /\ accounts \in {{}, {Existing}}
  /\ call = [r \in Request |-> Idle]
  /\ owns = FALSE
  /\ teamOpen = TRUE
  /\ accepted = {}

----------------------------------------------------------------------------
\* Company authority and Team Ownership have dedicated flows: who has either takes no
\* Team invitation, and a Team Owner no company invitation.
InCompany    == row["company"].status = "active"
Protected(i) == owns \/ (i = "team" /\ InCompany)

Inv(r)   == call[r].inv
Row(r)   == row[Inv(r)]
Holds(r) == Row(r).status = "invited" /\ Row(r).claim = r

GoTo(r, at) == call' = [call EXCEPT ![r].at = at]
Write(i, new) == row' = [row EXCEPT ![i] = new]
ClaimGone(old, r) == IF old.claim = r THEN [old EXCEPT !.claim = Gone] ELSE old
Ended(r) == call' = [call EXCEPT ![r] = Idle]
\* r ends, and its identifier with it: what it still claims nobody holds.
Ends(r) ==
  /\ Ended(r)
  /\ Write(Inv(r), ClaimGone(Row(r), r))

(***************************************************************************)
(* Sending an invitation                                                   *)
(***************************************************************************)
\* What inviteMember and inviteCompanyAdmin read.  The CLI sends Team invitations to who
\* has an account, too; such a person is made Company Admin without one.
ReadInvitee(i) ==
  /\ inviting[i] = "no"
  /\ row[i].status # "active"
  /\ row[i].issue < MaxIssues[i]
  /\ i = "team" => teamOpen
  /\ IF i = "company" /\ accounts # {}
       THEN inviting' = [inviting EXCEPT ![i] = "promote"]
       ELSE ~Protected(i) /\ inviting' = [inviting EXCEPT ![i] = "invite"]
  /\ UNCHANGED <<row, accounts, call, owns, teamOpen, accepted>>

\* What they write, over whatever is there by now.  An active Company Admin is not
\* invited again, and the Company Owner is left alone.
WriteInvitation(i) ==
  /\ inviting[i] # "no"
  /\ inviting' = [inviting EXCEPT ![i] = "no"]
  /\ \/ inviting[i] = "promote" /\ Write(i, Clean("active", row[i].issue, FALSE))
     \/ /\ inviting[i] = "invite"
        /\ i = "team" \/ row[i].status # "active"
        /\ Write(i, Clean("invited", row[i].issue + 1, TRUE))
     \/ i = "company" /\ row[i].status = "active" /\ UNCHANGED row
  /\ UNCHANGED <<accounts, call, owns, teamOpen, accepted>>

(***************************************************************************)
(* Accepting one                                                           *)
(***************************************************************************)
\* The reads before the claim.  Only the HTTP handler refuses who has an account at this
\* point, unless the invitation says that the account came with it.
Admit(r, i) ==
  /\ call[r].at = "idle"
  /\ row[i].status = "invited"
  /\ row[i].token
  /\ ~Protected(i)
  /\ i = "company" => accounts = {} \/ row[i].ready
  /\ call' = [call EXCEPT ![r] = [at |-> "claim", inv |-> i, issue |-> row[i].issue]]
  /\ UNCHANGED <<row, inviting, accounts, owns, teamOpen, accepted>>

\* A claim lapses after five minutes.
Free(i) == row[i].claim = Nobody \/ ~row[i].fresh

Claimable(r) ==
  /\ Row(r).status = "invited"
  /\ Row(r).token
  /\ Row(r).issue = call[r].issue
  /\ Free(Inv(r))

\* The row of the claim says whether the account has been created.
CreateOrNot(r) == IF Row(r).ready THEN "finalize" ELSE "lookUp"

Claim(r) ==
  /\ call[r].at = "claim"
  /\ Claimable(r)
  /\ Write(Inv(r), [Row(r) EXCEPT !.claim = r, !.fresh = TRUE])
  /\ GoTo(r, IF Inv(r) = "team" THEN "recheck" ELSE CreateOrNot(r))
  /\ UNCHANGED <<inviting, accounts, owns, teamOpen, accepted>>

ClaimRefused(r) ==
  /\ call[r].at = "claim"
  /\ ~Claimable(r)
  /\ Ended(r)
  /\ UNCHANGED <<row, inviting, accounts, owns, teamOpen, accepted>>

\* acceptInviteWithCredential looks again, now that it holds the claim.
Recheck(r) ==
  /\ call[r].at = "recheck"
  /\ GoTo(r, IF ~teamOpen \/ Protected("team") THEN "release" ELSE CreateOrNot(r))
  /\ UNCHANGED <<row, inviting, accounts, owns, teamOpen, accepted>>

\* setUserPassword never replaces a credential: it looks for one ...
LookUp(r) ==
  /\ call[r].at = "lookUp"
  /\ GoTo(r, IF accounts = {} THEN "link" ELSE "release")
  /\ UNCHANGED <<row, inviting, accounts, owns, teamOpen, accepted>>

\* ... hashes the password, and creates one.
Link(r) ==
  /\ call[r].at = "link"
  /\ accounts' = accounts \cup {<<Inv(r), call[r].issue>>}
  /\ GoTo(r, "mark")
  /\ UNCHANGED <<row, inviting, owns, teamOpen, accepted>>

\* The other store fails; the mutant goes on all the same.
MutCreateFails(r) ==
  /\ call[r].at \in {"lookUp", "link"}
  /\ GoTo(r, "mark")
  /\ UNCHANGED <<row, inviting, accounts, owns, teamOpen, accepted>>

CreateFails(r) ==
  /\ call[r].at \in {"lookUp", "link"}
  /\ GoTo(r, "release")
  /\ UNCHANGED <<row, inviting, accounts, owns, teamOpen, accepted>>

Mark(r) ==
  /\ call[r].at = "mark"
  /\ Holds(r)
  /\ Write(Inv(r), [Row(r) EXCEPT !.ready = TRUE])
  /\ GoTo(r, "finalize")
  /\ UNCHANGED <<inviting, accounts, owns, teamOpen, accepted>>

\* A Team invitation is released then, where the claim is another's by now.
MarkRefused(r) ==
  /\ call[r].at = "mark"
  /\ ~Holds(r)
  /\ IF Inv(r) = "team" THEN GoTo(r, "release") /\ UNCHANGED row ELSE Ends(r)
  /\ UNCHANGED <<inviting, accounts, owns, teamOpen, accepted>>

Acceptable(r) ==
  /\ Holds(r)
  /\ Row(r).ready
  /\ ~Protected(Inv(r))
  /\ Inv(r) = "team" => teamOpen

\* The role is taken and the token spent; the mutant forgets the token.
MutSpent(old) == [old EXCEPT !.status = "active"]
Spent(old) == Clean("active", old.issue, FALSE)

Accept(r) ==
  /\ call[r].at = "finalize"
  /\ Acceptable(r)
  /\ Write(Inv(r), Spent(Row(r)))
  /\ accepted' = accepted \cup {<<Inv(r), Row(r).issue>>}
  /\ Ended(r)
  /\ UNCHANGED <<inviting, accounts, owns, teamOpen>>

\* The three keys of a claim go together; the mutant leaves its time.
MutUnclaimed(old) == [old EXCEPT !.claim = Nobody, !.ready = FALSE]
Unclaimed(old) == [old EXCEPT !.claim = Nobody, !.fresh = FALSE, !.ready = FALSE]

\* WHERE status = 'invited' and the claim is r's; the mutant drops the latter.
MutReleased(r) == IF Row(r).status = "invited" THEN Unclaimed(Row(r)) ELSE ClaimGone(Row(r), r)
Released(r) == IF Holds(r) THEN Unclaimed(Row(r)) ELSE ClaimGone(Row(r), r)

Release(r) ==
  /\ call[r].at = "release"
  /\ Write(Inv(r), Released(r))
  /\ Ended(r)
  /\ UNCHANGED <<inviting, accounts, owns, teamOpen, accepted>>

\* finalizeCompanyInvitation releases in its own transaction.
AcceptRefused(r) ==
  /\ call[r].at = "finalize"
  /\ ~Acceptable(r)
  /\ IF Inv(r) = "team"
       THEN GoTo(r, "release") /\ UNCHANGED row
       ELSE Write("company", Released(r)) /\ Ended(r)
  /\ UNCHANGED <<inviting, accounts, owns, teamOpen, accepted>>

\* The process ends, at any point of the request.
Crash(r) ==
  /\ call[r].at # "idle"
  /\ Ends(r)
  /\ UNCHANGED <<inviting, accounts, owns, teamOpen, accepted>>

(***************************************************************************)
(* Time, and what others do                                                *)
(***************************************************************************)
FiveMinutesPass(i) ==
  /\ row[i].fresh
  /\ Write(i, [row[i] EXCEPT !.fresh = FALSE])
  /\ UNCHANGED <<inviting, accounts, call, owns, teamOpen, accepted>>

Expire(i) ==
  /\ row[i].token
  /\ Write(i, [row[i] EXCEPT !.token = FALSE])
  /\ UNCHANGED <<inviting, accounts, call, owns, teamOpen, accepted>>

\* setMembershipStatus leaves the metadata alone.  Its refusals for Owners and granted
\* Admins rest on roles and grants that CompanyAuthority models; here it is always let through.
SetMembershipStatus(status) ==
  /\ teamOpen
  /\ row["team"].status # "none"
  /\ Write("team", [row["team"] EXCEPT !.status = status])
  /\ UNCHANGED <<inviting, accounts, call, owns, teamOpen, accepted>>

\* The token goes, the claim stays behind.
RemoveCompanyAdmin ==
  /\ row["company"].status \in {"invited", "active"}
  /\ Write("company", [row["company"] EXCEPT !.status = "inactive", !.token = FALSE])
  /\ UNCHANGED <<inviting, accounts, call, owns, teamOpen, accepted>>

\* addTeamMember and promoteCompanyAdmin: a role without an invitation.
TakeIn(i) ==
  /\ row[i].status \in {"none", "inactive"}
  /\ i = "team" => teamOpen
  /\ Write(i, Clean("active", row[i].issue, FALSE))
  /\ UNCHANGED <<inviting, accounts, call, owns, teamOpen, accepted>>

\* addTeamOwner, over whatever the row is.
AddTeamOwner ==
  /\ teamOpen
  /\ Write("team", Clean("active", row["team"].issue, FALSE))
  /\ owns' = TRUE
  /\ UNCHANGED <<inviting, accounts, call, teamOpen, accepted>>

\* The recovery command makes a Company Owner of anybody, and leaves the metadata alone.
RecoverCompanyOwner ==
  /\ ~InCompany
  /\ Write("company", [row["company"] EXCEPT !.status = "active", !.token = FALSE])
  /\ UNCHANGED <<inviting, accounts, call, owns, teamOpen, accepted>>

\* addTeamOwner and removeTeamOwner of another Team.
OwnAnotherTeam == owns' = ~owns /\ UNCHANGED <<row, inviting, accounts, call, teamOpen, accepted>>

ArchiveOrReactivate == teamOpen' = ~teamOpen /\ UNCHANGED <<row, inviting, accounts, call, owns, accepted>>

----------------------------------------------------------------------------
Step(r) ==
  \/ Claim(r) \/ ClaimRefused(r)
  \/ Recheck(r)
  \/ LookUp(r) \/ Link(r) \/ CreateFails(r)
  \/ Mark(r) \/ MarkRefused(r)
  \/ Accept(r) \/ AcceptRefused(r)
  \/ Release(r)

Others ==
  \/ \E i \in Invitation :
       ReadInvitee(i) \/ WriteInvitation(i) \/ TakeIn(i)
  \/ \E status \in {"invited", "active", "inactive"} : SetMembershipStatus(status)
  \/ RemoveCompanyAdmin
  \/ RecoverCompanyOwner
  \/ AddTeamOwner
  \/ OwnAnotherTeam
  \/ ArchiveOrReactivate

Next ==
  \/ \E r \in Request : Step(r) \/ Crash(r) \/ \E i \in Invitation : Admit(r, i)
  \/ \E i \in Invitation : FiveMinutesPass(i) \/ Expire(i)
  \/ Others

Spec == Init /\ [][Next]_vars

----------------------------------------------------------------------------
(***************************************************************************)
(* Properties                                                              *)
(***************************************************************************)
\* identity/invites.ts:337: "no active membership can be left behind without a usable account"; and
\* team-auth.ts:318: "an invite cannot reuse an existing platform account".  Who accepts has an
\* account, and a request with the very issue that is accepted has created it.
AccountComesWithRole ==
  [][\A r \in Request : Accept(r) => <<Inv(r), Row(r).issue>> \in accounts]_vars

\* docs/team-os-manual-verification.md:280: "invitations are single-use".  However often a token is
\* presented at once, cut off, repeated, or outlived, it gives a role once.
SingleUse ==
  [][\A r \in Request : Accept(r) => <<Inv(r), Row(r).issue>> \notin accepted]_vars

\* No step of another request takes away a claim that has not lapsed, not even one of a
\* request that has held it before and comes late.
ClaimRespected ==
  [][\A r, q \in Request :
       q # r /\ call[r].at # "idle" /\ Holds(r) /\ Row(r).fresh /\ call'[q] # call[q] => Holds(r)']_vars

=============================================================================
