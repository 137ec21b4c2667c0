-------------------------- MODULE CompanyAuthority --------------------------
(***************************************************************************)
(* Company roles, Team memberships, access grants and access requests of a *)
(* Team OS server (command-centre/src/lib/identity/store.ts, invites.ts).  *)
(* The store's operations are transactions that lock the company or the    *)
(* Team's row, so each is one action.  What a request handler has checked  *)
(* before it calls the store may be stale by then; the model relies only   *)
(* on what the transaction itself checks.  A Team invitation is not a      *)
(* transaction: it is read in one action and written in another.           *)
(* Accounts are never disabled by the server, so every user is active.     *)
(***************************************************************************)
EXTENDS Naturals, FiniteSets

CONSTANTS
  Users,
  Teams,        \* names for Teams; that of a deleted Team may be given away again
  MaxInviting   \* bound: Team invitations that are read and not written yet

VARIABLES
  company,   \* company_memberships: one standing for each user
  team,      \* teams.status, where deletable is archived for 30 days
  member,    \* memberships
  grant,     \* company_team_access_grants that are active
  request,   \* company_team_access_requests that are pending
  inviting   \* inviteMember between its reads and its write

vars == <<company, team, member, grant, request, inviting>>

Standing  == {"none", "invited", "admin", "owner", "removed"}
Direct    == {"member", "admin"}          \* INVITABLE_ROLES
Statuses  == {"active", "invited", "suspended"}
NoMember  == [status |-> "none", role |-> "member"]
MutRow(status, role) == [status |-> role, role |-> status]
Row(status, role) == [status |-> status, role |-> role]
Member    == [status : Statuses \cup {"none"}, role : Direct \cup {"owner"}]
Invitation == [team : Teams, user : Users, role : Direct]

TypeOK ==
  /\ company \in [Users -> Standing]
  /\ team \in [Teams -> {"none", "active", "archived", "deletable"}]
  /\ member \in [Teams -> [Users -> Member]]
  /\ grant \subseteq Teams \X Users
  /\ request \subseteq Teams \X Users
  /\ inviting \subseteq Invitation

\* A server that was just installed.
Init ==
  /\ company = [u \in Users |-> "none"]
  /\ team = [t \in Teams |-> "none"]
  /\ member = [t \in Teams |-> [u \in Users |-> NoMember]]
  /\ grant = {}
  /\ request = {}
  /\ inviting = {}

----------------------------------------------------------------------------
IsTeamOwner(t, u) == member[t][u] = Row("active", "owner")
OwnsSomeTeam(u) == \E t \in Teams : IsTeamOwner(t, u)
Directs(t, u) == \E role \in {"owner", "admin"} : member[t][u] = Row("active", role)
InCompany(u) == company[u] \in {"admin", "owner"}
Exists(t) == team[t] # "none"

\* requireCompanyTeamManager
Manages(a, t) ==
  \/ company[a] = "owner"
  \/ company[a] = "admin" /\ (Directs(t, a) \/ <<t, a>> \in grant)

\* hasProtectedCompanyTeamAccess
Protected(t, u) ==
  \/ company[u] = "owner"
  \/ company[u] = "admin" /\ <<t, u>> \in grant /\ ~Directs(t, u)

Of(t) == {t} \X Users
By(u) == Teams \X {u}

SetMember(t, u, row) == member' = [member EXCEPT ![t][u] = row]

----------------------------------------------------------------------------
(***************************************************************************)
(* Company roles                                                           *)
(***************************************************************************)
\* The first owner, and the recovery command.
RecoverCompanyOwner(u) ==
  /\ \A v \in Users : company[v] # "owner"
  /\ company' = [company EXCEPT ![u] = "owner"]
  /\ UNCHANGED <<team, member, grant, request, inviting>>

\* upsertCompanyMembership: an invitation, or a role at once for who has an account.
UpsertCompanyMembership(u, standing) ==
  /\ company[u] \in {"none", "invited", "removed"}
  /\ standing \in {"invited", "admin"}
  /\ company' = [company EXCEPT ![u] = standing]
  /\ UNCHANGED <<team, member, grant, request, inviting>>

FinalizeCompanyInvitation(u) ==
  /\ company[u] = "invited"
  /\ ~OwnsSomeTeam(u)
  /\ company' = [company EXCEPT ![u] = "admin"]
  /\ UNCHANGED <<team, member, grant, request, inviting>>

PromoteCompanyAdmin(a, u) ==
  /\ company[a] = "owner"
  /\ company[u] \in {"none", "removed"}
  /\ company' = [company EXCEPT ![u] = "admin"]
  /\ UNCHANGED <<team, member, grant, request, inviting>>

MutRemoveCompanyAdmin(a, u) ==
  /\ company[a] = "owner"
  /\ company[u] \in {"invited", "admin"}
  /\ company' = [company EXCEPT ![u] = "removed"]
  /\ grant' = grant \ By(u)
  /\ UNCHANGED <<team, member, request, inviting>>

RemoveCompanyAdmin(a, u) ==
  /\ company[a] = "owner"
  /\ company[u] \in {"invited", "admin"}
  /\ company' = [company EXCEPT ![u] = "removed"]
  /\ grant' = grant \ By(u)
  /\ request' = request \ By(u)
  /\ UNCHANGED <<team, member, inviting>>

MutTransferCompanyOwnership(a, u) ==
  /\ company[a] = "owner"
  /\ company[u] = "admin"
  /\ company' = [company EXCEPT ![u] = "owner"]
  /\ grant' = grant \cup {<<t, a>> : t \in {s \in Teams : Exists(s)}}
  /\ UNCHANGED <<team, member, request, inviting>>

\* The former owner becomes an admin, with a grant for every Team there is.
TransferCompanyOwnership(a, u) ==
  /\ company[a] = "owner"
  /\ company[u] = "admin"
  /\ company' = [company EXCEPT ![a] = "admin", ![u] = "owner"]
  /\ grant' = grant \cup {<<t, a>> : t \in {s \in Teams : Exists(s)}}
  /\ UNCHANGED <<team, member, request, inviting>>

(***************************************************************************)
(* Access of Company Admins to Teams                                       *)
(***************************************************************************)
CreateCompanyAccessRequest(t, u) ==
  /\ team[t] = "active"
  /\ company[u] = "admin"
  /\ request' = request \cup {<<t, u>>}
  /\ UNCHANGED <<company, team, member, grant, inviting>>

\* updateCompanyAccessRequest: nothing is asked here of the requester or of the Team.
ApproveRequest(a, t, u) ==
  /\ <<t, u>> \in request
  /\ company[a] = "owner"
  /\ grant' = grant \cup {<<t, u>>}
  /\ request' = request \ {<<t, u>>}
  /\ UNCHANGED <<company, team, member, inviting>>

DenyOrCancelRequest(a, t, u) ==
  /\ <<t, u>> \in request
  /\ a = u \/ company[a] = "owner"
  /\ request' = request \ {<<t, u>>}
  /\ UNCHANGED <<company, team, member, grant, inviting>>

\* grantCompanyTeamAccess, and its Bulk form: all or none.
GrantCompanyTeamAccess(a, ts, u) ==
  /\ \A t \in ts : Exists(t)
  /\ company[u] \in {"invited", "admin"}
  /\ company[a] = "owner"
  /\ grant' = grant \cup (ts \X {u})
  /\ UNCHANGED <<company, team, member, request, inviting>>

RevokeCompanyTeamAccess(a, t, u) ==
  /\ a = u \/ company[a] = "owner"
  /\ <<t, u>> \in grant
  /\ grant' = grant \ {<<t, u>>}
  /\ UNCHANGED <<company, team, member, request, inviting>>

(***************************************************************************)
(* Teams                                                                   *)
(***************************************************************************)
\* By the CLI on the server: createTeam and upsertMembership.
CreateTeam(t, u) ==
  /\ ~Exists(t)
  /\ team' = [team EXCEPT ![t] = "active"]
  /\ SetMember(t, u, Row("active", "owner"))
  /\ UNCHANGED <<company, grant, request, inviting>>

CreateTeamWithOwner(a, t, u) ==
  /\ InCompany(a)
  /\ ~Exists(t)
  /\ team' = [team EXCEPT ![t] = "active"]
  /\ SetMember(t, u, Row("active", "owner"))
  /\ grant' = IF company[a] = "admin" THEN grant \cup {<<t, a>>} ELSE grant
  /\ UNCHANGED <<company, request, inviting>>

ArchiveTeam(a, t) ==
  /\ Manages(a, t)
  /\ team[t] = "active"
  /\ team' = [team EXCEPT ![t] = "archived"]
  /\ request' = request \ Of(t)
  /\ UNCHANGED <<company, member, grant, inviting>>

ThirtyDaysPass(t) ==
  /\ team[t] = "archived"
  /\ team' = [team EXCEPT ![t] = "deletable"]
  /\ UNCHANGED <<company, member, grant, request, inviting>>

ReactivateTeam(a, t) ==
  /\ Manages(a, t)
  /\ team[t] \in {"archived", "deletable"}
  /\ team' = [team EXCEPT ![t] = "active"]
  /\ UNCHANGED <<company, member, grant, request, inviting>>

\* The rows that refer to the Team go with it, and later ones for it are refused.
DeleteTeamPermanently(a, t) ==
  /\ company[a] = "owner"
  /\ team[t] = "deletable"
  /\ team' = [team EXCEPT ![t] = "none"]
  /\ member' = [member EXCEPT ![t] = [u \in Users |-> NoMember]]
  /\ grant' = grant \ Of(t)
  /\ request' = request \ Of(t)
  /\ inviting' = {i \in inviting : i.team # t}
  /\ UNCHANGED company

(***************************************************************************)
(* Team memberships                                                        *)
(***************************************************************************)
AddTeamOwner(a, t, u) ==
  /\ Manages(a, t)
  /\ team[t] = "active"
  /\ SetMember(t, u, Row("active", "owner"))
  /\ UNCHANGED <<company, team, grant, request, inviting>>

RemoveTeamOwner(a, t, u, role) ==
  /\ Manages(a, t)
  /\ team[t] = "active"
  /\ IsTeamOwner(t, u)
  /\ \E v \in Users \ {u} : IsTeamOwner(t, v)
  /\ SetMember(t, u, Row("active", role))
  /\ UNCHANGED <<company, team, grant, request, inviting>>

AddTeamMember(a, t, u, role) ==
  /\ Manages(a, t)
  /\ team[t] = "active"
  /\ member[t][u].status \notin {"active", "invited"}
  /\ member[t][u].role # "owner"
  /\ ~Protected(t, u)
  /\ SetMember(t, u, Row("active", role))
  /\ UNCHANGED <<company, team, grant, request, inviting>>

SetRole(t, u, role) ==
  /\ team[t] = "active"
  /\ member[t][u].status # "none"
  /\ member[t][u].role # "owner"
  /\ ~Protected(t, u)
  /\ SetMember(t, u, Row(member[t][u].status, role))
  /\ UNCHANGED <<company, team, grant, request, inviting>>

MutSetMembershipStatus(t, u, status) ==
  /\ team[t] = "active"
  /\ member[t][u].status # "none"
  /\ ~Protected(t, u)
  /\ SetMember(t, u, Row(status, member[t][u].role))
  /\ UNCHANGED <<company, team, grant, request, inviting>>

SetMembershipStatus(t, u, status) ==
  /\ team[t] = "active"
  /\ member[t][u].status # "none"
  /\ member[t][u].role = "owner" => status = "active"
  /\ ~Protected(t, u)
  /\ SetMember(t, u, Row(status, member[t][u].role))
  /\ UNCHANGED <<company, team, grant, request, inviting>>

\* inviteMember: what it reads ...
ReadInvitee(a, t, u, role) ==
  /\ Cardinality(inviting) < MaxInviting
  /\ team[t] = "active"
  /\ Manages(a, t) \/ Directs(t, a)
  /\ ~InCompany(u)
  /\ ~OwnsSomeTeam(u)
  /\ member[t][u].status # "active"
  /\ inviting' = inviting \cup {[team |-> t, user |-> u, role |-> role]}
  /\ UNCHANGED <<company, team, member, grant, request>>

\* ... and what it writes, over whatever is there by now.
WriteInvitation(i) ==
  /\ SetMember(i.team, i.user, Row("invited", i.role))
  /\ inviting' = inviting \ {i}
  /\ UNCHANGED <<company, team, grant, request>>

\* The last statement of acceptInviteWithCredential.
JoinTeam(t, u) ==
  /\ team[t] = "active"
  /\ member[t][u].status = "invited"
  /\ member[t][u].role \in Direct
  /\ ~InCompany(u)
  /\ ~OwnsSomeTeam(u)
  /\ SetMember(t, u, Row("active", member[t][u].role))
  /\ UNCHANGED <<company, team, grant, request, inviting>>

----------------------------------------------------------------------------
CompanyNext ==
  \E a, u \in Users :
    \/ RecoverCompanyOwner(u) \/ FinalizeCompanyInvitation(u)
    \/ \E standing \in Standing : UpsertCompanyMembership(u, standing)
    \/ PromoteCompanyAdmin(a, u) \/ RemoveCompanyAdmin(a, u)
    \/ TransferCompanyOwnership(a, u)
    \/ \E ts \in SUBSET Teams : GrantCompanyTeamAccess(a, ts, u)

AccessNext ==
  \E a, u \in Users, t \in Teams :
    \/ CreateCompanyAccessRequest(t, u) \/ ApproveRequest(a, t, u)
    \/ DenyOrCancelRequest(a, t, u) \/ RevokeCompanyTeamAccess(a, t, u)

TeamNext ==
  \E a, u \in Users, t \in Teams :
    \/ CreateTeam(t, u) \/ CreateTeamWithOwner(a, t, u)
    \/ ArchiveTeam(a, t) \/ ThirtyDaysPass(t) \/ ReactivateTeam(a, t)
    \/ DeleteTeamPermanently(a, t)

MemberNext ==
  \/ \E a, u \in Users, t \in Teams, role \in Direct :
       \/ AddTeamOwner(a, t, u) \/ RemoveTeamOwner(a, t, u, role)
       \/ AddTeamMember(a, t, u, role) \/ SetRole(t, u, role)
       \/ ReadInvitee(a, t, u, role) \/ JoinTeam(t, u)
  \/ \E u \in Users, t \in Teams, status \in Statuses : SetMembershipStatus(t, u, status)
  \/ \E i \in inviting : WriteInvitation(i)

Next == CompanyNext \/ AccessNext \/ TeamNext \/ MemberNext

Spec == Init /\ [][Next]_vars

----------------------------------------------------------------------------
(***************************************************************************)
(* Properties                                                              *)
(***************************************************************************)
\* No standing company access outlives what it was given for.  An approval asks nothing of the
\* requester or the Team: that a request is still pending has to mean that the requester is in
\* the company and the Team is active; and a grant, that its holder is not removed and its Team exists.
AuthorityIsCurrent ==
  /\ \A t \in Teams, u \in Users : <<t, u>> \in request => team[t] = "active" /\ InCompany(u)
  /\ \A t \in Teams, u \in Users : <<t, u>> \in grant => Exists(t) /\ company[u] \in {"invited", "admin", "owner"}

\* Two owners never hold the company, whatever recoveries, transfers and invitations interleave.
OneCompanyOwner == \A u, v \in Users : company[u] = "owner" /\ company[v] = "owner" => u = v

\* docs/team-os-user-guide.md:146: "A Team must keep at least one active Team Owner."  No step leaves a
\* Team or the company without the owner it has, but for the write of an invitation that was read
\* before the invitee became an owner.
HasOwner(t) == \E u \in Users : IsTeamOwner(t, u)
CompanyHasOwner == \E u \in Users : company[u] = "owner"
OwnersRemain ==
  [][/\ CompanyHasOwner => CompanyHasOwner'
     /\ \A t \in Teams : HasOwner(t) =>
          \/ HasOwner(t)'
          \/ ~Exists(t)'
          \/ \E i \in inviting : i.team = t /\ IsTeamOwner(t, i.user) /\ WriteInvitation(i)]_vars
=============================================================================
