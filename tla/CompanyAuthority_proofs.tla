----------------------- MODULE CompanyAuthority_proofs -----------------------
(***************************************************************************)
(* Proofs about CompanyAuthority for any users and Teams.  AuthorityInv is *)
(* inductive: the conjuncts support each other, for an approval relies on  *)
(* what AuthorityIsCurrent says of a request.                              *)
(***************************************************************************)
EXTENDS CompanyAuthority, TLAPS

AuthorityInv == TypeOK /\ AuthorityIsCurrent /\ OneCompanyOwner

LEMMA RowTypes ==
  /\ NoMember \in Member
  /\ \A status \in Statuses, role \in Direct \cup {"owner"} : Row(status, role) \in Member
  /\ \A m \in Member : m.role \in Direct \cup {"owner"} /\ (m.status # "none" => m.status \in Statuses)
  BY DEF NoMember, Member, Row, Statuses, Direct

LEMMA InitInv == Init => AuthorityInv
<1> SUFFICES ASSUME Init PROVE AuthorityInv
  OBVIOUS
<1>1. TypeOK
  BY RowTypes DEF Init, TypeOK, Standing
<1>2. AuthorityIsCurrent /\ OneCompanyOwner
  BY DEF Init, AuthorityIsCurrent, OneCompanyOwner
<1> QED BY <1>1, <1>2 DEF AuthorityInv

LEMMA TypeStep == TypeOK /\ [Next]_vars => TypeOK'
<1> SUFFICES ASSUME TypeOK, [Next]_vars PROVE TypeOK'
  OBVIOUS
<1> USE RowTypes DEF TypeOK
<1>1. ASSUME NEW u \in Users, RecoverCompanyOwner(u) PROVE TypeOK'
  BY <1>1 DEF RecoverCompanyOwner, Standing
<1>2. ASSUME NEW u \in Users, NEW standing \in Standing,
           UpsertCompanyMembership(u, standing)
    PROVE  TypeOK'
  BY <1>2 DEF UpsertCompanyMembership, Standing
<1>3. ASSUME NEW u \in Users, FinalizeCompanyInvitation(u) PROVE TypeOK'
  BY <1>3 DEF FinalizeCompanyInvitation, Standing
<1>4. ASSUME NEW a \in Users, NEW u \in Users, PromoteCompanyAdmin(a, u) PROVE TypeOK'
  BY <1>4 DEF PromoteCompanyAdmin, Standing
<1>5. ASSUME NEW a \in Users, NEW u \in Users, RemoveCompanyAdmin(a, u) PROVE TypeOK'
  BY <1>5 DEF RemoveCompanyAdmin, Standing, By
<1>6. ASSUME NEW a \in Users, NEW u \in Users, TransferCompanyOwnership(a, u) PROVE TypeOK'
  <2>1. grant' \subseteq Teams \X Users
    BY <1>6 DEF TransferCompanyOwnership
  <2>2. company' \in [Users -> Standing]
    BY <1>6 DEF TransferCompanyOwnership, Standing
  <2> QED BY <1>6, <2>1, <2>2 DEF TransferCompanyOwnership
<1>7. ASSUME NEW a \in Users, NEW ts \in SUBSET Teams, NEW u \in Users,
           GrantCompanyTeamAccess(a, ts, u)
    PROVE  TypeOK'
  BY <1>7 DEF GrantCompanyTeamAccess
<1>8. ASSUME NEW t \in Teams, NEW u \in Users, CreateCompanyAccessRequest(t, u) PROVE TypeOK'
  BY <1>8 DEF CreateCompanyAccessRequest
<1>9. ASSUME NEW a \in Users, NEW t \in Teams, NEW u \in Users,
           ApproveRequest(a, t, u)
    PROVE  TypeOK'
  BY <1>9 DEF ApproveRequest
<1>10. ASSUME NEW a \in Users, NEW t \in Teams, NEW u \in Users,
           DenyOrCancelRequest(a, t, u)
    PROVE  TypeOK'
  BY <1>10 DEF DenyOrCancelRequest
<1>11. ASSUME NEW a \in Users, NEW t \in Teams, NEW u \in Users,
           RevokeCompanyTeamAccess(a, t, u)
    PROVE  TypeOK'
  BY <1>11 DEF RevokeCompanyTeamAccess
<1>12. ASSUME NEW t \in Teams, NEW u \in Users, CreateTeam(t, u) PROVE TypeOK'
  BY <1>12 DEF CreateTeam, SetMember, Direct, Statuses
<1>13. ASSUME NEW a \in Users, NEW t \in Teams, NEW u \in Users,
           CreateTeamWithOwner(a, t, u)
    PROVE  TypeOK'
  BY <1>13 DEF CreateTeamWithOwner, SetMember, Direct, Statuses
<1>14. ASSUME NEW a \in Users, NEW t \in Teams, ArchiveTeam(a, t) PROVE TypeOK'
  BY <1>14 DEF ArchiveTeam, Of
<1>15. ASSUME NEW t \in Teams, ThirtyDaysPass(t) PROVE TypeOK'
  BY <1>15 DEF ThirtyDaysPass
<1>16. ASSUME NEW a \in Users, NEW t \in Teams, ReactivateTeam(a, t) PROVE TypeOK'
  BY <1>16 DEF ReactivateTeam
<1>17. ASSUME NEW a \in Users, NEW t \in Teams, DeleteTeamPermanently(a, t) PROVE TypeOK'
  BY <1>17 DEF DeleteTeamPermanently, Invitation, Of
<1>18. ASSUME NEW a \in Users, NEW t \in Teams, NEW u \in Users, AddTeamOwner(a, t, u) PROVE TypeOK'
  BY <1>18 DEF AddTeamOwner, SetMember, Direct, Statuses
<1>19. ASSUME NEW a \in Users, NEW t \in Teams, NEW u \in Users, NEW role \in Direct,
           RemoveTeamOwner(a, t, u, role)
    PROVE  TypeOK'
  BY <1>19 DEF RemoveTeamOwner, SetMember, Direct, Statuses
<1>20. ASSUME NEW a \in Users, NEW t \in Teams, NEW u \in Users, NEW role \in Direct,
           AddTeamMember(a, t, u, role)
    PROVE  TypeOK'
  BY <1>20 DEF AddTeamMember, SetMember, Direct, Statuses
<1>21. ASSUME NEW t \in Teams, NEW u \in Users, NEW role \in Direct,
           SetRole(t, u, role)
    PROVE  TypeOK'
  BY <1>21 DEF SetRole, SetMember, Direct, Statuses
<1>22. ASSUME NEW t \in Teams, NEW u \in Users, NEW status \in Statuses,
           SetMembershipStatus(t, u, status)
    PROVE  TypeOK'
  BY <1>22 DEF SetMembershipStatus, SetMember, Direct, Statuses
<1>23. ASSUME NEW a \in Users, NEW t \in Teams, NEW u \in Users, NEW role \in Direct,
           ReadInvitee(a, t, u, role)
    PROVE  TypeOK'
  BY <1>23 DEF ReadInvitee, Invitation
<1>24. ASSUME NEW i \in inviting, WriteInvitation(i) PROVE TypeOK'
  BY <1>24 DEF WriteInvitation, SetMember, Direct, Statuses, Invitation
<1>25. ASSUME NEW t \in Teams, NEW u \in Users, JoinTeam(t, u) PROVE TypeOK'
  BY <1>25 DEF JoinTeam, SetMember, Direct, Statuses
<1>26. CASE UNCHANGED vars
  BY <1>26 DEF vars
<1> QED
  BY <1>1, <1>2, <1>3, <1>4, <1>5, <1>6, <1>7, <1>8, <1>9, <1>10, <1>11, <1>12, <1>13,
     <1>14, <1>15, <1>16, <1>17, <1>18, <1>19, <1>20, <1>21, <1>22, <1>23, <1>24, <1>25, <1>26
     DEF Next, CompanyNext, AccessNext, TeamNext, MemberNext

\* A request is only pending, and a grant only active, while what it was given for lasts.
LEMMA CurrentStep == AuthorityInv /\ [Next]_vars => AuthorityIsCurrent'
<1> SUFFICES ASSUME AuthorityInv, [Next]_vars PROVE AuthorityIsCurrent'
  OBVIOUS
<1> USE DEF AuthorityInv, TypeOK, AuthorityIsCurrent, InCompany, Exists
<1>1. ASSUME NEW u \in Users, RecoverCompanyOwner(u) PROVE AuthorityIsCurrent'
  BY <1>1 DEF RecoverCompanyOwner
<1>2. ASSUME NEW u \in Users, NEW standing \in Standing,
           UpsertCompanyMembership(u, standing)
    PROVE  AuthorityIsCurrent'
  BY <1>2 DEF UpsertCompanyMembership
<1>3. ASSUME NEW u \in Users, FinalizeCompanyInvitation(u) PROVE AuthorityIsCurrent'
  BY <1>3 DEF FinalizeCompanyInvitation
<1>4. ASSUME NEW a \in Users, NEW u \in Users, PromoteCompanyAdmin(a, u) PROVE AuthorityIsCurrent'
  BY <1>4 DEF PromoteCompanyAdmin
<1>5. ASSUME NEW a \in Users, NEW u \in Users, RemoveCompanyAdmin(a, u) PROVE AuthorityIsCurrent'
  BY <1>5 DEF RemoveCompanyAdmin, By
<1>6. ASSUME NEW a \in Users, NEW u \in Users,
           TransferCompanyOwnership(a, u)
    PROVE  AuthorityIsCurrent'
  BY <1>6 DEF TransferCompanyOwnership
<1>7. ASSUME NEW a \in Users, NEW ts \in SUBSET Teams, NEW u \in Users,
           GrantCompanyTeamAccess(a, ts, u)
    PROVE  AuthorityIsCurrent'
  BY <1>7 DEF GrantCompanyTeamAccess
<1>8. ASSUME NEW t \in Teams, NEW u \in Users,
           CreateCompanyAccessRequest(t, u)
    PROVE  AuthorityIsCurrent'
  BY <1>8 DEF CreateCompanyAccessRequest
<1>9. ASSUME NEW a \in Users, NEW t \in Teams, NEW u \in Users,
           ApproveRequest(a, t, u)
    PROVE  AuthorityIsCurrent'
  BY <1>9 DEF ApproveRequest
<1>10. ASSUME NEW a \in Users, NEW t \in Teams, NEW u \in Users,
           DenyOrCancelRequest(a, t, u)
    PROVE  AuthorityIsCurrent'
  BY <1>10 DEF DenyOrCancelRequest
<1>11. ASSUME NEW a \in Users, NEW t \in Teams, NEW u \in Users,
           RevokeCompanyTeamAccess(a, t, u)
    PROVE  AuthorityIsCurrent'
  BY <1>11 DEF RevokeCompanyTeamAccess
<1>12. ASSUME NEW t \in Teams, NEW u \in Users, CreateTeam(t, u) PROVE AuthorityIsCurrent'
  BY <1>12 DEF CreateTeam
<1>13. ASSUME NEW a \in Users, NEW t \in Teams, NEW u \in Users,
           CreateTeamWithOwner(a, t, u)
    PROVE  AuthorityIsCurrent'
  BY <1>13 DEF CreateTeamWithOwner
<1>14. ASSUME NEW a \in Users, NEW t \in Teams, ArchiveTeam(a, t) PROVE AuthorityIsCurrent'
  BY <1>14 DEF ArchiveTeam, Of
<1>15. ASSUME NEW t \in Teams, ThirtyDaysPass(t) PROVE AuthorityIsCurrent'
  BY <1>15 DEF ThirtyDaysPass
<1>16. ASSUME NEW a \in Users, NEW t \in Teams, ReactivateTeam(a, t) PROVE AuthorityIsCurrent'
  BY <1>16 DEF ReactivateTeam
<1>17. ASSUME NEW a \in Users, NEW t \in Teams,
           DeleteTeamPermanently(a, t)
    PROVE  AuthorityIsCurrent'
  BY <1>17 DEF DeleteTeamPermanently, Of
<1>18. ASSUME NEW a \in Users, NEW t \in Teams, NEW u \in Users,
           AddTeamOwner(a, t, u)
    PROVE  AuthorityIsCurrent'
  BY <1>18 DEF AddTeamOwner
<1>19. ASSUME NEW a \in Users, NEW t \in Teams, NEW u \in Users, NEW role \in Direct,
           RemoveTeamOwner(a, t, u, role)
    PROVE  AuthorityIsCurrent'
  BY <1>19 DEF RemoveTeamOwner
<1>20. ASSUME NEW a \in Users, NEW t \in Teams, NEW u \in Users, NEW role \in Direct,
           AddTeamMember(a, t, u, role)
    PROVE  AuthorityIsCurrent'
  BY <1>20 DEF AddTeamMember
<1>21. ASSUME NEW t \in Teams, NEW u \in Users, NEW role \in Direct,
           SetRole(t, u, role)
    PROVE  AuthorityIsCurrent'
  BY <1>21 DEF SetRole
<1>22. ASSUME NEW t \in Teams, NEW u \in Users, NEW status \in Statuses,
           SetMembershipStatus(t, u, status)
    PROVE  AuthorityIsCurrent'
  BY <1>22 DEF SetMembershipStatus
<1>23. ASSUME NEW a \in Users, NEW t \in Teams, NEW u \in Users, NEW role \in Direct,
           ReadInvitee(a, t, u, role)
    PROVE  AuthorityIsCurrent'
  BY <1>23 DEF ReadInvitee
<1>24. ASSUME NEW i \in inviting, WriteInvitation(i) PROVE AuthorityIsCurrent'
  BY <1>24 DEF WriteInvitation
<1>25. ASSUME NEW t \in Teams, NEW u \in Users, JoinTeam(t, u) PROVE AuthorityIsCurrent'
  BY <1>25 DEF JoinTeam
<1>26. CASE UNCHANGED vars
  BY <1>26 DEF vars
<1> QED
  BY <1>1, <1>2, <1>3, <1>4, <1>5, <1>6, <1>7, <1>8, <1>9, <1>10, <1>11, <1>12, <1>13,
     <1>14, <1>15, <1>16, <1>17, <1>18, <1>19, <1>20, <1>21, <1>22, <1>23, <1>24, <1>25, <1>26
     DEF Next, CompanyNext, AccessNext, TeamNext, MemberNext

LEMMA OneOwnerStep == AuthorityInv /\ [Next]_vars => OneCompanyOwner'
<1> SUFFICES ASSUME AuthorityInv, [Next]_vars PROVE OneCompanyOwner'
  OBVIOUS
<1> USE DEF AuthorityInv, TypeOK, OneCompanyOwner
<1>1. ASSUME NEW u \in Users, RecoverCompanyOwner(u) PROVE OneCompanyOwner'
  BY <1>1 DEF RecoverCompanyOwner, Standing
<1>2. ASSUME NEW u \in Users, NEW standing \in Standing,
           UpsertCompanyMembership(u, standing)
    PROVE  OneCompanyOwner'
  BY <1>2 DEF UpsertCompanyMembership, Standing
<1>3. ASSUME NEW u \in Users, FinalizeCompanyInvitation(u) PROVE OneCompanyOwner'
  BY <1>3 DEF FinalizeCompanyInvitation, Standing
<1>4. ASSUME NEW a \in Users, NEW u \in Users, PromoteCompanyAdmin(a, u) PROVE OneCompanyOwner'
  BY <1>4 DEF PromoteCompanyAdmin, Standing
<1>5. ASSUME NEW a \in Users, NEW u \in Users, RemoveCompanyAdmin(a, u) PROVE OneCompanyOwner'
  BY <1>5 DEF RemoveCompanyAdmin, Standing
<1>6. ASSUME NEW a \in Users, NEW u \in Users, TransferCompanyOwnership(a, u) PROVE OneCompanyOwner'
  BY <1>6 DEF TransferCompanyOwnership, Standing
<1>7. ASSUME NEW a \in Users, NEW ts \in SUBSET Teams, NEW u \in Users,
           GrantCompanyTeamAccess(a, ts, u)
    PROVE  OneCompanyOwner'
  BY <1>7 DEF GrantCompanyTeamAccess
<1>8. ASSUME NEW t \in Teams, NEW u \in Users,
           CreateCompanyAccessRequest(t, u)
    PROVE  OneCompanyOwner'
  BY <1>8 DEF CreateCompanyAccessRequest
<1>9. ASSUME NEW a \in Users, NEW t \in Teams, NEW u \in Users,
           ApproveRequest(a, t, u)
    PROVE  OneCompanyOwner'
  BY <1>9 DEF ApproveRequest
<1>10. ASSUME NEW a \in Users, NEW t \in Teams, NEW u \in Users,
           DenyOrCancelRequest(a, t, u)
    PROVE  OneCompanyOwner'
  BY <1>10 DEF DenyOrCancelRequest
<1>11. ASSUME NEW a \in Users, NEW t \in Teams, NEW u \in Users,
           RevokeCompanyTeamAccess(a, t, u)
    PROVE  OneCompanyOwner'
  BY <1>11 DEF RevokeCompanyTeamAccess
<1>12. ASSUME NEW t \in Teams, NEW u \in Users, CreateTeam(t, u) PROVE OneCompanyOwner'
  BY <1>12 DEF CreateTeam
<1>13. ASSUME NEW a \in Users, NEW t \in Teams, NEW u \in Users,
           CreateTeamWithOwner(a, t, u)
    PROVE  OneCompanyOwner'
  BY <1>13 DEF CreateTeamWithOwner
<1>14. ASSUME NEW a \in Users, NEW t \in Teams, ArchiveTeam(a, t) PROVE OneCompanyOwner'
  BY <1>14 DEF ArchiveTeam
<1>15. ASSUME NEW t \in Teams, ThirtyDaysPass(t) PROVE OneCompanyOwner'
  BY <1>15 DEF ThirtyDaysPass
<1>16. ASSUME NEW a \in Users, NEW t \in Teams, ReactivateTeam(a, t) PROVE OneCompanyOwner'
  BY <1>16 DEF ReactivateTeam
<1>17. ASSUME NEW a \in Users, NEW t \in Teams, DeleteTeamPermanently(a, t) PROVE OneCompanyOwner'
  BY <1>17 DEF DeleteTeamPermanently
<1>18. ASSUME NEW a \in Users, NEW t \in Teams, NEW u \in Users,
           AddTeamOwner(a, t, u)
    PROVE  OneCompanyOwner'
  BY <1>18 DEF AddTeamOwner
<1>19. ASSUME NEW a \in Users, NEW t \in Teams, NEW u \in Users, NEW role \in Direct,
           RemoveTeamOwner(a, t, u, role)
    PROVE  OneCompanyOwner'
  BY <1>19 DEF RemoveTeamOwner
<1>20. ASSUME NEW a \in Users, NEW t \in Teams, NEW u \in Users, NEW role \in Direct,
           AddTeamMember(a, t, u, role)
    PROVE  OneCompanyOwner'
  BY <1>20 DEF AddTeamMember
<1>21. ASSUME NEW t \in Teams, NEW u \in Users, NEW role \in Direct,
           SetRole(t, u, role)
    PROVE  OneCompanyOwner'
  BY <1>21 DEF SetRole
<1>22. ASSUME NEW t \in Teams, NEW u \in Users, NEW status \in Statuses,
           SetMembershipStatus(t, u, status)
    PROVE  OneCompanyOwner'
  BY <1>22 DEF SetMembershipStatus
<1>23. ASSUME NEW a \in Users, NEW t \in Teams, NEW u \in Users, NEW role \in Direct,
           ReadInvitee(a, t, u, role)
    PROVE  OneCompanyOwner'
  BY <1>23 DEF ReadInvitee
<1>24. ASSUME NEW i \in inviting, WriteInvitation(i) PROVE OneCompanyOwner'
  BY <1>24 DEF WriteInvitation
<1>25. ASSUME NEW t \in Teams, NEW u \in Users, JoinTeam(t, u) PROVE OneCompanyOwner'
  BY <1>25 DEF JoinTeam
<1>26. CASE UNCHANGED vars
  BY <1>26 DEF vars
<1> QED
  BY <1>1, <1>2, <1>3, <1>4, <1>5, <1>6, <1>7, <1>8, <1>9, <1>10, <1>11, <1>12, <1>13,
     <1>14, <1>15, <1>16, <1>17, <1>18, <1>19, <1>20, <1>21, <1>22, <1>23, <1>24, <1>25, <1>26
     DEF Next, CompanyNext, AccessNext, TeamNext, MemberNext

LEMMA AlwaysInv == Spec => []AuthorityInv
<1>1. AuthorityInv /\ [Next]_vars => AuthorityInv'
  BY TypeStep, CurrentStep, OneOwnerStep DEF AuthorityInv
<1> QED BY InitInv, <1>1, PTL DEF Spec

\* Standings, Teams, memberships, grants, requests and invitations keep their types.
THEOREM CompanyTypes == Spec => []TypeOK
<1>1. AuthorityInv => TypeOK
  BY DEF AuthorityInv
<1> QED BY <1>1, AlwaysInv, PTL

\* A pending request or an active grant is always backed by a standing in the company and by a Team.
THEOREM AuthorityStaysCurrent == Spec => []AuthorityIsCurrent
<1>1. AuthorityInv => AuthorityIsCurrent
  BY DEF AuthorityInv
<1> QED BY <1>1, AlwaysInv, PTL

\* The company never has two owners.
THEOREM NeverTwoOwners == Spec => []OneCompanyOwner
<1>1. AuthorityInv => OneCompanyOwner
  BY DEF AuthorityInv
<1> QED BY <1>1, AlwaysInv, PTL

(***************************************************************************)
(* OwnersRemain                                                            *)
(***************************************************************************)
TeamKeepsOwner(t) ==
  \/ HasOwner(t)'
  \/ ~Exists(t)'
  \/ \E i \in inviting : i.team = t /\ IsTeamOwner(t, i.user) /\ WriteInvitation(i)

\* A change of one membership leaves the Team an owner, unless it is the owner's own.
LEMMA OtherOwnersStay ==
  ASSUME TypeOK, NEW t \in Teams, NEW u \in Users, NEW row, SetMember(t, u, row), NEW s \in Teams,
         HasOwner(s),
         s = t /\ IsTeamOwner(t, u) => row = Row("active", "owner") \/ \E v \in Users \ {u} : IsTeamOwner(t, v)
  PROVE  HasOwner(s)'
<1>1. PICK w \in Users : IsTeamOwner(s, w) /\ (<<s, w>> = <<t, u>> => row = Row("active", "owner"))
  BY DEF HasOwner, IsTeamOwner
<1>2. member'[s][w] = Row("active", "owner")
  BY <1>1 DEF SetMember, IsTeamOwner, TypeOK
<1> QED BY <1>2 DEF HasOwner, IsTeamOwner

LEMMA CompanyOwnerStays == AuthorityInv /\ [Next]_vars /\ CompanyHasOwner => CompanyHasOwner'
<1> SUFFICES ASSUME AuthorityInv, [Next]_vars, CompanyHasOwner PROVE CompanyHasOwner'
  OBVIOUS
<1> USE DEF AuthorityInv, TypeOK, OneCompanyOwner, CompanyHasOwner
<1>1. ASSUME NEW u \in Users, RecoverCompanyOwner(u) PROVE CompanyHasOwner'
  BY <1>1 DEF RecoverCompanyOwner, Standing
<1>2. ASSUME NEW u \in Users, NEW standing \in Standing,
           UpsertCompanyMembership(u, standing)
    PROVE  CompanyHasOwner'
  BY <1>2 DEF UpsertCompanyMembership, Standing
<1>3. ASSUME NEW u \in Users, FinalizeCompanyInvitation(u) PROVE CompanyHasOwner'
  BY <1>3 DEF FinalizeCompanyInvitation, Standing
<1>4. ASSUME NEW a \in Users, NEW u \in Users, PromoteCompanyAdmin(a, u) PROVE CompanyHasOwner'
  BY <1>4 DEF PromoteCompanyAdmin, Standing
<1>5. ASSUME NEW a \in Users, NEW u \in Users, RemoveCompanyAdmin(a, u) PROVE CompanyHasOwner'
  BY <1>5 DEF RemoveCompanyAdmin, Standing
<1>6. ASSUME NEW a \in Users, NEW u \in Users, TransferCompanyOwnership(a, u) PROVE CompanyHasOwner'
  BY <1>6 DEF TransferCompanyOwnership, Standing
<1>7. ASSUME NEW a \in Users, NEW ts \in SUBSET Teams, NEW u \in Users,
           GrantCompanyTeamAccess(a, ts, u)
    PROVE  CompanyHasOwner'
  BY <1>7 DEF GrantCompanyTeamAccess
<1>8. ASSUME NEW t \in Teams, NEW u \in Users,
           CreateCompanyAccessRequest(t, u)
    PROVE  CompanyHasOwner'
  BY <1>8 DEF CreateCompanyAccessRequest
<1>9. ASSUME NEW a \in Users, NEW t \in Teams, NEW u \in Users,
           ApproveRequest(a, t, u)
    PROVE  CompanyHasOwner'
  BY <1>9 DEF ApproveRequest
<1>10. ASSUME NEW a \in Users, NEW t \in Teams, NEW u \in Users,
           DenyOrCancelRequest(a, t, u)
    PROVE  CompanyHasOwner'
  BY <1>10 DEF DenyOrCancelRequest
<1>11. ASSUME NEW a \in Users, NEW t \in Teams, NEW u \in Users,
           RevokeCompanyTeamAccess(a, t, u)
    PROVE  CompanyHasOwner'
  BY <1>11 DEF RevokeCompanyTeamAccess
<1>12. ASSUME NEW t \in Teams, NEW u \in Users, CreateTeam(t, u) PROVE CompanyHasOwner'
  BY <1>12 DEF CreateTeam
<1>13. ASSUME NEW a \in Users, NEW t \in Teams, NEW u \in Users,
           CreateTeamWithOwner(a, t, u)
    PROVE  CompanyHasOwner'
  BY <1>13 DEF CreateTeamWithOwner
<1>14. ASSUME NEW a \in Users, NEW t \in Teams, ArchiveTeam(a, t) PROVE CompanyHasOwner'
  BY <1>14 DEF ArchiveTeam
<1>15. ASSUME NEW t \in Teams, ThirtyDaysPass(t) PROVE CompanyHasOwner'
  BY <1>15 DEF ThirtyDaysPass
<1>16. ASSUME NEW a \in Users, NEW t \in Teams, ReactivateTeam(a, t) PROVE CompanyHasOwner'
  BY <1>16 DEF ReactivateTeam
<1>17. ASSUME NEW a \in Users, NEW t \in Teams, DeleteTeamPermanently(a, t) PROVE CompanyHasOwner'
  BY <1>17 DEF DeleteTeamPermanently
<1>18. ASSUME NEW a \in Users, NEW t \in Teams, NEW u \in Users,
           AddTeamOwner(a, t, u)
    PROVE  CompanyHasOwner'
  BY <1>18 DEF AddTeamOwner
<1>19. ASSUME NEW a \in Users, NEW t \in Teams, NEW u \in Users, NEW role \in Direct,
           RemoveTeamOwner(a, t, u, role)
    PROVE  CompanyHasOwner'
  BY <1>19 DEF RemoveTeamOwner
<1>20. ASSUME NEW a \in Users, NEW t \in Teams, NEW u \in Users, NEW role \in Direct,
           AddTeamMember(a, t, u, role)
    PROVE  CompanyHasOwner'
  BY <1>20 DEF AddTeamMember
<1>21. ASSUME NEW t \in Teams, NEW u \in Users, NEW role \in Direct,
           SetRole(t, u, role)
    PROVE  CompanyHasOwner'
  BY <1>21 DEF SetRole
<1>22. ASSUME NEW t \in Teams, NEW u \in Users, NEW status \in Statuses,
           SetMembershipStatus(t, u, status)
    PROVE  CompanyHasOwner'
  BY <1>22 DEF SetMembershipStatus
<1>23. ASSUME NEW a \in Users, NEW t \in Teams, NEW u \in Users, NEW role \in Direct,
           ReadInvitee(a, t, u, role)
    PROVE  CompanyHasOwner'
  BY <1>23 DEF ReadInvitee
<1>24. ASSUME NEW i \in inviting, WriteInvitation(i) PROVE CompanyHasOwner'
  BY <1>24 DEF WriteInvitation
<1>25. ASSUME NEW t \in Teams, NEW u \in Users, JoinTeam(t, u) PROVE CompanyHasOwner'
  BY <1>25 DEF JoinTeam
<1>26. CASE UNCHANGED vars
  BY <1>26 DEF vars
<1> QED
  BY <1>1, <1>2, <1>3, <1>4, <1>5, <1>6, <1>7, <1>8, <1>9, <1>10, <1>11, <1>12, <1>13,
     <1>14, <1>15, <1>16, <1>17, <1>18, <1>19, <1>20, <1>21, <1>22, <1>23, <1>24, <1>25, <1>26
     DEF Next, CompanyNext, AccessNext, TeamNext, MemberNext

LEMMA TeamOwnerStays ==
  ASSUME TypeOK, [Next]_vars, NEW s \in Teams, HasOwner(s) PROVE TeamKeepsOwner(s)
<1>0. member' = member => TeamKeepsOwner(s)
  BY DEF TeamKeepsOwner, HasOwner, IsTeamOwner
<1>1. ASSUME NEW u \in Users, RecoverCompanyOwner(u) PROVE TeamKeepsOwner(s)
  BY <1>1, <1>0 DEF RecoverCompanyOwner
<1>2. ASSUME NEW u \in Users, NEW standing \in Standing,
           UpsertCompanyMembership(u, standing)
    PROVE  TeamKeepsOwner(s)
  BY <1>2, <1>0 DEF UpsertCompanyMembership
<1>3. ASSUME NEW u \in Users, FinalizeCompanyInvitation(u) PROVE TeamKeepsOwner(s)
  BY <1>3, <1>0 DEF FinalizeCompanyInvitation
<1>4. ASSUME NEW a \in Users, NEW u \in Users, PromoteCompanyAdmin(a, u) PROVE TeamKeepsOwner(s)
  BY <1>4, <1>0 DEF PromoteCompanyAdmin
<1>5. ASSUME NEW a \in Users, NEW u \in Users, RemoveCompanyAdmin(a, u) PROVE TeamKeepsOwner(s)
  BY <1>5, <1>0 DEF RemoveCompanyAdmin
<1>6. ASSUME NEW a \in Users, NEW u \in Users,
           TransferCompanyOwnership(a, u)
    PROVE  TeamKeepsOwner(s)
  BY <1>6, <1>0 DEF TransferCompanyOwnership
<1>7. ASSUME NEW a \in Users, NEW ts \in SUBSET Teams, NEW u \in Users,
           GrantCompanyTeamAccess(a, ts, u)
    PROVE  TeamKeepsOwner(s)
  BY <1>7, <1>0 DEF GrantCompanyTeamAccess
<1>8. ASSUME NEW t \in Teams, NEW u \in Users,
           CreateCompanyAccessRequest(t, u)
    PROVE  TeamKeepsOwner(s)
  BY <1>8, <1>0 DEF CreateCompanyAccessRequest
<1>9. ASSUME NEW a \in Users, NEW t \in Teams, NEW u \in Users,
           ApproveRequest(a, t, u)
    PROVE  TeamKeepsOwner(s)
  BY <1>9, <1>0 DEF ApproveRequest
<1>10. ASSUME NEW a \in Users, NEW t \in Teams, NEW u \in Users,
           DenyOrCancelRequest(a, t, u)
    PROVE  TeamKeepsOwner(s)
  BY <1>10, <1>0 DEF DenyOrCancelRequest
<1>11. ASSUME NEW a \in Users, NEW t \in Teams, NEW u \in Users,
           RevokeCompanyTeamAccess(a, t, u)
    PROVE  TeamKeepsOwner(s)
  BY <1>11, <1>0 DEF RevokeCompanyTeamAccess
<1>12. ASSUME NEW t \in Teams, NEW u \in Users, CreateTeam(t, u) PROVE TeamKeepsOwner(s)
  BY <1>12, OtherOwnersStay DEF TeamKeepsOwner, CreateTeam
<1>13. ASSUME NEW a \in Users, NEW t \in Teams, NEW u \in Users,
           CreateTeamWithOwner(a, t, u)
    PROVE  TeamKeepsOwner(s)
  BY <1>13, OtherOwnersStay DEF TeamKeepsOwner, CreateTeamWithOwner
<1>14. ASSUME NEW a \in Users, NEW t \in Teams, ArchiveTeam(a, t) PROVE TeamKeepsOwner(s)
  BY <1>14, <1>0 DEF ArchiveTeam
<1>15. ASSUME NEW t \in Teams, ThirtyDaysPass(t) PROVE TeamKeepsOwner(s)
  BY <1>15, <1>0 DEF ThirtyDaysPass
<1>16. ASSUME NEW a \in Users, NEW t \in Teams, ReactivateTeam(a, t) PROVE TeamKeepsOwner(s)
  BY <1>16, <1>0 DEF ReactivateTeam
<1>17. ASSUME NEW a \in Users, NEW t \in Teams, DeleteTeamPermanently(a, t) PROVE TeamKeepsOwner(s)
  <2>1. CASE s = t
    BY <1>17, <2>1 DEF DeleteTeamPermanently, TeamKeepsOwner, Exists, TypeOK
  <2>2. CASE ~(s = t)
    <3>1. member'[s] = member[s]
      BY <1>17, <2>2 DEF DeleteTeamPermanently, TypeOK
    <3> QED BY <3>1 DEF TeamKeepsOwner, HasOwner, IsTeamOwner
  <2> QED BY <2>1, <2>2
<1>18. ASSUME NEW a \in Users, NEW t \in Teams, NEW u \in Users,
           AddTeamOwner(a, t, u)
    PROVE  TeamKeepsOwner(s)
  BY <1>18, OtherOwnersStay DEF TeamKeepsOwner, AddTeamOwner
<1>19. ASSUME NEW a \in Users, NEW t \in Teams, NEW u \in Users, NEW role \in Direct,
           RemoveTeamOwner(a, t, u, role)
    PROVE  TeamKeepsOwner(s)
  BY <1>19, OtherOwnersStay DEF TeamKeepsOwner, RemoveTeamOwner
<1>20. ASSUME NEW a \in Users, NEW t \in Teams, NEW u \in Users, NEW role \in Direct,
           AddTeamMember(a, t, u, role)
    PROVE  TeamKeepsOwner(s)
  BY <1>20, OtherOwnersStay DEF TeamKeepsOwner, AddTeamMember, IsTeamOwner, Row
<1>21. ASSUME NEW t \in Teams, NEW u \in Users, NEW role \in Direct,
           SetRole(t, u, role)
    PROVE  TeamKeepsOwner(s)
  BY <1>21, OtherOwnersStay DEF TeamKeepsOwner, SetRole, IsTeamOwner, Row
<1>22. ASSUME NEW t \in Teams, NEW u \in Users, NEW status \in Statuses,
           SetMembershipStatus(t, u, status)
    PROVE  TeamKeepsOwner(s)
  <2>1. IsTeamOwner(t, u) => Row(status, member[t][u].role) = Row("active", "owner")
    BY <1>22 DEF SetMembershipStatus, IsTeamOwner, Row
  <2> QED BY <1>22, <2>1, OtherOwnersStay DEF TeamKeepsOwner, SetMembershipStatus
<1>23. ASSUME NEW a \in Users, NEW t \in Teams, NEW u \in Users, NEW role \in Direct,
           ReadInvitee(a, t, u, role)
    PROVE  TeamKeepsOwner(s)
  BY <1>23, <1>0 DEF ReadInvitee
<1>24. ASSUME NEW i \in inviting, WriteInvitation(i) PROVE TeamKeepsOwner(s)
  <2>1. i.team \in Teams /\ i.user \in Users
    BY DEF TypeOK, Invitation
  <2>2. CASE s = i.team /\ IsTeamOwner(s, i.user)
    BY <1>24, <2>2 DEF TeamKeepsOwner
  <2>3. CASE ~(s = i.team /\ IsTeamOwner(s, i.user))
    BY <1>24, <2>1, <2>3, OtherOwnersStay DEF TeamKeepsOwner, WriteInvitation
  <2> QED BY <2>2, <2>3
<1>25. ASSUME NEW t \in Teams, NEW u \in Users, JoinTeam(t, u) PROVE TeamKeepsOwner(s)
  BY <1>25, OtherOwnersStay DEF TeamKeepsOwner, JoinTeam, OwnsSomeTeam
<1>26. CASE UNCHANGED vars
  BY <1>26, <1>0 DEF vars
<1> QED
  BY <1>1, <1>2, <1>3, <1>4, <1>5, <1>6, <1>7, <1>8, <1>9, <1>10, <1>11, <1>12, <1>13,
     <1>14, <1>15, <1>16, <1>17, <1>18, <1>19, <1>20, <1>21, <1>22, <1>23, <1>24, <1>25, <1>26
     DEF Next, CompanyNext, AccessNext, TeamNext, MemberNext

\* No step leaves a Team or the company without the owner it has, but for a stale invitation.
THEOREM OwnersAlwaysRemain == Spec => OwnersRemain
<1>1. AuthorityInv /\ [Next]_vars =>
        [/\ CompanyHasOwner => CompanyHasOwner'
         /\ \A t \in Teams : HasOwner(t) =>
              \/ HasOwner(t)'
              \/ ~Exists(t)'
              \/ \E i \in inviting : i.team = t /\ IsTeamOwner(t, i.user) /\ WriteInvitation(i)]_vars
  BY CompanyOwnerStays, TeamOwnerStays DEF AuthorityInv, TeamKeepsOwner
<1> QED BY <1>1, AlwaysInv, PTL DEF Spec, OwnersRemain
=============================================================================
