SPECIFICATION Spec
CONSTANTS
  Users = {u1, u2, u3}
  Teams = {t1}
  MaxInviting = 1
SYMMETRY AnyUser
INVARIANTS
  TypeOK
  AuthorityIsCurrent
  OneCompanyOwner
PROPERTY
  OwnersRemain
