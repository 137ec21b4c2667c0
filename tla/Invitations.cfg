SPECIFICATION Spec
CONSTANTS
  Request = {r1, r2}
  MaxIssues <- Sent
SYMMETRY AnyRequest
INVARIANTS
  TypeOK
PROPERTIES
  AccountComesWithRole
  SingleUse
  ClaimRespected
