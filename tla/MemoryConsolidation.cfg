SPECIFICATION Spec
CONSTANTS
  c1 = c1
  c2 = c2
  k1 = k1
  k2 = k2
  Captures = {c1, c2}
  Clients = {k1, k2}
  Admins = {a1}
  Batches = {b1, b2}
  NoBatch = NoBatch
  Session <- OneSession
  Threshold = 2
  Dispositions = {"publish", "review"}
  Scenarios <- SmallScenarios
INVARIANTS
  TypeOK
  ClaimedIsHeld
  WorkHasContent
PROPERTY
  CapturesSettle
CHECK_DEADLOCK FALSE
