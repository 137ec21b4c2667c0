SPECIFICATION FairSpec
CONSTANTS
  d1 = d1
  d2 = d2
  w1 = w1
  w2 = w2
  Daemon <- OneDaemon
  InProcess <- OneServer
  StaleAge = 1
  NoFile = NoFile
  Torn = Torn
INVARIANTS
  TypeOK
  LeadershipInv
PROPERTIES
  ForeignRecordSurvives
  LostLeaderDemotes
  LeadershipRecovers
CHECK_DEADLOCK FALSE
