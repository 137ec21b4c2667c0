SPECIFICATION PromptSpec
CONSTANTS
  d1 = d1
  d2 = d2
  w1 = w1
  w2 = w2
  Daemon <- RestartedDaemon
  InProcess <- TwoServers
  StaleAge = 0
  NoFile = NoFile
  Torn = Torn
INVARIANT
  OnlyOneHostSchedules
CHECK_DEADLOCK FALSE
