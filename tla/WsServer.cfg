CONSTANTS
  Addresses = {a1, a2}
  QLEN = 1
  ID_RANGE = 3
  OPENS = 3
  MESSAGES = 2
  DATAGRAMS = 1
  a1 = a1
  a2 = a2
SPECIFICATION FairSpec
CHECK_DEADLOCK FALSE
INVARIANTS
  TypeOK
  TablesExact
  RepliesBalance
  BroadcastComplete
PROPERTIES
  IterationSafe
  DiesOnlyInCloseWindow
  StatsAnswered
  WindowCloses
