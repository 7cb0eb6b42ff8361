CONSTANTS
  QLEN = 2
  CI_WDT = 8
  CI_BATT = 10
  PERIOD = 1
  CALL = 2
  GIVE_UP = 10
SPECIFICATION Spec
INVARIANT WatchdogInterval
