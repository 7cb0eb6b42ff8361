CONSTANTS
  QLEN = 2
  CI_WDT = 2
  CI_THR = 2
  CI_FAN = 2
  CI_BATT = 2
  CI_SLAVE_TRX = 2
  CI_WLAN = 2
  CX_RANGE = 4
  UINT_RANGE = 20000
  UdpFields = {1000, 9999}
  WsSticks <- OneStick
  LedPercents = {50, 90}
  COMMANDS = 2
  FAILURES = 1
SPECIFICATION FairSpec
INVARIANTS
  TypeOK
  MotorsFollow
  DutiesReported
  LedReported
PROPERTY EventuallyStopped
