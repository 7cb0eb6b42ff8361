CONSTANTS
  BUF = 6
  SLAVE_IDLE = 1
  RECV_IDLE = 2
  LATENCY = 3
  MAX_RETRY = 2
  STATS_CAP = 3
  Pins = {3}
  Samples = {513}
  PinModeCalls = {}
  InitPwmCalls = {}
  PwmDutyCalls <- MotorCalls
  AnalogPins = {}
SPECIFICATION Spec
INVARIANTS
  AttemptStartsClean
  TimeoutMeansDisturbed
  StatsOrdered
  NoTextCommand
PROPERTY
  DutyRegisterSpec
