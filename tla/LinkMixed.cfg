CONSTANTS
  BUF = 6
  SLAVE_IDLE = 1
  RECV_IDLE = 2
  LATENCY = 3
  MAX_RETRY = 2
  STATS_CAP = 2
  Pins = {3}
  Samples = {513, 1023}
  PinModeCalls <- OnePinMode
  InitPwmCalls <- OneInitPwm
  PwmDutyCalls <- OnePwmDuty
  AnalogPins = {14}
SPECIFICATION FairSpec
INVARIANTS
  TypeOK
  LinkInv
  UndisturbedInv
  SampleInv
  RetrySendsRequest
PROPERTIES
  CallReturns
  ReadIntegrity
  AckMeansDone
  NoSpuriousCommand
  CallProgress
