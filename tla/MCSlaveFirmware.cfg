CONSTANTS
  Console <- Everything
  BUF = 8
  SLAVE_IDLE = 1
  Pins = {3, 5, 9}
  Samples = {0, 513}
  COMMANDS = 3
SPECIFICATION MCSpec
INVARIANTS
  FirmwareTypeOK
  Framing
  OutputsConfigured
