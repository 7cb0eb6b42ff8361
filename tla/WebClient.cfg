CONSTANTS
  Clients = {c1, c2}
  Positions <- RestAndCurve
  Scales = {5, 100}
  INTERVAL = 2
  CI_WDT = 4
  DELAY = 1
  LOADS = 2
  c1 = c1
  c2 = c2
SYMMETRY ClientSymmetry
SPECIFICATION Spec
INVARIANTS
  TypeOK
  SilentStops
  HeldDrives
  ReleaseObeyed
