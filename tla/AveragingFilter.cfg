CONSTANTS
  SIZE = 3
  Readings = {0, 1, 5}
  Sizes = {2, 3, 4}
  LENGTH = 5
SPECIFICATION Spec
INVARIANTS
  WindowAverage
  LastAverages
