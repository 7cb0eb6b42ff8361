CONSTANTS
  SIZE = 3
  Readings = {0, 1, 5}
  Sizes = {3}
  LENGTH = 5
SPECIFICATION Spec
INVARIANT LastIsLatest
