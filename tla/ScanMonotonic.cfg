CONSTANTS
  Workers = {w1, w2, w3}
  Slices = 5
  Stride = 2
SPECIFICATION Spec
INVARIANT CallbacksMonotonic
CHECK_DEADLOCK FALSE
