\* Two threads, one key that fits.
SPECIFICATION Spec
CONSTANTS
  w1 = w1
  w2 = w2
  k1 = k1
  Worker = {w1, w2}
  Key = {k1}
CHECK_DEADLOCK FALSE
INVARIANT
  NoneMeansAborted
