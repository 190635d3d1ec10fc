\* Commands one after the other; the keyring comes and goes.
SPECIFICATION Spec
CONSTANTS
  p1 = p1
  p2 = p2
  k1 = k1
  k2 = k2
  k3 = k3
  Proc = {p1}
  Secret = {k1, k2, k3}
  Lens = {16, 26}
  DefaultLen = 26
  Torn = Torn
  MayFail = TRUE
INVARIANT
  NeverAnotherIdentity
