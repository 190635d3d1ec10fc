\* Two commands at a time, one of them with a search; a keyring that holds the
\* secret does not fail.
SPECIFICATION CSpec
CONSTANTS
  p1 = p1
  p2 = p2
  k1 = k1
  k2 = k2
  w1 = w1
  w2 = w2
  Proc = {p1, p2}
  Secret = {k1, k2}
  Worker = {w1, w2}
  Vanity = {k1}
  Wanting = {p1}
  PrefixLen = 20
  PrefixBase32 = TRUE
  MaxKeyidLen = 52
  Lens = {16, 26}
  DefaultLen = 26
  Torn = Torn
  MayFail = FALSE
INVARIANTS
  CTypeOK
  InitSticks
  ForgetForgets
  RacingInits
PROPERTIES
  NeverClobbers
  InterruptEnds
