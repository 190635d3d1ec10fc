\* Three connections, two slots, two tokens a second, three ticks to the
\* second; the programs at the ends close in the end.
SPECIFICATION ClosingSpec
CONSTANTS
  c1 = c1
  c2 = c2
  c3 = c3
  Conn = {c1, c2, c3}
  MaxConns = 2
  ConnRate = 2
  TicksPerSec = 3
  MaxTime = 4
CHECK_DEADLOCK FALSE
INVARIANTS
  TypeOK
  LiveCountsTasks
  CapHolds
  RateHolds
PROPERTY
  SlotsReturn
