\* Two games on one configuration directory, three agents to launch.
SPECIFICATION FairSpec
CONSTANTS
  j1 = j1
  j2 = j2
  Jvm = {j1, j2}
  Pid = {1, 2, 3}
  Torn = Torn
CHECK_DEADLOCK FALSE
INVARIANTS
  TypeOK
  OneChild
PROPERTY
  Recovers
