\* A resolver and a publisher on a channel that holds one command.
SPECIFICATION Spec
CONSTANTS
  r1 = r1
  s1 = s1
  good = good
  junk = junk
  huge = huge
  Resolver = {r1}
  Publisher = {s1}
  Good = {good}
  Bad = {junk}
  Huge = {huge}
  Capacity = 1
  ResolveTimeout = 4
  Pause = 1
  QueryTimeout = 2
  MaxFound = 2
  MaxAddrs = 2
CHECK_DEADLOCK FALSE
INVARIANTS
  TypeOK
  NoLeak
  ResolveBounded
PROPERTIES
  ResolveEnds
  Implements
