\* A publisher whose clock is at times ahead by the storage side's tolerance.
SPECIFICATION Spec
CONSTANTS
  alice = alice
  carol = carol
  n1 = n1
  n2 = n2
  here = here
  big = big
  Pubkey = {alice}
  Owner = {alice}
  Hash <- MCHash
  MaxKeyidLen = 2
  MaxRecordBytes = 2
  RecordVersion = 1
  Home <- MCHome
  KeyidLen <- MCKeyidLen
  Locations = {here}
  RecordSize <- MCRecordSize
  Node = {n1, n2}
  Keyids <- MCAliceOnly
  Foreign <- MCNoForeign
  RecordTtl = 2
  MaxSkew = 1
  MaxFutureSkew = 2
  ResolveTimeout = 1
  PeerLo = 0
  PeerHi = 0
  OwnerLo <- MCZero
  OwnerHi <- MCFast
  MaxRecords = 1
  StartTime = 2
  MaxTime = 6
  MaxPuts = 2
  MaxCandidates = 2
INVARIANT
  FutureRecordNeverBlocks
