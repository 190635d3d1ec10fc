\* Two puts over a network that replays, with other software on it, an oversized
\* record and stores with room for one key; see MCBound.
SPECIFICATION Spec
CONSTANTS
  alice = alice
  carol = carol
  n1 = n1
  n2 = n2
  here = here
  big = big
  Pubkey = {alice, carol}
  Owner = {alice}
  Hash <- MCHash
  MaxKeyidLen = 2
  MaxRecordBytes = 2
  RecordVersion = 1
  Home <- MCHome
  KeyidLen <- MCKeyidLen
  Locations = {here, big}
  RecordSize <- MCRecordSize
  Node = {n1, n2}
  Keyids <- MCKeyids
  Foreign <- MCForeign
  RecordTtl = 2
  MaxSkew = 1
  MaxFutureSkew = 2
  ResolveTimeout = 1
  PeerLo <- MCPeerLo
  PeerHi = 0
  OwnerLo <- MCZero
  OwnerHi <- MCZero
  MaxRecords = 1
  StartTime = 2
  MaxTime = 5
  MaxPuts = 2
  MaxCandidates = 2
CONSTRAINT MCBound
INVARIANTS
  TypeOK
  ResolvedGenuine
  LockoutBounded
  NoRollback
