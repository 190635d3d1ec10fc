\* Minutes instead of seconds; one failed round in a row in a good network.
SPECIFICATION FairSpec
CONSTANTS
  home = home
  away = away
  abroad = abroad
  Locations = {home, away, abroad}
  MaxAddrs = 2
  RecordTtl = 10
  MaxSkew = 5
  Settle = 1
  Retry = 1
  PutTimeout = 1
  MaxFails = 1
  AgeCap = 12
INVARIANTS
  TypeOK
  CopyKept
  AgeBounded
PROPERTY
  LocationFollowed
