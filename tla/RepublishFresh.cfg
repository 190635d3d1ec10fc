\* The same instance: is the served record always fresh?
SPECIFICATION Spec
CONSTANTS
  home = home
  away = away
  abroad = abroad
  Locations = {home, away, abroad}
  MaxAddrs = 2
  RecordTtl = 10
  MaxSkew = 5
  Settle = 1
  Retry = 1
  PutTimeout = 1
  MaxFails = 1
  AgeCap = 12
INVARIANT
  KeptFresh
