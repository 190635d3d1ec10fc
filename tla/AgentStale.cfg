\* Two connections with two requests each, one listener fails.
SPECIFICATION Spec
CONSTANTS
  c1 = c1
  c2 = c2
  here = here
  there = there
  p1 = p1
  p2 = p2
  p3 = p3
  Conn = {c1, c2}
  k = k
  j = j
  v = v
  Word = {k, j, v, "", "minecraft"}
  Length <- MCLength
  Base32 = {k, j, v, "minecraft"}
  Empty = ""
  Suffix = "minecraft"
  MinKeyidLen = 3
  MaxKeyidLen = 3
  MaxVanityLen = 2
  Key = {here, there}
  Keyid <- MCKeyid
  Typed <- MCTyped
  Peer = {here, there}
  PeerOf <- MCPeerOf
  Port = {p1, p2, p3}
  MaxRequests = 2
  MaxExits = 1
CHECK_DEADLOCK FALSE
PROPERTY
  FastPathServes
