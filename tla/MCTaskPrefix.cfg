SPECIFICATION Spec
CONSTANTS
  s1 = s1
  s2 = s2
  p1 = p1
  f1 = f1
  ip1 = ip1
  ip11 = ip11
  None = None
  Empty = Empty
  TaskIds = {t1, t2}
  Requests <- MCShells
  Kind <- MCKind
  IpList <- MCIpList
  Ips <- MCIps
  Prefix <- MCPrefix
  Rank <- MCRank
INVARIANT
  OwnOutput
