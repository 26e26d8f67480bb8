CONSTANTS
  a1 = a1
  a2 = a2
  b1 = b1
  x1 = x1
  idA = idA
  idB = idB
  k1 = k1
  k2 = k2
  Conns = {a1, a2, b1, x1}
  Ids = {idA, idB}
  NoId = NoId
  IdOf <- MCIdOf
  NoConn = NoConn
  Workers = {w1}
  Callers = {k1, k2}
  NoOne = NoOne
  IpLists <- MCIpLists
SYMMETRY MCSymmetry
SPECIFICATION Spec
INVARIANTS
  RegistryMatchesHandlers
  ExclusiveWrite
  MulticastExact
  NoCircularWait
