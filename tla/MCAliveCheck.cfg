SPECIFICATION FairSpec
CONSTANTS
  a = a
  b = b
  c = c
  d = d
  Ids <- MCIds
  Rows <- MCRows
  MaxOpenConns = 2
INVARIANTS
  PoolAccounts
  QuietRoundAgrees
PROPERTIES
  RoundsEnd
  Converges
  TableSpec
