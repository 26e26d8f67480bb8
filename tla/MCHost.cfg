SPECIFICATION FairSpec
CONSTANTS
  Infos <- MCInfos
  Items = {"os"}
  Leases = {l1, l2}
  NoLease = NoLease
  Handles = {h1, h2}
  NoHandle = NoHandle
  Cap = 1
INVARIANTS
  KeysKept
  NoUseAfterClose
  RangedIsOpen
PROPERTIES
  QuietStart
  Reregisters
  GoneIsUnlisted
  OffEnds
  LeftBehindStalls
CHECK_DEADLOCK FALSE
