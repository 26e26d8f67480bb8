SPECIFICATION FairSpec
CONSTANTS
  Goroutines <- MCFive
  NoOne = NoOne
INVARIANTS
  SessionIsolation
  FreshSession
  AgentInv
PROPERTIES
  InvalidIsFinal
  Reconnects
CHECK_DEADLOCK FALSE
