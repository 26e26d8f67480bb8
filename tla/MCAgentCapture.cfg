SPECIFICATION CommandsEndSpec
CONSTANTS
  Goroutines <- MCFive
  NoOne = NoOne
PROPERTIES
  Reconnects
CHECK_DEADLOCK FALSE
