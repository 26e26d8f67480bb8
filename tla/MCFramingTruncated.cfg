CONSTANTS
  Base = 2
  ReadChunk = 13
  Senders = {hb, listen}
  NoSender = NoSender
  Msgs <- MCMsgs
  MaxSends = 2
SPECIFICATION Spec
INVARIANT
  ReceivedWasSent
CHECK_DEADLOCK FALSE
