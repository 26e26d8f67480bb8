CONSTANTS
  Base = 2
  ReadChunk = 13
  Senders = {hb, listen}
  NoSender = NoSender
  Msgs <- MCMsgs
  MaxSends = 2
SPECIFICATION FairSpec
INVARIANTS
  InOrder
  NoPanic
PROPERTIES
  ChannelSpec
  AllDelivered
CHECK_DEADLOCK FALSE
