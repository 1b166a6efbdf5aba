\* Both ends, all chunkings, short sends, timeouts and closes, and a program that
\* reads whenever select() reports the socket.
SPECIFICATION Spec
CONSTANTS
  Host = host
  Client = client
  RawLen = 2
  ReadyLen = 2
  HeaderSize = 2
  Limit = 2
  Sizes = {0, 2, 3}
  MaxPackets <- OneAndTwo
  ShortSends = TRUE
  Timeouts = TRUE
INVARIANTS
  TypeOK
  InBounds
  FramesAligned
PROPERTIES
  ImplementsChannel
  RefusedForGood
  ConnectReturns
  EveryPacketDelivered
CHECK_DEADLOCK FALSE
