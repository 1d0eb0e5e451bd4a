SPECIFICATION FairSpec
CONSTANTS
  c1 = c1  c2 = c2
  Channels = {c1}
  Messages = {1, 2, 3}
  Notified = {3}
  To <- OneChannel
  Chunks <- FirstInTwo
  QueueSize = 1
  MaxRetries = 1
  Managers = {1, 2}
  MaxStarts = 2
  MayStop = TRUE
INVARIANTS TypeOK InOrder
PROPERTIES QuietStop MessagesSettle ShutdownEnds
CHECK_DEADLOCK FALSE
