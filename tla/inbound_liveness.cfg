SPECIFICATION FairSpec
CONSTANTS
  m1 = m1  m2 = m2  m3 = m3  k1 = k1  k2 = k2  j1 = j1
  NoQuote = NoQuote  NoMsg = NoMsg
  Msg = {m1, m2}
  Key = {k1, k2}
  Bucket <- TwoBuckets
  Steering = {}
  Job = {}
  JobSession <- NoJobs
  Quote <- NoQuotes
  InboundCap = 1
  SessionCap = 1
  SteerCap = 1
  OutboundCap = 1
  MaxConcurrency = 1
  MaxIter = 1
  QueueModes = {TRUE}
INVARIANT ConcurrencyBound
PROPERTIES AcceptedIsSettled WorkersExit
CHECK_DEADLOCK FALSE
