SPECIFICATION Spec
CONSTANTS
  m1 = m1  m2 = m2  m3 = m3  k1 = k1  k2 = k2  j1 = j1
  NoQuote = NoQuote  NoMsg = NoMsg
  Msg = {m1, m2, m3}
  Key = {k1}
  Bucket <- OneBucket
  Steering = {m2, m3}
  Job = {j1}
  JobSession <- NoJobs
  Quote <- NoQuotes
  InboundCap = 2
  SessionCap = 1
  SteerCap = 1
  OutboundCap = 1
  MaxConcurrency = 1
  MaxIter = 2
  QueueModes = {TRUE, FALSE}
INVARIANTS TypeOK SteersEarlierRun BucketFIFO
PROPERTY RefinesSessionQueues
CHECK_DEADLOCK FALSE
