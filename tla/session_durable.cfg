SPECIFICATION Spec
CONSTANTS
  Message = {a}
  Summary = {s1}
  NoSummary = NoSummary
  NoSession = NoSession
  NoMeta = NoMeta
  NoSwitch = NoSwitch
  MaxEvents = 2
  MaxInFlight = 1
  MaxCount = 1
  MaxFaults = 0
SYMMETRY Symmetry
INVARIANT Durable
