SPECIFICATION Spec
CONSTANTS
  Message = {a, b}
  Summary = {s1}
  NoSummary = NoSummary
  NoSession = NoSession
  NoMeta = NoMeta
  NoSwitch = NoSwitch
  MaxEvents = 3
  MaxInFlight = 1
  MaxCount = 1
  MaxFaults = 1
SYMMETRY Symmetry
INVARIANTS TypeOK BranchIsWhole
PROPERTY RefinesConversation
