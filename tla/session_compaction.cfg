SPECIFICATION CSpec
CONSTANTS
  Message = {a, b, c}
  Summary = {{}, {a}, {b}, {c}, {a, b}, {a, c}, {b, c}, {a, b, c}}
  NoSummary = {}
  NoSession = NoSession
  NoMeta = NoMeta
  NoSwitch = NoSwitch
  MaxEvents = 6
  MaxCount = 1
  MaxInFlight = 1
  MaxFaults = 0
  MinHistory = 1
SYMMETRY Symmetry
PROPERTY NothingForgotten
