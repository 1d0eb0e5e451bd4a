SPECIFICATION Spec
CONSTANTS
  j1 = j1  j2 = j2
  r1 = r1  r2 = r2  r3 = r3  r4 = r4  r5 = r5
  Job = {j1, j2}
  Kind <- EveryAndAt
  Interval = 2
  RunId = {r1, r2, r3, r4, r5}
  NoRun = NoRun
  NoTime = NoTime
  NoTick = NoTick
  NoJob = NoJob
  HistoryLimit = 1
  SaveMayFail = FALSE
SYMMETRY RunSymmetry
INVARIANT ReminderScheduled
