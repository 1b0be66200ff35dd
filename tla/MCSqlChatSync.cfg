SPECIFICATION Spec
CONSTANTS
  Thread = {t1}
  Run = {r1, r2, r3}
  SyncRun = {r2, r3}
  MaxCalls = 2
  KeepRecent = 3
  Faults = {}
  None = None
PROPERTIES NoLostTurn
