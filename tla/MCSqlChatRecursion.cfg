SPECIFICATION Spec
CONSTANTS
  Thread = {t1}
  Run = {r1, r2}
  SyncRun = {}
  MaxCalls = 2
  KeepRecent = 3
  Faults = {"recursion"}
  None = None
INVARIANTS HistoryAnswered
