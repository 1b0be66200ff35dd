SPECIFICATION FairSpec
CONSTANTS
  Thread = {t1}
  Run = {r1, r2}
  SyncRun = {r2}
  MaxCalls = 2
  KeepRecent = 3
  Faults = {"connect", "disconnect", "error", "recursion", "crash"}
  None = None
INVARIANTS IInv NoDanglingResult
PROPERTIES EveryRunLeaves
