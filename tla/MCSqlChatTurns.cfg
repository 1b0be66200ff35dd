SPECIFICATION Spec
CONSTANTS
  Thread = {t1}
  Run = {r1, r2, r3}
  SyncRun = {}
  MaxCalls = 2
  KeepRecent = 3
  Faults = {"delete"}
  None = None
SYMMETRY Symmetry
INVARIANTS CopyIsCurrent FinishedTurnsAnswered FailedChatDropped
  HistoriesAreWhole
PROPERTIES ImplementsConversation AnswerIsOwn
