SPECIFICATION ResSpec
CONSTANTS
  ResTurn = {t1}
  SyncTurn = {}
  ResRequest = {x1}
  MaxToolCalls = 2
  Empty = Empty
  ToolError = ToolError
  Refused = Refused
INVARIANT ChartCanBeRefreshed
