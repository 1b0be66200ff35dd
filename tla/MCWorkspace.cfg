SPECIFICATION WorkSpec
CONSTANTS
  SqlThread = {c1, c2}
  SecondChat = c2
  SchemaThread = {p1}
  Request = {q1, q2, q3}
  Faults = {"turn", "index", "checkpointer"}
  TitleLimit = 1
  ContentLimit = 2
  Old = Old
  None = None
  Object <- Objects
  View <- Views
  DefaultSchema = "s1"
  ConnId = {k1, k2}
  ConnRequest = {1, 2}
  NoConn = NoConn
  Fact <- Facts
  Secret <- Secrets
  Blank = Blank
  MemoryId = {1, 2, 3}
  MemRequest = {1, 2}
  Earlier = Earlier
  NoMemory = NoMemory
  ResTurn = {t1}
  SyncTurn = {t2}
  ResRequest = {r1}
  MaxToolCalls = 3
  Empty = Empty
  ToolError = ToolError
  Refused = Refused
  AccRequest = {1, 2, 3, 4}
  First = First
  NoUser = NoUser
  HistMessage <- Messages
  MaxHistory = 4
  KeepRecent = 2
  SchemaTable <- Tables
  MaxTables = 2
  MaxStatements = 2
  MaxArtifacts = 10
  AgTurn = {1, 2}
  MaxRounds = 2
  NoArt = NoArt
  OldArt = OldArt
SYMMETRY Symmetry
INVARIANTS PartsIInv SearchIsExact OfferedIsEnabled NoSecretStored OncePerTurn RunHasItsSql
  ChartShowsLinkedRun ResetEndsSessions HistoryIsFaithful ViewsAgree CompactionCutsTurns IssuesMatchReference NoIssueHidden
  MostSpecificFirst
PROPERTIES ReindexRepairs StarredIsKept DeleteIsWhole MergeKeepsChoices TurnIsAllOrNothing
