SPECIFICATION PagesSpec
CONSTANTS
  Views = {"wizard", "picker", "target", "blueprint", "experiment", "lists", "filters", "decisions",
           "favourites", "chart", "system", "users", "registration",
           "session", "documentation", "model"}
  Configs <- MCConfigs
  Builtin <- MCBuiltin
  Metadata <- MCMetadata
  Reuse <- MCReuse
  Token = {"1"}
  Count = {0, 1, 2}
  AdminCap = 1
  Market <- MCMarket
  Week = 3
  Unit = 8
  Nearest <- MCNearest
  Rounding = 1
  Tolerance = 5
  Percent <- MCPercent
  MaxSubmits = 1
  NoBlueprint = NoBlueprint
  NoReuse = NoReuse
  Nested = Nested
  Listing <- MCListing
  Reused = "b3"
  MaxInFlight = 2
  NoOption = NoOption
  Target = {"forward_return", "roc"}
  Labels <- MCLabels
  MaxPreviews = 3
  NoPreview = NoPreview
  Fallback <- MCFallback
  Published <- MCPublished
  TypedToken = {"1", "2"}
  SourceId = "7"
  MaxBlueprints = 1
  NoArchitecture = "none"
  Executed <- MCExecuted
  Ranking <- MCRanking
  Positive = {"m1"}
  Zero = {"m2"}
  LeaderboardSize = 2
  Cluster <- MCCluster
  PageSize = 1
  HistoryLimit = 2
  MaxLoads = 2
  MaxRetries <- MCRetries
  NoModel = "none"
  NoPoint = "none"
  PagesOf <- MCPagesOf
  NoFilter = "all"
  MaxListLoads = 2
  Subjects = {s1}
  Focus = s1
  MaxCalls = 2
  Unknown = Unknown
  Items = {i1, i2}
  MaxClicks = 2
  MaxTime = 3
  PageLen = 2
  MaxFetches = 2
  Lowest <- MCLowest
  Highest <- MCHighest
  Standard <- MCStandard
  Typed <- MCTyped
  MaxSysCalls = 2
  ColumnType <- MCColumnType
  FirstColumn = "sharpe"
  Operands = {1, 2}
  Legible <- MCLegible
  NoOperand = 0
  MaxRules = 1
  Codes = {0, 204, 503}
  FetchLimit = 2
  MaxEvents = 3
  Me = me
  Others = {it}
  Targets = {it}
  Grants = {"Moderator"}
  Nobody_ = Nobody_
  MaxUserCalls = 2
  RoleOf <- MCRoleOf
  Entry = {"home", "login", "users", "system", "moderation"}
  MaxAuthCalls = 2
  Drafts <- MCDrafts
  MaxJoins = 2
  NoUser = NoUser
  Index <- MCIndex
  MaxLines = 3
  MaxDocCalls = 2
  NoDoc = NoDoc
  Models <- MCModels
  Null = Null
INVARIANTS
  PagesTypeOK
  AnswersFitTogether
  SentIsShown
  RowsAreOfQuery
  StarsAreServers
  ChartIsOnThePage
  SeriesHasTheCandles
  EveryLoadingEnds
  DeedsWereAllowed
  AuditIsOfTarget
  SignedInIsReal
  NavigationFits
  ReadingIsFaithful
PROPERTIES
  ChangesWereChecked
  StatesShownWereReal
SYMMETRY ItemSymmetry
CHECK_DEADLOCK FALSE
