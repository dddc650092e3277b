CONSTANTS
  Parts = {"line", "files", "matching", "pinning", "signature", "code",
           "trampoline", "sql", "http", "genai", "dsn", "clients",
           "kafka"}
  Words <- MCWords
  MaxWords = 3
  Environments <- MCEnvironments
  RuleFile <- MCRuleFile
  Current = 2
  CustomLists <- MCLists
  ToolLists <- MCLists
  Plans <- OwnPaths
  RuleSets <- MCRuleSets
  Clauses <- MCClauses
  FileOf <- MCFileOf
  RootModules = {"p"}
  Resolvable = {"hooks"}
  Projects <- MCProjects
  Signatures <- MCSignatures
  CodeFiles <- MCCodeFiles
  CodeRuleLists <- MCCodeLists
  RealName <- MCRealName
  GuessedName <- MCGuessedName
  KnownNames = {"net/http", "otel"}
  Declarations <- MCDeclarations
  Receivers <- MCReceivers
  RuleLists <- MCRuleLists
  Slots = {"typed", "generic"}
  MaxDepth = 2
  Databases = {"d"}
  Queries = {"SELECT"}
  MaxHandles = 4
  MaxSqlSpans = 2
  Clients = {c1, c2}
  Codes = {103, 404, 500}
  WriterCalls = {"WriteHeader", "Write", "Flush", "Hijack"}
  MaxHttpSpans = 3
  Texts <- MCTexts
  Indexes = {1, 2}
  MaxLines = 3
  MaxStreams = 1
  KeepBytes = 2
  Hosts <- MCHosts
  Ports <- MCPorts
  DsnDatabases <- MCDatabases
  Passwords <- MCPasswords
  Params <- MCParams
  Switches <- MCSwitches
  MaxClientCalls = 4
  Goroutines = {g1, g2}
  MaxMessages = 2
  MaxWrites = 4
SPECIFICATION MCSpec
INVARIANTS
  SameBuildAsAsked FilesApplyAsListed RulesReachTheirCompile InjectedCodeIsMatched
  FitsTarget
  QualifiersResolve EditsReachNestedSites
  HooksPaired CallOutcome SuppressionBalanced
  SpansDescribeTheirHandle CommitsJoinBegin
  TraceContinues HttpSpansTell
  EndedOnce StatusTellsOutcome CaptureIgnoresChunks
  DsnPartsFound
  HooksStayBalanced OneSpanPerOperation WritesTellTheirOutcome
PROPERTY PinSettles
CHECK_DEADLOCK FALSE
