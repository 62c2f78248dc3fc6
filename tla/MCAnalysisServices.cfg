CONSTANTS
  MaxNodes = 4
  MaxChain = 4
  BulkBodies <- MCBulkBodies
  LineBodies <- MCLineBodies
  Exports <- MCExports
  Rules <- MCRules
  DefaultRule <- MCDefaultRule
  Services = {"web"}
  HistorySize = 2
  MaxPolls = 2
  MaxTrouble = 2
  Logs <- MCLogs
  Variables = {"7"}
  Depth = 2
  MaxChildren = 2
  MaxPatterns = 3
  MaxParsed = 5
  Locations = {"east", "west"}
  MaxChecks = 3
  Machines = {"h1", "h2"}
  Namespaces = {"shop"}
  Regions <- MCRegions
  HostLoads <- MCLoads
  MemorySizes = {0, 100}
  Contents <- MCContents
  Costs <- MCCosts
  UnreachableAfter = 0
  PendingAfter = 0
  EventsWithin = 1
  CostLimit = 3
  Midnight = 1
  LastMoment = 1
  MaxReports = 2
  DataServices = {"a", "b"}
  Batches <- MCBatches
  Spans <- MCSpans
  Hour = 0
  SixHours = 1
  Day = 2
  SearchLimit = 4
  TopLimit = 1
  LastHour = 2
  MaxArrivals = 2
  Messages <- MCMessages
  NewFor = 1
  LastTick = 2
  MaxErrors = 2
  MaxResolved = 2
  SpanIds = {1, 2, 3}
  Durations = {1, 2}
  MaxDepth = 2
  MaxTraceRows = 3
  AgentTypes = {"rca", "query"}
  AgentRuns <- MCAgentRuns
  Window = 1
  ListLimit = 5
  LastAgentHour = 2
  MaxWrites = 2
  MaxAgentSpans = 2
  LastInstant = 2
  MaxFlushes = 2
SPECIFICATION AnalysisSpec
INVARIANTS
  SupportedExpressionsWork
  BatchesAreUnderstood
  ConfirmedRuleIsKept
  TemplatesStandForTheirLines
  ChecksTellTheTruth
  
  PagesAddUp
  RegressionsAreReal
  TracesAreExplained
  ObservationsAddUp
  WaterfallsAreFaithful
\* Every input is bounded.
CHECK_DEADLOCK FALSE
