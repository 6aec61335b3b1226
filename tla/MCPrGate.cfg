\* The build ends.
CHECK_DEADLOCK FALSE
SPECIFICATION Spec
CONSTANTS
  Repos = {"on-http", "on-core", "on-tasks"}
  Known = {"on-http", "on-core", "on-tasks"}
  PRs <- MCPRs
  Root <- http
  Texts <- MCTexts
  MaxChanges = 1
INVARIANTS
  TypeOK
  CrawlIsExact
  StatusOnlyInterdependent
PROPERTIES
  GateEnds
