SPECIFICATION MonitorSpec
CONSTANTS
  Tags = {1, 2, 3}
  Commits = {1, 2}
  MaxEdits = 2
  MaxKills = 1
INVARIANTS
  MonitorTypeOK
  NothingSwallowed
  ReportedOnce
PROPERTIES
  EveryTagReported
