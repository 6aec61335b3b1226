SPECIFICATION Spec
\* Nobody has to start another run.
CHECK_DEADLOCK FALSE
CONSTANTS
  RACKHD_REPOS <- MCRepos
  RackHD = "rackhd"
  Box = "rackhd/rackhd"
  Windows <- MCWindows
  PageSize = 2
  MaxRuns = 1
  LastTime = 3
INVARIANTS
  TypeOK
  OverdueAllGone
PROPERTIES
  OnlyOverdueDeleted
