\* The job stops when it is done or has failed.
CHECK_DEADLOCK FALSE
SPECIFICATION Spec
CONSTANTS
  Repos = {core, http}
  Dependents = {http}
  MaxTries = 3
  MaxCommit = 4
  LastDay = 2
INVARIANTS
  TypeOK
  AllTagged
  ManifestMatchesTags
  BranchesComplete
PROPERTIES
  JobEnds
