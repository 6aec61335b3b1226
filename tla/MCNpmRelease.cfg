SPECIFICATION Spec
\* A build that has succeeded is not started again.
CHECK_DEADLOCK FALSE
CONSTANTS
  Builds = {b1, b2}
  Packages = {"on-core", "on-tasks", "on-http"}
  DependsOn <- MCDependsOn
  MaxCommit = 2
  Declared <- MCDeclared
  MaxStarts = 2
  Nothing = Nothing
INVARIANTS
  TypeOK
  ResolvesUnlessAbandoned
