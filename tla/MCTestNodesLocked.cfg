\* A finished model stops: every build has ended.
CHECK_DEADLOCK FALSE
SPECIFICATION Spec
CONSTANTS
  Builds = {"A", "B"}
  Tests = {"FIT", "CIT", "Install"}
  TestsOf <- MCTestsOf
  Nodes = {1, 2, 3}
  LabelOf <- MCLabelOf
  LabelMaps <- MCLabelMaps
  Executors = 1
INVARIANT NodeIsLocked
