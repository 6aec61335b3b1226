\* The branches of two builds wait for the executor that each node has.
CHECK_DEADLOCK FALSE
SPECIFICATION Spec
CONSTANTS
  Builds = {1, 2}
  Images = {"vagrant", "ova", "docker"}
  DockerNodes = {"d1", "d2"}
  VersionOf <- MCVersionOf
  BoxVersionOf <- MCBoxVersionOf
  MaxTries <- MCMaxTries
  Executors = 1
INVARIANTS
  TypeOK
  PushedIsTested
  BoxVersionIsTested
  DoneIsPublished
PROPERTIES
  PipelinesEnd
