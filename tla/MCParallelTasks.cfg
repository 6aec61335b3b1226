\* A worker that died holding a task leaves the parent in join() for ever, and
\* the program ends when finish() has returned.
CHECK_DEADLOCK FALSE
SPECIFICATION FairSpec
CONSTANTS
  Workers = {w1, w2}
  t1 = t1
  t2 = t2
  t3 = t3
  n1 = n1
  n2 = n2
  n3 = n3
  Batch <- MCBatch
  Names <- MCNames
  NameOf <- MCNameOf
  Bodies <- MCBodies
  BodiesOf <- MCBodiesOf
  WorkersDie = TRUE
  NoTask = NoTask
  NoResult = NoResult
INVARIANTS
  TypeOK
  FinishMeansAllStored
  LossIsNeverReportedAsEnd
PROPERTIES
  OnlyIdleTerminated
  FinishesUnlessLost
  PerformsEachTaskOnce
