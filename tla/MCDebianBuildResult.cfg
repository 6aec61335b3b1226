\* The job stops when it is done or has used its tries.
CHECK_DEADLOCK FALSE
SPECIFICATION Spec
CONSTANTS
  Components = {http, tftp}
  RackHD = RackHD
  MaxAttempts = 2
  LastDay = 2
  NoResult = NoResult
INVARIANT BuildSuccess
