SPECIFICATION Spec
CONSTANTS
  p1 = p1
  p2 = p2
  Pid = {p1, p2}
  PID_ONE = PID_ONE
  JobKinds = {"job"}
  Requests = {}
  TicksPerSec = 2
  MaxJobs = 0
  LastCall = 3
  MaxSec = 3
  STRIKES_BEFORE_MOVING_ON = 3
  MaxCandidates = 1
  RESPAWN_IS_TOO_FAST = 1
  RESPAWN_BACKOFF_SECS = 1
  GRACE_SECS = 5
  AFTER_KILL_SECS = 2
  Faults = {}
SYMMETRY Symmetry
PROPERTIES
  RespawnNoFasterThanOnceASecond
CHECK_DEADLOCK FALSE
