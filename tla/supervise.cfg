SPECIFICATION Spec
CONSTANTS
  p1 = p1
  p2 = p2
  p3 = p3
  Pid = {p1, p2, p3}
  PID_ONE = PID_ONE
  JobKinds = {"job"}
  Requests = {1}
  TicksPerSec = 2
  MaxJobs = 2
  LastCall = 2
  MaxSec = 3
  STRIKES_BEFORE_MOVING_ON = 2
  MaxCandidates = 2
  RESPAWN_IS_TOO_FAST = 1
  RESPAWN_BACKOFF_SECS = 1
  GRACE_SECS = 5
  AFTER_KILL_SECS = 2
  Faults = {"fork", "poll"}
SYMMETRY Symmetry
INVARIANTS
  TypeOK
  NoLostChild
  NoSilentDeath
  AtMostOneShell
  TableMatchesKernel
  EveryDeathJudgedOnce
PROPERTIES
  PatientFallback
  StartsInDistinctSeconds
CHECK_DEADLOCK FALSE
