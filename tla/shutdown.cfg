SPECIFICATION Spec
CONSTANTS
  p1 = p1
  p2 = p2
  p3 = p3
  Pid = {p1, p2, p3}
  PID_ONE = PID_ONE
  JobKinds = {"job", "daemon", "stuck"}
  Requests = {2, 10}
  TicksPerSec = 2
  MaxJobs = 2
  LastCall = 0
  MaxSec = 1
  STRIKES_BEFORE_MOVING_ON = 3
  MaxCandidates = 1
  RESPAWN_IS_TOO_FAST = 1
  RESPAWN_BACKOFF_SECS = 1
  GRACE_SECS = 3
  AFTER_KILL_SECS = 2
  Faults = {"fork", "poll", "reboot", "cad"}
SYMMETRY Symmetry
INVARIANTS
  SilenceIsReal
  OnlyTheUnkillableRemain
  KillIsLastResort
  DeadlinesHonoured
PROPERTIES
  NoWayBack
  RequestsAreNotDropped
  ImplementsLifecycle
CHECK_DEADLOCK FALSE
