SPECIFICATION FairSpec
CONSTANTS
  p1 = p1
  p2 = p2
  Pid = {p1, p2}
  PID_ONE = PID_ONE
  JobKinds = {"job", "daemon", "stuck"}
  Requests = {10}
  TicksPerSec = 1
  MaxJobs = 1
  LastCall = 1
  MaxSec = 2
  STRIKES_BEFORE_MOVING_ON = 2
  MaxCandidates = 1
  RESPAWN_IS_TOO_FAST = 1
  RESPAWN_BACKOFF_SECS = 1
  GRACE_SECS = 2
  AFTER_KILL_SECS = 1
  Faults = {"fork", "reboot"}
PROPERTIES
  KeepsServing
  EveryZombieReaped
  RequestHonoured
CHECK_DEADLOCK FALSE
