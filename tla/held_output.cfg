\* One process is enough.
SPECIFICATION FairSpec
CONSTANTS
  Procs = {p1}
  PID_ONE = PID_ONE
  Nobody = Nobody
PROPERTY
  GoingDownEnds
CHECK_DEADLOCK FALSE
