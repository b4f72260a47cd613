\* Three processes: a shell, a job that may become a daemon, and the next shell.
SPECIFICATION FairSpec
CONSTANTS
  Procs = {p1, p2, p3}
  PID_ONE = PID_ONE
  Nobody = Nobody
INVARIANTS
  TypeOK
  CtrlCReachesTheJob
PROPERTIES
  CtrlCSparesPidOne
  ParkingGivesTheKeyBack
CHECK_DEADLOCK FALSE
