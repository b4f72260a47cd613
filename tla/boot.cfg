SPECIFICATION FairSpec
CONSTANTS
  MaxCandidates = 1
  MaxRefusals = 1
INVARIANTS
  TypeOK
  KeyKeepsWorking
  BannerTellsTheTruth
  LogFindsKmsg
PROPERTIES
  ImplementsLifecycle
  BootEnds
CHECK_DEADLOCK FALSE
