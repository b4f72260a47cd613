SPECIFICATION Spec
CONSTANT Scripts = {"kernel", "busybox", "limine"}
INVARIANTS
  TypeOK
  OnlySignedSources
  OnlyACutExtractionFools
  RunsRecover
