SPECIFICATION Spec
CONSTANTS
  a = a
  b = b
  c = c
  d = d
  e = e
  Host = {a, b, c, d, e}
  InitialGroup = {a, b, c}
  Overlap = {}
  Events = FALSE
  Patient = TRUE
  MaxFaults = 2
  MaxCrashes = 0
INVARIANTS
  TypeOK
  OneClusterUnlessBlind
  OkMeansAssembled
  RestartsOnlyLostByFailure
PROPERTIES
  OnlyRestartsFail
  ImplementsMembership
