SPECIFICATION Spec
CONSTANTS
  a = a
  b = b
  c = c
  d = d
  e = e
  Host = {a, b, c, d}
  InitialGroup = {a, b, c}
  Overlap = {}
  Events = FALSE
  Patient = TRUE
  MaxFaults = 0
  MaxCrashes = 1
INVARIANT
  OneCluster
