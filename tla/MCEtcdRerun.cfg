SPECIFICATION FairSpec
CONSTANTS
  a = a
  b = b
  c = c
  d = d
  e = e
  Host = {a, b, c}
  InitialGroup = {a}
  Overlap = {}
  Events = FALSE
  Patient = TRUE
  MaxFaults = 1
  MaxCrashes = 1
INVARIANTS
  OkMeansListed
  OkMeansConfigured
PROPERTIES
  UnfailedPlaysRestart
  
  OkLeadsToReady
