SPECIFICATION Spec
CONSTANTS
  m = m
  x = x
  y = y
  Node = {m, x, y}
  ControlPlane = {m}
  BatchSize = 2
  Options <- OneChanged
  MaxFaults = 2
  MaxAborts = 1
SYMMETRY Workers
INVARIANTS
  TypeOK
  OkRestores
  OneBatchAway
  OkMeansUpgraded
PROPERTY
  UpgradeOnlyDrained
