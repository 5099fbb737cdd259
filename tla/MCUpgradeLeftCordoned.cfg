SPECIFICATION Spec
CONSTANTS
  m = m
  x = x
  y = y
  Node = {m, x, y}
  ControlPlane = {m}
  BatchSize = 2
  Options <- DefaultOnly
  MaxFaults = 1
  MaxAborts = 0
INVARIANT
  OkMeansSchedulable
