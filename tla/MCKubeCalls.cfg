SPECIFICATION Spec
CONSTANTS
  Object = {x, y, z}
  Content = {m}
  Foreign = Foreign
  Absent = Absent
  MaxFaults = 1
  MaxOthers = 2
SYMMETRY Interchangeable
INVARIANTS
  TypeOK
  PresentMeansApplied
  ExistsIsTrue
  AbsentMeansGone
