SPECIFICATION PlaySpec
CONSTANTS
  dns = dns
  lb = lb
  crb = crb
  Object = {dns, crb}
  Cleaned = {dns}
  Condition <- Conditions
  Content = {m0, m1, m2}
  Unrendered = m0
  Foreign = Foreign
  Absent = Absent
  Retried = {dns, crb}
  Retries = 1
  MaxFaults = 2
  MaxOthers = 0
  MaxLost = 2
  MaxAborts = 1
  MaxChanges = 1
INVARIANT
  OkMeansCurrent
