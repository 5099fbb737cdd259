SPECIFICATION Spec
CONSTANTS
  Address = {a1, a2, a3, a4, a5}
  UserName = {u, w}
  PrefixedName = {w}
  None = None
  RealHostname = {TRUE, FALSE}
  KubeControlHosts = 1
  ScaleThreshold = 4
  MassiveScaleThreshold = 5
  GivenName = {1, u, w}
  MaxId = 3
  MaxArgs = 2
SYMMETRY Addresses
INVARIANTS
  TypeOK
  UniqueAddresses
  EveryHostHasRole
  PlaneAndEtcdRemain
PROPERTY
  UnnamedHostsKept
