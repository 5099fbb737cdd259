SPECIFICATION FairSpec
CONSTANTS
  server = server  late = late  group = group  default = default
  port = port  latePort = latePort  ownPort = ownPort  gateway = gateway
  subnet = subnet  network = network  public = public
  None = None
  Server = {server, late}
  SecurityGroup = {group, default}
  Port = {port, latePort, ownPort, gateway}
  Subnet = {subnet}
  Network = {network, public}
  Device <- MCDevice
  Secures <- MCSecures
  On <- MCOn
  In <- MCIn
  NovaMade = {port, latePort}
  Interface = {gateway}
  External = {public}
  Named = {default}
  InitialResource = {server, group, default, port, gateway, subnet, network, public}
  Hours = 1
  Zone = 0
  MaxNow = 3
  MaxFaults = 1
INVARIANTS TypeOK
PROPERTIES OnlyOldDeleted LeftoversGo
