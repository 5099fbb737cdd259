-------------------------- MODULE InventoryBuilder --------------------------
(***************************************************************************)
(* contrib/inventory_builder/inventory.py: the operator calls it again and  *)
(* again, each call reads the inventory file (or starts from nothing),       *)
(* works through its arguments one by one and writes the file once, at the   *)
(* end.  A call that exits before that leaves the file as it was, so calls   *)
(* that fail while loading are not steps.                                    *)
(*                                                                         *)
(* A generated name HOST_PREFIX<k> is the number k.  An argument is what     *)
(* range2ips leaves of it: a range is one argument per address, and none     *)
(* when it is reversed.  Left out: access_ip, hosts named like a group, the  *)
(* load, help and print commands, a crash while the file is written.         *)
(***************************************************************************)
EXTENDS Integers, FiniteSets, SequencesExt, Subsequence

CONSTANTS
  Address,          \* values of ip
  UserName,         \* host names that are not HOST_PREFIX and a number
  PrefixedName,     \* those of them that begin with HOST_PREFIX
  None,             \* a local variable of build_hostnames not yet assigned
  RealHostname,     \* values of USE_REAL_HOSTNAME that calls are made with
  KubeControlHosts, ScaleThreshold, MassiveScaleThreshold,
  GivenName,        \* bound: names the operator gives to hosts
  MaxId,            \* bound on generated numbers
  MaxArgs           \* bound on the arguments of one call

ASSUME NameAssumption ==
  /\ PrefixedName \subseteq UserName /\ GivenName \subseteq UserName \cup Nat
  /\ UserName \cap Nat = {} /\ (UserName \cup Nat) \cap Address = {}
  /\ None \notin UserName \cup Nat \cup Address
\* smaller thresholds leave the control plane or the nodes without hosts
ASSUME ScaleAssumption ==
  /\ RealHostname \subseteq BOOLEAN
  /\ KubeControlHosts \in Nat \ {0}
  /\ ScaleThreshold \in Nat /\ ScaleThreshold > 3
  /\ MassiveScaleThreshold \in Nat /\ MassiveScaleThreshold >= ScaleThreshold
ASSUME LimitAssumption == MaxId \in Nat /\ MaxArgs \in Nat

Name == (1 .. MaxId) \cup UserName \cup GivenName
Role == {"etcd", "kube_control_plane", "kube_node", "calico_rr"}
NoRoles == [r \in Role |-> {}]
NoHosts == [n \in {} |-> None]

Arg == [op : {"delete"}, key : Name \cup Address]
  \cup [op : {"ip"}, ip : Address]
  \cup [op : {"named"}, name : Name, ip : Address]
  \cup [op : {"bare"}, name : UserName]

VARIABLES
  allHosts,  \* file: the names under all.hosts, in file order
  allIp,     \* file: their addresses
  group,     \* file: the hosts of each role
  pc,        \* "idle", or "reading" the arguments of a call
  load,      \* loadPreviousConfig
  real,      \* USE_REAL_HOSTNAME
  hosts,     \* all_hosts of build_hostnames: names in dictionary order
  ip,        \* all_hosts of build_hostnames: addresses
  nextId,    \* next_host_id
  last,      \* hostname and ip, as the last argument that set them left them
  args       \* arguments read so far

file == <<allHosts, allIp, group>>
call == <<load, real, hosts, ip, nextId, last, args>>
vars == <<file, pc, call>>

\* a dictionary: the keys in order, each once, and their values
IsDict(keys, values) ==
  /\ keys \in Seq(Name) /\ IsInjective(keys) /\ ToSet(keys) = DOMAIN values
  /\ \A n \in DOMAIN values : values[n] \in Address

TypeOK ==
  /\ IsDict(allHosts, allIp)
  /\ group \in [Role -> SUBSET Name]
  /\ pc \in {"idle", "reading"} /\ load \in BOOLEAN /\ real \in BOOLEAN
  /\ IsDict(hosts, ip)
  /\ nextId \in 1 .. MaxId + 1
  /\ last \in [name : Name \cup {None}, ip : Address \cup {None}]
  /\ args \subseteq Arg

Init ==
  /\ allHosts = <<>> /\ allIp = NoHosts /\ group = NoRoles
  /\ pc = "idle" /\ load = FALSE /\ real = FALSE
  /\ hosts = <<>> /\ ip = NoHosts /\ nextId = 1
  /\ last = [name |-> None, ip |-> None] /\ args = {}

-----------------------------------------------------------------------------
(* __init__ up to the loop of build_hostnames *)

\* Faulty variant of HighestId: counts the generated names.
HighestIdCounts(names) == Cardinality(names \cap (1 .. MaxId))

HighestId(names) ==
  CHOOSE k \in 0 .. MaxId : /\ k = 0 \/ k \in names
                            /\ \A j \in names \cap (1 .. MaxId) : j <= k

\* "add", or a first argument that deletes; get_host_id exits on a prefixed
\* name without a number, open() on an inventory that does not exist
BeginFromFile ==
  /\ pc = "idle"
  /\ allHosts # <<>> /\ ToSet(allHosts) \cap PrefixedName = {}
  /\ pc' = "reading" /\ load' = TRUE /\ real' \in RealHostname
  /\ hosts' = allHosts /\ ip' = allIp
  /\ nextId' = HighestId(ToSet(allHosts)) + 1
  /\ UNCHANGED <<file, last, args>>

BeginNew ==
  /\ pc = "idle"
  /\ pc' = "reading" /\ load' = FALSE /\ real' \in RealHostname
  /\ hosts' = <<>> /\ ip' = NoHosts /\ nextId' = 1
  /\ UNCHANGED <<file, last, args>>

EndCall ==
  /\ pc' = "idle" /\ load' = FALSE /\ real' = FALSE
  /\ hosts' = <<>> /\ ip' = NoHosts /\ nextId' = 1
  /\ last' = [name |-> None, ip |-> None] /\ args' = {}

-----------------------------------------------------------------------------
(* build_hostnames, one argument *)

\* Faulty variant of exists_ip: compares with the last address only.
exists_ipLast(a) == hosts # <<>> /\ ip[Last(hosts)] = a

exists_ip(a) == \E n \in DOMAIN ip : ip[n] = a

Read(arg) ==
  /\ pc = "reading"
  /\ Cardinality(args) < MaxArgs
  /\ args' = args \cup {arg}
  /\ UNCHANGED <<file, pc, load, real>>

\* Faulty variant of Put: a known name is listed a second time.
PutAppends(n, a) ==
  /\ hosts' = Append(hosts, n)
  /\ ip' = [m \in DOMAIN ip \cup {n} |-> IF m = n THEN a ELSE ip[m]]

\* all_hosts[n] = ...: a known name keeps its place in the dictionary
Put(n, a) ==
  /\ hosts' = IF n \in DOMAIN ip THEN hosts ELSE Append(hosts, n)
  /\ ip' = [m \in DOMAIN ip \cup {n} |-> IF m = n THEN a ELSE ip[m]]

\* exists_hostname first, then the host with this ip (UniqueAddresses: at
\* most one), then nothing
Deleted(key) == {n \in DOMAIN ip : n = key \/ ip[n] = key}

\* (a first argument that deletes makes the call load the file)
DeleteArg(key) ==
  /\ load \/ args # {}
  /\ Read([op |-> "delete", key |-> key])
  /\ hosts' = Only(hosts, DOMAIN ip \ Deleted(key))
  /\ ip' = [n \in DOMAIN ip \ Deleted(key) |-> ip[n]]
  /\ UNCHANGED <<nextId, last>>

IpArg(a) ==
  /\ Read([op |-> "ip", ip |-> a])
  /\ last' = [last EXCEPT !.ip = a]
  /\ \/ exists_ip(a) /\ UNCHANGED <<hosts, ip, nextId>>
     \/ /\ ~exists_ip(a) /\ ~real /\ nextId <= MaxId
        /\ Put(nextId, a)
        /\ nextId' = nextId + 1
     \/ /\ ~exists_ip(a) /\ real
        /\ \E n \in UserName : Put(n, a)
        /\ UNCHANGED nextId

\* exists_hostname is asked for the whole argument, "name,ip": never true
NamedArg(n, a) ==
  /\ Read([op |-> "named", name |-> n, ip |-> a])
  /\ last' = [name |-> n, ip |-> a]
  /\ IF exists_ip(a) THEN UNCHANGED <<hosts, ip>> ELSE Put(n, a)
  /\ UNCHANGED nextId

\* a name without ip uses what earlier arguments left in hostname and ip
BareArg(n) ==
  /\ Read([op |-> "bare", name |-> n])
  /\ \/ /\ n \in DOMAIN ip \/ exists_ip(last.ip)
        /\ UNCHANGED <<hosts, ip>>
     \/ /\ n \notin DOMAIN ip /\ ~exists_ip(last.ip)
        /\ last.name # None
        /\ Put(last.name, last.ip)
  /\ UNCHANGED <<nextId, last>>

\* a bare name where no argument has set hostname or ip; ssh does not answer
Raise ==
  /\ pc = "reading"
  /\ \/ \E n \in (GivenName \ Nat) \ DOMAIN ip : last.name = None /\ ~exists_ip(last.ip)
     \/ real
  /\ EndCall
  /\ UNCHANGED file

-----------------------------------------------------------------------------
(* purge_invalid_hosts, the set_ methods and write_config *)

FirstHosts(i, k) == {hosts[j] : j \in {j \in 1 .. Len(hosts) : i <= j /\ j < i + k}}

etcd_hosts_count == IF Len(hosts) >= 3 THEN 3 ELSE 1

\* roles read from the file, without the hosts that are gone
purge_invalid_hosts ==
  [r \in Role |-> IF load THEN group[r] \cap DOMAIN ip ELSE {}]

set_etcd == purge_invalid_hosts["etcd"] \cup FirstHosts(1, etcd_hosts_count)

\* Faulty variant of set_kube_control_plane: starts one host too late at scale.
set_kube_control_planeLate ==
  purge_invalid_hosts["kube_control_plane"] \cup
    FirstHosts(IF Len(hosts) >= ScaleThreshold THEN etcd_hosts_count + 2 ELSE 1,
               KubeControlHosts)

set_kube_control_plane ==
  purge_invalid_hosts["kube_control_plane"] \cup
    FirstHosts(IF Len(hosts) >= ScaleThreshold THEN etcd_hosts_count + 1 ELSE 1,
               KubeControlHosts)

\* Faulty variant of set_kube_node: skips one host more at massive scale.
set_kube_nodeOneMore ==
  LET etcdSkipped == IF Len(hosts) >= ScaleThreshold THEN set_etcd ELSE {}
      planeSkipped == IF Len(hosts) >= MassiveScaleThreshold
                        THEN FirstHosts(etcd_hosts_count + 1, KubeControlHosts + 1) ELSE {}
  IN  purge_invalid_hosts["kube_node"]
        \cup (DOMAIN ip \ (etcdSkipped \cup planeSkipped))

\* at scale etcd hosts are skipped, at massive scale the control plane too
set_kube_node ==
  LET etcdSkipped == IF Len(hosts) >= ScaleThreshold THEN set_etcd ELSE {}
      planeSkipped == IF Len(hosts) >= MassiveScaleThreshold
                        THEN set_kube_control_plane ELSE {}
  IN  purge_invalid_hosts["kube_node"]
        \cup (DOMAIN ip \ (etcdSkipped \cup planeSkipped))

\* "host in children['kube_node']" looks at the key 'hosts' of the group, not
\* at its hosts, so no conflict is ever found
set_calico_rr ==
  purge_invalid_hosts["calico_rr"] \cup
    (IF Len(hosts) >= ScaleThreshold THEN FirstHosts(1, etcd_hosts_count) ELSE {})

\* names already in the file keep their place, set_all appends the others
set_all ==
  LET kept == IF load THEN Only(allHosts, DOMAIN ip) ELSE <<>>
  IN  kept \o Only(hosts, DOMAIN ip \ ToSet(kept))

WriteConfig ==
  /\ pc = "reading"
  /\ allHosts' = set_all
  /\ allIp' = ip
  /\ group' = [r \in Role |->
                 CASE r = "etcd" -> set_etcd
                   [] r = "kube_control_plane" -> set_kube_control_plane
                   [] r = "kube_node" -> set_kube_node
                   [] r = "calico_rr" -> set_calico_rr]
  /\ EndCall

Next ==
  \/ BeginFromFile \/ BeginNew \/ Raise \/ WriteConfig
  \/ \E key \in Name \cup Address : DeleteArg(key)
  \/ \E a \in Address : IpArg(a)
  \/ \E n \in GivenName, a \in Address : NamedArg(n, a)
  \/ \E n \in GivenName \ Nat : BareArg(n)

Spec == Init /\ [][Next]_vars

-----------------------------------------------------------------------------
(* Properties *)

\* No sequence of calls writes two hosts with one address.
UniqueAddresses ==
  \A m, n \in DOMAIN allIp : allIp[m] = allIp[n] => m = n

\* Roles are held by the hosts of the inventory and by no others, and no host
\* falls between the thresholds: each is in etcd, control plane or node group.
EveryHostHasRole ==
  /\ UNION {group[r] : r \in Role} = ToSet(allHosts)
  /\ ToSet(allHosts) = UNION {group[r] : r \in Role \ {"calico_rr"}}

\* However the inventory shrinks and grows past its thresholds, it names a
\* control plane, and three etcd members once there are three hosts.
PlaneAndEtcdRemain ==
  allHosts # <<>> =>
    /\ group["kube_control_plane"] # {}
    /\ Cardinality(group["etcd"]) >= IF Len(allHosts) >= 3 THEN 3 ELSE 1

DeletedKeys == {arg.key : arg \in {x \in args : x.op = "delete"}}
GivenNames == {arg.name : arg \in {x \in args : x.op = "named"}}
GivenAddresses == {arg.ip : arg \in {x \in args : x.op \in {"ip", "named"}}}

\* A call on an existing inventory keeps every host that none of its
\* arguments names, with its address and its roles: generated names never
\* collide with the names that are there (USE_REAL_HOSTNAME names may).
UnnamedHostsKept ==
  [][load /\ ~real /\ WriteConfig =>
       \A n \in DOMAIN allIp \ (DeletedKeys \cup GivenNames) :
         allIp[n] \notin DeletedKeys =>
           /\ n \in DOMAIN allIp' /\ allIp'[n] = allIp[n]
           /\ \A r \in Role : n \in group[r] => n \in group'[r]]_vars

\* A call that deletes nothing and gives no name twice leaves every address it
\* was given in the inventory ("Adds specified hosts", inventory.py:438).
GivenHostsPresent ==
  [][WriteConfig /\ DeletedKeys = {}
       /\ Cardinality(GivenNames) = Cardinality({x \in args : x.op = "named"})
     => GivenAddresses \subseteq {allIp'[n] : n \in DOMAIN allIp'}]_vars
=============================================================================
