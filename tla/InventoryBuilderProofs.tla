----------------------- MODULE InventoryBuilderProofs -----------------------
(***************************************************************************)
(* What every sequence of calls of inventory.py keeps, for any addresses,    *)
(* names, thresholds and numbers of arguments.  The file is only ever         *)
(* replaced by the dictionary of a call, so the arguments are about that      *)
(* dictionary: it starts as the file or empty, and every argument puts one   *)
(* host into it, takes some out of it or leaves it alone.                     *)
(***************************************************************************)
EXTENDS InventoryBuilder, SubsequenceProofs

-----------------------------------------------------------------------------
(* Each address once: exists_ip is asked, with the address that will be       *)
(* stored, before every assignment.                                           *)

\* no two keys of the dictionary f have one value
OneKeyEach(f) == \A m, n \in DOMAIN f : f[m] = f[n] => m = n

Inv == OneKeyEach(allIp) /\ OneKeyEach(ip)

\* Storing an address that no host has keeps addresses unique.
LEMMA PutKeepsUnique ==
  ASSUME NEW n, NEW a, OneKeyEach(ip), ~exists_ip(a), Put(n, a)
  PROVE  OneKeyEach(ip')
  BY DEF OneKeyEach, exists_ip, Put

\* Every step keeps addresses unique, in the file and in the call.
LEMMA UniqueStep == Inv /\ [Next]_vars => Inv'
<1> SUFFICES ASSUME Inv, [Next]_vars PROVE Inv'
  OBVIOUS
<1>0. OneKeyEach(NoHosts)
  BY DEF OneKeyEach, NoHosts
<1>1. CASE BeginFromFile
  BY <1>1 DEF BeginFromFile, Inv, file, OneKeyEach
<1>2. CASE BeginNew
  BY <1>0, <1>2 DEF BeginNew, Inv, file, OneKeyEach
<1>3. CASE Raise
  BY <1>0, <1>3 DEF Raise, EndCall, Inv, file, OneKeyEach
<1>4. CASE WriteConfig
  BY <1>0, <1>4 DEF WriteConfig, EndCall, Inv, OneKeyEach
<1>5. ASSUME NEW key \in Name \cup Address, DeleteArg(key) PROVE Inv'
  BY <1>5 DEF DeleteArg, Read, file, Inv, OneKeyEach
<1>6. ASSUME NEW a \in Address, IpArg(a) PROVE Inv'
  <2>1. allIp' = allIp
    BY <1>6 DEF IpArg, Read, file
  <2>2. CASE UNCHANGED ip
    BY <2>1, <2>2 DEF Inv, OneKeyEach
  <2>3. ASSUME NEW n, ~exists_ip(a), Put(n, a) PROVE Inv'
    BY <2>1, <2>3, PutKeepsUnique DEF Inv, OneKeyEach
  <2> QED
    BY <1>6, <2>2, <2>3 DEF IpArg
<1>7. ASSUME NEW n \in GivenName, NEW a \in Address, NamedArg(n, a) PROVE Inv'
  <2>1. allIp' = allIp
    BY <1>7 DEF NamedArg, Read, file
  <2>2. CASE UNCHANGED ip
    BY <2>1, <2>2 DEF Inv, OneKeyEach
  <2>3. CASE ~exists_ip(a) /\ Put(n, a)
    BY <2>1, <2>3, PutKeepsUnique DEF Inv, OneKeyEach
  <2> QED
    BY <1>7, <2>2, <2>3 DEF NamedArg
<1>8. ASSUME NEW n \in GivenName \ Nat, BareArg(n) PROVE Inv'
  <2>1. allIp' = allIp
    BY <1>8 DEF BareArg, Read, file
  <2>2. CASE UNCHANGED ip
    BY <2>1, <2>2 DEF Inv, OneKeyEach
  <2>3. CASE ~exists_ip(last.ip) /\ Put(last.name, last.ip)
    BY <2>1, <2>3, PutKeepsUnique DEF Inv, OneKeyEach
  <2> QED
    BY <1>8, <2>2, <2>3 DEF BareArg
<1>9. CASE UNCHANGED vars
  BY <1>9 DEF vars, file, call, Inv, OneKeyEach
<1> QED
  BY <1>1, <1>2, <1>3, <1>4, <1>5, <1>6, <1>7, <1>8, <1>9 DEF Next

\* No sequence of calls of inventory.py writes two hosts with one address.
THEOREM Unique == Spec => []UniqueAddresses
<1>1. Init => Inv
  BY DEF Init, Inv, OneKeyEach, NoHosts
<1>2. Inv => UniqueAddresses
  BY DEF Inv, OneKeyEach, UniqueAddresses
<1> QED
  BY <1>1, <1>2, UniqueStep, PTL DEF Spec

-----------------------------------------------------------------------------
(* Dictionaries                                                              *)

\* get_host_id and max: the greatest generated number among the names, or 0.
LEMMA HighestIdIsGreatest ==
  ASSUME NEW names
  PROVE  /\ HighestId(names) \in 0 .. MaxId
         /\ \A j \in names \cap (1 .. MaxId) : j <= HighestId(names)
<1> DEFINE T == {0} \cup (names \cap (1 .. MaxId))
<1>1. MaxId \in Nat /\ T \in SUBSET (0 .. MaxId) /\ T # {}
  BY LimitAssumption
<1>2. PICK k \in T : \A j \in T : j <= k
  BY <1>1, NatMax
<1>3. /\ k \in 0 .. MaxId /\ (k = 0 \/ k \in names)
      /\ \A j \in names \cap (1 .. MaxId) : j <= k
  BY <1>1, <1>2
<1> QED
  BY <1>3 DEF HighestId

\* The empty dictionary is one.
LEMMA EmptyDict == IsDict(<<>>, NoHosts)
  BY DEF IsDict, NoHosts, IsInjective, ToSet

\* all_hosts[n] = a on an OrderedDict leaves a dictionary.
LEMMA PutKeepsDict ==
  ASSUME IsDict(hosts, ip), NEW n \in Name, NEW a \in Address, Put(n, a)
  PROVE  IsDict(hosts', ip')
<1>1. DOMAIN ip' = DOMAIN ip \cup {n} /\ \A m \in DOMAIN ip' : ip'[m] \in Address
  BY DEF IsDict, Put
<1>2. CASE n \in DOMAIN ip
  BY <1>1, <1>2 DEF IsDict, Put
<1>3. CASE n \notin DOMAIN ip
  <2>1. hosts' = Append(hosts, n) /\ hosts \in Seq(Name) /\ n \notin ToSet(hosts)
    BY <1>3 DEF Put, IsDict
  <2>2. /\ hosts' \in Seq(Name) /\ Len(hosts') = Len(hosts) + 1
        /\ DOMAIN hosts = 1 .. Len(hosts) /\ DOMAIN hosts' = 1 .. Len(hosts) + 1
        /\ Len(hosts) \in Nat
        /\ \A i \in DOMAIN hosts : hosts'[i] = hosts[i]
        /\ hosts'[Len(hosts) + 1] = n
    BY <2>1
  <2>3. ToSet(hosts') = ToSet(hosts) \cup {n}
    BY <2>2 DEF ToSet
  <2>4. IsInjective(hosts')
    <3>1. \A i \in DOMAIN hosts : hosts[i] # n
      BY <2>1 DEF ToSet
    <3>2. IsInjective(hosts)
      BY DEF IsDict
    <3> QED
      BY <2>2, <3>1, <3>2 DEF IsInjective
  <2> QED
    BY <1>1, <2>2, <2>3, <2>4 DEF IsDict
<1> QED
  BY <1>2, <1>3

\* The keys of a dictionary that are in a set, with their values, are one.
LEMMA OnlyKeepsDict ==
  ASSUME NEW keys, NEW values, IsDict(keys, values), NEW S \in SUBSET (DOMAIN values)
  PROVE  IsDict(Only(keys, S), [n \in S |-> values[n]])
<1>1. keys \in Seq(Name) /\ IsInjective(keys) /\ ToSet(keys) = DOMAIN values
  BY DEF IsDict
<1>2. /\ Only(keys, S) \in Seq(Name) /\ IsInjective(Only(keys, S))
      /\ ToSet(Only(keys, S)) = ToSet(keys) \cap S
  BY <1>1, OnlyKeeps, Zenon
<1> QED
  BY <1>1, <1>2 DEF IsDict

\* set_all writes a dictionary with the hosts of the call.
LEMMA WrittenDict == TypeOK => IsDict(set_all, ip)
<1> SUFFICES ASSUME TypeOK PROVE IsDict(set_all, ip)
  OBVIOUS
<1> DEFINE kept == IF load THEN Only(allHosts, DOMAIN ip) ELSE <<>>
           new == Only(hosts, DOMAIN ip \ ToSet(kept))
<1>1. IsDict(allHosts, allIp) /\ IsDict(hosts, ip)
  BY DEF TypeOK
<1>2. kept \in Seq(Name) /\ IsInjective(kept) /\ ToSet(kept) \subseteq DOMAIN ip
  <2>1. CASE load
    <3>1. allHosts \in Seq(Name) /\ IsInjective(allHosts)
      BY <1>1 DEF IsDict
    <3>2. /\ Only(allHosts, DOMAIN ip) \in Seq(Name) /\ IsInjective(Only(allHosts, DOMAIN ip))
          /\ ToSet(Only(allHosts, DOMAIN ip)) = ToSet(allHosts) \cap DOMAIN ip
      BY <3>1, OnlyKeeps, Zenon
    <3> QED
      BY <2>1, <3>2
  <2>2. CASE ~load
    BY <2>2, EmptyDict DEF IsDict, NoHosts
  <2> QED
    BY <2>1, <2>2
<1> HIDE DEF kept
<1>3. /\ new \in Seq(Name) /\ IsInjective(new)
      /\ ToSet(new) = ToSet(hosts) \cap (DOMAIN ip \ ToSet(kept))
  <2>1. hosts \in Seq(Name) /\ IsInjective(hosts)
    BY <1>1 DEF IsDict
  <2> QED
    BY <2>1, OnlyKeeps, Zenon
<1>4. ToSet(new) = DOMAIN ip \ ToSet(kept)
  BY <1>1, <1>3 DEF IsDict
<1> HIDE DEF new
<1>5. /\ kept \o new \in Seq(Name) /\ IsInjective(kept \o new)
      /\ ToSet(kept \o new) = ToSet(kept) \cup ToSet(new)
  <2>1. ToSet(kept) \cap ToSet(new) = {}
    BY <1>4
  <2> QED
    BY <1>2, <1>3, <2>1, DisjointConcat
<1>6. set_all = kept \o new
  BY DEF set_all, kept, new
<1>7. ToSet(set_all) = DOMAIN ip
  BY <1>2, <1>4, <1>5, <1>6
<1> QED
  BY <1>1, <1>5, <1>6, <1>7 DEF IsDict

-----------------------------------------------------------------------------
(* Types.  A host is only stored with an address: a bare name takes the one   *)
(* that came with the name it is stored under.                                *)

NamedWithIp == last.name # None => last.ip \in Address

TInv == TypeOK /\ NamedWithIp

\* An argument that is read is recorded and nothing else outside the
\* dictionary, the counter and the local variables is touched.
LEMMA ReadKeepsTypes ==
  ASSUME TypeOK, NEW arg \in Arg, Read(arg),
         IsDict(hosts', ip'), nextId' \in 1 .. MaxId + 1,
         last' \in [name : Name \cup {None}, ip : Address \cup {None}]
  PROVE  TypeOK'
  BY DEF TypeOK, Read, file, IsDict

\* A call that ends, as it should or not, leaves its variables as they were.
LEMMA EndCallTypes ==
  ASSUME EndCall, IsDict(allHosts', allIp'), group' \in [Role -> SUBSET Name]
  PROVE  TInv'
<1>1. IsDict(hosts', ip') /\ pc' = "idle" /\ load' = FALSE /\ real' = FALSE
  BY EmptyDict DEF EndCall, IsDict
<1>2. nextId' \in 1 .. MaxId + 1
  BY LimitAssumption DEF EndCall
<1>3. last' \in [name : Name \cup {None}, ip : Address \cup {None}] /\ last'.name = None
  BY DEF EndCall
<1>4. args' \subseteq Arg
  BY DEF EndCall
<1> QED
  BY <1>1, <1>2, <1>3, <1>4 DEF TInv, TypeOK, NamedWithIp, IsDict

\* FirstHosts picks hosts of the dictionary.
LEMMA FirstHostsAreHosts ==
  ASSUME TypeOK, NEW i, NEW k
  PROVE  FirstHosts(i, k) \subseteq DOMAIN ip
<1>1. hosts \in Seq(Name) /\ ToSet(hosts) = DOMAIN ip
  BY DEF TypeOK, IsDict
<1>2. \A j \in 1 .. Len(hosts) : hosts[j] \in ToSet(hosts)
  BY <1>1 DEF ToSet
<1> QED
  BY <1>1, <1>2 DEF FirstHosts

\* The set_ functions give roles to hosts of the dictionary, and a role to
\* each of them; a host that keeps its place keeps its roles.
LEMMA RolesOfHosts ==
  ASSUME TypeOK
  PROVE
    /\ set_etcd \subseteq DOMAIN ip /\ set_kube_control_plane \subseteq DOMAIN ip
    /\ set_kube_node \subseteq DOMAIN ip /\ set_calico_rr \subseteq DOMAIN ip
    /\ DOMAIN ip \subseteq set_etcd \cup set_kube_control_plane \cup set_kube_node
    /\ load => /\ group["etcd"] \cap DOMAIN ip \subseteq set_etcd
               /\ group["kube_control_plane"] \cap DOMAIN ip \subseteq set_kube_control_plane
               /\ group["kube_node"] \cap DOMAIN ip \subseteq set_kube_node
               /\ group["calico_rr"] \cap DOMAIN ip \subseteq set_calico_rr
<1>1. \A r \in Role : purge_invalid_hosts[r] \subseteq DOMAIN ip
                      /\ (load => group[r] \cap DOMAIN ip \subseteq purge_invalid_hosts[r])
  BY DEF purge_invalid_hosts
<1>2. /\ "etcd" \in Role /\ "kube_control_plane" \in Role
      /\ "kube_node" \in Role /\ "calico_rr" \in Role
  BY DEF Role
<1>3. set_etcd \subseteq DOMAIN ip /\ (load => group["etcd"] \cap DOMAIN ip \subseteq set_etcd)
  BY <1>1, <1>2, FirstHostsAreHosts DEF set_etcd
<1>4. /\ set_kube_control_plane \subseteq DOMAIN ip
      /\ load => group["kube_control_plane"] \cap DOMAIN ip \subseteq set_kube_control_plane
  BY <1>1, <1>2, FirstHostsAreHosts DEF set_kube_control_plane
<1>5. /\ set_kube_node \subseteq DOMAIN ip
      /\ load => group["kube_node"] \cap DOMAIN ip \subseteq set_kube_node
      /\ DOMAIN ip \subseteq set_etcd \cup set_kube_control_plane \cup set_kube_node
  BY <1>1, <1>2 DEF set_kube_node
<1>6. set_calico_rr \subseteq DOMAIN ip /\ (load => group["calico_rr"] \cap DOMAIN ip \subseteq set_calico_rr)
  BY <1>1, <1>2, FirstHostsAreHosts DEF set_calico_rr
<1> QED
  BY <1>3, <1>4, <1>5, <1>6

\* What WriteConfig writes is a dictionary and the roles of its hosts.
LEMMA WrittenTypes ==
  ASSUME TypeOK, WriteConfig
  PROVE  IsDict(allHosts', allIp') /\ group' \in [Role -> SUBSET Name]
<1>1. IsDict(allHosts', allIp')
  BY WrittenDict DEF WriteConfig, IsDict
<1>2. DOMAIN ip \subseteq Name
  <2>1. hosts \in Seq(Name) /\ ToSet(hosts) = DOMAIN ip
    BY DEF TypeOK, IsDict
  <2> QED
    BY <2>1 DEF ToSet
<1>3. \A r \in Role : group'[r] \subseteq Name
  BY <1>2, RolesOfHosts DEF WriteConfig, Role
<1>4. group' \in [Role -> SUBSET Name]
  <2> DEFINE held(r) == CASE r = "etcd" -> set_etcd
                           [] r = "kube_control_plane" -> set_kube_control_plane
                           [] r = "kube_node" -> set_kube_node
                           [] r = "calico_rr" -> set_calico_rr
  <2>1. group' = [r \in Role |-> held(r)]
    BY DEF WriteConfig
  <2> HIDE DEF held
  <2> QED
    BY <1>3, <2>1
<1> QED
  BY <1>1, <1>4

\* Every step keeps the types.
LEMMA TypeStep == TInv /\ [Next]_vars => TInv'
<1> SUFFICES ASSUME TInv, [Next]_vars PROVE TInv'
  OBVIOUS
<1>0. TypeOK /\ NamedWithIp /\ UserName \subseteq Name /\ GivenName \subseteq Name
        /\ None \notin Name
  <2>1. 1 .. MaxId \subseteq Nat
    BY LimitAssumption
  <2> QED
    BY <2>1, NameAssumption DEF TInv, Name
<1>1. CASE BeginFromFile
  <2>1. IsDict(hosts', ip') /\ IsDict(allHosts', allIp')
    BY <1>0, <1>1 DEF BeginFromFile, TypeOK, IsDict, file
  <2>2. nextId' \in 1 .. MaxId + 1
    <3>1. nextId' = HighestId(ToSet(allHosts)) + 1
      BY <1>1 DEF BeginFromFile
    <3> QED
      BY <3>1, HighestIdIsGreatest, LimitAssumption
  <2>3. real' \in BOOLEAN
    BY <1>1, ScaleAssumption DEF BeginFromFile
  <2> QED
    BY <1>0, <1>1, <2>1, <2>2, <2>3 DEF BeginFromFile, TInv, TypeOK, NamedWithIp, file, IsDict
<1>2. CASE BeginNew
  <2>1. IsDict(hosts', ip') /\ IsDict(allHosts', allIp')
    BY <1>0, <1>2, EmptyDict DEF BeginNew, TypeOK, IsDict, file
  <2>2. nextId' \in 1 .. MaxId + 1
    BY <1>2, LimitAssumption DEF BeginNew
  <2>3. real' \in BOOLEAN
    BY <1>2, ScaleAssumption DEF BeginNew
  <2> QED
    BY <1>0, <1>2, <2>1, <2>2, <2>3 DEF BeginNew, TInv, TypeOK, NamedWithIp, file, IsDict
<1>3. CASE Raise
  <2>1. EndCall /\ IsDict(allHosts', allIp') /\ group' \in [Role -> SUBSET Name]
    BY <1>0, <1>3 DEF Raise, file, TypeOK, IsDict
  <2> QED
    BY <2>1, EndCallTypes
<1>4. CASE WriteConfig
  BY <1>0, <1>4, WrittenTypes, EndCallTypes DEF WriteConfig
<1>5. ASSUME NEW key \in Name \cup Address, DeleteArg(key) PROVE TInv'
  <2>1. [op |-> "delete", key |-> key] \in Arg
    BY DEF Arg
  <2>2. IsDict(hosts', ip')
    BY <1>0, <1>5, OnlyKeepsDict DEF DeleteArg, TypeOK, IsDict
  <2>3. TypeOK'
    BY <1>0, <1>5, <2>1, <2>2, ReadKeepsTypes DEF DeleteArg, TypeOK
  <2> QED
    BY <1>0, <1>5, <2>3 DEF DeleteArg, TInv, NamedWithIp
<1>6. ASSUME NEW a \in Address, IpArg(a) PROVE TInv'
  <2>1. [op |-> "ip", ip |-> a] \in Arg
    BY DEF Arg
  <2>2. last' \in [name : Name \cup {None}, ip : Address \cup {None}] /\ last'.ip = a
    BY <1>0, <1>6 DEF IpArg, TypeOK
  <2>3. IsDict(hosts', ip') /\ nextId' \in 1 .. MaxId + 1
    <3>1. CASE UNCHANGED <<hosts, ip, nextId>>
      BY <1>0, <3>1 DEF TypeOK, IsDict
    <3>2. CASE nextId <= MaxId /\ Put(nextId, a) /\ nextId' = nextId + 1
      <4>1. nextId \in Name /\ nextId' \in 1 .. MaxId + 1
        BY <1>0, <3>2, LimitAssumption DEF TypeOK, Name
      <4> QED
        BY <1>0, <3>2, <4>1, PutKeepsDict DEF TypeOK
    <3>3. CASE (\E n \in UserName : Put(n, a)) /\ UNCHANGED nextId
      BY <1>0, <3>3, PutKeepsDict DEF TypeOK
    <3> QED
      BY <1>6, <3>1, <3>2, <3>3 DEF IpArg
  <2>4. TypeOK'
    BY <1>0, <1>6, <2>1, <2>2, <2>3, ReadKeepsTypes DEF IpArg
  <2> QED
    BY <2>2, <2>4 DEF TInv, NamedWithIp
<1>7. ASSUME NEW n \in GivenName, NEW a \in Address, NamedArg(n, a) PROVE TInv'
  <2>1. [op |-> "named", name |-> n, ip |-> a] \in Arg
    BY <1>0 DEF Arg
  <2>2. last' \in [name : Name \cup {None}, ip : Address \cup {None}] /\ last'.ip = a
    BY <1>0, <1>7 DEF NamedArg
  <2>3. IsDict(hosts', ip')
    BY <1>0, <1>7, PutKeepsDict DEF NamedArg, TypeOK, IsDict
  <2>4. nextId' \in 1 .. MaxId + 1
    BY <1>0, <1>7 DEF NamedArg, TypeOK
  <2>5. TypeOK'
    BY <1>0, <1>7, <2>1, <2>2, <2>3, <2>4, ReadKeepsTypes DEF NamedArg
  <2> QED
    BY <2>2, <2>5 DEF TInv, NamedWithIp
<1>8. ASSUME NEW n \in GivenName \ Nat, BareArg(n) PROVE TInv'
  <2>1. [op |-> "bare", name |-> n] \in Arg
    BY NameAssumption DEF Arg
  <2>2. IsDict(hosts', ip')
    <3>1. CASE UNCHANGED <<hosts, ip>>
      BY <1>0, <3>1 DEF TypeOK, IsDict
    <3>2. CASE last.name # None /\ Put(last.name, last.ip)
      <4>1. last.name \in Name /\ last.ip \in Address
        BY <1>0, <3>2 DEF TypeOK, NamedWithIp
      <4> QED
        BY <1>0, <3>2, <4>1, PutKeepsDict DEF TypeOK
    <3> QED
      BY <1>8, <3>1, <3>2 DEF BareArg
  <2>3. UNCHANGED <<nextId, last>>
    BY <1>8 DEF BareArg
  <2>4. TypeOK'
    BY <1>0, <1>8, <2>1, <2>2, <2>3, ReadKeepsTypes DEF BareArg, TypeOK
  <2> QED
    BY <1>0, <2>3, <2>4 DEF TInv, NamedWithIp
<1>9. CASE UNCHANGED vars
  BY <1>9 DEF vars, file, call, TInv, TypeOK, NamedWithIp, IsDict
<1> QED
  BY <1>1, <1>2, <1>3, <1>4, <1>5, <1>6, <1>7, <1>8, <1>9 DEF Next

\* An inventory that nobody has written yet has the types.
LEMMA TypeInit == Init => TInv
<1> SUFFICES ASSUME Init PROVE TInv
  OBVIOUS
<1>1. IsDict(allHosts, allIp) /\ IsDict(hosts, ip) /\ group \in [Role -> SUBSET Name]
  BY EmptyDict DEF Init, NoRoles
<1>2. nextId \in 1 .. MaxId + 1
  BY LimitAssumption DEF Init
<1> QED
  BY <1>1, <1>2 DEF Init, TInv, TypeOK, NamedWithIp

\* The file and the dictionary of a call list each host once, with an address;
\* roles are held by names, and a generated number stays within its bound.
THEOREM TypeCorrect == Spec => []TypeOK
<1>1. TInv => TypeOK
  BY DEF TInv
<1> QED
  BY <1>1, TypeInit, TypeStep, PTL DEF Spec

-----------------------------------------------------------------------------
(* Roles.  Nothing but the types is needed: whatever a call has done to its   *)
(* dictionary, writing it gives every host a role and no role to others.      *)

\* The first hosts, from the first or from the fourth: as many as there are.
LEMMA FirstHostsCount ==
  ASSUME TypeOK
  PROVE  /\ \A i \in 1 .. Len(hosts) : hosts[i] \in FirstHosts(i, KubeControlHosts)
         /\ Len(hosts) >= 1 => hosts[1] \in FirstHosts(1, etcd_hosts_count)
         /\ Len(hosts) >= 3 => /\ {hosts[1], hosts[2], hosts[3]} \subseteq FirstHosts(1, etcd_hosts_count)
                               /\ Cardinality({hosts[1], hosts[2], hosts[3]}) = 3
<1>1. hosts \in Seq(Name) /\ IsInjective(hosts) /\ Len(hosts) \in Nat
  BY DEF TypeOK, IsDict
<1>2. KubeControlHosts \in Nat /\ KubeControlHosts >= 1
  BY ScaleAssumption
<1>3. \A i \in 1 .. Len(hosts) : hosts[i] \in FirstHosts(i, KubeControlHosts)
  BY <1>1, <1>2 DEF FirstHosts
<1>4. Len(hosts) >= 1 => hosts[1] \in FirstHosts(1, etcd_hosts_count)
  BY <1>1 DEF FirstHosts, etcd_hosts_count
<1>5. ASSUME Len(hosts) >= 3
      PROVE  /\ {hosts[1], hosts[2], hosts[3]} \subseteq FirstHosts(1, etcd_hosts_count)
             /\ Cardinality({hosts[1], hosts[2], hosts[3]}) = 3
  <2>1. etcd_hosts_count = 3
    BY <1>5 DEF etcd_hosts_count
  <2>2. \A j \in 1 .. 3 : hosts[j] \in FirstHosts(1, 3)
    BY <1>1, <1>5 DEF FirstHosts
  <2>3. hosts[1] # hosts[2] /\ hosts[1] # hosts[3] /\ hosts[2] # hosts[3]
    <3>1. DOMAIN hosts = 1 .. Len(hosts)
      BY <1>1
    <3> QED
      BY <1>1, <1>5, <3>1 DEF IsInjective
  <2>4. IsFiniteSet({hosts[1]}) /\ Cardinality({hosts[1]}) = 1
    BY FS_Singleton
  <2>5. IsFiniteSet({hosts[1]} \cup {hosts[2]}) /\ Cardinality({hosts[1]} \cup {hosts[2]}) = 2
    BY <2>3, <2>4, FS_AddElement
  <2>6. Cardinality(({hosts[1]} \cup {hosts[2]}) \cup {hosts[3]}) = 3
    BY <2>3, <2>5, FS_AddElement
  <2>7. ({hosts[1]} \cup {hosts[2]}) \cup {hosts[3]} = {hosts[1], hosts[2], hosts[3]}
    OBVIOUS
  <2> QED
    BY <2>1, <2>2, <2>6, <2>7
<1> QED
  BY <1>3, <1>4, <1>5

RInv == TInv /\ EveryHostHasRole /\ PlaneAndEtcdRemain

\* Writing the inventory gives roles to all its hosts and to no others.
LEMMA RolesWritten ==
  ASSUME TInv, WriteConfig
  PROVE  EveryHostHasRole'
<1>1. TypeOK /\ ToSet(allHosts') = DOMAIN ip
  BY WrittenDict DEF TInv, WriteConfig, IsDict
<1>2. /\ group'["etcd"] = set_etcd /\ group'["kube_control_plane"] = set_kube_control_plane
      /\ group'["kube_node"] = set_kube_node /\ group'["calico_rr"] = set_calico_rr
  BY DEF WriteConfig, Role
<1>3. /\ UNION {group'[r] : r \in Role} =
           set_etcd \cup set_kube_control_plane \cup set_kube_node \cup set_calico_rr
      /\ UNION {group'[r] : r \in Role \ {"calico_rr"}} =
           set_etcd \cup set_kube_control_plane \cup set_kube_node
  BY <1>2 DEF Role
<1>4. /\ set_etcd \cup set_kube_control_plane \cup set_kube_node \cup set_calico_rr = DOMAIN ip
      /\ set_etcd \cup set_kube_control_plane \cup set_kube_node = DOMAIN ip
  BY <1>1, RolesOfHosts
<1> QED
  BY <1>1, <1>3, <1>4 DEF EveryHostHasRole

\* Writing an inventory that has hosts names a control plane, and three etcd
\* members or, below three hosts, one.
LEMMA PlaneAndEtcdWritten ==
  ASSUME TInv, WriteConfig
  PROVE  PlaneAndEtcdRemain'
<1> SUFFICES ASSUME allHosts' # <<>>
             PROVE  /\ group'["kube_control_plane"] # {}
                    /\ Cardinality(group'["etcd"]) >= IF Len(allHosts') >= 3 THEN 3 ELSE 1
  BY DEF PlaneAndEtcdRemain
<1>1. TypeOK /\ IsDict(hosts, ip) /\ IsDict(allHosts', ip)
  BY WrittenDict DEF TInv, TypeOK, WriteConfig, IsDict
<1>2. /\ hosts \in Seq(Name) /\ IsInjective(hosts) /\ ToSet(hosts) = DOMAIN ip
      /\ allHosts' \in Seq(Name) /\ IsInjective(allHosts') /\ ToSet(allHosts') = DOMAIN ip
  BY <1>1 DEF IsDict
<1>3. IsFiniteSet(DOMAIN ip) /\ Cardinality(DOMAIN ip) = Len(hosts) /\ Len(allHosts') = Len(hosts)
  <2>1. IsFiniteSet(ToSet(hosts)) /\ Cardinality(ToSet(hosts)) = Len(hosts)
    BY <1>2, LengthOfInjective
  <2>2. Cardinality(ToSet(allHosts')) = Len(allHosts')
    BY <1>2, LengthOfInjective
  <2> QED
    BY <1>2, <2>1, <2>2
<1>4. Len(hosts) \in Nat /\ Len(hosts) >= 1
  BY <1>2, <1>3
<1>5. group'["etcd"] = set_etcd /\ group'["kube_control_plane"] = set_kube_control_plane
  BY DEF WriteConfig, Role
<1>6. set_kube_control_plane # {}
  <2>1. CASE Len(hosts) >= ScaleThreshold
    <3>1. etcd_hosts_count = 3 /\ etcd_hosts_count + 1 = 4 /\ 4 \in 1 .. Len(hosts)
      BY <1>4, <2>1, ScaleAssumption DEF etcd_hosts_count
    <3>2. hosts[4] \in FirstHosts(4, KubeControlHosts)
      BY <1>1, <3>1, FirstHostsCount
    <3> QED
      BY <2>1, <3>1, <3>2 DEF set_kube_control_plane
  <2>2. CASE ~(Len(hosts) >= ScaleThreshold)
    <3>1. 1 \in 1 .. Len(hosts)
      BY <1>4
    <3>2. hosts[1] \in FirstHosts(1, KubeControlHosts)
      BY <1>1, <3>1, FirstHostsCount
    <3> QED
      BY <2>2, <3>2 DEF set_kube_control_plane
  <2> QED
    BY <2>1, <2>2
<1>7. IsFiniteSet(set_etcd) /\ Cardinality(set_etcd) \in Nat
  BY <1>1, <1>3, RolesOfHosts, FS_Subset, FS_CardinalityType
<1>8. Cardinality(set_etcd) >= 1
  <2>1. set_etcd # {}
    BY <1>1, <1>4, FirstHostsCount DEF set_etcd
  <2> QED
    BY <1>7, <2>1, FS_EmptySet
<1>9. ASSUME Len(hosts) >= 3 PROVE Cardinality(set_etcd) >= 3
  <2>1. {hosts[1], hosts[2], hosts[3]} \in SUBSET set_etcd
    BY <1>1, <1>9, FirstHostsCount DEF set_etcd
  <2>2. Cardinality({hosts[1], hosts[2], hosts[3]}) = 3
    BY <1>1, <1>9, FirstHostsCount
  <2>3. Cardinality({hosts[1], hosts[2], hosts[3]}) <= Cardinality(set_etcd)
    BY <1>7, <2>1, FS_Subset
  <2> QED
    BY <2>2, <2>3
<1> QED
  BY <1>3, <1>5, <1>6, <1>8, <1>9

\* Only WriteConfig touches the file.
LEMMA FileStep ==
  [Next]_vars => WriteConfig \/ UNCHANGED file
  BY DEF Next, vars, BeginFromFile, BeginNew, Raise, DeleteArg, IpArg, NamedArg, BareArg, Read

\* Every step keeps the roles.
LEMMA RoleStep == RInv /\ [Next]_vars => RInv'
<1> SUFFICES ASSUME RInv, [Next]_vars PROVE RInv'
  OBVIOUS
<1>1. TInv /\ TInv'
  BY TypeStep DEF RInv
<1>2. CASE WriteConfig
  BY <1>1, <1>2, RolesWritten, PlaneAndEtcdWritten DEF RInv
<1>3. CASE UNCHANGED file
  BY <1>1, <1>3 DEF RInv, file, EveryHostHasRole, PlaneAndEtcdRemain
<1> QED
  BY <1>2, <1>3, FileStep

\* An inventory without hosts has no roles to give.
LEMMA RoleInit == Init => RInv
<1> SUFFICES ASSUME Init PROVE RInv
  OBVIOUS
<1>1. ToSet(allHosts) = {} /\ \A r \in Role : group[r] = {}
  BY DEF Init, ToSet, NoRoles
<1>2. EveryHostHasRole
  BY <1>1 DEF EveryHostHasRole
<1>3. PlaneAndEtcdRemain
  BY DEF Init, PlaneAndEtcdRemain
<1> QED
  BY <1>2, <1>3, TypeInit DEF RInv

\* Roles are held by the hosts of the inventory and by no others, and each is
\* in etcd, control plane or node group, on either side of every threshold.
THEOREM RoleForEveryHost == Spec => []EveryHostHasRole
<1>1. RInv => EveryHostHasRole
  BY DEF RInv
<1> QED
  BY <1>1, RoleInit, RoleStep, PTL DEF Spec

\* However the inventory shrinks and grows past its thresholds, it names a
\* control plane, and three etcd members once there are three hosts.
THEOREM PlaneAndEtcd == Spec => []PlaneAndEtcdRemain
<1>1. RInv => PlaneAndEtcdRemain
  BY DEF RInv
<1> QED
  BY <1>1, RoleInit, RoleStep, PTL DEF Spec

-----------------------------------------------------------------------------
(* Hosts that no argument names.  A call that loaded the file knows them all *)
(* along: a generated number is above those of the file, a given name is      *)
(* among the arguments, and a bare name stores under a given one.             *)

Unnamed == {n \in DOMAIN allIp \ (DeletedKeys \cup GivenNames) : allIp[n] \notin DeletedKeys}

KeptWhileReading ==
  pc = "reading" /\ load /\ ~real =>
    /\ \A n \in Unnamed : n \in DOMAIN ip /\ ip[n] = allIp[n]
    /\ \A j \in DOMAIN allIp \cap (1 .. MaxId) : j < nextId
    /\ last.name \in GivenNames \cup {None}

NotNamedYet == pc = "idle" => last.name = None

KInv == TInv /\ NotNamedYet /\ KeptWhileReading

\* An argument that is read leaves no fewer arguments that name a host.
LEMMA ReadNames ==
  ASSUME NEW arg, Read(arg)
  PROVE  /\ DeletedKeys \subseteq DeletedKeys' /\ GivenNames \subseteq GivenNames'
         /\ arg.op = "delete" => arg.key \in DeletedKeys'
         /\ arg.op = "named" => arg.name \in GivenNames'
         /\ UNCHANGED <<allIp, pc, load, real>>
  BY DEF Read, DeletedKeys, GivenNames, file

\* An argument that keeps the hosts it does not name keeps KeptWhileReading.
LEMMA ArgKeepsUnnamed ==
  ASSUME KeptWhileReading, NotNamedYet, pc = "reading", NEW arg, Read(arg),
         load /\ ~real => /\ \A n \in Unnamed \cap Unnamed' : ip[n] = allIp[n] /\ n \in DOMAIN ip =>
                               n \in DOMAIN ip' /\ ip'[n] = ip[n]
                          /\ \A j \in DOMAIN allIp \cap (1 .. MaxId) : j < nextId => j < nextId'
                          /\ last.name \in GivenNames \cup {None} =>
                               last'.name \in GivenNames' \cup {None}
  PROVE  KeptWhileReading' /\ NotNamedYet'
<1>1. /\ DeletedKeys \subseteq DeletedKeys' /\ GivenNames \subseteq GivenNames'
      /\ UNCHANGED <<allIp, pc, load, real>>
  BY ReadNames
<1>2. Unnamed' \subseteq Unnamed
  BY <1>1 DEF Unnamed
<1>3. KeptWhileReading'
  BY <1>1, <1>2 DEF KeptWhileReading
<1>4. NotNamedYet'
  BY <1>1 DEF NotNamedYet
<1> QED
  BY <1>3, <1>4

\* Storing one host leaves the others with their addresses.
LEMMA PutKeepsOthers ==
  ASSUME NEW n, NEW a, Put(n, a)
  PROVE  \A m \in DOMAIN ip : m \in DOMAIN ip' /\ (m # n => ip'[m] = ip[m])
  BY DEF Put

\* Every step of a call keeps the hosts that none of its arguments names.
LEMMA KeptStep == KInv /\ [Next]_vars => KInv'
<1> SUFFICES ASSUME KInv, [Next]_vars PROVE NotNamedYet' /\ KeptWhileReading'
  BY TypeStep DEF KInv
<1>0. TypeOK /\ NotNamedYet /\ KeptWhileReading
  BY DEF KInv, TInv
<1>1. CASE BeginFromFile
  <2>1. DOMAIN allIp = ToSet(allHosts) /\ nextId' = HighestId(ToSet(allHosts)) + 1
          /\ HighestId(ToSet(allHosts)) \in 0 .. MaxId
    BY <1>0, <1>1, HighestIdIsGreatest DEF BeginFromFile, TypeOK, IsDict
  <2>2. \A j \in DOMAIN allIp \cap (1 .. MaxId) : j < nextId'
    BY <2>1, HighestIdIsGreatest, LimitAssumption
  <2>3. /\ UNCHANGED <<allIp, args, last>> /\ last.name = None
        /\ ip' = allIp /\ pc' = "reading"
    BY <1>0, <1>1 DEF BeginFromFile, NotNamedYet, file
  <2> QED
    BY <2>2, <2>3 DEF KeptWhileReading, NotNamedYet, Unnamed, DeletedKeys, GivenNames
<1>2. CASE BeginNew
  BY <1>2 DEF BeginNew, KeptWhileReading, NotNamedYet
<1>3. CASE Raise
  BY <1>3 DEF Raise, EndCall, KeptWhileReading, NotNamedYet
<1>4. CASE WriteConfig
  BY <1>4 DEF WriteConfig, EndCall, KeptWhileReading, NotNamedYet
<1>5. ASSUME NEW key \in Name \cup Address, DeleteArg(key) PROVE NotNamedYet' /\ KeptWhileReading'
  <2> DEFINE arg == [op |-> "delete", key |-> key]
  <2>1. Read(arg) /\ pc = "reading" /\ UNCHANGED <<nextId, last>>
    BY <1>5 DEF DeleteArg, Read
  <2>2. arg.op = "delete" /\ arg.key = key
    OBVIOUS
  <2> HIDE DEF arg
  <2>3. key \in DeletedKeys' /\ GivenNames \subseteq GivenNames' /\ UNCHANGED allIp
    BY <2>1, <2>2, ReadNames
  <2>4. ASSUME NEW n \in Unnamed', ip[n] = allIp[n], n \in DOMAIN ip
        PROVE  n \in DOMAIN ip' /\ ip'[n] = ip[n]
    <3>1. n # key /\ ip[n] # key
      BY <2>3, <2>4 DEF Unnamed
    <3>2. n \in DOMAIN ip \ Deleted(key)
      BY <2>4, <3>1 DEF Deleted
    <3> QED
      BY <1>5, <3>2 DEF DeleteArg
  <2> QED
    BY <1>0, <2>1, <2>3, <2>4, ArgKeepsUnnamed
<1>6. ASSUME NEW a \in Address, IpArg(a) PROVE NotNamedYet' /\ KeptWhileReading'
  <2> DEFINE arg == [op |-> "ip", ip |-> a]
  <2>1. Read(arg) /\ pc = "reading"
    BY <1>6 DEF IpArg, Read
  <2> HIDE DEF arg
  <2>2. GivenNames \subseteq GivenNames' /\ UNCHANGED allIp
    BY <2>1, ReadNames
  <2>3. last'.name = last.name
    BY <1>0, <1>6 DEF IpArg, TypeOK
  <2>4. ASSUME load, ~real
        PROVE  /\ \A n \in Unnamed : ip[n] = allIp[n] /\ n \in DOMAIN ip =>
                    n \in DOMAIN ip' /\ ip'[n] = ip[n]
               /\ \A j \in DOMAIN allIp \cap (1 .. MaxId) : j < nextId => j < nextId'
    <3>1. CASE UNCHANGED <<hosts, ip, nextId>>
      BY <3>1
    <3>2. CASE nextId <= MaxId /\ Put(nextId, a) /\ nextId' = nextId + 1
      <4>1. nextId \in 1 .. MaxId /\ \A j \in DOMAIN allIp \cap (1 .. MaxId) : j < nextId
        BY <1>0, <2>1, <2>4, <3>2, LimitAssumption DEF TypeOK, KeptWhileReading
      <4>2. nextId \notin DOMAIN allIp
        BY <4>1, LimitAssumption
      <4>3. \A n \in Unnamed : n # nextId
        BY <4>2 DEF Unnamed
      <4>4. \A j \in DOMAIN allIp \cap (1 .. MaxId) : j < nextId'
        BY <3>2, <4>1, LimitAssumption
      <4> QED
        BY <3>2, <4>3, <4>4, PutKeepsOthers
    <3> QED
      BY <1>6, <2>4, <3>1, <3>2 DEF IpArg
  <2> QED
    BY <1>0, <2>1, <2>2, <2>3, <2>4, ArgKeepsUnnamed
<1>7. ASSUME NEW n \in GivenName, NEW a \in Address, NamedArg(n, a)
      PROVE  NotNamedYet' /\ KeptWhileReading'
  <2> DEFINE arg == [op |-> "named", name |-> n, ip |-> a]
  <2>1. Read(arg) /\ pc = "reading" /\ UNCHANGED nextId /\ last'.name = n
    BY <1>7 DEF NamedArg, Read
  <2>2. arg.op = "named" /\ arg.name = n
    OBVIOUS
  <2> HIDE DEF arg
  <2>3. n \in GivenNames' /\ UNCHANGED allIp
    BY <2>1, <2>2, ReadNames
  <2>4. ASSUME NEW m \in Unnamed', m \in DOMAIN ip PROVE m \in DOMAIN ip' /\ ip'[m] = ip[m]
    <3>1. m # n
      BY <2>3 DEF Unnamed
    <3> QED
      BY <1>7, <2>4, <3>1, PutKeepsOthers DEF NamedArg
  <2> QED
    BY <1>0, <2>1, <2>3, <2>4, ArgKeepsUnnamed
<1>8. ASSUME NEW n \in GivenName \ Nat, BareArg(n) PROVE NotNamedYet' /\ KeptWhileReading'
  <2> DEFINE arg == [op |-> "bare", name |-> n]
  <2>1. Read(arg) /\ pc = "reading" /\ UNCHANGED <<nextId, last>>
    BY <1>8 DEF BareArg, Read
  <2> HIDE DEF arg
  <2>2. GivenNames \subseteq GivenNames' /\ UNCHANGED allIp
    BY <2>1, ReadNames
  <2>3. ASSUME load, ~real, NEW m \in Unnamed', m \in DOMAIN ip
        PROVE  m \in DOMAIN ip' /\ ip'[m] = ip[m]
    <3>1. CASE UNCHANGED <<hosts, ip>>
      BY <2>3, <3>1
    <3>2. CASE last.name # None /\ Put(last.name, last.ip)
      <4>1. last.name \in GivenNames'
        BY <1>0, <2>1, <2>2, <2>3, <3>2 DEF KeptWhileReading
      <4>2. m # last.name
        BY <4>1 DEF Unnamed
      <4> QED
        BY <2>3, <3>2, <4>2, PutKeepsOthers
    <3> QED
      BY <1>8, <3>1, <3>2 DEF BareArg
  <2> QED
    BY <1>0, <2>1, <2>2, <2>3, ArgKeepsUnnamed
<1>9. CASE UNCHANGED vars
  BY <1>0, <1>9 DEF vars, file, call, KeptWhileReading, NotNamedYet, Unnamed, DeletedKeys, GivenNames
<1> QED
  BY <1>1, <1>2, <1>3, <1>4, <1>5, <1>6, <1>7, <1>8, <1>9 DEF Next

\* Writing the inventory keeps the hosts that the call has kept, and their roles.
LEMMA UnnamedWritten ==
  ASSUME KInv, load /\ ~real /\ WriteConfig,
         NEW n \in DOMAIN allIp \ (DeletedKeys \cup GivenNames), allIp[n] \notin DeletedKeys
  PROVE  /\ n \in DOMAIN allIp' /\ allIp'[n] = allIp[n]
         /\ \A r \in Role : n \in group[r] => n \in group'[r]
<1>1. n \in DOMAIN ip /\ ip[n] = allIp[n]
  BY DEF KInv, KeptWhileReading, Unnamed, WriteConfig
<1>2. /\ group'["etcd"] = set_etcd /\ group'["kube_control_plane"] = set_kube_control_plane
      /\ group'["kube_node"] = set_kube_node /\ group'["calico_rr"] = set_calico_rr
  BY DEF WriteConfig, Role
<1>3. \A r \in Role : n \in group[r] => n \in group'[r]
  BY <1>1, <1>2, RolesOfHosts DEF KInv, TInv, Role
<1> QED
  BY <1>1, <1>3 DEF WriteConfig

\* A call on an existing inventory keeps every host that none of its arguments
\* names, with its address and its roles.
THEOREM UnnamedKept == Spec => UnnamedHostsKept
<1>1. Init => KInv
  BY TypeInit DEF Init, KInv, NotNamedYet, KeptWhileReading
<1> DEFINE Keeps == load /\ ~real /\ WriteConfig =>
                      \A n \in DOMAIN allIp \ (DeletedKeys \cup GivenNames) :
                        allIp[n] \notin DeletedKeys =>
                          /\ n \in DOMAIN allIp' /\ allIp'[n] = allIp[n]
                          /\ \A r \in Role : n \in group[r] => n \in group'[r]
<1>2. KInv => Keeps
  BY UnnamedWritten
<1>3. KInv /\ [Next]_vars => [Keeps]_vars
  BY <1>2
<1> HIDE DEF Keeps
<1>4. Spec => [][Keeps]_vars
  BY <1>1, <1>3, KeptStep, PTL DEF Spec
<1> QED
  BY <1>4 DEF Keeps, UnnamedHostsKept
=============================================================================
