---------------------- MODULE TerraformInventoryProofs ----------------------
(***************************************************************************)
(* What the answers of terraform.py are, for any number of files, contents,  *)
(* machines and floating IPs, and whatever is applied during a run.  The     *)
(* types need nothing but that tfstates are tfstates; that an answer is true *)
(* and names no address twice rests on OwnershipAssumption.                  *)
(***************************************************************************)
EXTENDS TerraformInventory, SubsequenceProofs

-----------------------------------------------------------------------------
(* The parsers                                                               *)

HostOf(r) == IF r.kind = "metal_device" THEN metal_device(r) ELSE openstack_host(r)

\* A resource is known by its kind.
LEMMA Kinds ==
  ASSUME NEW r \in Resource
  PROVE  /\ r.kind = "metal_device" => r \in Device
         /\ IsInstance(r) => r \in Instance
         /\ IsAssociation(r) => r \in Association
         /\ IsMachine(r) <=> IsInstance(r) \/ r.kind = "metal_device"
  BY DEF Resource, Device, Instance, Association, Other, IsInstance, IsAssociation, IsMachine

\* A machine is made into a host.
LEMMA HostOfTypes ==
  ASSUME NEW r \in Resource, IsMachine(r)
  PROVE  HostOf(r) \in Host
<1>1. CASE r.kind = "metal_device"
  <2>1. r \in Device
    BY <1>1, Kinds
  <2>2. Direct(r.name) \in Address
    BY <2>1 DEF Device, Address
  <2> QED
    BY <1>1, <2>1, <2>2 DEF HostOf, metal_device, Device, Host
<1>2. CASE r.kind # "metal_device"
  <2>1. r \in Instance
    BY <1>2, Kinds
  <2>2. Six(r.port) \in Address /\ Access(r.port) \in Address
    BY <2>1 DEF Instance, Address
  <2> QED
    BY <1>2, <2>1, <2>2 DEF HostOf, openstack_host, Instance, Host
<1> QED
  BY <1>1, <1>2

\* The resources of some kinds, each with its place among all resources.
LEMMA OfKindPlaces ==
  ASSUME NEW s \in TfState, NEW kinds
  PROVE  /\ OfKind(s, kinds) \in Seq(Resource)
         /\ \E p \in [DOMAIN OfKind(s, kinds) -> DOMAIN s.resources] :
              /\ \A k \in DOMAIN OfKind(s, kinds) :
                   /\ OfKind(s, kinds)[k] = s.resources[p[k]]
                   /\ s.resources[p[k]].kind \in kinds
              /\ \A i \in DOMAIN s.resources :
                   s.resources[i].kind \in kinds => \E k \in DOMAIN OfKind(s, kinds) : p[k] = i
              /\ \A k, l \in DOMAIN OfKind(s, kinds) : p[k] = p[l] => k = l
<1> DEFINE S == {r \in ToSet(s.resources) : r.kind \in kinds}
           c == OfKind(s, kinds)
<1>1. s.resources \in Seq(Resource) /\ c = Only(s.resources, S)
  BY DEF TfState, OfKind
<1>2. \A i \in DOMAIN s.resources : i \in KeptIn(s.resources, S) <=> s.resources[i].kind \in kinds
  BY DEF KeptIn, ToSet
<1>3. KeptIn(s.resources, S) \subseteq DOMAIN s.resources
  BY DEF KeptIn
<1> HIDE DEF S, c
<1>4. PICK p \in [DOMAIN c -> KeptIn(s.resources, S)] :
         /\ \A k \in DOMAIN c : c[k] = s.resources[p[k]]
         /\ \A i \in KeptIn(s.resources, S) : \E k \in DOMAIN c : p[k] = i
         /\ \A k, l \in DOMAIN c : k < l => p[k] < p[l]
  BY <1>1, OnlyPlaces
<1>5. c \in Seq(Resource)
  BY <1>1, OnlyKeeps
<1>6. ASSUME NEW k \in DOMAIN c, NEW l \in DOMAIN c, p[k] = p[l] PROVE k = l
  <2>1. k \in Int /\ l \in Int
    BY <1>5
  <2>2. p[k] \in Int
    BY <1>1, <1>3, <1>4
  <2>3. (k < l => p[k] < p[l]) /\ (l < k => p[l] < p[k])
    BY <1>4
  <2> QED
    BY <1>6, <2>1, <2>2, <2>3
<1>7. p \in [DOMAIN c -> DOMAIN s.resources]
  BY <1>3, <1>4
<1>8. \A k \in DOMAIN c : s.resources[p[k]].kind \in kinds
  BY <1>2, <1>3, <1>4
<1>9. \A i \in DOMAIN s.resources : s.resources[i].kind \in kinds => \E k \in DOMAIN c : p[k] = i
  BY <1>2, <1>4
<1> QED
  BY <1>4, <1>5, <1>6, <1>7, <1>8, <1>9 DEF c

\* iterhosts makes every machine of a file into one host.
LEMMA HostsOfFile ==
  ASSUME NEW s \in TfState
  PROVE  /\ iterhosts(s) \in Seq(Host)
         /\ \E p \in [DOMAIN iterhosts(s) -> DOMAIN s.resources] :
              /\ \A k \in DOMAIN iterhosts(s) :
                   /\ iterhosts(s)[k] = HostOf(s.resources[p[k]])
                   /\ IsMachine(s.resources[p[k]])
              /\ \A i \in DOMAIN s.resources :
                   IsMachine(s.resources[i]) => \E k \in DOMAIN iterhosts(s) : p[k] = i
              /\ \A k, l \in DOMAIN iterhosts(s) : p[k] = p[l] => k = l
<1> DEFINE m == OfKind(s, {"openstack_compute_instance_v2", "metal_device"})
           h == iterhosts(s)
<1>1. h = [i \in DOMAIN m |-> HostOf(m[i])]
  BY DEF iterhosts, HostOf
<1>2. m \in Seq(Resource)
  BY OfKindPlaces
<1>3. PICK p \in [DOMAIN m -> DOMAIN s.resources] :
              /\ \A k \in DOMAIN m : m[k] = s.resources[p[k]] /\ IsMachine(s.resources[p[k]])
              /\ \A i \in DOMAIN s.resources : IsMachine(s.resources[i]) => \E k \in DOMAIN m : p[k] = i
              /\ \A k, l \in DOMAIN m : p[k] = p[l] => k = l
  BY OfKindPlaces DEF IsMachine
<1> HIDE DEF m, h
<1>4. DOMAIN h = DOMAIN m /\ \A k \in DOMAIN m : h[k] = HostOf(s.resources[p[k]])
  BY <1>1, <1>3
<1>5. \A k \in DOMAIN m : h[k] \in Host
  <2>1. \A k \in DOMAIN m : m[k] \in Resource /\ IsMachine(m[k])
    BY <1>2, <1>3
  <2> QED
    BY <1>1, <2>1, HostOfTypes
<1>6. h \in Seq(Host)
  <2>1. DOMAIN m = 1 .. Len(m) /\ Len(m) \in Nat
    BY <1>2
  <2>2. h = [i \in 1 .. Len(m) |-> h[i]]
    BY <1>1, <2>1
  <2>3. h \in [1 .. Len(m) -> Host]
    BY <1>5, <2>1, <2>2
  <2> QED
    BY <2>1, <2>3
<1> QED
  BY <1>3, <1>4, <1>6 DEF h

\* dict(iterips(...)) has the ports that are associated, each with a floating IP
\* of one of its associations.
LEMMA IpsOfFile ==
  ASSUME NEW s \in TfState
  PROVE  /\ \A q \in DOMAIN iterips(s) : \E i \in DOMAIN s.resources :
              /\ IsAssociation(s.resources[i]) /\ s.resources[i].port = q
              /\ iterips(s)[q] = s.resources[i].ip
         /\ \A i \in DOMAIN s.resources :
              IsAssociation(s.resources[i]) => s.resources[i].port \in DOMAIN iterips(s)
<1> DEFINE a == OfKind(s, {"openstack_networking_floatingip_associate_v2"})
           d == iterips(s)
           Of(q) == {i \in DOMAIN a : a[i].port = q}
           LastOf(q) == CHOOSE i \in DOMAIN a : /\ a[i].port = q
                                                /\ \A j \in DOMAIN a : a[j].port = q => j <= i
<1>1. d = [q \in {a[i].port : i \in DOMAIN a} |-> a[LastOf(q)].ip]
  BY DEF iterips
<1>2. a \in Seq(Resource)
  BY OfKindPlaces
<1>3. PICK p \in [DOMAIN a -> DOMAIN s.resources] :
              /\ \A k \in DOMAIN a : a[k] = s.resources[p[k]] /\ IsAssociation(s.resources[p[k]])
              /\ \A i \in DOMAIN s.resources : IsAssociation(s.resources[i]) => \E k \in DOMAIN a : p[k] = i
  BY OfKindPlaces DEF IsAssociation
<1> HIDE DEF a
<1>4. ASSUME NEW k \in DOMAIN a
      PROVE  LastOf(a[k].port) \in DOMAIN a /\ a[LastOf(a[k].port)].port = a[k].port
  <2>1. DOMAIN a = 1 .. Len(a) /\ Len(a) \in Nat
    BY <1>2
  <2>2. Of(a[k].port) \in SUBSET (0 .. Len(a)) /\ Of(a[k].port) # {}
    BY <2>1
  <2>3. PICK i \in Of(a[k].port) : \A j \in Of(a[k].port) : j <= i
    <3> HIDE DEF Of
    <3> QED
      BY <2>1, <2>2, NatMax
  <2>4. i \in DOMAIN a /\ a[i].port = a[k].port /\ \A j \in DOMAIN a : a[j].port = a[k].port => j <= i
    BY <2>3
  <2> QED
    BY <2>4
<1> HIDE DEF LastOf, d
<1>5. \A q \in DOMAIN d : \E k \in DOMAIN a : a[k].port = q /\ d[q] = a[LastOf(q)].ip
  BY <1>1
<1>6. \A i \in DOMAIN s.resources :
              IsAssociation(s.resources[i]) => s.resources[i].port \in DOMAIN d
  BY <1>1, <1>3
<1>7. ASSUME NEW q \in DOMAIN d
      PROVE  \E i \in DOMAIN s.resources :
              /\ IsAssociation(s.resources[i]) /\ s.resources[i].port = q
              /\ d[q] = s.resources[i].ip
  <2>1. PICK k \in DOMAIN a : a[k].port = q /\ d[q] = a[LastOf(q)].ip
    BY <1>5
  <2>2. LastOf(q) \in DOMAIN a /\ a[LastOf(q)].port = q
    BY <1>4, <2>1
  <2> QED
    BY <1>3, <2>1, <2>2
<1> QED
  BY <1>6, <1>7 DEF d

-----------------------------------------------------------------------------
(* Types                                                                     *)

\* what the state says of the files is of tfstates
LEMMA FilesAreStates ==
  ASSUME TypeOK, NEW f \in File
  PROVE  file[f] \in Content[f] /\ file[f] \in TfState
  BY ContentAssumption DEF TypeOK

\* The floating IP of a port replaces what a host is reached at.
LEMMA UpdatedHost ==
  ASSUME NEW h \in Host, \A p \in DOMAIN ips : ips[p] \in FloatingIp
  PROVE  iter_host_ips(h) \in Host
<1> DEFINE updated == IF h.port \notin DOMAIN ips THEN h
                      ELSE [h EXCEPT !.ansible_host = ips[h.port], !.access_ip = ips[h.port]]
<1>1. updated \in Host
  BY DEF Host, Address
<1>2. iter_host_ips(h) = IF h.use_access_ip = "0" THEN [updated EXCEPT !.access_ip = None] ELSE updated
  BY DEF iter_host_ips
<1> HIDE DEF updated
<1> QED
  BY <1>1, <1>2 DEF Host

\* the host that Consume takes
Taken == IF ips = NoIps THEN Head(pending) ELSE iter_host_ips(Head(pending))

\* What Consume does, in terms of the host it takes.
LEMMA ConsumeTakes ==
  ASSUME TypeOK, Consume
  PROVE  /\ pc = "hosts" /\ pending # <<>> /\ UNCHANGED <<file, target, unread, ips, during>>
         /\ Head(pending) \in Host /\ Taken \in Host
         /\ \/ pc' = "failed" /\ UNCHANGED <<pending, out>>
            \/ /\ ips = NoIps \/ Head(pending).port # None
               /\ pending' = Tail(pending)
               /\ \/ target = None /\ out' = Append(out, Taken) /\ pc' = pc
                  \/ target \notin {None, Taken.name} /\ UNCHANGED <<out, pc>>
                  \/ target = Taken.name /\ out' = <<Taken>> /\ pc' = "done"
<1>1. pc = "hosts" /\ pending # <<>> /\ UNCHANGED <<file, target, unread, ips, during>>
  BY DEF Consume, Fail
<1>2. Head(pending) \in Host
  BY <1>1 DEF TypeOK
<1>3. Taken \in Host
  BY <1>2, UpdatedHost DEF Taken, TypeOK
<1>4. \/ pc' = "failed" /\ UNCHANGED <<pending, out>>
      \/ /\ ips = NoIps \/ Head(pending).port # None
         /\ pending' = Tail(pending)
         /\ \/ target = None /\ out' = Append(out, Taken) /\ pc' = pc
            \/ target \notin {None, Taken.name} /\ UNCHANGED <<out, pc>>
            \/ target = Taken.name /\ out' = <<Taken>> /\ pc' = "done"
  BY DEF Consume, Fail, Taken
<1> QED
  BY <1>1, <1>2, <1>3, <1>4

\* The floating IPs of one more file.
LEMMA UpdatedIps ==
  ASSUME TypeOK, NEW f \in File
  PROVE  LET updated == Updated(ips, iterips(file[f]))
         IN  DOMAIN updated \subseteq Port /\ \A p \in DOMAIN updated : updated[p] \in FloatingIp
<1> DEFINE d == iterips(file[f])
<1>1. \A q \in DOMAIN d : q \in Port /\ d[q] \in FloatingIp
  <2>1. file[f] \in TfState
    BY FilesAreStates
  <2>2. \A i \in DOMAIN file[f].resources :
           IsAssociation(file[f].resources[i]) => file[f].resources[i] \in Association
    BY <2>1, Kinds DEF TfState
  <2> QED
    BY <2>1, <2>2, IpsOfFile DEF Association
<1> HIDE DEF d
<1>2. /\ DOMAIN Updated(ips, d) \subseteq Port
      /\ \A p \in DOMAIN Updated(ips, d) : Updated(ips, d)[p] \in FloatingIp
  BY <1>1 DEF TypeOK, Updated
<1> QED
  BY <1>2 DEF d

\* Every step keeps the types.
LEMMA TypeStep == TypeOK /\ [Next]_vars => TypeOK'
<1> SUFFICES ASSUME TypeOK, [Next]_vars PROVE TypeOK'
  OBVIOUS
<1>1. CASE Start
  <2>1. DOMAIN ips' \subseteq Port /\ \A p \in DOMAIN ips' : ips'[p] \in FloatingIp
    BY <1>1 DEF Start, NoIps
  <2>2. \A f \in File : file'[f] \in during'[f] /\ during'[f] \subseteq Content[f]
    BY <1>1, FilesAreStates DEF Start
  <2> QED
    BY <1>1, <2>1, <2>2 DEF Start, TypeOK
<1>2. CASE SecondPass
  BY <1>2 DEF SecondPass, TypeOK
<1>3. CASE Consume
  <2>1. pending' \in Seq(Host) /\ out' \in Seq(Host)
    <3>1. Tail(pending) \in Seq(Host)
      BY <1>3, ConsumeTakes DEF TypeOK
    <3>2. Append(out, Taken) \in Seq(Host) /\ <<Taken>> \in Seq(Host)
      BY <1>3, ConsumeTakes DEF TypeOK
    <3> QED
      BY <1>3, <3>1, <3>2, ConsumeTakes DEF TypeOK
  <2> QED
    BY <1>3, <2>1, ConsumeTakes DEF TypeOK
<1>4. CASE Finish
  BY <1>4 DEF Finish, TypeOK
<1>5. ASSUME NEW f \in File, ReadIps(f) PROVE TypeOK'
  <2>1. CASE ips' = ips
    BY <1>5, <2>1 DEF ReadIps, Fail, TypeOK
  <2>2. CASE ips' = Updated(ips, iterips(file[f]))
    <3>1. DOMAIN ips' \subseteq Port /\ \A p \in DOMAIN ips' : ips'[p] \in FloatingIp
      BY <2>2, UpdatedIps
    <3> QED
      BY <1>5, <3>1 DEF ReadIps, Fail, TypeOK
  <2> QED
    BY <1>5, <2>1, <2>2 DEF ReadIps, Fail
<1>6. ASSUME NEW f \in File, ReadHosts(f) PROVE TypeOK'
  <2>1. pending' \in Seq(Host)
    <3>1. iterhosts(file[f]) \in Seq(Host)
      BY FilesAreStates, HostsOfFile
    <3>2. pending' = pending \/ pending' = iterhosts(file[f])
      BY <1>6 DEF ReadHosts, Fail
    <3> QED
      BY <3>1, <3>2 DEF TypeOK
  <2> QED
    BY <1>6, <2>1 DEF ReadHosts, Fail, TypeOK
<1>7. ASSUME NEW f \in File, TerraformApply(f) PROVE TypeOK'
  <2>1. PICK s \in Content[f] : /\ file' = [file EXCEPT ![f] = s]
                                /\ during' = [during EXCEPT ![f] = @ \cup {s}]
    BY <1>7 DEF TerraformApply
  <2>2. file' \in [File -> UNION {Content[g] : g \in File}]
    BY <2>1 DEF TypeOK
  <2>3. ASSUME NEW g \in File PROVE file'[g] \in during'[g] /\ during'[g] \subseteq Content[g]
    <3>1. file[g] \in during[g] /\ during[g] \subseteq Content[g]
      BY DEF TypeOK
    <3>2. file'[g] = IF g = f THEN s ELSE file[g]
      BY <2>1 DEF TypeOK
    <3>3. during'[g] = IF g = f THEN during[g] \cup {s} ELSE during[g]
      BY <2>1 DEF TypeOK
    <3> QED
      BY <3>1, <3>2, <3>3
  <2> QED
    BY <1>7, <2>2, <2>3 DEF TerraformApply, run, TypeOK
<1>8. CASE UNCHANGED vars
  BY <1>8 DEF vars, run, TypeOK
<1> QED
  BY <1>1, <1>2, <1>3, <1>4, <1>5, <1>6, <1>7, <1>8 DEF Next

\* Before the first run.
LEMMA TypeInit == Init => TypeOK
  BY DEF Init, TypeOK, NoIps

\* The state stays in its types; the floating IPs are looked up by port only,
\* and each of them is a floating IP, whatever the files contain.
THEOREM TypeCorrect == Spec => []TypeOK
  BY TypeInit, TypeStep, PTL DEF Spec

-----------------------------------------------------------------------------
(* How machines reach each other                                             *)

\* what iterhosts says of an instance that has no floating IP
Raw(h) == h.port # None => h.access_ip = Access(h.port) /\ h.ansible_host \notin FloatingIp

\* what InternalTraffic says of one host
Reached(h) ==
  h.port # None =>
    Internal(h) = IF ips # NoIps /\ h.use_access_ip = "0" THEN Fixed(h.port)
                  ELSE IF h.ansible_host \in FloatingIp THEN h.ansible_host
                  ELSE Access(h.port)

InternalInv ==
  /\ \A i \in DOMAIN pending : Raw(pending[i])
  /\ \A i \in DOMAIN out : Reached(out[i])
  /\ pc = "ips" => pending = <<>> /\ out = <<>>

\* iterhosts says it.
LEMMA HostOfRaw ==
  ASSUME NEW r \in Resource, IsMachine(r)
  PROVE  Raw(HostOf(r))
<1>1. CASE r.kind = "metal_device"
  BY <1>1 DEF HostOf, metal_device, Raw
<1>2. CASE r.kind # "metal_device"
  <2>1. r.port \in Port
    BY <1>2, Kinds DEF Instance
  <2>2. Access(r.port) \notin FloatingIp /\ Six(r.port) \notin FloatingIp
    BY <2>1, ValueAssumption
  <2> QED
    BY <1>2, <2>2 DEF HostOf, openstack_host, Raw
<1> QED
  BY <1>1, <1>2

\* A raw host is reached as InternalTraffic says, when no port has a floating IP
\* and when some have.
LEMMA RawReached ==
  ASSUME TypeOK, NEW h \in Host, Raw(h)
  PROVE  /\ ips = NoIps => Reached(h)
         /\ ips # NoIps => Reached(iter_host_ips(h))
<1>1. h.port # None => h.access_ip # None
  <2>1. ASSUME h.port # None PROVE Access(h.port) \in Address
    BY <2>1 DEF Host, Address
  <2> QED
    BY <2>1, ValueAssumption DEF Raw
<1>2. ips = NoIps => Reached(h)
  BY <1>1 DEF Raw, Reached, Internal
<1>3. ASSUME ips # NoIps, h.port \notin DOMAIN ips PROVE Reached(iter_host_ips(h))
  <2>1. iter_host_ips(h) = IF h.use_access_ip = "0" THEN [h EXCEPT !.access_ip = None] ELSE h
    BY <1>3 DEF iter_host_ips
  <2>2. CASE h.use_access_ip = "0"
    BY <1>3, <2>1, <2>2 DEF Host, Raw, Reached, Internal
  <2>3. CASE h.use_access_ip # "0"
    BY <1>1, <2>1, <2>3 DEF Raw, Reached, Internal
  <2> QED
    BY <2>2, <2>3
<1>4. ASSUME ips # NoIps, h.port \in DOMAIN ips PROVE Reached(iter_host_ips(h))
  <2> DEFINE updated == [h EXCEPT !.ansible_host = ips[h.port], !.access_ip = ips[h.port]]
  <2>1. iter_host_ips(h) = IF h.use_access_ip = "0" THEN [updated EXCEPT !.access_ip = None] ELSE updated
    BY <1>4 DEF iter_host_ips
  <2>2. ips[h.port] \in FloatingIp /\ ips[h.port] # None
    BY <1>4, ValueAssumption DEF TypeOK, Address
  <2>3. /\ updated \in [name : Name, port : Port \cup {None},
                         groups : SUBSET (Group \cup {Empty, "publicly_routable"}),
                         ansible_host : {ips[h.port]}, access_ip : {ips[h.port]},
                         use_access_ip : {h.use_access_ip}]
        /\ updated.port = h.port
    BY DEF Host
  <2> HIDE DEF updated
  <2>4. /\ iter_host_ips(h).port = h.port /\ iter_host_ips(h).use_access_ip = h.use_access_ip
        /\ iter_host_ips(h).ansible_host = ips[h.port]
        /\ iter_host_ips(h).access_ip = IF h.use_access_ip = "0" THEN None ELSE ips[h.port]
    BY <2>1, <2>3
  <2> DEFINE n == iter_host_ips(h)
  <2> HIDE DEF n
  <2>5. Internal(n) = IF h.use_access_ip = "0" THEN Fixed(n.port) ELSE n.ansible_host
    BY <2>2, <2>4 DEF Internal, n
  <2>6. Reached(n)
    BY <1>4, <2>2, <2>4, <2>5 DEF Reached, n
  <2> QED
    BY <2>6 DEF n
<1> QED
  BY <1>2, <1>3, <1>4

\* What is left of a sequence is in it, what is added to it is at its end.
LEMMA TailAndAppend ==
  ASSUME NEW X, NEW s \in Seq(X), NEW x \in X
  PROVE  /\ s # <<>> => /\ 1 \in DOMAIN s /\ Head(s) = s[1] /\ DOMAIN Tail(s) = 1 .. Len(s) - 1
                        /\ \A i \in DOMAIN Tail(s) : i + 1 \in DOMAIN s /\ Tail(s)[i] = s[i + 1]
         /\ DOMAIN Append(s, x) = 1 .. Len(s) + 1 /\ DOMAIN s = 1 .. Len(s) /\ Len(s) \in Nat
         /\ \A i \in DOMAIN s : Append(s, x)[i] = s[i]
         /\ Append(s, x)[Len(s) + 1] = x
  OBVIOUS

\* Every step keeps it.
LEMMA InternalStep == TypeOK /\ InternalInv /\ [Next]_vars => InternalInv'
<1> SUFFICES ASSUME TypeOK, InternalInv, [Next]_vars PROVE InternalInv'
  OBVIOUS
<1>1. CASE Start
  BY <1>1 DEF Start, InternalInv
<1>2. CASE Consume
  <2>1. Head(pending) = pending[1] /\ 1 \in DOMAIN pending /\ pending # <<>>
    BY <1>2, ConsumeTakes, TailAndAppend DEF TypeOK
  <2>2. Reached(Taken)
    <3>1. Head(pending) \in Host /\ Raw(Head(pending))
      BY <1>2, <2>1, ConsumeTakes DEF InternalInv
    <3> QED
      BY <3>1, RawReached DEF Taken
  <2>0. ips' = ips /\ pc = "hosts" /\ pc' # "ips"
    BY <1>2, ConsumeTakes
  <2>3. \A i \in DOMAIN Tail(pending) : Raw(Tail(pending)[i])
    BY <1>2, <2>1, ConsumeTakes, TailAndAppend DEF InternalInv, TypeOK
  <2>4. \A i \in DOMAIN Append(out, Taken) : Reached(Append(out, Taken)[i])
    <3>1. out \in Seq(Host) /\ Taken \in Host
      BY <1>2, ConsumeTakes DEF TypeOK
    <3>2. ASSUME NEW i \in DOMAIN Append(out, Taken) PROVE i \in DOMAIN out \/ i = Len(out) + 1
      BY <3>1, TailAndAppend
    <3> QED
      BY <2>2, <3>1, <3>2, TailAndAppend DEF InternalInv
  <2>5. \A i \in DOMAIN <<Taken>> : Reached(<<Taken>>[i])
    BY <2>2
  <2> QED
    BY <1>2, <2>0, <2>3, <2>4, <2>5, ConsumeTakes DEF InternalInv, Reached
<1>3. ASSUME NEW f \in File, ReadHosts(f) PROVE InternalInv'
  <2>1. out' = out /\ pending' \in {pending, iterhosts(file[f])}
    BY <1>3 DEF ReadHosts, Fail
  <2>2. \A k \in DOMAIN iterhosts(file[f]) : Raw(iterhosts(file[f])[k])
    <3>1. file[f] \in TfState /\ file[f].resources \in Seq(Resource)
      BY FilesAreStates DEF TfState
    <3>2. \A i \in DOMAIN file[f].resources : file[f].resources[i] \in Resource
      BY <3>1
    <3> QED
      BY <3>1, <3>2, HostsOfFile, HostOfRaw
  <2> QED
    BY <1>3, <2>1, <2>2 DEF InternalInv, Reached, ReadHosts, Fail
<1>4. ASSUME NEW f \in File, ReadIps(f) PROVE InternalInv'
  BY <1>4 DEF ReadIps, Fail, InternalInv
<1>5. CASE UNCHANGED <<ips, pending, out>> /\ (pc' = "ips" => pc = "ips")
  BY <1>5 DEF InternalInv, Reached
<1> QED
  BY <1>1, <1>2, <1>3, <1>4, <1>5 DEF Next, SecondPass, Finish, TerraformApply, vars, run

\* Once a port has a floating IP, use_access_ip = 0 makes the other machines reach
\* an instance at its fixed address. Otherwise they reach it at its floating IP
\* whenever Ansible does so, and else at its access_ip_v4.
THEOREM InternalIsReached == Spec => []InternalTraffic
<1>1. Init => InternalInv
  BY DEF Init, InternalInv
<1>2. InternalInv => InternalTraffic
  BY DEF InternalInv, InternalTraffic, Reached
<1> QED
  BY <1>1, <1>2, TypeInit, TypeStep, InternalStep, PTL DEF Spec

-----------------------------------------------------------------------------
(* Answers.  u is what each file said when its floating IPs were read, v what *)
(* it said when its hosts were.                                              *)

\* the floating IPs are those of the files in A, as u says
IpsAre(u, A) ==
  /\ \A p \in DOMAIN ips : \E f \in A : \E i \in DOMAIN u[f].resources :
       /\ IsAssociation(u[f].resources[i])
       /\ u[f].resources[i].port = p /\ u[f].resources[i].ip = ips[p]
  /\ \A f \in A : \A i \in DOMAIN u[f].resources :
       IsAssociation(u[f].resources[i]) => u[f].resources[i].port \in DOMAIN ips

\* a host as the query gets it
Served(h) == IF ips = NoIps THEN h ELSE iter_host_ips(h)

\* the hosts that are pending, and those in the answer, are machines of v
Listed(v) ==
  /\ \A j \in DOMAIN pending : \E f \in File \ unread : \E k \in DOMAIN v[f].resources :
       IsMachine(v[f].resources[k]) /\ pending[j] = HostOf(v[f].resources[k])
  /\ \A j \in DOMAIN out : \E f \in File \ unread : \E k \in DOMAIN v[f].resources :
       IsMachine(v[f].resources[k]) /\ out[j] = Served(HostOf(v[f].resources[k]))

\* no machine is there twice
Once ==
  /\ \A i, j \in DOMAIN pending : pending[i].name = pending[j].name => i = j
  /\ \A i, j \in DOMAIN out : out[i].name = out[j].name => i = j
  /\ \A i \in DOMAIN out, j \in DOMAIN pending : out[i].name # pending[j].name

\* every machine of the files that were read is pending, or in the answer, or
\* not asked for
Complete(v) ==
  \A f \in File \ unread : \A k \in DOMAIN v[f].resources :
    IsMachine(v[f].resources[k]) =>
      \/ \E j \in DOMAIN pending : pending[j] = HostOf(v[f].resources[k])
      \/ \E j \in DOMAIN out : out[j] = Served(HostOf(v[f].resources[k]))
      \/ target \notin {None, v[f].resources[k].name}

\* a query for one host has it when it is done, and has no other
Asked ==
  /\ pc = "hosts" /\ target # None => out = <<>>
  /\ pc = "done" => \/ pending = <<>> /\ unread = {} /\ (target # None => out = <<>>)
                    \/ target # None /\ Len(out) = 1 /\ out[1].name = target

\* devices are not served together with floating IPs
NoDeviceWithIps == \A i \in DOMAIN out : out[i].port = None => DOMAIN ips = {}

Told(u, v) ==
  /\ pc = "ips" => IpsAre(u, File \ unread) /\ pending = <<>> /\ out = <<>>
  /\ pc \in {"hosts", "done"} =>
       IpsAre(u, File) /\ Listed(v) /\ Once /\ Complete(v) /\ Asked /\ NoDeviceWithIps

AnswerInv == \E u, v \in Views : Told(u, v)

\* what of a host is in Entry
Strip(h) == [name |-> h.name, port |-> h.port, ansible_host |-> h.ansible_host]

\* OwnershipAssumption, one conflict at a time.
LEMMA Owned ==
  ASSUME NEW f \in File, NEW g \in File, NEW s \in Content[f], NEW t \in Content[g],
         NEW i \in DOMAIN s.resources, NEW j \in DOMAIN t.resources
  PROVE  /\ Conflict(s.resources[i], t.resources[j]) => f = g /\ (s = t => i = j)
         /\ IsInstance(s.resources[i]) /\ IsAssociation(t.resources[j])
              /\ s.resources[i].port = t.resources[j].port => f = g
<1>1. /\ f = g /\ s = t /\ i # j => ~Conflict(s.resources[i], t.resources[j])
      /\ f # g => /\ ~Conflict(s.resources[i], t.resources[j])
                  /\ ~(IsInstance(s.resources[i]) /\ IsAssociation(t.resources[j])
                         /\ s.resources[i].port = t.resources[j].port)
  BY OwnershipAssumption
<1> QED
  BY <1>1

\* What views say is what tfstates say.
LEMMA ViewTypes ==
  ASSUME TypeOK, NEW u \in Views, NEW f \in File
  PROVE  /\ u[f] \in during[f] /\ u[f] \in Content[f] /\ u[f] \in TfState
         /\ \A i \in DOMAIN u[f].resources : u[f].resources[i] \in Resource
<1>1. u[f] \in during[f] /\ u[f] \in Content[f]
  BY DEF Views, TypeOK
<1>2. u[f] \in TfState
  BY <1>1, ContentAssumption
<1>3. u[f].resources \in Seq(Resource)
  BY <1>2 DEF TfState
<1> QED
  BY <1>1, <1>2, <1>3

\* Serving a host touches nothing but its addresses.
LEMMA ServedHost ==
  ASSUME TypeOK, NEW h \in Host
  PROVE  /\ Served(h) \in Host /\ Served(h).name = h.name /\ Served(h).port = h.port
         /\ Served(h).groups = h.groups
         /\ Served(h).ansible_host = IF h.port \in DOMAIN ips THEN ips[h.port] ELSE h.ansible_host
<1>1. CASE ips = NoIps
  BY <1>1 DEF Served, NoIps
<1>2. CASE ips # NoIps
  <2>1. Served(h) = iter_host_ips(h) /\ Served(h) \in Host
    BY <1>2, UpdatedHost DEF Served, TypeOK
  <2> DEFINE updated == IF h.port \notin DOMAIN ips THEN h
                        ELSE [h EXCEPT !.ansible_host = ips[h.port], !.access_ip = ips[h.port]]
  <2>2. /\ updated \in Host /\ updated.name = h.name /\ updated.port = h.port
        /\ updated.groups = h.groups
        /\ updated.ansible_host = IF h.port \in DOMAIN ips THEN ips[h.port] ELSE h.ansible_host
    <3>1. CASE h.port \notin DOMAIN ips
      BY <3>1
    <3>2. CASE h.port \in DOMAIN ips
      <4>1. ips[h.port] \in Address
        BY <3>2 DEF TypeOK, Address
      <4> QED
        BY <3>2, <4>1 DEF Host
    <3> QED
      BY <3>1, <3>2
  <2>3. iter_host_ips(h) = IF h.use_access_ip = "0" THEN [updated EXCEPT !.access_ip = None] ELSE updated
    BY DEF iter_host_ips
  <2> HIDE DEF updated
  <2>4. [updated EXCEPT !.access_ip = None].name = updated.name
          /\ [updated EXCEPT !.access_ip = None].port = updated.port
          /\ [updated EXCEPT !.access_ip = None].groups = updated.groups
          /\ [updated EXCEPT !.access_ip = None].ansible_host = updated.ansible_host
    BY <2>2 DEF Host
  <2> QED
    BY <2>1, <2>2, <2>3, <2>4
<1> QED
  BY <1>1, <1>2

\* How a machine of a file is reached is what Entry says of it.
LEMMA ServedEntry ==
  ASSUME TypeOK, NEW u \in Views, NEW v \in Views, IpsAre(u, File), NEW f \in File,
         NEW k \in DOMAIN v[f].resources, IsMachine(v[f].resources[k])
  PROVE  /\ Strip(Served(HostOf(v[f].resources[k]))) = Entry(v[f].resources[k], u[f], {"1"})
         /\ Entry(v[f].resources[k], u[f], {"1"}).name = v[f].resources[k].name
<1> DEFINE r == v[f].resources[k]
<1>1. r \in Resource /\ v[f] \in Content[f] /\ u[f] \in Content[f]
  BY ViewTypes
<1>2. HostOf(r) \in Host
  BY <1>1, HostOfTypes
<1>3. Strip(Served(HostOf(r))) =
        [name |-> HostOf(r).name, port |-> HostOf(r).port,
         ansible_host |-> IF HostOf(r).port \in DOMAIN ips THEN ips[HostOf(r).port]
                                                           ELSE HostOf(r).ansible_host]
  BY <1>2, ServedHost DEF Strip
<1>4. CASE r.kind = "metal_device"
  <2>1. HostOf(r).name = r.name /\ HostOf(r).port = None /\ HostOf(r).ansible_host = Direct(r.name)
    BY <1>4 DEF HostOf, metal_device
  <2>2. None \notin DOMAIN ips
    BY ValueAssumption DEF TypeOK
  <2> QED
    BY <1>3, <1>4, <2>1, <2>2 DEF Entry
<1>5. CASE r.kind # "metal_device"
  <2> DEFINE held == {a.ip : a \in {b \in ResourcesOf(u[f], "openstack_networking_floatingip_associate_v2") :
                                      b.port = r.port}}
  <2>1. /\ HostOf(r).name = r.name /\ HostOf(r).port = r.port
        /\ HostOf(r).ansible_host = IF r.prefer_ipv6 = "1" THEN Six(r.port) ELSE Access(r.port)
    BY <1>5 DEF HostOf, openstack_host
  <2>2. Entry(r, u[f], {"1"}) =
          [name |-> r.name, port |-> r.port,
           ansible_host |-> IF held # {} THEN CHOOSE ip \in held : TRUE
                            ELSE IF r.prefer_ipv6 = "1" THEN Six(r.port) ELSE Access(r.port)]
    BY <1>5 DEF Entry
  <2>3. \A ip : ip \in held <=> \E i \in DOMAIN u[f].resources :
           IsAssociation(u[f].resources[i]) /\ u[f].resources[i].port = r.port /\ u[f].resources[i].ip = ip
    BY DEF ResourcesOf, IsAssociation, ToSet
  <2> HIDE DEF held
  <2>4. IsInstance(r)
    BY <1>1, <1>5, Kinds
  <2>5. ASSUME r.port \in DOMAIN ips PROVE held # {} /\ (CHOOSE ip \in held : TRUE) = ips[r.port]
    <3>1. PICK g \in File : \E i \in DOMAIN u[g].resources :
            /\ IsAssociation(u[g].resources[i])
            /\ u[g].resources[i].port = r.port /\ u[g].resources[i].ip = ips[r.port]
      BY <2>5 DEF IpsAre
    <3>2. PICK i \in DOMAIN u[g].resources :
            /\ IsAssociation(u[g].resources[i])
            /\ u[g].resources[i].port = r.port /\ u[g].resources[i].ip = ips[r.port]
      BY <3>1
    <3>3. u[g] \in Content[g]
      BY ViewTypes
    <3>4. g = f
      BY <1>1, <2>4, <3>2, <3>3, Owned
    <3>5. ips[r.port] \in held
      BY <2>3, <3>2, <3>4
    <3>6. ASSUME NEW ip \in held PROVE ip = ips[r.port]
      <4>1. PICK j \in DOMAIN u[f].resources :
              IsAssociation(u[f].resources[j]) /\ u[f].resources[j].port = r.port /\ u[f].resources[j].ip = ip
        BY <2>3, <3>6
      <4>2. Conflict(u[f].resources[i], u[f].resources[j])
        BY <3>2, <3>4, <4>1 DEF Conflict
      <4>3. i = j
        BY <1>1, <3>2, <3>4, <4>1, <4>2, Owned
      <4> QED
        BY <3>2, <3>4, <4>1, <4>3
    <3> QED
      BY <3>5, <3>6
  <2>6. ASSUME r.port \notin DOMAIN ips PROVE held = {}
    BY <2>3, <2>6 DEF IpsAre
  <2> DEFINE own == IF r.prefer_ipv6 = "1" THEN Six(r.port) ELSE Access(r.port)
             x == IF r.port \in DOMAIN ips THEN ips[r.port] ELSE own
  <2>7. Strip(Served(HostOf(r))) = [name |-> r.name, port |-> r.port, ansible_host |-> x]
    BY <1>3, <2>1
  <2>8. x = IF held # {} THEN CHOOSE ip \in held : TRUE ELSE own
    <3> HIDE DEF own
    <3> QED
      BY <2>5, <2>6
  <2>9. Entry(r, u[f], {"1"}) = [name |-> r.name, port |-> r.port, ansible_host |-> x]
    <3>1. Entry(r, u[f], {"1"}) = [name |-> r.name, port |-> r.port,
                            ansible_host |-> IF held # {} THEN CHOOSE ip \in held : TRUE ELSE own]
      BY <2>2
    <3> HIDE DEF x, own
    <3> QED
      BY <2>8, <3>1
  <2> HIDE DEF x, r
  <2> QED
    BY <2>7, <2>9 DEF r
<1> QED
  BY <1>4, <1>5

-----------------------------------------------------------------------------
(* Every step keeps AnswerInv                                                *)

\* A view in which one file says what it says now.
LEMMA ViewWith ==
  ASSUME TypeOK, NEW u \in Views, NEW f \in File
  PROVE  LET w == [u EXCEPT ![f] = file[f]]
         IN  w \in Views /\ w[f] = file[f] /\ \A g \in File : g # f => w[g] = u[g]
<1> DEFINE w == [u EXCEPT ![f] = file[f]]
<1>1. u \in [File -> UNION {during[g] : g \in File}] /\ \A g \in File : u[g] \in during[g]
  BY DEF Views
<1>2. file[f] \in during[f]
  BY DEF TypeOK
<1>3. \A g \in File : w[g] = IF g = f THEN file[f] ELSE u[g]
  BY <1>1
<1>4. w \in [File -> UNION {during[g] : g \in File}]
  BY <1>1, <1>2
<1> HIDE DEF w
<1>5. w \in Views
  BY <1>1, <1>2, <1>3, <1>4 DEF Views
<1> QED
  BY <1>3, <1>5 DEF w

\* The views of a run remain views of it.
LEMMA ViewsRemain ==
  ASSUME TypeOK, \A f \in File : during[f] \subseteq during'[f]
  PROVE  Views \subseteq Views'
<1> SUFFICES ASSUME NEW v \in Views PROVE v \in Views'
  OBVIOUS
<1>1. v \in [File -> UNION {during[g] : g \in File}] /\ \A g \in File : v[g] \in during[g]
  BY DEF Views
<1>2. \A g \in File : v[g] \in during'[g]
  BY <1>1
<1>3. v \in [File -> UNION {during'[g] : g \in File}]
  BY <1>1, <1>2
<1> QED
  BY <1>2, <1>3 DEF Views

\* A run starts with nothing read.
LEMMA StartTells == TypeOK /\ Start => AnswerInv'
<1> SUFFICES ASSUME TypeOK, Start PROVE AnswerInv'
  OBVIOUS
<1>0. PICK w : w = [f \in File |-> file[f]]
  OBVIOUS
<1>1. w \in Views'
  <2>1. \A f \in File : w[f] \in during'[f]
    BY <1>0 DEF Start
  <2>2. w \in [File -> UNION {during'[f] : f \in File}]
    BY <1>0, <2>1
  <2> QED
    BY <2>1, <2>2 DEF Views
<1>2. Told(w, w)'
  <2>1. pc' = "ips" /\ unread' = File /\ pending' = <<>> /\ out' = <<>> /\ DOMAIN ips' = {}
    BY DEF Start, NoIps
  <2>2. IpsAre(w, File \ unread)'
    BY <2>1 DEF IpsAre
  <2> QED
    BY <2>1, <2>2 DEF Told
<1> QED
  BY <1>1, <1>2 DEF AnswerInv

\* One more file is read for its floating IPs.
LEMMA ReadIpsTells ==
  ASSUME TypeOK, AnswerInv, NEW f \in File, ReadIps(f)
  PROVE  AnswerInv'
<1>1. PICK u \in Views, v \in Views : Told(u, v)
  BY DEF AnswerInv
<1>2. Views' = Views
  BY DEF ReadIps, Views
<1>3. CASE pc' = "failed"
  BY <1>1, <1>2, <1>3 DEF Told, AnswerInv
<1>4. CASE pc' # "failed"
  <2> DEFINE d == iterips(file[f])
  <2>1. PICK w \in Views : w[f] = file[f] /\ \A g \in File : g # f => w[g] = u[g]
    BY ViewWith
  <2>2. /\ pc = "ips" /\ pc' = pc /\ f \in unread /\ unread' = unread \ {f}
        /\ ips' = Updated(ips, d) /\ pending' = pending /\ out' = out
    BY <1>4 DEF ReadIps, Fail
  <2>3. IpsAre(u, File \ unread) /\ pending = <<>> /\ out = <<>>
    BY <1>1, <2>2 DEF Told
  <2>4. file[f] \in TfState
    BY FilesAreStates
  <2>5. /\ \A q \in DOMAIN d : \E i \in DOMAIN file[f].resources :
              /\ IsAssociation(file[f].resources[i]) /\ file[f].resources[i].port = q
              /\ d[q] = file[f].resources[i].ip
        /\ \A i \in DOMAIN file[f].resources :
             IsAssociation(file[f].resources[i]) => file[f].resources[i].port \in DOMAIN d
    BY <2>4, IpsOfFile
  <2> HIDE DEF d
  <2>6. /\ DOMAIN ips' = DOMAIN ips \cup DOMAIN d
        /\ \A p \in DOMAIN ips' : ips'[p] = IF p \in DOMAIN d THEN d[p] ELSE ips[p]
    BY <2>2 DEF Updated
  <2>7. ASSUME NEW p \in DOMAIN ips'
        PROVE  \E g \in File \ unread' : \E i \in DOMAIN w[g].resources :
                 /\ IsAssociation(w[g].resources[i])
                 /\ w[g].resources[i].port = p /\ w[g].resources[i].ip = ips'[p]
    <3>1. CASE p \in DOMAIN d
      BY <2>1, <2>2, <2>5, <2>6, <3>1
    <3>2. CASE p \notin DOMAIN d
      <4>1. PICK g \in File \ unread : \E i \in DOMAIN u[g].resources :
                 /\ IsAssociation(u[g].resources[i])
                 /\ u[g].resources[i].port = p /\ u[g].resources[i].ip = ips[p]
        BY <2>3, <2>6, <3>2 DEF IpsAre
      <4>2. g # f /\ w[g] = u[g] /\ g \in File \ unread'
        BY <2>1, <2>2, <4>1
      <4> QED
        BY <2>6, <3>2, <4>1, <4>2
    <3> QED
      BY <3>1, <3>2
  <2>8. ASSUME NEW g \in File \ unread', NEW i \in DOMAIN w[g].resources,
               IsAssociation(w[g].resources[i])
        PROVE  w[g].resources[i].port \in DOMAIN ips'
    <3>1. CASE g = f
      BY <2>1, <2>5, <2>6, <2>8, <3>1
    <3>2. CASE g # f
      BY <2>1, <2>2, <2>3, <2>6, <2>8, <3>2 DEF IpsAre
    <3> QED
      BY <3>1, <3>2
  <2>9. IpsAre(w, File \ unread)'
    BY <2>7, <2>8 DEF IpsAre
  <2>10. Told(w, v)'
    BY <2>2, <2>3, <2>9 DEF Told
  <2> QED
    BY <1>2, <2>1, <2>10 DEF AnswerInv
<1> QED
  BY <1>3, <1>4

\* Then the files are gone through once more.
LEMMA SecondPassTells == AnswerInv /\ SecondPass => AnswerInv'
<1> SUFFICES ASSUME AnswerInv, SecondPass PROVE AnswerInv'
  OBVIOUS
<1>1. PICK u \in Views, v \in Views : Told(u, v)
  BY DEF AnswerInv
<1>2. Views' = Views
  BY DEF SecondPass, Views
<1>3. /\ pc' = "hosts" /\ unread' = File
      /\ IpsAre(u, File)' /\ pending' = <<>> /\ out' = <<>>
  <2>1. IpsAre(u, File) /\ pending = <<>> /\ out = <<>>
    BY <1>1 DEF SecondPass, Told
  <2> QED
    BY <2>1 DEF SecondPass, IpsAre
<1>4. Listed(v)' /\ Once' /\ Complete(v)' /\ Asked' /\ NoDeviceWithIps'
  BY <1>3 DEF Listed, Once, Complete, Asked, NoDeviceWithIps
<1>5. Told(u, v)'
  BY <1>3, <1>4 DEF Told
<1> QED
  BY <1>1, <1>2, <1>5 DEF AnswerInv

\* The name of a machine is the name of its host.
LEMMA HostOfName ==
  ASSUME NEW r
  PROVE  HostOf(r).name = r.name
<1>1. CASE r.kind = "metal_device"
  BY <1>1 DEF HostOf, metal_device
<1>2. CASE r.kind # "metal_device"
  BY <1>2 DEF HostOf, openstack_host
<1> QED
  BY <1>1, <1>2

\* A host in the answer has the name of its machine.
LEMMA ListedName ==
  ASSUME TypeOK, NEW v \in Views, Listed(v), NEW j \in DOMAIN out
  PROVE  \E f \in File \ unread : \E k \in DOMAIN v[f].resources :
           /\ IsMachine(v[f].resources[k]) /\ out[j] = Served(HostOf(v[f].resources[k]))
           /\ out[j].name = v[f].resources[k].name
<1>1. PICK f \in File \ unread : \E k \in DOMAIN v[f].resources :
        IsMachine(v[f].resources[k]) /\ out[j] = Served(HostOf(v[f].resources[k]))
  BY DEF Listed
<1>2. PICK k \in DOMAIN v[f].resources :
        IsMachine(v[f].resources[k]) /\ out[j] = Served(HostOf(v[f].resources[k]))
  BY <1>1
<1>3. v[f].resources[k] \in Resource
  BY ViewTypes
<1>4. HostOf(v[f].resources[k]) \in Host
  BY <1>2, <1>3, HostOfTypes
<1>5. out[j].name = v[f].resources[k].name
  BY <1>2, <1>4, ServedHost, HostOfName
<1> QED
  BY <1>2, <1>5

\* One more file is read for its hosts.
LEMMA ReadHostsTells ==
  ASSUME TypeOK, AnswerInv, NEW f \in File, ReadHosts(f)
  PROVE  AnswerInv'
<1>1. PICK u \in Views, v \in Views : Told(u, v)
  BY DEF AnswerInv
<1>2. Views' = Views
  BY DEF ReadHosts, Views
<1>3. CASE pc' = "failed"
  BY <1>1, <1>2, <1>3 DEF Told, AnswerInv
<1>4. CASE pc' # "failed"
  <2>1. PICK w \in Views : w[f] = file[f] /\ \A g \in File : g # f => w[g] = v[g]
    BY ViewWith
  <2>2. /\ pc = "hosts" /\ pc' = pc /\ f \in unread /\ unread' = unread \ {f} /\ pending = <<>>
        /\ pending' = iterhosts(file[f]) /\ UNCHANGED <<target, ips, out>>
    BY <1>4 DEF ReadHosts, Fail
  <2>3. IpsAre(u, File) /\ Listed(v) /\ Once /\ Complete(v) /\ Asked /\ NoDeviceWithIps
    BY <1>1, <2>2 DEF Told
  <2>4. /\ w[f] \in Content[f] /\ file[f] \in TfState
        /\ \A i \in DOMAIN w[f].resources : w[f].resources[i] \in Resource
    BY FilesAreStates, ViewTypes
  <2>5. PICK p \in [DOMAIN pending' -> DOMAIN w[f].resources] :
              /\ \A k \in DOMAIN pending' : /\ pending'[k] = HostOf(w[f].resources[p[k]])
                                            /\ IsMachine(w[f].resources[p[k]])
              /\ \A i \in DOMAIN w[f].resources :
                   IsMachine(w[f].resources[i]) => \E k \in DOMAIN pending' : p[k] = i
              /\ \A k, l \in DOMAIN pending' : p[k] = p[l] => k = l
    BY <2>1, <2>2, <2>4, HostsOfFile
  <2>6. \A g \in File \ unread : g \in File \ unread' /\ g # f /\ w[g] = v[g]
    BY <2>1, <2>2
  <2>7. \A r : Served(r)' = Served(r)
    BY <2>2 DEF Served, iter_host_ips
  <2>8. Listed(w)'
    <3>1. \A j \in DOMAIN pending' : \E k \in DOMAIN w[f].resources :
            IsMachine(w[f].resources[k]) /\ pending'[j] = HostOf(w[f].resources[k])
      BY <2>5
    <3>2. \A j \in DOMAIN out : \E g \in File \ unread' : \E k \in DOMAIN w[g].resources :
            IsMachine(w[g].resources[k]) /\ out[j] = Served(HostOf(w[g].resources[k]))
      BY <2>3, <2>6 DEF Listed
    <3>3. f \in File \ unread'
      BY <2>2
    <3> QED
      BY <2>2, <2>7, <3>1, <3>2, <3>3 DEF Listed
  <2>9. Once'
    <3>1. ASSUME NEW i \in DOMAIN pending', NEW j \in DOMAIN pending',
                 pending'[i].name = pending'[j].name
          PROVE  i = j
      <4>1. w[f].resources[p[i]].name = w[f].resources[p[j]].name
        BY <2>5, <3>1, HostOfName
      <4>2. Conflict(w[f].resources[p[i]], w[f].resources[p[j]])
        BY <2>5, <4>1 DEF Conflict
      <4>3. p[i] = p[j]
        BY <2>4, <2>5, <4>2, Owned
      <4> QED
        BY <2>5, <4>3
    <3>2. ASSUME NEW i \in DOMAIN out, NEW j \in DOMAIN pending', out[i].name = pending'[j].name
          PROVE  FALSE
      <4>1. PICK g \in File \ unread : \E k \in DOMAIN v[g].resources :
              IsMachine(v[g].resources[k]) /\ out[i].name = v[g].resources[k].name
        BY <2>3, ListedName
      <4>2. PICK k \in DOMAIN w[g].resources :
              IsMachine(w[g].resources[k]) /\ out[i].name = w[g].resources[k].name
        BY <2>6, <4>1
      <4>3. p[j] \in DOMAIN w[f].resources /\ IsMachine(w[f].resources[p[j]])
              /\ w[f].resources[p[j]].name = out[i].name
        BY <2>5, <3>2, HostOfName
      <4>4. Conflict(w[g].resources[k], w[f].resources[p[j]])
        BY <4>2, <4>3 DEF Conflict
      <4>5. w[g] \in Content[g]
        BY <4>1, ViewTypes
      <4>6. g = f
        BY <2>4, <4>1, <4>2, <4>3, <4>4, <4>5, Owned
      <4> QED
        BY <2>6, <4>1, <4>6
    <3> QED
      BY <2>2, <2>3, <3>1, <3>2 DEF Once
  <2>10. Complete(w)'
    <3>1. ASSUME NEW g \in File \ unread', NEW k \in DOMAIN w[g].resources, IsMachine(w[g].resources[k])
          PROVE  \/ \E j \in DOMAIN pending' : pending'[j] = HostOf(w[g].resources[k])
                 \/ \E j \in DOMAIN out : out[j] = Served(HostOf(w[g].resources[k]))
                 \/ target \notin {None, w[g].resources[k].name}
      <4>1. CASE g = f
        BY <2>5, <3>1, <4>1
      <4>2. CASE g # f
        <5>1. g \in File \ unread /\ w[g] = v[g]
          BY <2>2, <2>6, <4>2
        <5>2. DOMAIN pending = {}
          BY <2>2
        <5> QED
          BY <2>3, <3>1, <5>1, <5>2 DEF Complete
      <4> QED
        BY <4>1, <4>2
    <3> QED
      BY <2>2, <2>7, <3>1 DEF Complete
  <2>11. IpsAre(u, File)' /\ Asked' /\ NoDeviceWithIps'
    BY <2>2, <2>3 DEF IpsAre, Asked, NoDeviceWithIps
  <2>12. Told(u, w)'
    BY <2>2, <2>8, <2>9, <2>10, <2>11 DEF Told
  <2> QED
    BY <1>1, <1>2, <2>1, <2>12 DEF AnswerInv
<1> QED
  BY <1>3, <1>4

\* All files have been gone through.
LEMMA FinishTells == AnswerInv /\ Finish => AnswerInv'
<1> SUFFICES ASSUME AnswerInv, Finish PROVE AnswerInv'
  OBVIOUS
<1>1. PICK u \in Views, v \in Views : Told(u, v)
  BY DEF AnswerInv
<1>2. Views' = Views /\ \A r : Served(r)' = Served(r)
  BY DEF Finish, Views, Served, iter_host_ips
<1>3. IpsAre(u, File) /\ Listed(v) /\ Once /\ Complete(v) /\ Asked /\ NoDeviceWithIps
  BY <1>1 DEF Finish, Told
<1>4. IpsAre(u, File)' /\ Once' /\ Asked' /\ NoDeviceWithIps'
  BY <1>3 DEF Finish, IpsAre, Once, Asked, NoDeviceWithIps
<1>5. Listed(v)' /\ Complete(v)'
  BY <1>2, <1>3 DEF Finish, Listed, Complete
<1>6. Told(u, v)'
  BY <1>4, <1>5 DEF Finish, Told
<1> QED
  BY <1>1, <1>2, <1>6 DEF AnswerInv

\* What is applied meanwhile adds views, and is in none that was picked before.
LEMMA ApplyTells ==
  ASSUME TypeOK, AnswerInv, NEW f \in File, TerraformApply(f)
  PROVE  AnswerInv'
<1>1. PICK u \in Views, v \in Views : Told(u, v)
  BY DEF AnswerInv
<1>2. PICK s \in Content[f] : during' = [during EXCEPT ![f] = @ \cup {s}]
  BY DEF TerraformApply
<1>3. Views \subseteq Views'
  BY <1>2, ViewsRemain DEF TypeOK
<1>4. UNCHANGED <<pc, target, unread, ips, pending, out>> /\ \A r : Served(r)' = Served(r)
  BY DEF TerraformApply, run, Served, iter_host_ips
<1>5. Told(u, v)'
  BY <1>1, <1>4 DEF Told, IpsAre, Listed, Once, Complete, Asked, NoDeviceWithIps
<1> QED
  BY <1>1, <1>3, <1>5 DEF AnswerInv

\* A host is consumed.
LEMMA ConsumeTells == TypeOK /\ AnswerInv /\ Consume => AnswerInv'
<1> SUFFICES ASSUME TypeOK, AnswerInv, Consume PROVE AnswerInv'
  OBVIOUS
<1> DEFINE tail == Tail(pending)
<1>1. PICK u \in Views, v \in Views : Told(u, v)
  BY DEF AnswerInv
<1>2. /\ pc = "hosts" /\ pending # <<>> /\ UNCHANGED <<file, target, unread, ips, during>>
      /\ Head(pending) \in Host /\ Taken \in Host
  BY ConsumeTakes
<1>3. Views' = Views /\ \A r : Served(r)' = Served(r)
  BY <1>2 DEF Views, Served, iter_host_ips
<1>4. IpsAre(u, File) /\ Listed(v) /\ Once /\ Complete(v) /\ Asked /\ NoDeviceWithIps
  BY <1>1, <1>2 DEF Told
<1>5. CASE pc' = "failed"
  BY <1>1, <1>3, <1>5 DEF Told, AnswerInv
<1>6. CASE pc' # "failed"
  <2>1. /\ ips = NoIps \/ Head(pending).port # None
        /\ pending' = tail
        /\ \/ target = None /\ out' = Append(out, Taken) /\ pc' = pc
           \/ target \notin {None, Taken.name} /\ UNCHANGED <<out, pc>>
           \/ target = Taken.name /\ out' = <<Taken>> /\ pc' = "done"
    BY <1>6, ConsumeTakes
  <2>2. /\ 1 \in DOMAIN pending /\ Head(pending) = pending[1]
        /\ \A i \in DOMAIN tail : i + 1 \in DOMAIN pending /\ tail[i] = pending[i + 1] /\ i + 1 # 1
        /\ \A i, j \in DOMAIN tail : i + 1 = j + 1 => i = j
        /\ \A j \in DOMAIN pending : j # 1 => \E i \in DOMAIN tail : tail[i] = pending[j]
    <3>1. pending \in Seq(Host) /\ Len(pending) \in Nat /\ DOMAIN pending = 1 .. Len(pending)
      BY DEF TypeOK
    <3>2. /\ 1 \in DOMAIN pending /\ Head(pending) = pending[1] /\ DOMAIN tail = 1 .. Len(pending) - 1
          /\ \A i \in DOMAIN tail : i + 1 \in DOMAIN pending /\ tail[i] = pending[i + 1]
      BY <1>2, <3>1, TailAndAppend
    <3> HIDE DEF tail
    <3>3. ASSUME NEW j \in DOMAIN pending, j # 1 PROVE \E i \in DOMAIN tail : tail[i] = pending[j]
      <4>1. j - 1 \in DOMAIN tail /\ (j - 1) + 1 = j
        BY <3>1, <3>2, <3>3
      <4> QED
        BY <3>2, <4>1
    <3>4. \A i \in DOMAIN tail : i \in Nat /\ i >= 1
      BY <3>1, <3>2
    <3> QED
      BY <3>2, <3>3, <3>4
  <2> HIDE DEF tail
  <2>3. PICK f \in File \ unread : \E k \in DOMAIN v[f].resources :
          IsMachine(v[f].resources[k]) /\ pending[1] = HostOf(v[f].resources[k])
    BY <1>4, <2>2 DEF Listed
  <2>4. PICK k \in DOMAIN v[f].resources :
          IsMachine(v[f].resources[k]) /\ pending[1] = HostOf(v[f].resources[k])
    BY <2>3
  <2>5. /\ Taken = Served(pending[1]) /\ Taken.name = pending[1].name
        /\ Taken.port = pending[1].port /\ Taken.name # None
        /\ Taken.name = v[f].resources[k].name
    <3>1. Taken = Served(pending[1])
      BY <2>2 DEF Taken, Served
    <3>2. Taken.name \in Name
      BY <1>2 DEF Host
    <3> QED
      BY <1>2, <2>2, <2>4, <3>1, <3>2, HostOfName, ServedHost, ValueAssumption
  <2>6. /\ \A i \in DOMAIN tail : tail[i].name # Taken.name
        /\ \A i, j \in DOMAIN tail : tail[i].name = tail[j].name => i = j
        /\ \A i \in DOMAIN out : out[i].name # Taken.name
        /\ \A i \in DOMAIN out, j \in DOMAIN tail : out[i].name # tail[j].name
    <3>1. /\ \A i, j \in DOMAIN pending : pending[i].name = pending[j].name => i = j
          /\ \A i \in DOMAIN out, j \in DOMAIN pending : out[i].name # pending[j].name
      BY <1>4 DEF Once
    <3>2. ASSUME NEW i \in DOMAIN tail, tail[i].name = Taken.name PROVE FALSE
      <4>1. pending[i + 1].name = pending[1].name
        BY <2>2, <2>5, <3>2
      <4>2. i + 1 = 1
        BY <2>2, <3>1, <4>1
      <4> QED
        BY <2>2, <4>2
    <3>3. \A i, j \in DOMAIN tail : tail[i].name = tail[j].name => i = j
      <4>1. ASSUME NEW i \in DOMAIN tail, NEW j \in DOMAIN tail, tail[i].name = tail[j].name
            PROVE  i + 1 = j + 1
        BY <2>2, <3>1, <4>1
      <4> QED
        BY <2>2, <4>1
    <3>4. ASSUME NEW i \in DOMAIN out, out[i].name = Taken.name PROVE FALSE
      <4>1. out[i].name = pending[1].name /\ 1 \in DOMAIN pending
        BY <2>2, <2>5, <3>4
      <4> QED
        BY <3>1, <4>1
    <3>5. \A i \in DOMAIN out, j \in DOMAIN tail : out[i].name # tail[j].name
      BY <2>2, <3>1
    <3> QED
      BY <3>2, <3>3, <3>4, <3>5
  <2>7. \A j \in DOMAIN tail : \E g \in File \ unread : \E l \in DOMAIN v[g].resources :
          IsMachine(v[g].resources[l]) /\ tail[j] = HostOf(v[g].resources[l])
    BY <1>4, <2>2 DEF Listed
  <2>8. Taken.port = None => DOMAIN ips = {}
    BY <2>1, <2>2, <2>5 DEF NoIps
  <2>9. ASSUME NEW g \in File \ unread, NEW l \in DOMAIN v[g].resources, IsMachine(v[g].resources[l])
        PROVE  \/ \E j \in DOMAIN tail : tail[j] = HostOf(v[g].resources[l])
               \/ Taken = Served(HostOf(v[g].resources[l])) /\ Taken.name = v[g].resources[l].name
               \/ \E j \in DOMAIN out : out[j] = Served(HostOf(v[g].resources[l]))
               \/ target \notin {None, v[g].resources[l].name}
    <3>1. CASE \E j \in DOMAIN pending : pending[j] = HostOf(v[g].resources[l])
      <4>1. PICK j \in DOMAIN pending : pending[j] = HostOf(v[g].resources[l])
        BY <3>1
      <4>2. CASE j = 1
        BY <2>5, <4>1, <4>2, HostOfName
      <4>3. CASE j # 1
        BY <2>2, <4>1, <4>3
      <4> QED
        BY <4>2, <4>3
    <3>2. CASE ~\E j \in DOMAIN pending : pending[j] = HostOf(v[g].resources[l])
      BY <1>4, <2>9, <3>2 DEF Complete
    <3> QED
      BY <3>1, <3>2
  <2>10. IpsAre(u, File)'
    BY <1>2, <1>4 DEF IpsAre
  <2>11. CASE target = None /\ out' = Append(out, Taken) /\ pc' = pc
    <3>1. /\ DOMAIN out' = DOMAIN out \cup {Len(out) + 1} /\ Len(out) + 1 \notin DOMAIN out
          /\ \A i \in DOMAIN out : out'[i] = out[i]
          /\ out'[Len(out) + 1] = Taken
      <4>1. out \in Seq(Host)
        BY DEF TypeOK
      <4>2. /\ DOMAIN out' = 1 .. Len(out) + 1 /\ DOMAIN out = 1 .. Len(out) /\ Len(out) \in Nat
            /\ \A i \in DOMAIN out : out'[i] = out[i]
            /\ out'[Len(out) + 1] = Taken
        BY <1>2, <2>11, <4>1, TailAndAppend
      <4> QED
        BY <4>2
    <3> DEFINE last == Len(out) + 1
    <3> HIDE DEF last
    <3>2. Listed(v)'
      <4>1. ASSUME NEW j \in DOMAIN out'
            PROVE  \E g \in File \ unread : \E l \in DOMAIN v[g].resources :
                     IsMachine(v[g].resources[l]) /\ out'[j] = Served(HostOf(v[g].resources[l]))
        <5>1. CASE j \in DOMAIN out
          BY <1>4, <3>1, <5>1 DEF Listed
        <5>2. CASE j = last
          BY <2>4, <2>5, <3>1, <5>2 DEF last
        <5> QED
          BY <3>1, <5>1, <5>2 DEF last
      <4> QED
        BY <1>2, <1>3, <2>1, <2>7, <4>1 DEF Listed
    <3>3. Once'
      <4>1. DOMAIN out' = DOMAIN out \cup {last} /\ out'[last] = Taken
        BY <3>1 DEF last
      <4>2. \A i, j \in DOMAIN out' : out'[i].name = out'[j].name => i = j
        BY <1>4, <2>6, <3>1, <4>1 DEF Once
      <4>3. \A i \in DOMAIN out', j \in DOMAIN tail : out'[i].name # tail[j].name
        BY <2>6, <3>1, <4>1
      <4> QED
        BY <2>1, <2>6, <4>2, <4>3 DEF Once
    <3>4. Complete(v)'
      <4>1. ASSUME NEW g \in File \ unread, NEW l \in DOMAIN v[g].resources, IsMachine(v[g].resources[l])
            PROVE  \/ \E j \in DOMAIN tail : tail[j] = HostOf(v[g].resources[l])
                   \/ \E j \in DOMAIN out' : out'[j] = Served(HostOf(v[g].resources[l]))
                   \/ target \notin {None, v[g].resources[l].name}
        BY <2>9, <3>1, <4>1
      <4> QED
        BY <1>2, <1>3, <2>1, <4>1 DEF Complete
    <3>5. Asked' /\ NoDeviceWithIps'
      BY <1>2, <1>4, <2>8, <2>11, <3>1 DEF Asked, NoDeviceWithIps
    <3>6. Told(u, v)'
      BY <1>2, <2>10, <2>11, <3>2, <3>3, <3>4, <3>5 DEF Told
    <3> QED
      BY <1>1, <1>3, <3>6 DEF AnswerInv
  <2>12. CASE target \notin {None, Taken.name} /\ UNCHANGED <<out, pc>>
    <3>1. Listed(v)'
      BY <1>2, <1>3, <1>4, <2>1, <2>7, <2>12 DEF Listed
    <3>2. Once'
      BY <1>4, <2>1, <2>6, <2>12 DEF Once
    <3>3. Complete(v)'
      BY <1>2, <1>3, <2>1, <2>9, <2>12 DEF Complete
    <3>4. Asked' /\ NoDeviceWithIps'
      BY <1>2, <1>4, <2>12 DEF Asked, NoDeviceWithIps
    <3>5. Told(u, v)'
      BY <1>2, <2>10, <2>12, <3>1, <3>2, <3>3, <3>4 DEF Told
    <3> QED
      BY <1>1, <1>3, <3>5 DEF AnswerInv
  <2>13. CASE target = Taken.name /\ out' = <<Taken>> /\ pc' = "done"
    <3>1. DOMAIN out' = {1} /\ out'[1] = Taken /\ Len(out') = 1
      BY <2>13
    <3>2. out = <<>> /\ target # None
      BY <1>2, <1>4, <2>5, <2>13 DEF Asked
    <3>3. Listed(v)'
      BY <1>2, <1>3, <2>1, <2>4, <2>5, <2>7, <3>1 DEF Listed
    <3>4. Once'
      BY <2>1, <2>6, <3>1 DEF Once
    <3>5. Complete(v)'
      <4>1. DOMAIN out = {}
        BY <3>2
      <4>2. ASSUME NEW g \in File \ unread, NEW l \in DOMAIN v[g].resources, IsMachine(v[g].resources[l])
            PROVE  \/ \E j \in DOMAIN tail : tail[j] = HostOf(v[g].resources[l])
                   \/ \E j \in DOMAIN out' : out'[j] = Served(HostOf(v[g].resources[l]))
                   \/ target \notin {None, v[g].resources[l].name}
        BY <2>9, <3>1, <4>1, <4>2
      <4> QED
        BY <1>2, <1>3, <2>1, <4>2 DEF Complete
    <3>6. Asked' /\ NoDeviceWithIps'
      BY <1>2, <2>8, <2>13, <3>1, <3>2 DEF Asked, NoDeviceWithIps
    <3>7. Told(u, v)'
      BY <1>2, <2>10, <2>13, <3>3, <3>4, <3>5, <3>6 DEF Told
    <3> QED
      BY <1>1, <1>3, <3>7 DEF AnswerInv
  <2> QED
    BY <2>1, <2>11, <2>12, <2>13
<1> QED
  BY <1>5, <1>6

\* So every step keeps it, and at the start there is nothing to tell.
LEMMA AnswerStep == TypeOK /\ AnswerInv /\ [Next]_vars => AnswerInv'
<1> SUFFICES ASSUME TypeOK, AnswerInv, [Next]_vars PROVE AnswerInv'
  OBVIOUS
<1>1. CASE UNCHANGED vars
  <2>1. PICK u \in Views, v \in Views : Told(u, v)
    BY DEF AnswerInv
  <2>2. Views' = Views /\ \A r : Served(r)' = Served(r)
    BY <1>1 DEF vars, run, Views, Served, iter_host_ips
  <2>3. Told(u, v)'
    BY <1>1, <2>1, <2>2 DEF vars, run, Told, IpsAre, Listed, Once, Complete, Asked, NoDeviceWithIps
  <2> QED
    BY <2>1, <2>2, <2>3 DEF AnswerInv
<1> QED
  BY <1>1, StartTells, ReadIpsTells, SecondPassTells, ReadHostsTells, ConsumeTells, FinishTells,
     ApplyTells DEF Next

LEMMA AnswerInit == TypeOK /\ Init => AnswerInv
<1> SUFFICES ASSUME TypeOK, Init PROVE AnswerInv
  OBVIOUS
<1>1. PICK w : w = [f \in File |-> file[f]]
  OBVIOUS
<1>2. w \in Views
  <2>1. \A f \in File : w[f] \in during[f]
    BY <1>1 DEF TypeOK
  <2>2. w \in [File -> UNION {during[f] : f \in File}]
    BY <1>1, <2>1
  <2> QED
    BY <2>1, <2>2 DEF Views
<1>3. Told(w, w)
  BY DEF Init, Told
<1> QED
  BY <1>2, <1>3 DEF AnswerInv

-----------------------------------------------------------------------------
(* What an answer says                                                       *)

\* The machines of a tfstate.
LEMMA MachinesAre ==
  ASSUME NEW s, NEW r
  PROVE  r \in Machines(s) <=> \E k \in DOMAIN s.resources : s.resources[k] = r /\ IsMachine(r)
  BY DEF Machines, ResourcesOf, ToSet, IsMachine

\* What is told of a finished answer makes it true.
LEMMA TrueIfTold ==
  ASSUME TypeOK, NEW u \in Views, NEW v \in Views, Told(u, v), pc = "done"
  PROVE  LET all == EntriesOf(u, v, {"1"})
             wanted == IF target = None THEN all ELSE {e \in all : e.name = target}
         IN  Answered = wanted /\ Len(out) = Cardinality(wanted)
<1> DEFINE all == EntriesOf(u, v, {"1"})
           wanted == IF target = None THEN all ELSE {e \in all : e.name = target}
           strip == [i \in DOMAIN out |-> Strip(out[i])]
<1>1. IpsAre(u, File) /\ Listed(v) /\ Once /\ Complete(v) /\ Asked
  BY DEF Told
<1>2. out \in Seq(Host) /\ Len(out) \in Nat /\ DOMAIN out = 1 .. Len(out)
  BY DEF TypeOK
<1>3. \A e : e \in all <=> \E f \in File : \E k \in DOMAIN v[f].resources :
                             IsMachine(v[f].resources[k]) /\ e = Entry(v[f].resources[k], u[f], {"1"})
  <2>1. \A e : e \in all <=> \E f \in File : \E r \in Machines(v[f]) : e = Entry(r, u[f], {"1"})
    <3> DEFINE Of(f) == {Entry(r, u[f], {"1"}) : r \in Machines(v[f])}
    <3>1. all = UNION {Of(f) : f \in File}
      BY DEF EntriesOf
    <3>2. \A e, f : e \in Of(f) <=> \E r \in Machines(v[f]) : e = Entry(r, u[f], {"1"})
      OBVIOUS
    <3> HIDE DEF all, Of
    <3> QED
      BY <3>1, <3>2
  <2> HIDE DEF all
  <2>2. ASSUME NEW e, NEW f \in File
        PROVE  (\E r \in Machines(v[f]) : e = Entry(r, u[f], {"1"}))
                 <=> \E k \in DOMAIN v[f].resources :
                       IsMachine(v[f].resources[k]) /\ e = Entry(v[f].resources[k], u[f], {"1"})
    <3>1. \A r : r \in Machines(v[f]) <=>
            \E k \in DOMAIN v[f].resources : v[f].resources[k] = r /\ IsMachine(r)
      BY MachinesAre
    <3> QED
      BY <3>1
  <2> QED
    BY <2>1, <2>2
<1>4. ASSUME NEW f \in File, NEW k \in DOMAIN v[f].resources, IsMachine(v[f].resources[k])
      PROVE  /\ Strip(Served(HostOf(v[f].resources[k]))) = Entry(v[f].resources[k], u[f], {"1"})
             /\ Entry(v[f].resources[k], u[f], {"1"}).name = v[f].resources[k].name
  BY <1>1, <1>4, ServedEntry
<1>5. \A h : Strip(h).name = h.name
  BY DEF Strip
<1>6. Answered = {Strip(out[i]) : i \in DOMAIN out}
  BY DEF Answered, Strip
<1> HIDE DEF all
<1>7. \/ pending = <<>> /\ unread = {} /\ (target # None => out = <<>>)
      \/ target # None /\ Len(out) = 1 /\ out[1].name = target
  BY <1>1 DEF Asked
<1>8. ASSUME NEW i \in DOMAIN out PROVE Strip(out[i]) \in wanted
  <2>1. PICK f \in File : \E k \in DOMAIN v[f].resources :
          IsMachine(v[f].resources[k]) /\ out[i] = Served(HostOf(v[f].resources[k]))
    BY <1>1 DEF Listed
  <2>2. Strip(out[i]) \in all
    BY <1>3, <1>4, <2>1
  <2>3. target # None => out[i].name = target
    BY <1>2, <1>7
  <2> QED
    BY <1>5, <2>2, <2>3
<1>9. ASSUME NEW e \in wanted PROVE \E i \in DOMAIN out : e = Strip(out[i])
  <2>1. PICK f \in File : \E k \in DOMAIN v[f].resources :
          IsMachine(v[f].resources[k]) /\ e = Entry(v[f].resources[k], u[f], {"1"})
    BY <1>3
  <2>2. PICK k \in DOMAIN v[f].resources :
          IsMachine(v[f].resources[k]) /\ e = Entry(v[f].resources[k], u[f], {"1"})
    BY <2>1
  <2> DEFINE r == v[f].resources[k]
  <2>3. e = Strip(Served(HostOf(r))) /\ e.name = r.name /\ target \in {None, r.name}
    BY <1>4, <2>2
  <2>4. CASE pending = <<>> /\ unread = {} /\ (target # None => out = <<>>)
    <3>1. f \in File \ unread /\ DOMAIN pending = {}
      BY <2>4
    <3>2. \E j \in DOMAIN out : out[j] = Served(HostOf(r))
      BY <1>1, <2>2, <2>3, <3>1 DEF Complete
    <3> QED
      BY <2>3, <3>2
  <2>5. CASE target # None /\ Len(out) = 1 /\ out[1].name = target
    <3>1. 1 \in DOMAIN out
      BY <1>2, <2>5
    <3>2. PICK g \in File \ unread : \E l \in DOMAIN v[g].resources :
            /\ IsMachine(v[g].resources[l]) /\ out[1] = Served(HostOf(v[g].resources[l]))
            /\ out[1].name = v[g].resources[l].name
      BY <1>1, <3>1, ListedName
    <3>3. PICK l \in DOMAIN v[g].resources :
            /\ IsMachine(v[g].resources[l]) /\ out[1] = Served(HostOf(v[g].resources[l]))
            /\ out[1].name = v[g].resources[l].name
      BY <3>2
    <3>4. r.name = v[g].resources[l].name
      BY <2>3, <2>5, <3>3
    <3>5. Conflict(v[f].resources[k], v[g].resources[l])
      BY <2>2, <3>3, <3>4 DEF Conflict
    <3>6. v[f] \in Content[f] /\ v[g] \in Content[g]
      BY ViewTypes
    <3>7. f = g
      BY <3>5, <3>6, Owned
    <3>8. k = l
      BY <3>5, <3>6, <3>7, Owned
    <3> QED
      BY <2>3, <3>1, <3>3, <3>7, <3>8
  <2> QED
    BY <1>7, <2>4, <2>5
<1> HIDE DEF wanted
<1>10. Answered = wanted
  BY <1>6, <1>8, <1>9
<1>11. Len(out) = Cardinality(Answered)
  <2>1. strip \in Seq(Answered) /\ Len(strip) = Len(out)
    <3>1. strip = [i \in 1 .. Len(out) |-> Strip(out[i])]
      BY <1>2
    <3>2. \A i \in 1 .. Len(out) : strip[i] \in Answered
      BY <1>2, <1>6
    <3> HIDE DEF strip
    <3>3. strip \in [1 .. Len(out) -> Answered]
      BY <3>1, <3>2
    <3> QED
      BY <1>2, <3>1, <3>3
  <2>2. ToSet(strip) = Answered
    BY <1>6 DEF ToSet
  <2>3. IsInjective(strip)
    <3>1. \A i, j \in DOMAIN out : Strip(out[i]) = Strip(out[j]) => i = j
      BY <1>1, <1>5 DEF Once
    <3> QED
      BY <3>1 DEF IsInjective
  <2> HIDE DEF strip
  <2> QED
    BY <2>1, <2>2, <2>3, LengthOfInjective
<1> QED
  BY <1>10, <1>11 DEF wanted, all

\* An answer is made of contents that the files had while it was given: all
\* machines of them, each once, at the floating IP of its port, or else at its
\* IPv6 or its IPv4 address; with --host, the one of that name.
THEOREM AnswersAreTrue == Spec => []AnswerIsTrue
<1>1. TypeOK /\ AnswerInv => AnswerIsTrue
  BY TrueIfTold DEF AnswerInv, AnswerIsTrue
<1> QED
  BY <1>1, TypeInit, TypeStep, AnswerInit, AnswerStep, PTL DEF Spec

\* Two machines that are reached at the same address are the same.
LEMMA SameAddress ==
  ASSUME TypeOK, NEW u \in Views, NEW v \in Views, IpsAre(u, File), NEW f \in File, NEW g \in File,
         NEW k \in DOMAIN v[f].resources, NEW l \in DOMAIN v[g].resources,
         IsInstance(v[f].resources[k]), IsInstance(v[g].resources[l]),
         Served(HostOf(v[f].resources[k])).ansible_host = Served(HostOf(v[g].resources[l])).ansible_host
  PROVE  v[f].resources[k] = v[g].resources[l]
<1> DEFINE r == v[f].resources[k]
           q == v[g].resources[l]
<1>1. r \in Resource /\ q \in Resource /\ v[f] \in Content[f] /\ v[g] \in Content[g]
  BY ViewTypes
<1>2. r \in Instance /\ q \in Instance /\ IsMachine(r) /\ IsMachine(q)
  BY <1>1, Kinds
<1>3. r.port \in Port /\ q.port \in Port
  BY <1>2 DEF Instance
<1>4. HostOf(r) \in Host /\ HostOf(q) \in Host
  BY <1>1, <1>2, HostOfTypes
<1>5. /\ HostOf(r).port = r.port /\ HostOf(r).ansible_host \in {Six(r.port), Access(r.port)}
      /\ HostOf(q).port = q.port /\ HostOf(q).ansible_host \in {Six(q.port), Access(q.port)}
  BY <1>2 DEF HostOf, openstack_host, IsInstance
<1>6. /\ Served(HostOf(r)).ansible_host = IF r.port \in DOMAIN ips THEN ips[r.port] ELSE HostOf(r).ansible_host
      /\ Served(HostOf(q)).ansible_host = IF q.port \in DOMAIN ips THEN ips[q.port] ELSE HostOf(q).ansible_host
  BY <1>4, <1>5, ServedHost
<1>7. \A p \in Port : Six(p) \notin FloatingIp /\ Access(p) \notin FloatingIp
  BY ValueAssumption
<1>8. \A p \in DOMAIN ips : ips[p] \in FloatingIp
  BY DEF TypeOK
<1>9. r.port = q.port
  <2>1. CASE r.port \in DOMAIN ips /\ q.port \in DOMAIN ips
    <3>1. PICK a \in File : \E i \in DOMAIN u[a].resources :
            /\ IsAssociation(u[a].resources[i])
            /\ u[a].resources[i].port = r.port /\ u[a].resources[i].ip = ips[r.port]
      BY <2>1 DEF IpsAre
    <3>2. PICK i \in DOMAIN u[a].resources :
            /\ IsAssociation(u[a].resources[i])
            /\ u[a].resources[i].port = r.port /\ u[a].resources[i].ip = ips[r.port]
      BY <3>1
    <3>3. PICK b \in File : \E j \in DOMAIN u[b].resources :
            /\ IsAssociation(u[b].resources[j])
            /\ u[b].resources[j].port = q.port /\ u[b].resources[j].ip = ips[q.port]
      BY <2>1 DEF IpsAre
    <3>4. PICK j \in DOMAIN u[b].resources :
            /\ IsAssociation(u[b].resources[j])
            /\ u[b].resources[j].port = q.port /\ u[b].resources[j].ip = ips[q.port]
      BY <3>3
    <3>5. ips[r.port] = ips[q.port]
      BY <1>6, <2>1
    <3>6. Conflict(u[a].resources[i], u[b].resources[j])
      BY <3>2, <3>4, <3>5 DEF Conflict
    <3>7. u[a] \in Content[a] /\ u[b] \in Content[b]
      BY ViewTypes
    <3>8. a = b
      BY <3>6, <3>7, Owned
    <3>9. i = j
      BY <3>6, <3>7, <3>8, Owned
    <3> QED
      BY <3>2, <3>4, <3>8, <3>9
  <2>2. CASE r.port \in DOMAIN ips /\ q.port \notin DOMAIN ips
    BY <1>3, <1>5, <1>6, <1>7, <1>8, <2>2
  <2>3. CASE r.port \notin DOMAIN ips /\ q.port \in DOMAIN ips
    BY <1>3, <1>5, <1>6, <1>7, <1>8, <2>3
  <2>4. CASE r.port \notin DOMAIN ips /\ q.port \notin DOMAIN ips
    <3>1. {Six(r.port), Access(r.port)} \cap {Six(q.port), Access(q.port)} # {}
      BY <1>5, <1>6, <2>4
    <3>2. \A p1, p2 : /\ Six(p1) = Six(p2) => p1 = p2
                      /\ Access(p1) = Access(p2) => p1 = p2
                      /\ Six(p1) # Access(p2)
      BY DEF Six, Access
    <3> QED
      BY <3>1, <3>2
  <2> QED
    BY <2>1, <2>2, <2>3, <2>4
<1>10. Conflict(v[f].resources[k], v[g].resources[l])
  BY <1>9 DEF Conflict
<1>11. f = g
  BY <1>1, <1>10, Owned
<1>12. k = l
  BY <1>1, <1>10, <1>11, Owned
<1> QED
  BY <1>11, <1>12

\* While the hosts are gone through, and when the answer is given, no two of its
\* machines have the same address.
LEMMA AddressesDiffer ==
  TypeOK /\ AnswerInv /\ pc \in {"hosts", "done"} => OneHostPerAddress
<1> SUFFICES ASSUME TypeOK, AnswerInv, pc \in {"hosts", "done"},
                    NEW i \in DOMAIN out, NEW j \in DOMAIN out, out[i].ansible_host = out[j].ansible_host
             PROVE  i = j
  BY DEF OneHostPerAddress
<1>1. PICK u \in Views, v \in Views : Told(u, v)
  BY DEF AnswerInv
<1>2. IpsAre(u, File) /\ Listed(v) /\ Once /\ NoDeviceWithIps
  BY <1>1 DEF Told
<1>3. PICK f \in File : \E k \in DOMAIN v[f].resources :
        /\ IsMachine(v[f].resources[k]) /\ out[i] = Served(HostOf(v[f].resources[k]))
        /\ out[i].name = v[f].resources[k].name
  BY <1>2, ListedName
<1>4. PICK k \in DOMAIN v[f].resources :
        /\ IsMachine(v[f].resources[k]) /\ out[i] = Served(HostOf(v[f].resources[k]))
        /\ out[i].name = v[f].resources[k].name
  BY <1>3
<1>5. PICK g \in File : \E l \in DOMAIN v[g].resources :
        /\ IsMachine(v[g].resources[l]) /\ out[j] = Served(HostOf(v[g].resources[l]))
        /\ out[j].name = v[g].resources[l].name
  BY <1>2, ListedName
<1>6. PICK l \in DOMAIN v[g].resources :
        /\ IsMachine(v[g].resources[l]) /\ out[j] = Served(HostOf(v[g].resources[l]))
        /\ out[j].name = v[g].resources[l].name
  BY <1>5
<1> DEFINE r == v[f].resources[k]
           q == v[g].resources[l]
<1>7. r \in Resource /\ q \in Resource
  BY ViewTypes
<1>8. ASSUME NEW x \in Resource, x.kind = "metal_device"
      PROVE  /\ Served(HostOf(x)).ansible_host = Direct(x.name)
             /\ Served(HostOf(x)).port = None
  <2>1. IsMachine(x)
    BY <1>8 DEF IsMachine
  <2>2. HostOf(x) \in Host
    BY <2>1, HostOfTypes
  <2>3. HostOf(x).port = None /\ HostOf(x).ansible_host = Direct(x.name)
    BY <1>8 DEF HostOf, metal_device
  <2>4. None \notin DOMAIN ips
    BY ValueAssumption DEF TypeOK
  <2> QED
    BY <2>2, <2>3, <2>4, ServedHost
<1>9. ASSUME NEW x \in Resource, IsInstance(x), DOMAIN ips = {}
      PROVE  Served(HostOf(x)).ansible_host \in {Six(x.port), Access(x.port)}
  <2>1. IsMachine(x)
    BY <1>9 DEF IsMachine, IsInstance
  <2>2. HostOf(x) \in Host
    BY <2>1, HostOfTypes
  <2>3. HostOf(x).ansible_host \in {Six(x.port), Access(x.port)}
    BY <1>9 DEF HostOf, openstack_host, IsInstance
  <2> QED
    BY <1>9, <2>2, <2>3, ServedHost
<1>10. \A n, m, p : /\ Direct(n) = Direct(m) => n = m
                    /\ Direct(n) # Six(p) /\ Direct(n) # Access(p)
  BY DEF Direct, Six, Access
<1>11. /\ IsInstance(r) \/ r.kind = "metal_device"
       /\ IsInstance(q) \/ q.kind = "metal_device"
  BY <1>4, <1>6, <1>7, Kinds
<1>12. r.name = q.name
  <2>1. CASE r.kind = "metal_device" /\ q.kind = "metal_device"
    <3>1. Direct(r.name) = Direct(q.name)
      BY <1>4, <1>6, <1>7, <1>8, <2>1
    <3> QED
      BY <1>10, <3>1
  <2>2. CASE r.kind = "metal_device" /\ IsInstance(q)
    <3>1. out[i].ansible_host = Direct(r.name) /\ out[i].port = None
      BY <1>4, <1>7, <1>8, <2>2
    <3>2. DOMAIN ips = {}
      BY <1>2, <3>1 DEF NoDeviceWithIps
    <3>3. out[j].ansible_host \in {Six(q.port), Access(q.port)}
      BY <1>6, <1>7, <1>9, <2>2, <3>2
    <3> QED
      BY <1>10, <3>1, <3>3
  <2>3. CASE IsInstance(r) /\ q.kind = "metal_device"
    <3>1. out[j].ansible_host = Direct(q.name) /\ out[j].port = None
      BY <1>6, <1>7, <1>8, <2>3
    <3>2. DOMAIN ips = {}
      BY <1>2, <3>1 DEF NoDeviceWithIps
    <3>3. out[i].ansible_host \in {Six(r.port), Access(r.port)}
      BY <1>4, <1>7, <1>9, <2>3, <3>2
    <3> QED
      BY <1>10, <3>1, <3>3
  <2>4. CASE IsInstance(r) /\ IsInstance(q)
    <3>1. Served(HostOf(r)).ansible_host = Served(HostOf(q)).ansible_host
      BY <1>4, <1>6
    <3>2. v[f].resources[k] = v[g].resources[l]
      BY <1>2, <2>4, <3>1, SameAddress
    <3> QED
      BY <3>2
  <2> QED
    BY <1>11, <2>1, <2>2, <2>3, <2>4
<1>13. out[i].name = out[j].name
  BY <1>4, <1>6, <1>12
<1> QED
  BY <1>2, <1>13 DEF Once

\* the answer is being given, or has been
Answering == pc \in {"hosts", "done"}

\* No two machines in an answer are to be reached at the same address, also when
\* an apply moves a floating IP from one to the other in the middle of the run.
THEOREM NoAddressTwice == Spec => []OneHostPerAddress
<1>1. Init => OneHostPerAddress
  BY DEF Init, OneHostPerAddress
<1>2. TypeOK /\ AnswerInv /\ Answering => OneHostPerAddress
  BY AddressesDiffer DEF Answering
<1>3. TypeOK /\ OneHostPerAddress /\ [Next]_vars => OneHostPerAddress' \/ Answering'
  <2> SUFFICES ASSUME TypeOK, OneHostPerAddress, [Next]_vars PROVE OneHostPerAddress' \/ Answering'
    OBVIOUS
  <2>1. CASE Start
    BY <2>1 DEF Start, OneHostPerAddress
  <2>2. CASE Consume
    <3>1. out' = out \/ pc' \in {"hosts", "done"}
      BY <2>2, ConsumeTakes
    <3> QED
      BY <3>1 DEF OneHostPerAddress, Answering
  <2>3. CASE UNCHANGED out
    BY <2>3 DEF OneHostPerAddress
  <2> QED
    BY <2>1, <2>2, <2>3 DEF Next, SecondPass, Finish, ReadIps, ReadHosts, Fail, TerraformApply, vars, run
<1> QED
  BY <1>1, <1>2, <1>3, TypeInit, TypeStep, AnswerInit, AnswerStep, PTL DEF Spec

-----------------------------------------------------------------------------
(* Groups                                                                    *)

\* the names for which a host is in group g
NamesFor(h, g) == {n \in h.groups : (IF n = Empty THEN "all" ELSE n) = g}

\* how many there are to be
Count(r, g) == IF g = "all" /\ {"all", Empty} \subseteq r.groups THEN 2 ELSE 1

\* A name, or two.
LEMMA PairCounted ==
  ASSUME NEW x, NEW y
  PROVE  Cardinality({x}) = 1 /\ (x # y => Cardinality({x, y}) = 2)
<1>1. IsFiniteSet({x}) /\ Cardinality({x}) = 1
  BY FS_Singleton
<1>2. x # y => Cardinality({x} \cup {y}) = 1 + 1
  BY <1>1, FS_AddElement
<1>3. {x, y} = {x} \cup {y}
  OBVIOUS
<1> QED
  BY <1>1, <1>2, <1>3

\* There are at most two of them.
LEMMA NamesCounted ==
  ASSUME NEW h, NEW g
  PROVE  Cardinality(NamesFor(h, g)) \in Nat
<1>1. NamesFor(h, g) \in SUBSET {g, Empty}
  BY DEF NamesFor
<1>2. IsFiniteSet({g, Empty})
  <2>1. IsFiniteSet({g})
    BY FS_Singleton
  <2>2. {g, Empty} = {g} \cup {Empty}
    OBVIOUS
  <2> QED
    BY <2>1, <2>2, FS_AddElement
<1> QED
  BY <1>1, <1>2, FS_Subset, FS_CardinalityType

\* A machine that asks for a group has one name for it, or two for "all".
LEMMA AskedByName ==
  ASSUME NEW r \in Resource, IsMachine(r), NEW g \in Group \cup {"all", "publicly_routable"},
         \/ g \in r.groups
         \/ g = "all" /\ Empty \in r.groups
         \/ g = "publicly_routable" /\ r.kind # "metal_device"
  PROVE  Cardinality(NamesFor(HostOf(r), g)) = Count(r, g)
<1>1. /\ r.groups \subseteq Group \cup {Empty}
      /\ HostOf(r).groups = IF r.kind = "metal_device" THEN r.groups
                            ELSE r.groups \cup {"publicly_routable"}
  <2>1. CASE r.kind = "metal_device"
    BY <2>1, Kinds DEF Device, HostOf, metal_device
  <2>2. CASE r.kind # "metal_device"
    BY <2>2, Kinds DEF Instance, HostOf, openstack_host
  <2> QED
    BY <2>1, <2>2
<1>2. Empty \notin Group \cup {"all", "publicly_routable"}
  BY ValueAssumption
<1>3. CASE g = "all"
  <2>1. /\ "all" \in HostOf(r).groups <=> "all" \in r.groups
        /\ Empty \in HostOf(r).groups <=> Empty \in r.groups
    BY <1>1, <1>2
  <2>2. CASE {"all", Empty} \subseteq r.groups
    <3>1. NamesFor(HostOf(r), g) = {"all", Empty}
      BY <1>3, <2>1, <2>2 DEF NamesFor
    <3>2. "all" # Empty
      BY <1>2
    <3>3. Cardinality({"all", Empty}) = 2
      BY <3>2, PairCounted
    <3> QED
      BY <1>3, <2>2, <3>1, <3>3 DEF Count
  <2>3. CASE ~({"all", Empty} \subseteq r.groups)
    <3>1. NamesFor(HostOf(r), g) = {"all"} \/ NamesFor(HostOf(r), g) = {Empty}
      BY <1>3, <2>1, <2>3 DEF NamesFor
    <3> QED
      BY <2>3, <3>1, PairCounted DEF Count
  <2> QED
    BY <2>2, <2>3
<1>4. CASE g # "all"
  <2>1. g \in HostOf(r).groups /\ g # Empty
    BY <1>1, <1>2, <1>4
  <2>2. NamesFor(HostOf(r), g) = {g}
    BY <1>4, <2>1 DEF NamesFor
  <2> QED
    BY <1>4, <2>2, PairCounted DEF Count
<1> QED
  BY <1>3, <1>4

\* In a list without repeated names, a host is in a group as often as it has names
\* for it.
LEMMA ListedAsNamed ==
  ASSUME NEW hosts \in Seq(Host), NEW g \in Group \cup {"all", "publicly_routable"},
         NEW j \in DOMAIN hosts, NEW c \in {1, 2}, Cardinality(NamesFor(hosts[j], g)) = c,
         \A i \in DOMAIN hosts : hosts[i].name = hosts[j].name => i = j
  PROVE  Cardinality({i \in DOMAIN query_list(hosts)[g] :
                        query_list(hosts)[g][i] = hosts[j].name}) = c
<1> DEFINE names == [i \in DOMAIN hosts |->
                      [k \in 1 .. Cardinality(NamesFor(hosts[i], g)) |-> hosts[i].name]]
<1>1. query_list(hosts)[g] = FlattenSeq(names)
  BY DEF query_list, NamesFor
<1>2. DOMAIN hosts = 1 .. Len(hosts) /\ Len(hosts) \in Nat /\ \A i \in DOMAIN hosts : hosts[i].name \in Name
  <2>1. \A i \in DOMAIN hosts : hosts[i] \in Host
    OBVIOUS
  <2> QED
    BY <2>1 DEF Host
<1>3. \A i \in DOMAIN hosts : names[i] \in Seq(Name)
  <2>1. ASSUME NEW i \in DOMAIN hosts, NEW n \in Nat
        PROVE  [k \in 1 .. n |-> hosts[i].name] \in Seq(Name)
    BY <1>2
  <2> QED
    BY <2>1, NamesCounted
<1>4. names \in Seq(Seq(Name))
  <2>1. names = [i \in 1 .. Len(hosts) |-> names[i]]
    BY <1>2
  <2> HIDE DEF names
  <2>2. names \in [1 .. Len(hosts) -> Seq(Name)]
    BY <1>2, <1>3, <2>1
  <2> QED
    BY <1>2, <2>2
<1>5. {l \in DOMAIN names[j] : names[j][l] = hosts[j].name} = 1 .. c
  <2>1. names[j] = [k \in 1 .. c |-> hosts[j].name]
    OBVIOUS
  <2> HIDE DEF names
  <2> QED
    BY <2>1
<1>6. \A i \in DOMAIN names : i # j => Places(names[i], hosts[j].name) = {}
  BY DEF Places
<1>7. j \in DOMAIN names
  OBVIOUS
<1> HIDE DEF names
<1>8. PICK p \in Int : Places(FlattenSeq(names), hosts[j].name) = {p + k : k \in 1 .. c}
  <2>1. PICK p \in Int : \A k : k \in Places(FlattenSeq(names), hosts[j].name)
                                 <=> \E l \in Places(names[j], hosts[j].name) : k = p + l
    BY <1>4, <1>6, <1>7, FlattenBlock
  <2>2. Places(names[j], hosts[j].name) = 1 .. c
    BY <1>5 DEF Places
  <2>3. Places(FlattenSeq(names), hosts[j].name) = {p + k : k \in 1 .. c}
    BY <2>1, <2>2
  <2> QED
    BY <2>3
<1>9. Cardinality({p + k : k \in 1 .. c}) = c
  <2>1. CASE c = 1
    <3>1. {p + k : k \in 1 .. c} = {p + 1}
      BY <2>1
    <3> QED
      BY <2>1, <3>1, PairCounted
  <2>2. CASE c = 2
    <3>1. {p + k : k \in 1 .. c} = {p + 1, p + 2}
      BY <2>2
    <3>2. p + 1 # p + 2
      OBVIOUS
    <3>3. Cardinality({p + 1, p + 2}) = 2
      BY <3>2, PairCounted
    <3> QED
      BY <2>2, <3>1, <3>3
  <2> QED
    BY <2>1, <2>2
<1> QED
  BY <1>1, <1>8, <1>9 DEF Places

\* A machine that asks for a group throughout the run of --list is in that group,
\* whatever is applied meanwhile: once, or twice if it asks for all hosts both by
\* name and without one.
THEOREM MembersAreSteady == Spec => []SteadyMember
<1>1. TypeOK /\ AnswerInv => SteadyMember
  <2> SUFFICES ASSUME TypeOK, AnswerInv, pc = "done", target = None, NEW f \in File, NEW n \in Name,
                      NEW g \in Group \cup {"all", "publicly_routable"},
                      \A s \in during[f] : Asks(s, n, g)
               PROVE  \E s \in during[f] :
                        Cardinality({i \in DOMAIN query_list(out)[g] : query_list(out)[g][i] = n})
                          = Wanted(s, n, g)
    BY DEF SteadyMember
  <2>1. PICK u \in Views, v \in Views : Told(u, v)
    BY DEF AnswerInv
  <2>2. Once /\ Complete(v) /\ pending = <<>> /\ unread = {} /\ out \in Seq(Host)
    BY <2>1 DEF Told, Asked, TypeOK
  <2>3. Asks(v[f], n, g) /\ v[f] \in during[f]
    BY ViewTypes
  <2>4. PICK k \in DOMAIN v[f].resources :
          /\ IsMachine(v[f].resources[k]) /\ v[f].resources[k].name = n
          /\ \/ g \in v[f].resources[k].groups
             \/ g = "all" /\ Empty \in v[f].resources[k].groups
             \/ g = "publicly_routable" /\ v[f].resources[k].kind # "metal_device"
    BY <2>3, MachinesAre DEF Asks
  <2> DEFINE r == v[f].resources[k]
  <2>5. r \in Resource
    BY ViewTypes
  <2>6. HostOf(r) \in Host /\ HostOf(r).name = n
    BY <2>4, <2>5, HostOfTypes, HostOfName
  <2>7. PICK j \in DOMAIN out : out[j] = Served(HostOf(r))
    BY <2>2, <2>4 DEF Complete
  <2>8. out[j].name = n /\ out[j].groups = HostOf(r).groups
    BY <2>6, <2>7, ServedHost
  <2>9. Cardinality(NamesFor(out[j], g)) = Count(r, g)
    <3>1. Cardinality(NamesFor(HostOf(r), g)) = Count(r, g)
      BY <2>4, <2>5, AskedByName
    <3> QED
      BY <2>8, <3>1 DEF NamesFor
  <2>10. \A i \in DOMAIN out : out[i].name = out[j].name => i = j
    BY <2>2 DEF Once
  <2>11. Count(r, g) = Wanted(v[f], n, g)
    <3>1. ASSUME NEW l \in DOMAIN v[f].resources, IsMachine(v[f].resources[l]),
                 v[f].resources[l].name = n
          PROVE  l = k
      <4>1. Conflict(v[f].resources[l], v[f].resources[k])
        BY <2>4, <3>1 DEF Conflict
      <4> QED
        BY <2>3, <4>1, ViewTypes, Owned
    <3>2. \A q : q \in Machines(v[f]) <=> \E l \in DOMAIN v[f].resources :
                                           IsMachine(v[f].resources[l]) /\ q = v[f].resources[l]
      BY MachinesAre
    <3>3. \A q \in Machines(v[f]) : q.name = n => q = r
      BY <3>1, <3>2
    <3>4. r \in Machines(v[f]) /\ r.name = n
      BY <2>4, <3>2
    <3> HIDE DEF r
    <3> QED
      BY <3>3, <3>4 DEF Count, Wanted
  <2>12. Count(r, g) \in {1, 2}
    BY DEF Count
  <2> HIDE DEF r
  <2>13. Cardinality({i \in DOMAIN query_list(out)[g] : query_list(out)[g][i] = n}) = Count(r, g)
    BY <2>2, <2>8, <2>9, <2>10, <2>12, ListedAsNamed
  <2> QED
    BY <2>3, <2>11, <2>13
<1> QED
  BY <1>1, TypeInit, TypeStep, AnswerInit, AnswerStep, PTL DEF Spec
=============================================================================
