------------------------- MODULE TerraformInventory -------------------------
(***************************************************************************)
(* contrib/terraform/terraform.py: Ansible runs it for the inventory of the  *)
(* machines that Terraform has made, and reads its answer.  A run reads      *)
(* every .tfstate file below the root twice: first, for the floating IPs,    *)
(* and again, file by file while it answers, for the hosts.  Terraform may   *)
(* rewrite the files meanwhile.                                              *)
(*                                                                         *)
(* A resource is what the parsers take from its attributes, in either state  *)
(* version.  Of the attributes of a host the model keeps those that decide   *)
(* how it is reached; of its groups those named in kubespray_groups, and     *)
(* publicly_routable.  Left out: volumes, images, tags, ssh users, the       *)
(* command line but for its modes.                                           *)
(***************************************************************************)
EXTENDS Naturals, FiniteSets, SequencesExt, Subsequence, TLC

CONSTANTS
  File,        \* the .tfstate files below the root
  Name,        \* names of machines
  Port,        \* the ports of instances
  FloatingIp,
  Group,       \* groups in kubespray_groups
  Empty,       \* the empty string between two commas there
  None,        \* no value
  Content,     \* what Terraform may write: File -> set of tfstates
  MaxContents  \* bound: the contents one file has during one run

Access(p) == <<"access", p>>    \* access_ip_v4 of the instance with port p
Six(p) == <<"six", p>>          \* its access_ip_v6
Fixed(p) == <<"fixed", p>>      \* its network.0.fixed_ip_v4: the variable ip
Direct(n) == <<"direct", n>>    \* network.0.address of a metal device
Address == FloatingIp \cup {Access(p) : p \in Port} \cup {Six(p) : p \in Port}
             \cup {Direct(n) : n \in Name}

Instance == [kind : {"openstack_compute_instance_v2"}, name : Name, port : Port,
             groups : SUBSET (Group \cup {Empty}),
             prefer_ipv6 : {None, "1", "true"}, use_access_ip : {None, "0", "1"}]
Device == [kind : {"metal_device"}, name : Name, groups : SUBSET Group]
Association == [kind : {"openstack_networking_floatingip_associate_v2"},
                port : Port, ip : FloatingIp]
Other == [kind : {"other"}]
Resource == Instance \cup Device \cup Association \cup Other

TfState == [version : Nat, resources : Seq(Resource)]

ASSUME ContentAssumption ==
  /\ \A f \in File : Content[f] \subseteq TfState
  /\ MaxContents \in Nat \ {0}
ASSUME ValueAssumption ==
  /\ None \notin Address \cup Name \cup Port
  /\ Empty \notin Group \cup {"all", "publicly_routable"}
  /\ FloatingIp \cap {Access(p) : p \in Port} = {}
  /\ FloatingIp \cap {Six(p) : p \in Port} = {}

IsMachine(r) == r.kind \in {"openstack_compute_instance_v2", "metal_device"}
IsInstance(r) == r.kind = "openstack_compute_instance_v2"
IsAssociation(r) == r.kind = "openstack_networking_floatingip_associate_v2"

\* two resources that Terraform never has at once
Conflict(r, q) ==
  \/ IsMachine(r) /\ IsMachine(q) /\ r.name = q.name
  \/ IsInstance(r) /\ IsInstance(q) /\ r.port = q.port
  \/ IsAssociation(r) /\ IsAssociation(q) /\ (r.port = q.port \/ r.ip = q.ip)

\* a machine has its own name, a port its own instance and floating IP, and
\* they stay in one file
ASSUME OwnershipAssumption ==
  \A f, g \in File : \A s \in Content[f], t \in Content[g] :
    \A i \in DOMAIN s.resources, j \in DOMAIN t.resources :
      LET r == s.resources[i]
          q == t.resources[j]
      IN  /\ f = g /\ s = t /\ i # j => ~Conflict(r, q)
          /\ f # g => ~Conflict(r, q) /\ ~(IsInstance(r) /\ IsAssociation(q) /\ r.port = q.port)

\* a host as iterhosts yields it; a metal device has no port_id and no metadata
Host == [name : Name, port : Port \cup {None},
         groups : SUBSET (Group \cup {Empty, "publicly_routable"}),
         ansible_host : Address, access_ip : Address \cup {None},
         use_access_ip : {None, "0", "1"}]

VARIABLES
  file,     \* the contents of the files
  pc,       \* "idle", "ips", "hosts", "done" or "failed"
  target,   \* argument of --host, None with --list and --hostfile
  unread,   \* files the pass has not come to
  ips,      \* port_id -> ip
  pending,  \* hosts of the file that was read last, not yet consumed
  out,      \* hosts the query has consumed, for --host the one it returns
  during    \* contents each file has had since the run started (a history)

run == <<pc, target, unread, ips, pending, out>>
vars == <<file, run, during>>

NoIps == [p \in {} |-> None]

Init ==
  /\ file \in {c \in [File -> UNION {Content[f] : f \in File}] : \A f \in File : c[f] \in Content[f]}
  /\ pc = "idle" /\ target = None /\ unread = {} /\ ips = NoIps
  /\ pending = <<>> /\ out = <<>>
  /\ during = [f \in File |-> {file[f]}]

-----------------------------------------------------------------------------
(* parsers *)

Supported(s) == s.version \in {3, 4}

OfKind(s, kinds) == Only(s.resources, {r \in ToSet(s.resources) : r.kind \in kinds})

openstack_host(r) ==
  [name |-> r.name, port |-> r.port, groups |-> r.groups \cup {"publicly_routable"},
   ansible_host |-> IF r.prefer_ipv6 = "1" THEN Six(r.port) ELSE Access(r.port),
   access_ip |-> Access(r.port), use_access_ip |-> r.use_access_ip]

metal_device(r) ==
  [name |-> r.name, port |-> None, groups |-> r.groups,
   ansible_host |-> Direct(r.name), access_ip |-> None, use_access_ip |-> None]

iterhosts(s) ==
  LET machines == OfKind(s, {"openstack_compute_instance_v2", "metal_device"})
  IN  [i \in DOMAIN machines |->
         IF machines[i].kind = "metal_device" THEN metal_device(machines[i])
                                              ELSE openstack_host(machines[i])]

\* Faulty variant of iterips: the two halves of a pair are swapped.
iteripsSwapped(s) ==
  LET pairs == OfKind(s, {"openstack_networking_floatingip_associate_v2"})
  IN  [ip \in {pairs[i].ip : i \in DOMAIN pairs} |->
         pairs[CHOOSE i \in DOMAIN pairs : pairs[i].ip = ip].port]

\* dict(iterips(...)): a later association of a port replaces an earlier one
iterips(s) ==
  LET pairs == OfKind(s, {"openstack_networking_floatingip_associate_v2"})
      PortsOf == {pairs[i].port : i \in DOMAIN pairs}
      LastOf(p) == CHOOSE i \in DOMAIN pairs :
                     /\ pairs[i].port = p
                     /\ \A j \in DOMAIN pairs : pairs[j].port = p => j <= i
  IN  [p \in PortsOf |-> pairs[LastOf(p)].ip]

-----------------------------------------------------------------------------
(* queries *)

\* Faulty variant of query_list: a host with an empty group name is passed over.
query_listDropsEmpty(hosts) ==
  [g \in Group \cup {"all", "publicly_routable"} |->
     FlattenSeq([i \in DOMAIN hosts |->
       IF g \in hosts[i].groups THEN <<hosts[i].name>> ELSE <<>>])]

\* the groups of --list: an empty name is "all", a host is in a group as often
\* as it has a name for it
query_list(hosts) ==
  [g \in Group \cup {"all", "publicly_routable"} |->
     FlattenSeq([i \in DOMAIN hosts |->
       [k \in 1..Cardinality({n \in hosts[i].groups : (IF n = Empty THEN "all" ELSE n) = g}) |->
          hosts[i].name]])]

-----------------------------------------------------------------------------
(* main *)

\* Faulty variant of Updated: the dict is made anew for every file.
UpdatedAnew(ips1, ips2) == ips2

\* dict of all pairs: what comes later replaces what was there
Updated(ips1, ips2) ==
  [p \in DOMAIN ips1 \cup DOMAIN ips2 |-> IF p \in DOMAIN ips2 THEN ips2[p] ELSE ips1[p]]

Start ==
  /\ pc \in {"idle", "done", "failed"}
  /\ pc' = "ips" /\ unread' = File
  /\ target' \in Name \cup {None}
  /\ ips' = NoIps /\ pending' = <<>> /\ out' = <<>>
  /\ during' = [f \in File |-> {file[f]}]
  /\ UNCHANGED file

Fail == pc' = "failed" /\ UNCHANGED <<target, unread, ips, pending, out>>

\* the list of files is os.walk's, in no particular order
ReadIps(f) ==
  /\ pc = "ips" /\ f \in unread
  /\ \/ ~Supported(file[f]) /\ Fail
     \/ /\ Supported(file[f])
        /\ unread' = unread \ {f}
        /\ ips' = Updated(ips, iterips(file[f]))
        /\ UNCHANGED <<pc, target, pending, out>>
  /\ UNCHANGED <<file, during>>

\* the hosts are a generator: their files are opened only now, and again
SecondPass ==
  /\ pc = "ips" /\ unread = {}
  /\ pc' = "hosts" /\ unread' = File
  /\ UNCHANGED <<file, target, ips, pending, out, during>>

\* Faulty variant of ReadHosts: the floating IPs are picked up again on the way.
ReadHostsRefreshes(f) ==
  /\ pc = "hosts" /\ pending = <<>> /\ f \in unread
  /\ Supported(file[f])
  /\ unread' = unread \ {f}
  /\ pending' = iterhosts(file[f])
  /\ ips' = Updated(ips, iterips(file[f]))
  /\ UNCHANGED <<pc, target, out, file, during>>

ReadHosts(f) ==
  /\ pc = "hosts" /\ pending = <<>> /\ f \in unread
  /\ \/ ~Supported(file[f]) /\ Fail
     \/ /\ Supported(file[f])
        /\ unread' = unread \ {f}
        /\ pending' = iterhosts(file[f])
        /\ UNCHANGED <<pc, target, ips, out>>
  /\ UNCHANGED <<file, during>>

\* Faulty variant of iter_host_ips: use_access_ip is looked at first.
iter_host_ipsPopsFirst(h) ==
  LET popped == IF h.use_access_ip = "0" THEN [h EXCEPT !.access_ip = None] ELSE h
  IN  IF h.port \notin DOMAIN ips THEN popped
      ELSE [popped EXCEPT !.ansible_host = ips[h.port], !.access_ip = ips[h.port]]

iter_host_ips(h) ==
  LET updated == IF h.port \notin DOMAIN ips THEN h
                 ELSE [h EXCEPT !.ansible_host = ips[h.port], !.access_ip = ips[h.port]]
  IN  IF h.use_access_ip = "0" THEN [updated EXCEPT !.access_ip = None] ELSE updated

\* the query takes the next host; a device has no port_id to look up
Consume ==
  /\ pc = "hosts" /\ pending # <<>>
  /\ LET raw == Head(pending)
         h == IF ips = NoIps THEN raw ELSE iter_host_ips(raw)
     IN  \/ ips # NoIps /\ raw.port = None /\ Fail
         \/ /\ ips = NoIps \/ raw.port # None
            /\ pending' = Tail(pending)
            /\ \/ target = None /\ out' = Append(out, h) /\ UNCHANGED pc
               \/ target \notin {None, h.name} /\ UNCHANGED <<out, pc>>
               \/ target = h.name /\ out' = <<h>> /\ pc' = "done"
            /\ UNCHANGED <<target, unread, ips>>
  /\ UNCHANGED <<file, during>>

Finish ==
  /\ pc = "hosts" /\ pending = <<>> /\ unread = {}
  /\ pc' = "done"
  /\ UNCHANGED <<file, target, unread, ips, pending, out, during>>

\* terraform apply writes its state
TerraformApply(f) ==
  /\ pc \in {"ips", "hosts"}
  /\ \E s \in Content[f] \ {file[f]} :
       /\ Cardinality(during[f] \cup {s}) <= MaxContents
       /\ file' = [file EXCEPT ![f] = s]
       /\ during' = [during EXCEPT ![f] = @ \cup {s}]
  /\ UNCHANGED run

Next ==
  \/ Start \/ SecondPass \/ Consume \/ Finish
  \/ \E f \in File : ReadIps(f) \/ ReadHosts(f) \/ TerraformApply(f)

Spec == Init /\ [][Next]_vars

-----------------------------------------------------------------------------
(* properties *)

\* TypeOK: the state stays in its types; the floating IPs are looked up by port
\* only, and each of them belongs to a port some file has associated with it.
TypeOK ==
  /\ file \in [File -> UNION {Content[f] : f \in File}]
  /\ pc \in {"idle", "ips", "hosts", "done", "failed"}
  /\ target \in Name \cup {None} /\ unread \subseteq File
  /\ DOMAIN ips \subseteq Port /\ \A p \in DOMAIN ips : ips[p] \in FloatingIp
  /\ pending \in Seq(Host) /\ out \in Seq(Host)
  /\ DOMAIN during = File
  /\ \A f \in File : file[f] \in during[f] /\ during[f] \subseteq Content[f]

ResourcesOf(s, kind) == {r \in ToSet(s.resources) : r.kind = kind}
Machines(s) == ResourcesOf(s, "openstack_compute_instance_v2")
                 \cup ResourcesOf(s, "metal_device")

\* How the machine r is reached if its port is associated as s1 says, and the
\* values in six of prefer_ipv6 mean that it is preferred.
Entry(r, s1, six) ==
  IF r.kind = "metal_device"
  THEN [name |-> r.name, port |-> None, ansible_host |-> Direct(r.name)]
  ELSE LET held == {a.ip : a \in {b \in ResourcesOf(s1, "openstack_networking_floatingip_associate_v2") :
                                    b.port = r.port}}
       IN  [name |-> r.name, port |-> r.port,
            ansible_host |-> IF held # {} THEN CHOOSE ip \in held : TRUE
                             ELSE IF r.prefer_ipv6 \in six THEN Six(r.port) ELSE Access(r.port)]

Views == {v \in [File -> UNION {during[f] : f \in File}] : \A f \in File : v[f] \in during[f]}
EntriesOf(ipsAt, hostsAt, six) ==
  UNION {{Entry(r, ipsAt[f], six) : r \in Machines(hostsAt[f])} : f \in File}
Answered == {[name |-> out[i].name, port |-> out[i].port, ansible_host |-> out[i].ansible_host]
               : i \in DOMAIN out}

\* AnswerIsTrue: an answer is made of contents that the files had while it was
\* given: all machines of them, each once, at the floating IP of its port, or
\* else at its IPv6 address if it prefers that ("1"; PreferenceHeld is about
\* "true") or its IPv4 address; with --host, the one of that name. While nothing
\* is applied there is only one such answer.
AnswerIsTrue ==
  pc = "done" =>
    \E ipsAt, hostsAt \in Views, six \in {{"1"}, {"1", "true"}} :
      LET all == EntriesOf(ipsAt, hostsAt, six)
          wanted == IF target = None THEN all ELSE {e \in all : e.name = target}
      IN  Answered = wanted /\ Len(out) = Cardinality(wanted)

\* PreferenceHeld: "whether the IPv6 address of the instance should be preferred
\* over IPv4" (README of the OpenStack resources, which sets prefer_ipv6 = true):
\* an instance that says so, either way, all the time, is reached at its IPv6
\* address unless it has a floating IP.
PreferenceHeld ==
  pc = "done" =>
    \A f \in File, i \in DOMAIN out :
      (\A s \in during[f] : \E r \in ResourcesOf(s, "openstack_compute_instance_v2") :
                              r.name = out[i].name /\ r.prefer_ipv6 \in {"1", "true"})
        => out[i].ansible_host \in FloatingIp \cup {Six(out[i].port)}

\* OneHostPerAddress: no two machines in an answer are to be reached at the same
\* address, also when an apply moves a floating IP from one to the other in the
\* middle of the run (then Ansible would set up one machine as two).
OneHostPerAddress ==
  \A i, j \in DOMAIN out : out[i].ansible_host = out[j].ansible_host => i = j

\* what roles use: access_ip | default(ip)
Internal(h) == IF h.access_ip = None THEN Fixed(h.port) ELSE h.access_ip

\* InternalTraffic: once a port has a floating IP, use_access_ip = 0 makes the
\* other machines reach an instance at its fixed address. Otherwise they reach it
\* at its floating IP whenever Ansible does so, and else at its access_ip_v4: also
\* with use_access_ip = 0 when there is no floating IP at all.
InternalTraffic ==
  \A i \in DOMAIN out : out[i].port # None =>
    LET h == out[i]
    IN  Internal(h) = IF ips # NoIps /\ h.use_access_ip = "0" THEN Fixed(h.port)
                      ELSE IF h.ansible_host \in FloatingIp THEN h.ansible_host
                      ELSE Access(h.port)

\* a machine named n in s that asks to be in group g
Asks(s, n, g) ==
  \E r \in Machines(s) :
    /\ r.name = n
    /\ \/ g \in r.groups
       \/ g = "all" /\ Empty \in r.groups
       \/ g = "publicly_routable" /\ r.kind # "metal_device"

\* how often it is to be in that group: it may ask for "all" in two ways
Wanted(s, n, g) ==
  IF g = "all" /\ \E r \in Machines(s) : r.name = n /\ {"all", Empty} \subseteq r.groups
  THEN 2 ELSE 1

\* SteadyMember: a machine that asks for a group throughout the run of --list is in
\* that group, whatever is applied to it and to other machines meanwhile; and it
\* is there once, or twice if it asks for all hosts both by name and without one.
SteadyMember ==
  pc = "done" /\ target = None =>
    \A f \in File, n \in Name, g \in Group \cup {"all", "publicly_routable"} :
      (\A s \in during[f] : Asks(s, n, g)) =>
        \E s \in during[f] :
          Cardinality({i \in DOMAIN query_list(out)[g] : query_list(out)[g][i] = n})
            = Wanted(s, n, g)
=============================================================================
