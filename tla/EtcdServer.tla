----------------------------- MODULE EtcdServer -----------------------------
(***************************************************************************)
(* The etcd processes that roles/etcd deploys, seen from the role: systemd  *)
(* starts them from /etc/etcd.env, they bootstrap or join a cluster, and    *)
(* etcdctl reports on them.  etcd itself is not in the repository; it is    *)
(* modelled only as far as the role's tasks depend on it:                   *)
(*                                                                         *)
(*  - a data directory, once initialised, decides the cluster of a process; *)
(*    ETCD_INITIAL_CLUSTER and ETCD_INITIAL_CLUSTER_STATE count only while   *)
(*    it is empty;                                                          *)
(*  - state "new" bootstraps the static cluster named by the peer list;     *)
(*  - state "existing" needs a running peer whose cluster has exactly the   *)
(*    listed members, and fails otherwise ("when scaling new etcd will fail *)
(*    to start", configure.yml:64);                                         *)
(*  - a member can be added only while all members are up, which is what    *)
(*    makes the role retry the second join (docs/nodes.md:154-155).         *)
(*                                                                         *)
(* A cluster is named by the peer list that bootstrapped it; {} is no        *)
(* cluster.  TLS, member names and the key-value data are abstracted away.  *)
(***************************************************************************)
EXTENDS Integers, FiniteSets

CONSTANTS
  Host,      \* hosts that may ever be in groups['etcd']
  Overlap    \* pairs <<h, m>>: the address of h is a substring of that of m

ASSUME HostAssumption == IsFiniteSet(Host)
ASSUME OverlapAssumption == Overlap \subseteq Host \X Host

VARIABLES
  env,    \* env[h]: /etc/etcd.env on h (initial state and peer list)
  svc,    \* hosts on which the systemd unit has been started
  up,     \* hosts whose etcd process is running
  cid,    \* cid[h]: the cluster in h's data directory, {} when it is empty
  added,  \* <<c, h>>: h was added to cluster c by "etcdctl member add"
  stale   \* hosts whose process predates the env file or binary on disk

serverVars == <<env, svc, up, cid, added, stale>>

NoEnv == [state |-> "absent", peers |-> {}]
EnvFile == [state : {"absent", "new", "existing"}, peers : SUBSET Host]

ServerTypeOK ==
  /\ env \in [Host -> EnvFile]
  /\ svc \subseteq Host
  /\ up \subseteq svc
  /\ cid \in [Host -> SUBSET Host]
  /\ added \subseteq (SUBSET Host) \X Host
  /\ stale \subseteq up

ServerInit ==
  /\ env = [h \in Host |-> NoEnv]
  /\ svc = {} /\ up = {} /\ added = {} /\ stale = {}
  /\ cid = [h \in Host |-> {}]

-----------------------------------------------------------------------------
(* What etcdctl reports *)

Members(c) == c \cup {h \in Host : <<c, h>> \in added}

\* members whose process runs and takes part in c
Live(c) == {h \in Members(c) : h \in up /\ cid[h] = c}

HasQuorum(c) == 2 * Cardinality(Live(c)) > Cardinality(Members(c))

Ready(h) == h \in up /\ HasQuorum(cid[h])

\* "endpoint --cluster status && endpoint --cluster health": only members
\* that have been started have client URLs, and all of them must answer
Healthy(c) == HasQuorum(c) /\ {h \in Members(c) : cid[h] = c} \subseteq up

\* clusters that the endpoints of the hosts in S can report on
Reachable(S) == {cid[h] : h \in S \cap up}

\* "etcdctl member list | grep -q <address of h>"
Listed(h, c) == \E m \in Members(c) : h = m \/ <<h, m>> \in Overlap

-----------------------------------------------------------------------------
(* systemd (Restart=always) and etcd's start-up *)

\* the clusters a process launched on h can come up in
LaunchInto(h) ==
  IF cid[h] # {} THEN {cid[h]}
  ELSE IF env[h].state = "new" THEN {env[h].peers} \ {{}}
  ELSE {cid[p] : p \in {q \in env[h].peers \cap up : Members(cid[q]) = env[h].peers}}

Launch(h) ==
  /\ h \in svc \ up
  /\ \E c \in LaunchInto(h) : cid' = [cid EXCEPT ![h] = c]
  /\ up' = up \cup {h}
  /\ UNCHANGED <<env, svc, added, stale>>

\* no process that systemd keeps restarting can come up any more
Settled == \A h \in svc \ up : LaunchInto(h) = {}

Stop(h) ==
  /\ up' = up \ {h}
  /\ stale' = stale \ {h}

MemberAdd(h, c) ==
  /\ HasQuorum(c)
  /\ h \notin Members(c)
  /\ Members(c) = Live(c)
  /\ added' = added \cup {<<c, h>>}
=============================================================================
