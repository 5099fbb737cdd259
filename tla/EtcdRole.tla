------------------------------ MODULE EtcdRole ------------------------------
(***************************************************************************)
(* One play of roles/etcd over groups['etcd'] (cluster.yml:38-49), run as   *)
(* often as the operator likes.  pc is the task being executed; a task runs *)
(* on the hosts of todo in any order and the next one begins when all are   *)
(* done (strategy linear).  With any_errors_fatal a failed task ends the    *)
(* play on every host, and handlers notified so far never run.  Registered  *)
(* results are facts of one play.                                           *)
(*                                                                         *)
(* Left out: certificates, member names, the snapshot taken before a        *)
(* restart, the package download, docker deployment.                        *)
(* Hosts join in any order: the inventory's order is arbitrary.             *)
(***************************************************************************)
EXTENDS EtcdServer

CONSTANTS
  InitialGroup,  \* groups['etcd'] at the first deployment
  Events,        \* TRUE: the tasks of the etcd-events cluster
  Patient,       \* TRUE: a play starts only when systemd's restarts are over
  MaxFaults,     \* bound on failed tasks and on etcdctl answers lost by the
                 \* tasks that ask once: the health check, the member check
  MaxCrashes     \* bound on etcd process crashes

ASSUME GroupAssumption == InitialGroup \subseteq Host /\ InitialGroup # {}
ASSUME FlagAssumption == Events \in BOOLEAN /\ Patient \in BOOLEAN
ASSUME BoundAssumption == MaxFaults \in Nat /\ MaxCrashes \in Nat

VARIABLES
  group,      \* groups['etcd'] in the inventory
  bin,        \* hosts whose etcd binary has the wanted version
  pc,         \* current task, or "idle", "ok", "failed" between plays
  todo,       \* hosts the current task has still to finish on
  issued,     \* hosts of todo whose service command has been issued
  healthy,    \* etcd_cluster_is_healthy.rc == 0
  inCluster,  \* hosts with etcd_member_in_cluster.rc == 0
  joiners,    \* items of the join loop not yet included
  notified,   \* hosts that notified "restart etcd"
  faults, crashes,
  blind       \* history: a health check lost its answer while the cluster was
              \* being extended by a host that has no data yet

world == <<serverVars, group, bin>>
facts == <<healthy, inCluster, joiners>>
playVars == <<pc, todo, issued, facts, notified>>
budget == <<faults, crashes, blind>>
vars == <<world, playVars, budget>>

Between == {"idle", "ok", "failed"}
Tasks == {"install", "probe", "refresh1", "start", "wait", "members", "include",
          "pick", "add", "refreshJoiner", "ensureMember", "startJoiner",
          "refresh2", "refresh3", "flush", "reload", "waitUp"}

TypeOK ==
  /\ ServerTypeOK
  /\ group \subseteq Host /\ bin \subseteq Host
  /\ pc \in Between \cup Tasks
  /\ todo \subseteq Host /\ issued \subseteq todo
  /\ healthy \in BOOLEAN
  /\ inCluster \subseteq Host /\ joiners \subseteq Host /\ notified \subseteq Host
  /\ faults \in 0 .. MaxFaults /\ crashes \in 0 .. MaxCrashes
  /\ blind \in BOOLEAN

Init ==
  /\ ServerInit
  /\ group = InitialGroup /\ bin = {}
  /\ pc = "idle" /\ todo = {} /\ issued = {} /\ healthy = FALSE
  /\ inCluster = {} /\ joiners = {} /\ notified = {}
  /\ faults = 0 /\ crashes = 0 /\ blind = FALSE

-----------------------------------------------------------------------------
(* Ansible *)

\* h has finished the current task; the next task runs on the hosts of S
HostDone(h, next, S) ==
  /\ todo' = IF todo = {h} THEN S ELSE todo \ {h}
  /\ pc' = IF todo = {h} THEN next ELSE pc
  /\ issued' = issued \ {h}

\* Faulty variant of EndPlay: the issued commands outlive the play.
EndPlayKeepsIssued(result) ==
  /\ pc' = result
  /\ todo' = {} /\ healthy' = FALSE
  /\ inCluster' = {} /\ joiners' = {} /\ notified' = {}
  /\ UNCHANGED issued

\* the play is over and its facts, loop items and notified handlers are gone
EndPlay(result) ==
  /\ pc' = result
  /\ todo' = {} /\ issued' = {} /\ healthy' = FALSE
  /\ inCluster' = {} /\ joiners' = {} /\ notified' = {}

\* the plays of cluster.yml before the etcd one take minutes, systemd's
\* RestartSec is 10 seconds
StartPlay ==
  /\ pc \in Between
  /\ Patient => Settled
  /\ pc' = "install" /\ todo' = group
  /\ UNCHANGED <<world, issued, facts, notified, budget>>

\* a task fails on some host, or the host is unreachable
Abort ==
  /\ pc \in Tasks
  /\ faults < MaxFaults
  /\ faults' = faults + 1
  /\ EndPlay("failed")
  /\ UNCHANGED <<world, crashes, blind>>

-----------------------------------------------------------------------------
(* install_host.yml and configure.yml up to the health check *)

\* a binary of another version is replaced and a restart notified
Install(h) ==
  /\ pc = "install" /\ h \in todo
  /\ bin' = bin \cup {h}
  /\ notified' = notified \cup ({h} \ bin)
  /\ stale' = stale \cup (({h} \ bin) \cap up)
  /\ HostDone(h, "probe", group)
  /\ UNCHANGED <<env, svc, up, cid, added, group, facts, budget>>

\* The group was extended and a host of it waits for its first start.
Extending == group # InitialGroup /\ \E h \in group : cid[h] = {}

\* Faulty variant of Probe: etcdctl asks the endpoint of its own host only.
ProbeOwnEndpoint ==
  /\ pc = "probe"
  /\ \E h \in group : healthy' = (h \in up /\ Healthy(cid[h]))
  /\ pc' = "refresh1"
  /\ UNCHANGED <<world, todo, issued, inCluster, joiners, notified, budget>>

\* run_once, failed_when: false and no retry: an etcdctl that fails or gets no
\* answer in time counts as an unhealthy cluster
Probe ==
  /\ pc = "probe"
  /\ \/ /\ \E c \in Reachable(group) : healthy' = Healthy(c)
        /\ UNCHANGED <<faults, blind>>
     \/ /\ Reachable(group) = {} /\ healthy' = FALSE
        /\ UNCHANGED <<faults, blind>>
     \/ /\ faults < MaxFaults
        /\ faults' = faults + 1
        /\ healthy' = FALSE
        /\ blind' = (blind \/ Extending)
  /\ pc' = "refresh1"
  /\ UNCHANGED <<world, todo, issued, inCluster, joiners, notified, crashes>>

-----------------------------------------------------------------------------
(* refresh_config.yml *)

\* Faulty variant of EnvContent: the state does not look at the health check.
EnvContentAlwaysNew(peers) == [state |-> "new", peers |-> peers]


EnvContent(peers) ==
  [state |-> IF healthy THEN "existing" ELSE "new", peers |-> peers]

\* Faulty variant of WriteEnv: the template task notifies nobody.
WriteEnvSilent(h, peers) ==
  /\ env' = [env EXCEPT ![h] = EnvContent(peers)]
  /\ stale' = IF env[h] = EnvContent(peers) THEN stale ELSE stale \cup ({h} \cap up)
  /\ UNCHANGED notified

\* the template module writes, and notifies, only on a difference
WriteEnv(h, peers) ==
  /\ env' = [env EXCEPT ![h] = EnvContent(peers)]
  /\ IF env[h] = EnvContent(peers)
       THEN UNCHANGED <<notified, stale>>
       ELSE /\ notified' = notified \cup {h}
            /\ stale' = stale \cup ({h} \cap up)

RefreshTask(h, this, next) ==
  /\ pc = this /\ h \in todo
  /\ WriteEnv(h, group)
  /\ HostDone(h, next, group)
  /\ UNCHANGED <<svc, up, cid, added, group, bin, facts, budget>>

Refresh1(h) == RefreshTask(h, "refresh1", "start")
Refresh2(h) == RefreshTask(h, "refresh2", "refresh3")
Refresh3(h) == RefreshTask(h, "refresh3", "flush")

-----------------------------------------------------------------------------
(* "Ensure etcd is running": service state=started, Type=notify *)

StartTasks == {"start", "startJoiner"}
AfterStart == IF pc = "start" THEN "wait" ELSE "pick"

\* Faulty variant of StartErrorsIgnored: the condition is the wrong way round.
StartErrorsIgnoredInverted == pc = "start" /\ ~healthy

\* ignore_errors of configure.yml:70 and of the etcd-events task, line 79;
\* join_etcd_member.yml:47-51 ignores nothing
StartErrorsIgnored ==
  pc = "start" /\ (IF Events THEN ~healthy ELSE healthy)

\* systemctl start returns when etcd is ready or gives up: at once when the
\* process exits, after a timeout when nothing else can make it ready
StartGivesUp(h) ==
  /\ h \in issued
  /\ ~Ready(h)
  /\ \/ h \notin up /\ LaunchInto(h) = {}
     \/ Settled /\ todo \subseteq issued

IssueStart(h) ==
  /\ pc \in StartTasks /\ h \in todo \ svc
  /\ svc' = svc \cup {h}
  /\ issued' = issued \cup {h}
  /\ UNCHANGED <<env, up, cid, added, stale, group, bin, pc, todo, facts,
                 notified, budget>>

\* a unit that is active, or activating again, is left alone
StartReturns(h) ==
  /\ pc \in StartTasks /\ h \in todo
  /\ h \in svc \ issued \/ (h \in issued /\ Ready(h))
                        \/ (StartErrorsIgnored /\ StartGivesUp(h))
  /\ HostDone(h, AfterStart, IF pc = "start" THEN group ELSE {})
  /\ UNCHANGED <<world, facts, notified, budget>>

StartFails(h) ==
  /\ pc \in StartTasks /\ h \in todo
  /\ ~StartErrorsIgnored /\ StartGivesUp(h)
  /\ EndPlay("failed")
  /\ UNCHANGED <<world, budget>>

\* Faulty variant of WaitHealthy: the result is not registered.
WaitHealthyUnregistered ==
  /\ pc = "wait"
  /\ \E c \in Reachable(group) : Healthy(c)
  /\ pc' = "members"
  /\ UNCHANGED <<world, todo, issued, facts, notified, budget>>

WaitHealthy ==
  /\ pc = "wait"
  /\ \E c \in Reachable(group) : Healthy(c)
  /\ healthy' = TRUE
  /\ pc' = "members"
  /\ UNCHANGED <<world, todo, issued, inCluster, joiners, notified, budget>>

\* etcd_retries are used up and no restart by systemd can change the answer
WaitTimesOut ==
  /\ pc = "wait"
  /\ Settled /\ \A c \in Reachable(group) : ~Healthy(c)
  /\ EndPlay("failed")
  /\ UNCHANGED <<world, budget>>

-----------------------------------------------------------------------------
(* configure.yml:128-168 and join_etcd_member.yml *)

Answering == {c \in Reachable(group) : HasQuorum(c)}

\* ignore_errors: an etcdctl that does not answer counts as "not a member"
CheckMember(h) ==
  /\ pc = "members" /\ h \in todo
  /\ \/ /\ \E c \in Answering : Listed(h, c)
        /\ inCluster' = inCluster \cup {h}
        /\ UNCHANGED faults
     \/ /\ Answering = {} \/ \E c \in Answering : ~Listed(h, c)
        /\ UNCHANGED <<inCluster, faults>>
     \/ /\ faults < MaxFaults
        /\ faults' = faults + 1
        /\ UNCHANGED inCluster
  /\ HostDone(h, "include", group)
  /\ UNCHANGED <<world, healthy, joiners, notified, crashes, blind>>

\* Faulty variant of IncludeJoins: joins only an unhealthy cluster.
IncludeJoinsUnhealthy ==
  /\ pc = "include"
  /\ joiners' = IF healthy THEN {} ELSE group \ inCluster
  /\ pc' = "pick" /\ todo' = {}
  /\ UNCHANGED <<world, issued, healthy, inCluster, notified, budget>>

\* the loop's conditions are evaluated for every item before the first join
IncludeJoins ==
  /\ pc = "include"
  /\ joiners' = IF healthy THEN group \ inCluster ELSE {}
  /\ pc' = "pick" /\ todo' = {}
  /\ UNCHANGED <<world, issued, healthy, inCluster, notified, budget>>

PickJoiner(h) ==
  /\ pc = "pick" /\ h \in joiners
  /\ joiners' = joiners \ {h}
  /\ pc' = "add" /\ todo' = {h}
  /\ UNCHANGED <<world, issued, healthy, inCluster, notified, budget>>

JoinsDone ==
  /\ pc = "pick" /\ joiners = {}
  /\ pc' = "refresh2" /\ todo' = group
  /\ UNCHANGED <<world, issued, facts, notified, budget>>

\* "Peer URLs already exists" is success, except for etcd-events
AddMember(h) ==
  /\ pc = "add" /\ h \in todo
  /\ \E c \in Answering :
       \/ MemberAdd(h, c)
       \/ h \in Members(c) /\ ~Events /\ UNCHANGED added
  /\ pc' = "refreshJoiner"
  /\ UNCHANGED <<env, svc, up, cid, stale, group, bin, todo, issued, facts,
                 notified, budget>>

AddFails(h) ==
  /\ pc = "add" /\ h \in todo
  /\ Settled
  /\ \A c \in Answering : IF h \in Members(c) THEN Events
                                            ELSE Members(c) # Live(c)
  /\ EndPlay("failed")
  /\ UNCHANGED <<world, budget>>

\* etcd_peer_addresses of the include: the members found so far and h itself
RefreshJoiner(h) ==
  /\ pc = "refreshJoiner" /\ h \in todo
  /\ WriteEnv(h, (inCluster \cap group) \cup {h})
  /\ pc' = "ensureMember"
  /\ UNCHANGED <<svc, up, cid, added, group, bin, todo, issued, facts, budget>>

EnsureMember(h) ==
  /\ pc = "ensureMember" /\ h \in todo
  /\ \E c \in Answering : Listed(h, c)
  /\ inCluster' = inCluster \cup {h}
  /\ pc' = "startJoiner"
  /\ UNCHANGED <<world, todo, issued, healthy, joiners, notified, budget>>

\* the etcd-events task asks once
EnsureMemberFails(h) ==
  /\ pc = "ensureMember" /\ h \in todo
  /\ Events \/ Settled
  /\ \A c \in Answering : ~Listed(h, c)
  /\ EndPlay("failed")
  /\ UNCHANGED <<world, budget>>

-----------------------------------------------------------------------------
(* handlers/main.yml, run at the end of the play on the notified hosts *)

Flush ==
  /\ pc = "flush"
  /\ IF notified = {}
       THEN EndPlay("ok")
       ELSE /\ pc' = "reload" /\ todo' = notified
            /\ UNCHANGED <<issued, facts, notified>>
  /\ UNCHANGED <<world, budget>>

\* "reload etcd": state=restarted, on all notified hosts in parallel
IssueRestart(h) ==
  /\ pc = "reload" /\ h \in todo \ issued
  /\ Stop(h)
  /\ svc' = svc \cup {h}
  /\ issued' = issued \cup {h}
  /\ UNCHANGED <<env, cid, added, group, bin, pc, todo, facts, notified, budget>>

RestartReturns(h) ==
  /\ pc = "reload" /\ h \in issued /\ Ready(h)
  /\ HostDone(h, "waitUp", notified)
  /\ UNCHANGED <<world, facts, notified, budget>>

RestartFails(h) ==
  /\ pc = "reload" /\ StartGivesUp(h)
  /\ EndPlay("failed")
  /\ UNCHANGED <<world, budget>>

\* "wait for etcd up": after a restart that returned only a crash can delay it
WaitUp(h) ==
  /\ pc = "waitUp" /\ h \in todo /\ Ready(h)
  /\ IF todo = {h} THEN EndPlay("ok")
     ELSE /\ todo' = todo \ {h}
          /\ UNCHANGED <<pc, issued, facts, notified>>
  /\ UNCHANGED <<world, budget>>

-----------------------------------------------------------------------------
(* The operator, between plays, and the machines *)

\* docs/nodes.md: new etcd hosts are added to a deployed cluster
GrowGroup(S) ==
  /\ pc = "ok" /\ S # {}
  /\ group' = group \cup S
  /\ pc' = "idle"
  /\ UNCHANGED <<serverVars, bin, todo, issued, facts, notified, budget>>

RaiseVersion ==
  /\ pc = "ok" /\ bin # {}
  /\ bin' = {}
  /\ pc' = "idle"
  /\ UNCHANGED <<serverVars, group, todo, issued, facts, notified, budget>>

LaunchProcess(h) ==
  /\ Launch(h)
  /\ UNCHANGED <<group, bin, playVars, budget>>

Crash(h) ==
  /\ h \in up /\ crashes < MaxCrashes
  /\ crashes' = crashes + 1
  /\ Stop(h)
  /\ UNCHANGED <<env, svc, cid, added, group, bin, playVars, faults, blind>>

HostTask(h) ==
  \/ Install(h) \/ Refresh1(h) \/ Refresh2(h) \/ Refresh3(h)
  \/ IssueStart(h) \/ StartReturns(h) \/ StartFails(h)
  \/ CheckMember(h) \/ PickJoiner(h) \/ AddMember(h) \/ AddFails(h)
  \/ RefreshJoiner(h) \/ EnsureMember(h) \/ EnsureMemberFails(h)
  \/ IssueRestart(h) \/ RestartReturns(h) \/ RestartFails(h)
  \/ WaitUp(h)

PlayStep ==
  \/ Probe \/ WaitHealthy \/ WaitTimesOut \/ IncludeJoins \/ JoinsDone \/ Flush
  \/ \E h \in Host : HostTask(h)

Next ==
  \/ StartPlay \/ PlayStep \/ Abort
  \/ \E S \in SUBSET (Host \ group) : GrowGroup(S)
  \/ RaiseVersion
  \/ \E h \in Host : LaunchProcess(h) \/ Crash(h)

Spec == Init /\ [][Next]_vars

\* The play runs on, systemd keeps restarting and the operator repeats a play
\* that failed.  Nothing obliges a task to fail, a process to crash, or the
\* operator to change the inventory or the version.
Fairness ==
  /\ WF_vars(StartPlay) /\ WF_vars(PlayStep)
  /\ \A h \in Host : WF_vars(LaunchProcess(h))

FairSpec == Spec /\ Fairness

-----------------------------------------------------------------------------
(* Properties *)

\* Deploying, extending and upgrading the etcd cluster never bootstraps a second
\* cluster beside the first ("when scaling new etcd will fail to start",
\* configure.yml:64).
OneCluster ==
  \A g, h \in Host : cid[g] # {} /\ cid[h] # {} => cid[g] = cid[h]

\* However plays are aborted and repeated and whatever answers are lost, there
\* is one cluster as long as no health check lost its answer while a new host
\* waited for its first start.
OneClusterUnlessBlind == ~blind => OneCluster

\* A play that succeeds leaves every host of groups['etcd'] a member of one
\* cluster, and none of them with the data of another; under the same proviso.
OkMeansAssembled ==
  ~blind /\ pc = "ok" =>
    \E c \in Reachable(group) :
      group \subseteq Members(c) /\ \A h \in group : cid[h] \in {{}, c}

\* A play that succeeds leaves the etcd.env of every host of groups['etcd']
\* in state existing and naming exactly these hosts, whatever was written
\* before (main.yml:59-61).
OkMeansConfigured ==
  pc = "ok" => \A h \in group : env[h] = [state |-> "existing", peers |-> group]

\* Some cluster's member list shows the address of h.
SomewhereListed(h) == \E g \in Host : cid[g] # {} /\ Listed(h, cid[g])

\* A play that succeeds leaves no host of groups['etcd'] out of the member
\* lists: each was found there, or was added to one.
OkMeansListed == pc = "ok" => \A h \in group : SomewhereListed(h)

\* A play that succeeds leaves no etcd running on a binary or an etcd.env
\* older than the one on disk, unless an earlier play was cut off between a
\* change and the handler (install_host.yml:11, refresh_config.yml:7): a play
\* that fails by itself, in the handlers, has nothing left to restart.
RestartsOnlyLostByFailure ==
  pc = "ok" /\ faults = 0 => stale \cap group = {}

\* With crashes plays fail in other places, too; as long as none has failed, no
\* etcd runs on an outdated binary or etcd.env after a play.
UnfailedPlaysRestart ==
  [](pc # "failed") => [](pc = "ok" => stale \cap group = {})

\* "Restart etcd if necessary" (install_host.yml:9): also after such a play.
OkMeansRestarted == pc = "ok" => stale \cap group = {}

\* As long as nothing was aborted and no answer lost, no task of a play fails but
\* the restart in the handlers: not the start of a new etcd that does not fit its
\* cluster yet ("when scaling new etcd will fail to start", configure.yml:64), not
\* the wait for the cluster, and no step of a join.
OnlyRestartsFail ==
  [][pc # "failed" /\ pc' = "failed" /\ faults' = 0 => pc = "reload"]_vars


\* After a play that succeeded, every etcd of groups['etcd'] comes to serve, again
\* unless the cluster is split.
OkLeadsToReady ==
  \A h \in Host : (pc = "ok" /\ h \in group) ~> (Ready(h) \/ ~OneCluster)

\* The role implements EtcdMembership, which promises nothing after a blind health
\* check: a cluster is bootstrapped once and grows one started member at a time,
\* whatever plays are aborted and repeated.
Membership == INSTANCE EtcdMembership WITH
  members <- UNION {Members(cid[h]) : h \in {g \in Host : cid[g] # {}}},
  started <- {h \in Host : cid[h] # {}},
  void <- blind

ImplementsMembership == Membership!Spec
=============================================================================
