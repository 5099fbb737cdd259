----------------------------- MODULE NodeUpgrade -----------------------------
(***************************************************************************)
(* upgrade-cluster.yml, repeated: control plane nodes one at a time, then    *)
(* the other nodes in batches, each batch through roles/upgrade/pre-upgrade  *)
(* (cordon, drain), the upgrade itself and roles/upgrade/post-upgrade        *)
(* (uncordon).  Facts live as long as a run; spec.unschedulable and the pods  *)
(* stay.  The tasks of a batch run in lockstep (strategy linear), the hosts   *)
(* of a task in any order.                                                   *)
(*                                                                         *)
(* Left out: confirmations and pauses, pod selectors and timeouts of the     *)
(* drain, the wait for cilium (its failure is an Abort), kubectl's version.  *)
(***************************************************************************)
EXTENDS Integers, FiniteSets

CONSTANTS
  Node,          \* kube_control_plane, kube_node and calico_rr
  ControlPlane,  \* kube_control_plane
  BatchSize,     \* serial, 20% by default
  Options,       \* the settings that runs are made with
  MaxFaults,     \* bound on kubectl commands that fail
  MaxAborts      \* bound on runs ended by anything else

OptionRecord == [always_cordon : BOOLEAN, drain_nodes : BOOLEAN,
                 fallback : BOOLEAN, uncordon_after_failure : BOOLEAN,
                 fail_if_drain_fails : BOOLEAN]

ASSUME NodeAssumption == IsFiniteSet(Node) /\ ControlPlane \subseteq Node
ASSUME SettingAssumption ==
  BatchSize \in Nat \ {0} /\ Options # {} /\ Options \subseteq OptionRecord
ASSUME LimitAssumption == MaxFaults \in Nat /\ MaxAborts \in Nat

VARIABLES
  cordoned,  \* nodes with spec.unschedulable
  pods,      \* nodes running pods that a drain would evict
  upgraded,  \* nodes on the wanted version
  operators, \* history: nodes last cordoned by the operator, not by a run
  pc,        \* current task, or "idle", "ok", "failed" between runs
  opt,       \* settings of the run
  rest,      \* hosts of the run in no batch yet
  batch,     \* ansible_play_batch
  todo,      \* hosts the current task has still to finish on
  needs_cordoning,
  undrained, \* hosts whose regular drain failed and that go on to the fallback
  failed,    \* hosts for which the block failed
  before,    \* history: nodes unschedulable when the run began
  misread,   \* history: hosts whose kubectl_node_schedulable was lost
  faults, aborts

cluster == <<cordoned, pods, upgraded, operators>>
run == <<opt, rest, batch, needs_cordoning, undrained, failed, before, misread>>
budget == <<faults, aborts>>
vars == <<cluster, pc, todo, run, budget>>

Between == {"idle", "ok", "failed"}
Tasks == {"ask", "cordon", "drain", "fallback", "rescue", "upgrade", "uncordon"}

TypeOK ==
  /\ cordoned \subseteq Node /\ pods \subseteq Node /\ upgraded \subseteq Node
  /\ operators \subseteq cordoned
  /\ pc \in Between \cup Tasks /\ opt \in Options
  /\ rest \subseteq Node /\ batch \subseteq Node \ rest /\ todo \subseteq batch
  /\ needs_cordoning \subseteq batch
  /\ undrained \cup failed \subseteq needs_cordoning
  /\ before \subseteq Node /\ misread \subseteq Node
  /\ faults \in 0 .. MaxFaults /\ aborts \in 0 .. MaxAborts

Init ==
  /\ cordoned = {} /\ pods = Node /\ upgraded = {} /\ operators = {}
  /\ pc = "idle" /\ opt \in Options
  /\ rest = {} /\ batch = {} /\ todo = {}
  /\ needs_cordoning = {} /\ undrained = {} /\ failed = {}
  /\ before = {} /\ misread = {}
  /\ faults = 0 /\ aborts = 0

-----------------------------------------------------------------------------
(* Ansible *)

\* Faulty variant of EndRun: forgets to clear the hosts that failed.
EndRunKeepsFailed(result) ==
  /\ pc' = result
  /\ rest' = {} /\ batch' = {} /\ todo' = {}
  /\ needs_cordoning' = {} /\ undrained' = {}
  /\ UNCHANGED <<opt, failed, before, misread>>

EndRun(result) ==
  /\ pc' = result
  /\ rest' = {} /\ batch' = {} /\ todo' = {}
  /\ needs_cordoning' = {} /\ undrained' = {} /\ failed' = {}
  /\ UNCHANGED <<opt, before, misread>>

\* serial: 1 for the control plane, then batches of the other nodes
NextBatches(left) ==
  IF left \cap ControlPlane # {}
    THEN {{n} : n \in left \cap ControlPlane}
    ELSE {S \in SUBSET left :
            \/ Cardinality(S) = BatchSize
            \/ S = left /\ Cardinality(S) < BatchSize}

BeginBatch(left) ==
  \E S \in NextBatches(left) :
    /\ pc' = "ask"
    /\ batch' = S /\ todo' = S /\ rest' = left \ S
    /\ needs_cordoning' = {} /\ undrained' = {} /\ failed' = {}

StartRun ==
  /\ pc \in Between
  /\ opt' \in Options
  /\ before' = cordoned /\ misread' = {}
  /\ BeginBatch(Node)
  /\ UNCHANGED <<cluster, budget>>

\* the next task begins on the hosts of S
Goto(task, S) ==
  /\ pc' = task /\ todo' = S
  /\ UNCHANGED run

\* Faulty variant of AfterRescue: the run goes on after a failed drain.
AfterRescueGoesOn == Goto("upgrade", batch)

\* Faulty variant of AfterRescue: the failed hosts are skipped.
AfterRescueSkipsFailed == Goto("upgrade", batch \ failed)

\* "Fail after rescue"
AfterRescue ==
  IF failed # {} /\ opt.fail_if_drain_fails THEN EndRun("failed")
  ELSE Goto("upgrade", batch)

AfterUncordon ==
  IF rest = {} THEN EndRun("ok")
  ELSE BeginBatch(rest) /\ UNCHANGED <<opt, before, misread>>

\* all hosts have finished the current task
NextTask ==
  /\ pc \in Tasks /\ todo = {}
  /\ \/ pc = "ask" /\ Goto("cordon", needs_cordoning)
     \/ pc = "cordon"
          /\ Goto("drain", IF opt.drain_nodes THEN needs_cordoning \ failed ELSE {})
     \/ pc = "drain" /\ Goto("fallback", undrained)
     \/ pc = "fallback" /\ Goto("rescue", failed)
     \/ pc = "rescue" /\ AfterRescue
     \/ pc = "upgrade" /\ Goto("uncordon", needs_cordoning)
     \/ pc = "uncordon" /\ AfterUncordon
  /\ UNCHANGED <<cluster, budget>>

\* the current task is over on h
HostDone(h) == todo' = todo \ {h} /\ UNCHANGED pc

Runs(task, h) == pc = task /\ h \in todo

\* a task outside the block fails, a host is unreachable, or the operator
\* interrupts the run
Abort ==
  /\ pc \in Tasks /\ aborts < MaxAborts
  /\ aborts' = aborts + 1
  /\ EndRun("failed")
  /\ UNCHANGED <<cluster, faults>>

Fault == faults < MaxFaults /\ faults' = faults + 1 /\ UNCHANGED aborts

-----------------------------------------------------------------------------
(* pre-upgrade *)

\* Faulty variant of NeedsCordoning: unschedulable nodes are cordoned as well.
NeedsCordoningIfReady(ready, unschedulable) == ready \/ opt.always_cordon

NeedsCordoning(ready, unschedulable) ==
  (ready /\ ~unschedulable) \/ opt.always_cordon

\* Both questions have failed_when: false, and a lost answer reads "not ready"
\* or "schedulable".  A node may be not ready at any time.
Ask(h) ==
  /\ Runs("ask", h)
  /\ \E ready \in BOOLEAN :
       \/ /\ needs_cordoning' = needs_cordoning
                \cup {n \in {h} : NeedsCordoning(ready, h \in cordoned)}
          /\ UNCHANGED <<misread, budget>>
       \/ /\ Fault
          /\ needs_cordoning' = needs_cordoning
                \cup {n \in {h} : NeedsCordoning(ready, FALSE)}
          /\ misread' = misread \cup {h}
  /\ HostDone(h)
  /\ UNCHANGED <<cluster, opt, rest, batch, undrained, failed, before>>

BlockFails(h) == failed' = failed \cup {h} /\ UNCHANGED undrained

Cordon(h) ==
  /\ Runs("cordon", h)
  /\ \/ /\ cordoned' = cordoned \cup {h} /\ operators' = operators \ {h}
        /\ UNCHANGED <<undrained, failed, budget>>
     \/ /\ Fault /\ BlockFails(h)
        /\ UNCHANGED <<cordoned, operators>>
  /\ HostDone(h)
  /\ UNCHANGED <<pods, upgraded, opt, rest, batch, needs_cordoning, before, misread>>

\* failed_when hands the host to the fallback if that is enabled; whether an
\* until that never held fails the task all the same is up to Ansible
DrainFails(h) ==
  \/ BlockFails(h)
  \/ opt.fallback /\ undrained' = undrained \cup {h} /\ UNCHANGED failed

Drain(h) ==
  /\ Runs("drain", h)
  /\ \/ /\ pods' = pods \ {h}
        /\ UNCHANGED <<undrained, failed, budget>>
     \/ Fault /\ DrainFails(h) /\ UNCHANGED pods
  /\ HostDone(h)
  /\ UNCHANGED <<cordoned, upgraded, operators, opt, rest, batch,
                 needs_cordoning, before, misread>>

DrainFallback(h) ==
  /\ Runs("fallback", h)
  /\ \/ /\ pods' = pods \ {h}
        /\ UNCHANGED <<undrained, failed, budget>>
     \/ Fault /\ BlockFails(h) /\ UNCHANGED pods
  /\ HostDone(h)
  /\ UNCHANGED <<cordoned, upgraded, operators, opt, rest, batch,
                 needs_cordoning, before, misread>>

Uncordon(h) ==
  /\ cordoned' = cordoned \ {h}
  /\ operators' = operators \ {h}

\* "Set node back to schedulable"
Rescue(h) ==
  /\ Runs("rescue", h)
  /\ IF opt.uncordon_after_failure THEN Uncordon(h)
                                   ELSE UNCHANGED <<cordoned, operators>>
  /\ HostDone(h)
  /\ UNCHANGED <<pods, upgraded, run, budget>>

-----------------------------------------------------------------------------
(* The upgrade, post-upgrade, and the rest of the world *)

\* container-engine, kubernetes/node, kubeadm or control-plane
Upgrade(h) ==
  /\ Runs("upgrade", h)
  /\ upgraded' = upgraded \cup {h}
  /\ HostDone(h)
  /\ UNCHANGED <<cordoned, pods, operators, run, budget>>

\* Faulty variant of PostUpgrade: uncordons in the last batch only.
PostUpgradeLast(h) ==
  /\ Runs("uncordon", h)
  /\ IF rest = {} THEN Uncordon(h) ELSE UNCHANGED <<cordoned, operators>>
  /\ HostDone(h)
  /\ UNCHANGED <<pods, upgraded, run, budget>>

PostUpgrade(h) ==
  /\ Runs("uncordon", h)
  /\ Uncordon(h)
  /\ HostDone(h)
  /\ UNCHANGED <<pods, upgraded, run, budget>>

\* the scheduler places a pod
Schedule(n) ==
  /\ n \notin cordoned \cup pods
  /\ pods' = pods \cup {n}
  /\ UNCHANGED <<cordoned, upgraded, operators, pc, todo, run, budget>>

\* between two runs the operator cordons a node or makes it schedulable
OperatorCordons(n) ==
  /\ pc \in Between /\ n \notin cordoned
  /\ cordoned' = cordoned \cup {n} /\ operators' = operators \cup {n}
  /\ pc' = "idle"
  /\ UNCHANGED <<pods, upgraded, todo, run, budget>>

OperatorUncordons(n) ==
  /\ pc \in Between /\ n \in cordoned
  /\ Uncordon(n)
  /\ pc' = "idle"
  /\ UNCHANGED <<pods, upgraded, todo, run, budget>>

\* the wanted version is raised
RaiseVersion ==
  /\ pc = "ok" /\ upgraded # {}
  /\ upgraded' = {}
  /\ pc' = "idle"
  /\ UNCHANGED <<cordoned, pods, operators, todo, run, budget>>

HostTask(h) ==
  \/ Ask(h) \/ Cordon(h) \/ Drain(h) \/ DrainFallback(h) \/ Rescue(h)
  \/ Upgrade(h) \/ PostUpgrade(h)

Next ==
  \/ StartRun \/ NextTask \/ Abort \/ RaiseVersion
  \/ \E n \in Node : HostTask(n) \/ Schedule(n)
                     \/ OperatorCordons(n) \/ OperatorUncordons(n)

Spec == Init /\ [][Next]_vars

-----------------------------------------------------------------------------
(* Properties *)

\* A node is upgraded with pods on it only if it was not to be cordoned (it was
\* unschedulable or not ready when asked), if draining is switched off, or if
\* its drain failed and fail_if_drain_fails is off.
UpgradeOnlyDrained ==
  [][\A n \in Node : Upgrade(n) /\ n \in pods =>
       \/ n \notin needs_cordoning
       \/ ~opt.drain_nodes
       \/ n \in failed /\ ~opt.fail_if_drain_fails]_vars

\* A run that succeeds leaves no node unschedulable that was schedulable when
\* it began, and takes no cordon away that it found, except with always_cordon
\* or when kubectl did not tell.
OkRestores ==
  pc = "ok" =>
    /\ cordoned \subseteq before
    /\ ~opt.always_cordon => before \ misread \subseteq cordoned

\* At any moment a run has taken out of service only nodes of one batch.
OneBatchAway ==
  pc \in Tasks => (cordoned \ before) \subseteq batch

\* A successful run has upgraded every node.
OkMeansUpgraded == pc = "ok" => upgraded = Node

\* After a successful run the nodes that are unschedulable are the ones the
\* operator cordoned, whatever earlier runs have left.
OkMeansSchedulable == pc = "ok" => cordoned \subseteq operators
=============================================================================
