-------------------------- MODULE NodeUpgradeProofs --------------------------
(***************************************************************************)
(* What upgrade-cluster.yml guarantees for every cluster, batch size and     *)
(* setting, however often kubectl fails and runs are aborted.  Each part of   *)
(* Inv says what the tasks before the current one have achieved for the      *)
(* hosts that are done with it.                                              *)
(***************************************************************************)
EXTENDS NodeUpgrade, TLAPS

\* the tasks of the block and post-upgrade run on nodes to be cordoned
TaskHosts ==
  /\ pc \in {"cordon", "drain", "fallback", "uncordon"} => todo \subseteq needs_cordoning
  /\ pc = "rescue" => todo \subseteq failed

TypeInv == TypeOK /\ TaskHosts

\* what a run takes out of service is in its batch and will be uncordoned
TakenInBatch ==
  /\ pc \in Tasks => cordoned \ before \subseteq needs_cordoning
  /\ pc = "uncordon" => cordoned \ before \subseteq todo
  /\ pc = "ok" => cordoned \subseteq before

\* nodes found unschedulable are passed over and stay so
FoundKept ==
  pc \in Tasks \cup {"ok"} /\ ~opt.always_cordon =>
    /\ before \ misread \subseteq cordoned
    /\ needs_cordoning \cap (before \ misread) = {}

Good == needs_cordoning \ failed

\* nodes whose block has not failed are cordoned, and empty once drained
DrainedKept ==
  /\ pc = "cordon" => Good \ todo \subseteq cordoned
  /\ pc \in {"drain", "fallback", "rescue", "upgrade"} => Good \subseteq cordoned
  /\ opt.drain_nodes =>
       /\ pc = "drain" => pods \cap (Good \ (todo \cup undrained)) = {}
       /\ pc = "fallback" => pods \cap (Good \ todo) = {}
       /\ pc \in {"rescue", "upgrade"} => pods \cap Good = {}
  /\ pc = "upgrade" /\ opt.fail_if_drain_fails => failed = {}

\* every node is upgraded, in the batch, or still to come
UpgradedSoFar ==
  /\ pc \in Tasks => Node \ (rest \cup batch) \subseteq upgraded
  /\ pc = "upgrade" => batch \ todo \subseteq upgraded
  /\ pc = "uncordon" => batch \subseteq upgraded
  /\ pc = "ok" => upgraded = Node

Inv == TypeInv /\ TakenInBatch /\ FoundKept /\ DrainedKept /\ UpgradedSoFar

-----------------------------------------------------------------------------
\* One step keeps every variable within its type.
LEMMA TypeStep == TypeInv /\ [Next]_vars => TypeInv'
<1> SUFFICES ASSUME TypeInv, [Next]_vars PROVE TypeInv'
  OBVIOUS
<1> USE LimitAssumption, NodeAssumption DEF TypeInv, TypeOK, TaskHosts, Between, Tasks, cluster, run, budget
<1>1. CASE StartRun
  BY <1>1 DEF StartRun, BeginBatch, NextBatches
<1>2. CASE NextTask
  BY <1>2 DEF NextTask, AfterRescue, AfterUncordon, BeginBatch, NextBatches, Goto, EndRun
<1>3. CASE Abort
  BY <1>3 DEF Abort, EndRun
<1>4. CASE RaiseVersion
  BY <1>4 DEF RaiseVersion
<1>5. ASSUME NEW n \in Node, Ask(n) PROVE TypeInv'
  BY <1>5 DEF Ask, Runs, HostDone, Fault, NeedsCordoning
<1>6. ASSUME NEW n \in Node, Cordon(n) PROVE TypeInv'
  BY <1>6 DEF Cordon, Runs, HostDone, Fault, BlockFails
<1>7. ASSUME NEW n \in Node, Drain(n) PROVE TypeInv'
  BY <1>7 DEF Drain, Runs, HostDone, Fault, DrainFails, BlockFails
<1>8. ASSUME NEW n \in Node, DrainFallback(n) PROVE TypeInv'
  BY <1>8 DEF DrainFallback, Runs, HostDone, Fault, BlockFails
<1>9. ASSUME NEW n \in Node, Rescue(n) PROVE TypeInv'
  BY <1>9 DEF Rescue, Uncordon, Runs, HostDone
<1>10. ASSUME NEW n \in Node, Upgrade(n) PROVE TypeInv'
  BY <1>10 DEF Upgrade, Runs, HostDone
<1>11. ASSUME NEW n \in Node, PostUpgrade(n) PROVE TypeInv'
  BY <1>11 DEF PostUpgrade, Uncordon, Runs, HostDone
<1>12. ASSUME NEW n \in Node, Schedule(n) PROVE TypeInv'
  BY <1>12 DEF Schedule
<1>13. ASSUME NEW n \in Node, OperatorCordons(n) PROVE TypeInv'
  BY <1>13 DEF OperatorCordons
<1>14. ASSUME NEW n \in Node, OperatorUncordons(n) PROVE TypeInv'
  BY <1>14 DEF OperatorUncordons, Uncordon
<1>15. CASE UNCHANGED vars
  BY <1>15 DEF vars
<1> QED
  BY <1>1, <1>2, <1>3, <1>4, <1>5, <1>6, <1>7, <1>8, <1>9, <1>10, <1>11, <1>12, <1>13, <1>14, <1>15 DEF Next, HostTask

-----------------------------------------------------------------------------
\* A run uncordons every node it has cordoned before it goes on to others.
LEMMA TakenInBatchStep == TypeInv /\ TakenInBatch /\ [Next]_vars => TakenInBatch'
<1> SUFFICES ASSUME TypeInv, TakenInBatch, [Next]_vars PROVE TakenInBatch'
  OBVIOUS
<1> USE DEF TypeInv, TypeOK, TaskHosts, Between, Tasks, cluster, run, budget, TakenInBatch
<1>1. CASE StartRun
  BY <1>1 DEF StartRun, BeginBatch, NextBatches
<1>2. CASE NextTask
  BY <1>2 DEF NextTask, AfterRescue, AfterUncordon, BeginBatch, NextBatches, Goto, EndRun
<1>3. CASE Abort
  BY <1>3 DEF Abort, EndRun
<1>4. CASE RaiseVersion
  BY <1>4 DEF RaiseVersion
<1>5. ASSUME NEW n \in Node, Ask(n) PROVE TakenInBatch'
  BY <1>5 DEF Ask, Runs, HostDone, Fault, NeedsCordoning
<1>6. ASSUME NEW n \in Node, Cordon(n) PROVE TakenInBatch'
  BY <1>6 DEF Cordon, Runs, HostDone, Fault, BlockFails
<1>7. ASSUME NEW n \in Node, Drain(n) PROVE TakenInBatch'
  BY <1>7 DEF Drain, Runs, HostDone, Fault, DrainFails, BlockFails
<1>8. ASSUME NEW n \in Node, DrainFallback(n) PROVE TakenInBatch'
  BY <1>8 DEF DrainFallback, Runs, HostDone, Fault, BlockFails
<1>9. ASSUME NEW n \in Node, Rescue(n) PROVE TakenInBatch'
  BY <1>9 DEF Rescue, Uncordon, Runs, HostDone
<1>10. ASSUME NEW n \in Node, Upgrade(n) PROVE TakenInBatch'
  BY <1>10 DEF Upgrade, Runs, HostDone
<1>11. ASSUME NEW n \in Node, PostUpgrade(n) PROVE TakenInBatch'
  BY <1>11 DEF PostUpgrade, Uncordon, Runs, HostDone
<1>12. ASSUME NEW n \in Node, Schedule(n) PROVE TakenInBatch'
  BY <1>12 DEF Schedule
<1>13. ASSUME NEW n \in Node, OperatorCordons(n) PROVE TakenInBatch'
  BY <1>13 DEF OperatorCordons
<1>14. ASSUME NEW n \in Node, OperatorUncordons(n) PROVE TakenInBatch'
  BY <1>14 DEF OperatorUncordons, Uncordon
<1>15. CASE UNCHANGED vars
  BY <1>15 DEF vars
<1> QED
  BY <1>1, <1>2, <1>3, <1>4, <1>5, <1>6, <1>7, <1>8, <1>9, <1>10, <1>11, <1>12, <1>13, <1>14, <1>15 DEF Next, HostTask

-----------------------------------------------------------------------------
\* A run leaves the cordons alone that it found.
LEMMA FoundKeptStep == TypeInv /\ FoundKept /\ [Next]_vars => FoundKept'
<1> SUFFICES ASSUME TypeInv, FoundKept, [Next]_vars PROVE FoundKept'
  OBVIOUS
<1> USE DEF TypeInv, TypeOK, TaskHosts, Between, Tasks, cluster, run, budget, FoundKept
<1>1. CASE StartRun
  BY <1>1 DEF StartRun, BeginBatch, NextBatches
<1>2. CASE NextTask
  BY <1>2 DEF NextTask, AfterRescue, AfterUncordon, BeginBatch, NextBatches, Goto, EndRun
<1>3. CASE Abort
  BY <1>3 DEF Abort, EndRun
<1>4. CASE RaiseVersion
  BY <1>4 DEF RaiseVersion
<1>5. ASSUME NEW n \in Node, Ask(n) PROVE FoundKept'
  BY <1>5 DEF Ask, Runs, HostDone, Fault, NeedsCordoning
<1>6. ASSUME NEW n \in Node, Cordon(n) PROVE FoundKept'
  BY <1>6 DEF Cordon, Runs, HostDone, Fault, BlockFails
<1>7. ASSUME NEW n \in Node, Drain(n) PROVE FoundKept'
  BY <1>7 DEF Drain, Runs, HostDone, Fault, DrainFails, BlockFails
<1>8. ASSUME NEW n \in Node, DrainFallback(n) PROVE FoundKept'
  BY <1>8 DEF DrainFallback, Runs, HostDone, Fault, BlockFails
<1>9. ASSUME NEW n \in Node, Rescue(n) PROVE FoundKept'
  BY <1>9 DEF Rescue, Uncordon, Runs, HostDone
<1>10. ASSUME NEW n \in Node, Upgrade(n) PROVE FoundKept'
  BY <1>10 DEF Upgrade, Runs, HostDone
<1>11. ASSUME NEW n \in Node, PostUpgrade(n) PROVE FoundKept'
  BY <1>11 DEF PostUpgrade, Uncordon, Runs, HostDone
<1>12. ASSUME NEW n \in Node, Schedule(n) PROVE FoundKept'
  BY <1>12 DEF Schedule
<1>13. ASSUME NEW n \in Node, OperatorCordons(n) PROVE FoundKept'
  BY <1>13 DEF OperatorCordons
<1>14. ASSUME NEW n \in Node, OperatorUncordons(n) PROVE FoundKept'
  BY <1>14 DEF OperatorUncordons, Uncordon
<1>15. CASE UNCHANGED vars
  BY <1>15 DEF vars
<1> QED
  BY <1>1, <1>2, <1>3, <1>4, <1>5, <1>6, <1>7, <1>8, <1>9, <1>10, <1>11, <1>12, <1>13, <1>14, <1>15 DEF Next, HostTask

-----------------------------------------------------------------------------
\* What has been drained stays drained, as no pod is placed on a cordoned node.
LEMMA DrainedKeptStep == TypeInv /\ DrainedKept /\ [Next]_vars => DrainedKept'
<1> SUFFICES ASSUME TypeInv, DrainedKept, [Next]_vars PROVE DrainedKept'
  OBVIOUS
<1> USE DEF TypeInv, TypeOK, TaskHosts, Between, Tasks, cluster, run, budget, DrainedKept, Good
<1>1. CASE StartRun
  BY <1>1 DEF StartRun, BeginBatch, NextBatches
<1>2. CASE NextTask
  BY <1>2 DEF NextTask, AfterRescue, AfterUncordon, BeginBatch, NextBatches, Goto, EndRun
<1>3. CASE Abort
  BY <1>3 DEF Abort, EndRun
<1>4. CASE RaiseVersion
  BY <1>4 DEF RaiseVersion
<1>5. ASSUME NEW n \in Node, Ask(n) PROVE DrainedKept'
  BY <1>5 DEF Ask, Runs, HostDone, Fault, NeedsCordoning
<1>6. ASSUME NEW n \in Node, Cordon(n) PROVE DrainedKept'
  BY <1>6 DEF Cordon, Runs, HostDone, Fault, BlockFails
<1>7. ASSUME NEW n \in Node, Drain(n) PROVE DrainedKept'
  BY <1>7 DEF Drain, Runs, HostDone, Fault, DrainFails, BlockFails
<1>8. ASSUME NEW n \in Node, DrainFallback(n) PROVE DrainedKept'
  BY <1>8 DEF DrainFallback, Runs, HostDone, Fault, BlockFails
<1>9. ASSUME NEW n \in Node, Rescue(n) PROVE DrainedKept'
  BY <1>9 DEF Rescue, Uncordon, Runs, HostDone
<1>10. ASSUME NEW n \in Node, Upgrade(n) PROVE DrainedKept'
  BY <1>10 DEF Upgrade, Runs, HostDone
<1>11. ASSUME NEW n \in Node, PostUpgrade(n) PROVE DrainedKept'
  BY <1>11 DEF PostUpgrade, Uncordon, Runs, HostDone
<1>12. ASSUME NEW n \in Node, Schedule(n) PROVE DrainedKept'
  BY <1>12 DEF Schedule
<1>13. ASSUME NEW n \in Node, OperatorCordons(n) PROVE DrainedKept'
  BY <1>13 DEF OperatorCordons
<1>14. ASSUME NEW n \in Node, OperatorUncordons(n) PROVE DrainedKept'
  BY <1>14 DEF OperatorUncordons, Uncordon
<1>15. CASE UNCHANGED vars
  BY <1>15 DEF vars
<1> QED
  BY <1>1, <1>2, <1>3, <1>4, <1>5, <1>6, <1>7, <1>8, <1>9, <1>10, <1>11, <1>12, <1>13, <1>14, <1>15 DEF Next, HostTask

-----------------------------------------------------------------------------
\* No batch is left before all its nodes are upgraded.
LEMMA UpgradedSoFarStep == TypeInv /\ UpgradedSoFar /\ [Next]_vars => UpgradedSoFar'
<1> SUFFICES ASSUME TypeInv, UpgradedSoFar, [Next]_vars PROVE UpgradedSoFar'
  OBVIOUS
<1> USE DEF TypeInv, TypeOK, TaskHosts, Between, Tasks, cluster, run, budget, UpgradedSoFar
<1>1. CASE StartRun
  BY <1>1 DEF StartRun, BeginBatch, NextBatches
<1>2. CASE NextTask
  BY <1>2 DEF NextTask, AfterRescue, AfterUncordon, BeginBatch, NextBatches, Goto, EndRun
<1>3. CASE Abort
  BY <1>3 DEF Abort, EndRun
<1>4. CASE RaiseVersion
  BY <1>4 DEF RaiseVersion
<1>5. ASSUME NEW n \in Node, Ask(n) PROVE UpgradedSoFar'
  BY <1>5 DEF Ask, Runs, HostDone, Fault, NeedsCordoning
<1>6. ASSUME NEW n \in Node, Cordon(n) PROVE UpgradedSoFar'
  BY <1>6 DEF Cordon, Runs, HostDone, Fault, BlockFails
<1>7. ASSUME NEW n \in Node, Drain(n) PROVE UpgradedSoFar'
  BY <1>7 DEF Drain, Runs, HostDone, Fault, DrainFails, BlockFails
<1>8. ASSUME NEW n \in Node, DrainFallback(n) PROVE UpgradedSoFar'
  BY <1>8 DEF DrainFallback, Runs, HostDone, Fault, BlockFails
<1>9. ASSUME NEW n \in Node, Rescue(n) PROVE UpgradedSoFar'
  BY <1>9 DEF Rescue, Uncordon, Runs, HostDone
<1>10. ASSUME NEW n \in Node, Upgrade(n) PROVE UpgradedSoFar'
  BY <1>10 DEF Upgrade, Runs, HostDone
<1>11. ASSUME NEW n \in Node, PostUpgrade(n) PROVE UpgradedSoFar'
  BY <1>11 DEF PostUpgrade, Uncordon, Runs, HostDone
<1>12. ASSUME NEW n \in Node, Schedule(n) PROVE UpgradedSoFar'
  BY <1>12 DEF Schedule
<1>13. ASSUME NEW n \in Node, OperatorCordons(n) PROVE UpgradedSoFar'
  BY <1>13 DEF OperatorCordons
<1>14. ASSUME NEW n \in Node, OperatorUncordons(n) PROVE UpgradedSoFar'
  BY <1>14 DEF OperatorUncordons, Uncordon
<1>15. CASE UNCHANGED vars
  BY <1>15 DEF vars
<1> QED
  BY <1>1, <1>2, <1>3, <1>4, <1>5, <1>6, <1>7, <1>8, <1>9, <1>10, <1>11, <1>12, <1>13, <1>14, <1>15 DEF Next, HostTask

-----------------------------------------------------------------------------
\* Inv holds in every reachable state.
LEMMA Invariance == Spec => []Inv
<1>1. Init => Inv
  BY LimitAssumption DEF Init, Inv, TypeInv, TypeOK, TaskHosts, TakenInBatch, FoundKept,
     DrainedKept, Good, UpgradedSoFar, Between, Tasks
<1>2. Inv /\ [Next]_vars => Inv'
  BY TypeStep, TakenInBatchStep, FoundKeptStep, DrainedKeptStep, UpgradedSoFarStep DEF Inv
<1> QED
  BY <1>1, <1>2, PTL DEF Spec

\* Every variable keeps its type, and the lists of hosts stay within the batch.
THEOREM TypeCorrect == Spec => []TypeOK
<1>1. Inv => TypeOK
  BY DEF Inv, TypeInv
<1> QED
  BY <1>1, Invariance, PTL

\* A successful upgrade-cluster.yml leaves the cordons as it found them
\* (pre-upgrade/tasks/main.yml:39-53, post-upgrade/tasks/main.yml:28-32).
THEOREM Restores == Spec => []OkRestores
<1>1. Inv => OkRestores
  BY DEF Inv, TakenInBatch, FoundKept, OkRestores
<1> QED
  BY <1>1, Invariance, PTL

\* A run has never taken more out of service than the nodes of one batch.
THEOREM OneBatch == Spec => []OneBatchAway
<1>1. Inv => OneBatchAway
  BY DEF Inv, TypeInv, TypeOK, TakenInBatch, OneBatchAway
<1> QED
  BY <1>1, Invariance, PTL

\* A successful run of upgrade-cluster.yml has upgraded every node.
THEOREM AllUpgraded == Spec => []OkMeansUpgraded
<1>1. Inv => OkMeansUpgraded
  BY DEF Inv, UpgradedSoFar, OkMeansUpgraded
<1> QED
  BY <1>1, Invariance, PTL

\* No node is upgraded with pods on it that the run meant to drain away
\* (pre-upgrade/tasks/main.yml:48-130).
THEOREM Drained == Spec => UpgradeOnlyDrained
<1>1. Inv /\ [Next]_vars =>
        [\A n \in Node : Upgrade(n) /\ n \in pods =>
           \/ n \notin needs_cordoning
           \/ ~opt.drain_nodes
           \/ n \in failed /\ ~opt.fail_if_drain_fails]_vars
  BY DEF Inv, DrainedKept, Good, Upgrade, Runs
<1> QED
  BY <1>1, Invariance, PTL DEF Spec, UpgradeOnlyDrained
=============================================================================
