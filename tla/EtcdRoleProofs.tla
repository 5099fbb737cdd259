--------------------------- MODULE EtcdRoleProofs ---------------------------
(***************************************************************************)
(* First part: what a successful play of roles/etcd guarantees, for every    *)
(* inventory, every number of aborted plays and crashes and every overlap of *)
(* addresses: each etcd.env is final and no host was left out of the member  *)
(* lists.  The argument is one inductive invariant, Inv, with a part per     *)
(* fact that one task establishes and a later task relies on.                *)
(* Second part: without crashes the cluster never splits before a health     *)
(* check is blind, and until then the role implements EtcdMembership.  Third  *)
(* part: without crashes and other disturbances no task can fail but the      *)
(* restart in the handlers.                                                  *)
(***************************************************************************)
EXTENDS EtcdRole, FiniteSetTheorems, TLAPS

AfterWait == {"members", "include", "pick", "add", "refreshJoiner", "ensureMember",
              "startJoiner", "refresh2", "refresh3", "flush", "reload", "waitUp"}
Joining == {"refreshJoiner", "ensureMember", "startJoiner"}
AfterJoins == {"refresh2", "refresh3", "flush", "reload", "waitUp", "ok"}

FinalEnv == [state |-> "existing", peers |-> group]

\* a running etcd has a cluster in its data directory
UpHasData == \A h \in up : cid[h] # {}

\* the tasks after the wait see a healthy cluster in the registered result
HealthyKnown == pc \in AfterWait => healthy

\* the last template task has been here
EnvFinal ==
  /\ pc = "refresh3" => \A h \in group \ todo : env[h] = FinalEnv
  /\ pc \in {"flush", "reload", "waitUp", "ok"} => \A h \in group : env[h] = FinalEnv

\* a host that is neither listed nor waiting to be joined is being added
ListedOrJoining ==
  /\ \A h \in inCluster : SomewhereListed(h)
  /\ pc = "pick" => \A h \in group \ joiners : SomewhereListed(h)
  /\ pc = "add" => /\ \A g, h \in todo : g = h
                   /\ \A h \in group \ (joiners \cup todo) : SomewhereListed(h)
  /\ pc \in Joining => \A h \in group \ joiners : SomewhereListed(h)
  /\ pc \in AfterJoins => \A h \in group : SomewhereListed(h)

\* who runs on an old binary or etcd.env is notified, and not yet restarted
StaleNotified ==
  /\ pc \in {"idle", "ok", "waitUp"} => stale = {}
  /\ pc \in Tasks \ {"reload", "waitUp"} => stale \subseteq notified
  /\ pc = "reload" => stale \subseteq todo \ issued

\* service commands are pending only in the tasks that issue them
IssuedInTask == issued # {} => pc \in {"start", "startJoiner", "reload"}

TypeInv == TypeOK /\ IssuedInTask

Inv == TypeInv /\ UpHasData /\ HealthyKnown /\ EnvFinal /\ ListedOrJoining

-----------------------------------------------------------------------------
\* One step keeps every variable within its type.
LEMMA TypeStep == TypeInv /\ [Next]_vars => TypeInv'
<1> SUFFICES ASSUME TypeInv, [Next]_vars PROVE TypeInv'
  OBVIOUS
<1> USE BoundAssumption DEF TypeInv, TypeOK, ServerTypeOK, IssuedInTask,
                            Between, Tasks, world, serverVars, facts, budget
<1>1. CASE StartPlay
  BY <1>1 DEF StartPlay
<1>2. CASE Probe
  <2>1. faults' \in 0 .. MaxFaults
    BY <1>2 DEF Probe
  <2>2. blind' = blind \/ blind' = (blind \/ Extending)
    BY <1>2 DEF Probe
  <2>3. blind' \in BOOLEAN
    BY <2>2
  <2> QED
    BY <1>2, <2>1, <2>3 DEF Probe, Healthy
<1>3. CASE WaitHealthy
  BY <1>3 DEF WaitHealthy
<1>4. CASE WaitTimesOut
  BY <1>4 DEF WaitTimesOut, EndPlay
<1>5. CASE IncludeJoins
  BY <1>5 DEF IncludeJoins
<1>6. CASE JoinsDone
  BY <1>6 DEF JoinsDone
<1>7. CASE Flush
  BY <1>7 DEF Flush, EndPlay
<1>8. CASE Abort
  <2>1. faults' \in 0 .. MaxFaults
    BY <1>8 DEF Abort
  <2> QED
    BY <1>8, <2>1 DEF Abort, EndPlay
<1>9. ASSUME NEW h \in Host, Install(h) PROVE TypeInv'
  BY <1>9 DEF Install, HostDone
<1>10. ASSUME NEW h \in Host, Refresh1(h) PROVE TypeInv'
  BY <1>10 DEF Refresh1, RefreshTask, WriteEnv, EnvContent, HostDone, EnvFile
<1>11. ASSUME NEW h \in Host, Refresh2(h) PROVE TypeInv'
  BY <1>11 DEF Refresh2, RefreshTask, WriteEnv, EnvContent, HostDone, EnvFile
<1>12. ASSUME NEW h \in Host, Refresh3(h) PROVE TypeInv'
  BY <1>12 DEF Refresh3, RefreshTask, WriteEnv, EnvContent, HostDone, EnvFile
<1>13. ASSUME NEW h \in Host, IssueStart(h) PROVE TypeInv'
  BY <1>13 DEF IssueStart, StartTasks
<1>14. ASSUME NEW h \in Host, StartReturns(h) PROVE TypeInv'
  BY <1>14 DEF StartReturns, StartTasks, HostDone, AfterStart
<1>15. ASSUME NEW h \in Host, StartFails(h) PROVE TypeInv'
  BY <1>15 DEF StartFails, EndPlay
<1>16. ASSUME NEW h \in Host, CheckMember(h) PROVE TypeInv'
  BY <1>16 DEF CheckMember, HostDone
<1>17. ASSUME NEW h \in Host, PickJoiner(h) PROVE TypeInv'
  BY <1>17 DEF PickJoiner
<1>18. ASSUME NEW h \in Host, AddMember(h) PROVE TypeInv'
  BY <1>18 DEF AddMember, MemberAdd, Answering, Reachable
<1>19. ASSUME NEW h \in Host, AddFails(h) PROVE TypeInv'
  BY <1>19 DEF AddFails, EndPlay
<1>20. ASSUME NEW h \in Host, RefreshJoiner(h) PROVE TypeInv'
  BY <1>20 DEF RefreshJoiner, WriteEnv, EnvContent, EnvFile
<1>21. ASSUME NEW h \in Host, EnsureMember(h) PROVE TypeInv'
  BY <1>21 DEF EnsureMember
<1>22. ASSUME NEW h \in Host, EnsureMemberFails(h) PROVE TypeInv'
  BY <1>22 DEF EnsureMemberFails, EndPlay
<1>23. ASSUME NEW h \in Host, IssueRestart(h) PROVE TypeInv'
  BY <1>23 DEF IssueRestart, Stop
<1>24. ASSUME NEW h \in Host, RestartReturns(h) PROVE TypeInv'
  BY <1>24 DEF RestartReturns, HostDone
<1>25. ASSUME NEW h \in Host, RestartFails(h) PROVE TypeInv'
  BY <1>25 DEF RestartFails, EndPlay
<1>26. ASSUME NEW h \in Host, WaitUp(h) PROVE TypeInv'
  BY <1>26 DEF WaitUp, EndPlay
<1>27. ASSUME NEW S \in SUBSET (Host \ group), GrowGroup(S) PROVE TypeInv'
  BY <1>27 DEF GrowGroup
<1>28. CASE RaiseVersion
  BY <1>28 DEF RaiseVersion
<1>29. ASSUME NEW h \in Host, LaunchProcess(h) PROVE TypeInv'
  BY <1>29 DEF LaunchProcess, Launch, LaunchInto, playVars, EnvFile
<1>30. ASSUME NEW h \in Host, Crash(h) PROVE TypeInv'
  BY <1>30 DEF Crash, Stop, playVars
<1>31. CASE UNCHANGED vars
  BY <1>31 DEF vars, playVars
<1> QED
  BY <1>1, <1>2, <1>3, <1>4, <1>5, <1>6, <1>7, <1>8, <1>9, <1>10, <1>11, <1>12, <1>13, <1>14, <1>15, <1>16, <1>17, <1>18, <1>19, <1>20, <1>21, <1>22, <1>23, <1>24, <1>25, <1>26, <1>27, <1>28, <1>29, <1>30, <1>31 DEF Next, PlayStep, HostTask

-----------------------------------------------------------------------------
\* No step takes a member or a data directory away.
LEMMA DataStaysStep ==
  TypeInv /\ [Next]_vars =>
    added \subseteq added' /\ \A g \in Host : cid[g] # {} => cid'[g] = cid[g]
<1> SUFFICES ASSUME TypeInv, [Next]_vars
             PROVE  added \subseteq added' /\ \A g \in Host : cid[g] # {} => cid'[g] = cid[g]
  OBVIOUS
<1> USE DEF TypeInv, TypeOK, ServerTypeOK
<1>1. ASSUME NEW h \in Host, LaunchProcess(h)
      PROVE  added \subseteq added' /\ \A g \in Host : cid[g] # {} => cid'[g] = cid[g]
  BY <1>1 DEF LaunchProcess, Launch, LaunchInto
<1>2. ASSUME NEW h \in Host, AddMember(h)
      PROVE  added \subseteq added' /\ cid' = cid
  BY <1>2 DEF AddMember, MemberAdd
<1>3. ASSUME NEW h \in Host, HostTask(h), ~AddMember(h)
      PROVE  added' = added /\ cid' = cid
  BY <1>3 DEF HostTask, Install, Refresh1, Refresh2, Refresh3, RefreshTask, IssueStart,
     StartReturns, StartFails, CheckMember, PickJoiner, AddFails, RefreshJoiner,
     EnsureMember, EnsureMemberFails, IssueRestart, RestartReturns, RestartFails, WaitUp,
     world, serverVars
<1>4. ASSUME StartPlay \/ Probe \/ WaitHealthy \/ WaitTimesOut \/ IncludeJoins
             \/ JoinsDone \/ Flush \/ Abort \/ RaiseVersion \/ UNCHANGED vars
      PROVE  added' = added /\ cid' = cid
  BY <1>4 DEF StartPlay, Probe, WaitHealthy, WaitTimesOut, IncludeJoins, JoinsDone,
     Flush, Abort, RaiseVersion, vars, world, serverVars
<1>5. ASSUME NEW S \in SUBSET (Host \ group), GrowGroup(S)
      PROVE  added' = added /\ cid' = cid
  BY <1>5 DEF GrowGroup, serverVars
<1>6. ASSUME NEW h \in Host, Crash(h)
      PROVE  added' = added /\ cid' = cid
  BY <1>6 DEF Crash
<1> QED
  BY <1>1, <1>2, <1>3, <1>4, <1>5, <1>6 DEF Next, PlayStep

\* Hence a host once shown in a member list stays there.
LEMMA ListedStays ==
  ASSUME TypeInv, [Next]_vars, NEW h \in Host, SomewhereListed(h)
  PROVE  SomewhereListed(h)'
<1>1. PICK g \in Host : cid[g] # {} /\ Listed(h, cid[g])
  BY DEF SomewhereListed
<1>2. cid'[g] = cid[g] /\ added \subseteq added'
  BY <1>1, DataStaysStep
<1>3. ASSUME NEW m \in Members(cid[g]) PROVE m \in Members(cid[g])'
  BY <1>2 DEF Members
<1>4. PICK m \in Members(cid[g]) : h = m \/ <<h, m>> \in Overlap
  BY <1>1 DEF Listed
<1>5. Listed(h, cid[g])'
  BY <1>3, <1>4 DEF Listed
<1> QED
  BY <1>1, <1>2, <1>5 DEF SomewhereListed

-----------------------------------------------------------------------------
\* A process comes up only with the data of a cluster it found or bootstrapped.
LEMMA UpHasDataStep == TypeInv /\ UpHasData /\ [Next]_vars => UpHasData'
<1> SUFFICES ASSUME TypeInv, UpHasData, [Next]_vars PROVE UpHasData'
  OBVIOUS
<1>1. ASSUME NEW h \in Host, LaunchProcess(h) PROVE UpHasData'
  BY <1>1 DEF LaunchProcess, Launch, LaunchInto, UpHasData, TypeInv, TypeOK, ServerTypeOK
<1>2. CASE up' \subseteq up
  BY <1>2, DataStaysStep DEF UpHasData, TypeInv, TypeOK, ServerTypeOK
<1>3. ASSUME NEW h \in Host, HostTask(h) PROVE up' \subseteq up
  BY <1>3 DEF HostTask, Install, Refresh1, Refresh2, Refresh3, RefreshTask, IssueStart,
     StartReturns, StartFails, CheckMember, PickJoiner, AddMember, AddFails,
     RefreshJoiner, EnsureMember, EnsureMemberFails, IssueRestart, Stop, RestartReturns,
     RestartFails, WaitUp, world, serverVars
<1>4. ASSUME StartPlay \/ Probe \/ WaitHealthy \/ WaitTimesOut \/ IncludeJoins
             \/ JoinsDone \/ Flush \/ Abort \/ RaiseVersion \/ UNCHANGED vars
      PROVE  up' = up
  BY <1>4 DEF StartPlay, Probe, WaitHealthy, WaitTimesOut, IncludeJoins, JoinsDone,
     Flush, Abort, RaiseVersion, vars, world, serverVars
<1>5. ASSUME NEW S \in SUBSET (Host \ group), GrowGroup(S) PROVE up' = up
  BY <1>5 DEF GrowGroup, serverVars
<1>6. ASSUME NEW h \in Host, Crash(h) PROVE up' \subseteq up
  BY <1>6 DEF Crash, Stop
<1> QED
  BY <1>1, <1>2, <1>3, <1>4, <1>5, <1>6 DEF Next, PlayStep

\* The result registered by the wait is kept by every later task.
LEMMA HealthyKnownStep == TypeInv /\ HealthyKnown /\ [Next]_vars => HealthyKnown'
<1> SUFFICES ASSUME TypeInv, HealthyKnown, [Next]_vars PROVE HealthyKnown'
  OBVIOUS
<1> USE DEF HealthyKnown, AfterWait, facts
<1>1. ASSUME NEW h \in Host,
             StartFails(h) \/ AddFails(h) \/ EnsureMemberFails(h) \/ RestartFails(h) \/ WaitUp(h)
      PROVE  HealthyKnown'
  BY <1>1 DEF StartFails, AddFails, EnsureMemberFails, RestartFails, WaitUp, EndPlay
<1>2. ASSUME NEW h \in Host,
             Install(h) \/ Refresh1(h) \/ Refresh2(h) \/ Refresh3(h) \/ StartReturns(h)
             \/ CheckMember(h) \/ RestartReturns(h)
      PROVE  HealthyKnown'
  BY <1>2 DEF Install, Refresh1, Refresh2, Refresh3, RefreshTask, StartReturns, StartTasks,
     AfterStart, CheckMember, RestartReturns, HostDone
<1>3. ASSUME NEW h \in Host,
             IssueStart(h) \/ PickJoiner(h) \/ AddMember(h) \/ RefreshJoiner(h)
             \/ EnsureMember(h) \/ IssueRestart(h)
      PROVE  HealthyKnown'
  BY <1>3 DEF IssueStart, PickJoiner, AddMember, RefreshJoiner, EnsureMember, IssueRestart
<1>4. CASE StartPlay \/ Probe \/ WaitHealthy \/ WaitTimesOut \/ IncludeJoins
           \/ JoinsDone \/ Flush \/ Abort \/ RaiseVersion \/ UNCHANGED vars
  BY <1>4 DEF StartPlay, Probe, WaitHealthy, WaitTimesOut, IncludeJoins, JoinsDone,
     Flush, Abort, RaiseVersion, EndPlay, vars, playVars
<1>5. ASSUME NEW S \in SUBSET (Host \ group), GrowGroup(S) PROVE HealthyKnown'
  BY <1>5 DEF GrowGroup
<1>6. ASSUME NEW h \in Host, LaunchProcess(h) \/ Crash(h) PROVE HealthyKnown'
  BY <1>6 DEF LaunchProcess, Crash, playVars
<1> QED
  BY <1>1, <1>2, <1>3, <1>4, <1>5, <1>6 DEF Next, PlayStep, HostTask

\* The last template task writes the final content on every host, and nothing
\* writes it afterwards.
LEMMA EnvFinalStep ==
  TypeInv /\ HealthyKnown /\ EnvFinal /\ [Next]_vars => EnvFinal'
<1> SUFFICES ASSUME TypeInv, HealthyKnown, EnvFinal, [Next]_vars PROVE EnvFinal'
  OBVIOUS
<1> USE DEF TypeInv, TypeOK, ServerTypeOK, EnvFinal, FinalEnv, facts, world, serverVars
<1>1. ASSUME NEW h \in Host,
             StartFails(h) \/ AddFails(h) \/ EnsureMemberFails(h) \/ RestartFails(h) \/ WaitUp(h)
      PROVE  EnvFinal'
  BY <1>1 DEF StartFails, AddFails, EnsureMemberFails, RestartFails, WaitUp, EndPlay
<1>2. ASSUME NEW h \in Host,
             Install(h) \/ Refresh1(h) \/ StartReturns(h) \/ CheckMember(h)
             \/ RestartReturns(h)
      PROVE  EnvFinal'
  BY <1>2 DEF Install, Refresh1, RefreshTask, StartReturns, StartTasks,
     AfterStart, CheckMember, RestartReturns, HostDone
<1>3. ASSUME NEW h \in Host, Refresh2(h) PROVE EnvFinal'
  BY <1>3 DEF Refresh2, RefreshTask, HostDone
<1>4. ASSUME NEW h \in Host, Refresh3(h) PROVE EnvFinal'
  <2>1. healthy
    BY <1>4 DEF Refresh3, RefreshTask, HealthyKnown, AfterWait
  <2>2. env' = [env EXCEPT ![h] = FinalEnv] /\ group' = group
    BY <1>4, <2>1 DEF Refresh3, RefreshTask, WriteEnv, EnvContent
  <2>3. \A g \in group \ (todo \ {h}) : env'[g] = FinalEnv
    BY <1>4, <2>2 DEF Refresh3, RefreshTask
  <2>4. CASE todo = {h}
    BY <1>4, <2>2, <2>3, <2>4 DEF Refresh3, RefreshTask, HostDone
  <2>5. CASE todo # {h}
    BY <1>4, <2>2, <2>3, <2>5 DEF Refresh3, RefreshTask, HostDone
  <2> QED
    BY <2>4, <2>5
<1>5. ASSUME NEW h \in Host,
             IssueStart(h) \/ PickJoiner(h) \/ AddMember(h) \/ RefreshJoiner(h)
             \/ EnsureMember(h) \/ IssueRestart(h)
      PROVE  EnvFinal'
  BY <1>5 DEF IssueStart, StartTasks, PickJoiner, AddMember, RefreshJoiner, EnsureMember,
     IssueRestart
<1>6. CASE StartPlay \/ Probe \/ WaitHealthy \/ WaitTimesOut \/ IncludeJoins
           \/ JoinsDone \/ Flush \/ Abort \/ RaiseVersion \/ UNCHANGED vars
  BY <1>6 DEF StartPlay, Probe, WaitHealthy, WaitTimesOut, IncludeJoins, JoinsDone,
     Flush, Abort, RaiseVersion, EndPlay, vars, playVars
<1>7. ASSUME NEW S \in SUBSET (Host \ group), GrowGroup(S) PROVE EnvFinal'
  BY <1>7 DEF GrowGroup
<1>8. ASSUME NEW h \in Host, LaunchProcess(h) \/ Crash(h) PROVE EnvFinal'
  BY <1>8 DEF LaunchProcess, Launch, Crash, playVars
<1> QED
  BY <1>1, <1>2, <1>3, <1>4, <1>5, <1>6, <1>7, <1>8 DEF Next, PlayStep, HostTask

-----------------------------------------------------------------------------
\* What the health check's cluster lists, some member with data lists.
LEMMA AnsweringLists ==
  ASSUME TypeInv, UpHasData, NEW h \in Host, NEW c \in Answering, Listed(h, c)
  PROVE  SomewhereListed(h)
<1>1. PICK g \in group \cap up : c = cid[g]
  BY DEF Answering, Reachable
<1> QED
  BY <1>1 DEF SomewhereListed, UpHasData, TypeInv, TypeOK, ServerTypeOK

\* The member added last is in the list of the cluster it was added to.
LEMMA AddMemberLists ==
  ASSUME TypeInv, UpHasData, [Next]_vars, NEW h \in Host, AddMember(h)
  PROVE  SomewhereListed(h)'
<1>1. PICK c \in Answering : MemberAdd(h, c) \/ (h \in Members(c) /\ UNCHANGED added)
  BY DEF AddMember
<1>2. CASE h \in Members(c)
  BY <1>2, AnsweringLists, ListedStays DEF Listed
<1>3. CASE MemberAdd(h, c)
  <2>1. PICK g \in group \cap up : c = cid[g]
    BY DEF Answering, Reachable
  <2>2. g \in Host /\ cid[g] # {} /\ cid' = cid
    BY <2>1 DEF AddMember, UpHasData, TypeInv, TypeOK, ServerTypeOK
  <2>3. h \in Members(c)'
    BY <1>3, <2>1, <2>2 DEF MemberAdd, Members
  <2>4. Listed(h, cid[g])'
    BY <2>1, <2>2, <2>3 DEF Listed
  <2> QED
    BY <2>2, <2>4 DEF SomewhereListed
<1> QED
  BY <1>1, <1>2, <1>3

\* A host leaves the list of those to be joined only to be added at once, and
\* is found in a member list before the next one is taken up.
LEMMA ListedOrJoiningStep ==
  TypeInv /\ UpHasData /\ HealthyKnown /\ ListedOrJoining /\ [Next]_vars
    => ListedOrJoining'
<1> SUFFICES ASSUME TypeInv, UpHasData, HealthyKnown, ListedOrJoining, [Next]_vars
             PROVE  ListedOrJoining'
  OBVIOUS
<1> DEFINE Here(h) == SomewhereListed(h)
           Then(h) == SomewhereListed(h)'
<1>a. \A h \in Host : Here(h) => Then(h)
  BY ListedStays
<1>b. \A h \in Host, c \in Answering : Listed(h, c) => Here(h)
  BY AnsweringLists
<1>t. group \subseteq Host /\ inCluster \subseteq Host /\ todo \subseteq Host
  BY DEF TypeInv, TypeOK
<1>i. /\ \A h \in inCluster : Here(h)
      /\ pc = "pick" => \A h \in group \ joiners : Here(h)
      /\ pc = "add" => /\ \A g, h \in todo : g = h
                       /\ \A h \in group \ (joiners \cup todo) : Here(h)
      /\ pc \in Joining => \A h \in group \ joiners : Here(h)
      /\ pc \in AfterJoins => \A h \in group : Here(h)
  BY DEF ListedOrJoining
<1> DEFINE Goal ==
      /\ \A h \in inCluster' : Then(h)
      /\ pc' = "pick" => \A h \in group' \ joiners' : Then(h)
      /\ pc' = "add" => /\ \A g, h \in todo' : g = h
                        /\ \A h \in group' \ (joiners' \cup todo') : Then(h)
      /\ pc' \in Joining => \A h \in group' \ joiners' : Then(h)
      /\ pc' \in AfterJoins => \A h \in group' : Then(h)
<1>g. SUFFICES Goal
  BY DEF ListedOrJoining, Joining, AfterJoins
<1> HIDE DEF Here, Then
<1> USE <1>a, <1>t, <1>i DEF Joining, AfterJoins, facts, world, serverVars
<1>1. ASSUME NEW h \in Host,
             StartFails(h) \/ AddFails(h) \/ EnsureMemberFails(h) \/ RestartFails(h)
      PROVE  Goal
  BY <1>1 DEF StartFails, AddFails, EnsureMemberFails, RestartFails, EndPlay
<1>2. ASSUME NEW h \in Host,
             Install(h) \/ Refresh1(h) \/ Refresh2(h) \/ Refresh3(h)
      PROVE  Goal
  BY <1>2 DEF Install, Refresh1, Refresh2, Refresh3, RefreshTask, HostDone
<1>3. ASSUME NEW h \in Host, StartReturns(h) PROVE Goal
  BY <1>3 DEF StartReturns, StartTasks, AfterStart, HostDone
<1>4. ASSUME NEW h \in Host, CheckMember(h) PROVE Goal
  <2>1. pc' \in {"members", "include"} /\ pc = "members"
    BY <1>4 DEF CheckMember, HostDone
  <2>2. inCluster' = inCluster \/ (inCluster' = inCluster \cup {h} /\ Here(h))
    BY <1>4, <1>b DEF CheckMember
  <2> QED
    BY <2>1, <2>2
<1>5. ASSUME NEW h \in Host, PickJoiner(h) PROVE Goal
  BY <1>5 DEF PickJoiner
<1>6. ASSUME NEW h \in Host, AddMember(h) PROVE Goal
  <2>1. Then(h)
    BY <1>6, AddMemberLists DEF Then
  <2> QED
    BY <1>6, <2>1 DEF AddMember
<1>7. ASSUME NEW h \in Host, EnsureMember(h) PROVE Goal
  BY <1>7, <1>b DEF EnsureMember
<1>8. ASSUME NEW h \in Host,
             IssueStart(h) \/ RefreshJoiner(h) \/ IssueRestart(h)
      PROVE  Goal
  BY <1>8 DEF IssueStart, StartTasks, RefreshJoiner, IssueRestart
<1>9. ASSUME NEW h \in Host, RestartReturns(h) \/ WaitUp(h) PROVE Goal
  BY <1>9 DEF RestartReturns, WaitUp, HostDone, EndPlay
<1>10. CASE IncludeJoins
  BY <1>10 DEF IncludeJoins, HealthyKnown, AfterWait
<1>11. CASE JoinsDone
  BY <1>11 DEF JoinsDone
<1>12. CASE StartPlay \/ Probe \/ WaitHealthy \/ WaitTimesOut \/ Flush \/ Abort
            \/ RaiseVersion \/ UNCHANGED vars
  BY <1>12 DEF StartPlay, Probe, WaitHealthy, WaitTimesOut, Flush, Abort, RaiseVersion,
     EndPlay, vars, playVars
<1>13. ASSUME NEW S \in SUBSET (Host \ group), GrowGroup(S) PROVE Goal
  BY <1>13 DEF GrowGroup
<1>14. ASSUME NEW h \in Host, LaunchProcess(h) \/ Crash(h) PROVE Goal
  BY <1>14 DEF LaunchProcess, Crash, playVars
<1> HIDE DEF Goal
<1> QED
  BY <1>1, <1>2, <1>3, <1>4, <1>5, <1>6, <1>7, <1>8, <1>9, <1>10, <1>11, <1>12, <1>13,
     <1>14 DEF Next, PlayStep, HostTask

-----------------------------------------------------------------------------
\* Inv holds in every reachable state.
LEMMA Invariance == Spec => []Inv
<1>1. Init => Inv
  <2> SUFFICES ASSUME Init PROVE Inv
    OBVIOUS
  <2>1. NoEnv \in EnvFile
    BY DEF NoEnv, EnvFile
  <2>2. ServerTypeOK
    BY <2>1 DEF Init, ServerInit, ServerTypeOK
  <2>3. TypeInv
    <3>1. 0 \in 0 .. MaxFaults /\ 0 \in 0 .. MaxCrashes
      BY BoundAssumption
    <3> QED
      BY <2>2, <3>1, GroupAssumption DEF Init, TypeInv, TypeOK, IssuedInTask, Between
  <2> QED
    BY <2>3 DEF Init, ServerInit, Inv, UpHasData, HealthyKnown, AfterWait, EnvFinal,
       ListedOrJoining, Joining, AfterJoins
<1>2. Inv /\ [Next]_vars => Inv'
  BY TypeStep, UpHasDataStep, HealthyKnownStep, EnvFinalStep, ListedOrJoiningStep DEF Inv
<1> QED
  BY <1>1, <1>2, PTL DEF Spec

\* Every variable keeps its type: no task leaves the play in an undefined state.
THEOREM TypeCorrect == Spec => []TypeOK
<1>1. Inv => TypeOK
  BY DEF Inv, TypeInv
<1> QED
  BY <1>1, Invariance, PTL

\* A play of roles/etcd that succeeds leaves the final etcd.env on every host
\* of groups['etcd'], whatever aborted plays wrote before (main.yml:59-61).
THEOREM Configured == Spec => []OkMeansConfigured
<1>1. Inv => OkMeansConfigured
  BY DEF Inv, EnvFinal, OkMeansConfigured, FinalEnv
<1> QED
  BY <1>1, Invariance, PTL

\* A play of roles/etcd that succeeds leaves no host of groups['etcd'] out of
\* the member lists (configure.yml:128-168, join_etcd_member.yml).
THEOREM ListedWhenOk == Spec => []OkMeansListed
<1>1. Inv => OkMeansListed
  BY DEF Inv, ListedOrJoining, AfterJoins, OkMeansListed
<1> QED
  BY <1>1, Invariance, PTL
-----------------------------------------------------------------------------
\* What a task makes stale it notifies, and what is notified is restarted.
LEMMA StaleNotifiedStep ==
  ASSUME TypeInv, StaleNotified, pc # "failed", [Next]_vars
  PROVE  StaleNotified'
<1> USE DEF TypeInv, TypeOK, ServerTypeOK, IssuedInTask, Tasks, Between, StaleNotified, facts,
        world, serverVars
<1>1. ASSUME NEW h \in Host,
             StartFails(h) \/ AddFails(h) \/ EnsureMemberFails(h) \/ RestartFails(h) \/ WaitUp(h)
      PROVE  StaleNotified'
  BY <1>1 DEF StartFails, AddFails, EnsureMemberFails, RestartFails, WaitUp, EndPlay
<1>2. ASSUME NEW h \in Host, Install(h) PROVE StaleNotified'
  BY <1>2 DEF Install, HostDone
<1>3. ASSUME NEW h \in Host, Refresh1(h) \/ Refresh2(h) \/ Refresh3(h) \/ RefreshJoiner(h)
      PROVE  StaleNotified'
  BY <1>3 DEF Refresh1, Refresh2, Refresh3, RefreshTask, RefreshJoiner, WriteEnv, HostDone
<1>4. ASSUME NEW h \in Host, StartReturns(h) \/ CheckMember(h) PROVE StaleNotified'
  BY <1>4 DEF StartReturns, CheckMember, HostDone, StartTasks, AfterStart
<1>5. ASSUME NEW h \in Host, RestartReturns(h) PROVE StaleNotified'
  BY <1>5 DEF RestartReturns, HostDone
<1>6. ASSUME NEW h \in Host, IssueRestart(h) \/ Crash(h) PROVE StaleNotified'
  BY <1>6 DEF IssueRestart, Crash, Stop, playVars
<1>7. ASSUME NEW h \in Host,
             IssueStart(h) \/ PickJoiner(h) \/ AddMember(h) \/ EnsureMember(h)
             \/ LaunchProcess(h)
      PROVE  StaleNotified'
  BY <1>7 DEF IssueStart, PickJoiner, AddMember, EnsureMember, LaunchProcess, Launch,
     StartTasks, playVars
<1>8. CASE Flush
  BY <1>8 DEF Flush, EndPlay
<1>9. CASE StartPlay \/ Probe \/ WaitHealthy \/ WaitTimesOut \/ IncludeJoins
           \/ JoinsDone \/ Abort \/ RaiseVersion \/ UNCHANGED vars
  BY <1>9 DEF StartPlay, Probe, WaitHealthy, WaitTimesOut, IncludeJoins, JoinsDone, Abort,
     RaiseVersion, EndPlay, vars, playVars
<1>10. ASSUME NEW S \in SUBSET (Host \ group), GrowGroup(S) PROVE StaleNotified'
  BY <1>10 DEF GrowGroup
<1> QED
  BY <1>1, <1>2, <1>3, <1>4, <1>5, <1>6, <1>7, <1>8, <1>9, <1>10 DEF Next, PlayStep, HostTask

\* As long as no play has failed, none that succeeds leaves an etcd running on an
\* outdated binary or etcd.env, whatever crashes (the handlers of handlers/main.yml).
THEOREM UnfailedRestart == Spec => UnfailedPlaysRestart
<1>1. Init => StaleNotified
  BY DEF Init, ServerInit, StaleNotified, Tasks
<1>2. StaleNotified => (pc = "ok" => stale \cap group = {})
  BY DEF StaleNotified
<1>3. Inv /\ StaleNotified /\ pc # "failed" /\ [Next]_vars => StaleNotified'
  BY StaleNotifiedStep DEF Inv
<1> QED
  BY <1>1, <1>2, <1>3, Invariance, PTL DEF Spec, UnfailedPlaysRestart

-----------------------------------------------------------------------------
(***************************************************************************)
(* Without crashes, and with plays that begin only when systemd's restarts   *)
(* are over, the etcd role never splits a cluster of two or more members, and *)
(* implements EtcdMembership, until a health check loses its answer while a   *)
(* new host waits for its first start: for every inventory, every number of  *)
(* failed plays and lost answers, and every growth.                          *)
(*                                                                         *)
(* An etcd without data bootstraps a cluster only from an etcd.env in state   *)
(* new, which is written only when the health probe of a play has failed.    *)
(* The argument is that once the group has grown the probe cannot fail while *)
(* it is answered: most members hold data, because a member is added only    *)
(* while all others run, and every host with data is up when a play begins   *)
(* and until the probe.  When its answer is lost, and every host has data, an *)
(* etcd.env in state new is written but bootstraps nothing.                  *)
(***************************************************************************)

\* what the theorems assume: no crash, patient operators, and an initial
\* cluster that keeps its quorum when a member is added
Undisturbed == MaxCrashes = 0 /\ Patient /\ Cardinality(InitialGroup) > 1

\* members of the initial cluster that have its data
Started == {m \in Members(InitialGroup) : cid[m] = InitialGroup}

MostStarted == 2 * Cardinality(Started) > Cardinality(Members(InitialGroup))

\* the play works on hosts of the group, and systemd on hosts it was told to
InGroup ==
  /\ svc \subseteq group /\ todo \subseteq group
  /\ joiners \subseteq group /\ notified \subseteq group
  /\ \A h \in Host : cid[h] # {} => h \in svc

\* etcd.env names its host, and without data bootstraps nothing but the initial
\* cluster
EnvOfInitial ==
  \A h \in Host :
    /\ env[h].peers # {} => h \in env[h].peers
    /\ env[h].state = "new" /\ cid[h] = {} => env[h].peers = InitialGroup

\* the only data is that of members of the initial cluster
DataOfInitial ==
  \A h \in Host : cid[h] # {} => cid[h] = InitialGroup /\ h \in Members(InitialGroup)

\* a play that has waited for the cluster has seen most members, and there
\* is no growth before such a play
MostOnceSeen ==
  pc \in AfterWait \cup {"ok"} \/ group # InitialGroup => MostStarted

\* before the probe nothing stops an etcd, and a play begins when all run
UpUntilProbe == pc \in {"install", "probe"} => \A h \in Host : cid[h] # {} => h \in up

\* what the probe of a grown group finds, unless no host waits for its start
GrownHealthy ==
  pc = "refresh1" /\ group # InitialGroup => healthy \/ \A h \in group : cid[h] # {}

\* a play that has waited for the cluster has an etcd up, but while it restarts
SomeUp ==
  pc \in (AfterWait \ {"reload", "waitUp"}) \cup {"ok"} => group \cap up # {}

OneInv ==
  /\ InGroup /\ EnvOfInitial /\ DataOfInitial
  /\ MostOnceSeen /\ UpUntilProbe /\ GrownHealthy /\ SomeUp

\* the inductive invariant
OneUnlessBlind == ~blind => OneInv
-----------------------------------------------------------------------------
\* Each part of the state has few writers.
LEMMA Writers ==
  ASSUME TypeInv, [Next]_vars
  PROVE  /\ cid' = cid \/ \E h \in Host : LaunchProcess(h)
         /\ added' = added \/ \E h \in Host : AddMember(h)
         /\ env' = env \/ \E h \in Host : Refresh1(h) \/ Refresh2(h) \/ Refresh3(h)
                                            \/ RefreshJoiner(h)
         /\ up \subseteq up' \/ \E h \in Host : IssueRestart(h) \/ Crash(h)
         /\ svc \subseteq svc'
         /\ group' = group \/ \E S \in SUBSET (Host \ group) : GrowGroup(S)
         /\ group \subseteq group'
<1> USE DEF TypeInv, TypeOK, ServerTypeOK
<1>1. ASSUME NEW h \in Host, LaunchProcess(h)
      PROVE  UNCHANGED <<added, env, group, svc>> /\ up \subseteq up'
  BY <1>1 DEF LaunchProcess, Launch
<1>2. ASSUME NEW h \in Host, AddMember(h)
      PROVE  UNCHANGED <<cid, env, group, svc, up>>
  BY <1>2 DEF AddMember
<1>3. ASSUME NEW h \in Host, Refresh1(h) \/ Refresh2(h) \/ Refresh3(h) \/ RefreshJoiner(h)
      PROVE  UNCHANGED <<cid, added, group, svc, up>>
  BY <1>3 DEF Refresh1, Refresh2, Refresh3, RefreshTask, RefreshJoiner
<1>4. ASSUME NEW h \in Host, IssueRestart(h) \/ Crash(h)
      PROVE  UNCHANGED <<cid, added, env, group>> /\ svc \subseteq svc'
  BY <1>4 DEF IssueRestart, Crash
<1>5. ASSUME NEW h \in Host, IssueStart(h)
      PROVE  UNCHANGED <<cid, added, env, group, up>> /\ svc \subseteq svc'
  BY <1>5 DEF IssueStart
<1>6. ASSUME NEW h \in Host,
             Install(h) \/ StartReturns(h) \/ StartFails(h) \/ CheckMember(h)
             \/ PickJoiner(h) \/ AddFails(h) \/ EnsureMember(h) \/ EnsureMemberFails(h)
             \/ RestartReturns(h) \/ RestartFails(h) \/ WaitUp(h)
      PROVE  UNCHANGED <<cid, added, env, group, svc, up>>
  BY <1>6 DEF Install, StartReturns, StartFails, CheckMember, PickJoiner, AddFails,
     EnsureMember, EnsureMemberFails, RestartReturns, RestartFails, WaitUp, world, serverVars
<1>7. ASSUME StartPlay \/ Probe \/ WaitHealthy \/ WaitTimesOut \/ IncludeJoins
             \/ JoinsDone \/ Flush \/ Abort \/ RaiseVersion \/ UNCHANGED vars
      PROVE  UNCHANGED <<cid, added, env, group, svc, up>>
  BY <1>7 DEF StartPlay, Probe, WaitHealthy, WaitTimesOut, IncludeJoins, JoinsDone,
     Flush, Abort, RaiseVersion, vars, world, serverVars
<1>8. ASSUME NEW S \in SUBSET (Host \ group), GrowGroup(S)
      PROVE  UNCHANGED <<cid, added, env, svc, up>> /\ group \subseteq group'
  BY <1>8 DEF GrowGroup, serverVars
<1> QED
  BY <1>1, <1>2, <1>3, <1>4, <1>5, <1>6, <1>7, <1>8 DEF Next, PlayStep, HostTask

\* The play never leaves the group, nor systemd what it was told.
LEMMA InGroupStep ==
  ASSUME TypeInv, InGroup, [Next]_vars
  PROVE  InGroup'
<1>1. svc' \subseteq group'
  <2>1. ASSUME NEW h \in Host, IssueStart(h) \/ IssueRestart(h) PROVE svc' \subseteq group'
    BY <2>1 DEF IssueStart, IssueRestart, InGroup
  <2>2. CASE svc' = svc
    BY <2>2, Writers DEF InGroup
  <2>3. svc' = svc \/ \E h \in Host : IssueStart(h) \/ IssueRestart(h)
    BY DEF Next, PlayStep, HostTask, LaunchProcess, Launch, AddMember, Refresh1, Refresh2,
       Refresh3, RefreshTask, RefreshJoiner, Crash, Install, StartReturns, StartFails,
       CheckMember, PickJoiner, AddFails, EnsureMember, EnsureMemberFails, RestartReturns,
       RestartFails, WaitUp, StartPlay, Probe, WaitHealthy, WaitTimesOut, IncludeJoins,
       JoinsDone, Flush, Abort, RaiseVersion, GrowGroup, vars, world, serverVars
  <2> QED
    BY <2>1, <2>2, <2>3
<1>2. \A h \in Host : cid'[h] # {} => h \in svc'
  <2>1. CASE cid' = cid
    BY <2>1, Writers DEF InGroup
  <2>2. ASSUME NEW h \in Host, LaunchProcess(h)
        PROVE  \A g \in Host : cid'[g] # {} => g \in svc'
    BY <2>2 DEF LaunchProcess, Launch, InGroup, TypeInv, TypeOK, ServerTypeOK
  <2> QED
    BY <2>1, <2>2, Writers
<1>3. todo' \subseteq group' /\ joiners' \subseteq group' /\ notified' \subseteq group'
  <2> DEFINE Goal == todo' \subseteq group' /\ joiners' \subseteq group' /\ notified' \subseteq group'
  <2> USE DEF InGroup, facts, world, serverVars
  <2>1. ASSUME NEW h \in Host,
               StartFails(h) \/ AddFails(h) \/ EnsureMemberFails(h) \/ RestartFails(h) \/ WaitUp(h)
        PROVE  Goal
    BY <2>1 DEF StartFails, AddFails, EnsureMemberFails, RestartFails, WaitUp, EndPlay
  <2>2. ASSUME NEW h \in Host,
               Install(h) \/ Refresh1(h) \/ Refresh2(h) \/ Refresh3(h) \/ RefreshJoiner(h)
        PROVE  Goal
    BY <2>2 DEF Install, Refresh1, Refresh2, Refresh3, RefreshTask, RefreshJoiner, WriteEnv,
       HostDone
  <2>3. ASSUME NEW h \in Host, StartReturns(h) \/ CheckMember(h) \/ RestartReturns(h)
        PROVE  Goal
    BY <2>3 DEF StartReturns, CheckMember, RestartReturns, HostDone
  <2>4. ASSUME NEW h \in Host,
               IssueStart(h) \/ PickJoiner(h) \/ AddMember(h) \/ EnsureMember(h) \/ IssueRestart(h)
        PROVE  Goal
    BY <2>4 DEF IssueStart, PickJoiner, AddMember, EnsureMember, IssueRestart
  <2>5. CASE StartPlay \/ Probe \/ WaitHealthy \/ WaitTimesOut \/ IncludeJoins
             \/ JoinsDone \/ Flush \/ Abort \/ RaiseVersion \/ UNCHANGED vars
    BY <2>5 DEF StartPlay, Probe, WaitHealthy, WaitTimesOut, IncludeJoins, JoinsDone,
       Flush, Abort, RaiseVersion, EndPlay, vars, playVars
  <2>6. ASSUME NEW S \in SUBSET (Host \ group), GrowGroup(S) PROVE Goal
    BY <2>6 DEF GrowGroup
  <2>7. ASSUME NEW h \in Host, LaunchProcess(h) \/ Crash(h) PROVE Goal
    BY <2>7 DEF LaunchProcess, Crash, playVars
  <2> HIDE DEF Goal
  <2> QED
    BY <2>1, <2>2, <2>3, <2>4, <2>5, <2>6, <2>7 DEF Next, PlayStep, HostTask, Goal
<1> QED
  BY <1>1, <1>2, <1>3 DEF InGroup

\* Only the first template task may write state new, and only for the initial
\* group.
LEMMA EnvOfInitialStep ==
  ASSUME TypeInv, HealthyKnown, InGroup, GrownHealthy, EnvOfInitial, [Next]_vars
  PROVE  EnvOfInitial'
<1> USE DEF TypeInv, TypeOK, ServerTypeOK
<1>1. CASE env' = env
  BY <1>1, DataStaysStep DEF EnvOfInitial
<1>2. ASSUME NEW h \in Host, NEW peers, WriteEnv(h, peers), h \in peers, cid' = cid,
             healthy \/ peers = InitialGroup \/ cid[h] # {}
      PROVE  EnvOfInitial'
  <2>1. env' = [env EXCEPT ![h] = EnvContent(peers)]
    BY <1>2 DEF WriteEnv
  <2>2. /\ EnvContent(peers).peers = peers
        /\ EnvContent(peers).state = "new" => peers = InitialGroup \/ cid[h] # {}
    BY <1>2 DEF EnvContent
  <2> QED
    BY <1>2, <2>1, <2>2 DEF EnvOfInitial
<1>3. ASSUME NEW h \in Host, Refresh1(h) PROVE EnvOfInitial'
  BY <1>2, <1>3 DEF Refresh1, RefreshTask, InGroup, GrownHealthy
<1>4. ASSUME NEW h \in Host, Refresh2(h) \/ Refresh3(h) PROVE EnvOfInitial'
  BY <1>2, <1>4 DEF Refresh2, Refresh3, RefreshTask, InGroup, HealthyKnown, AfterWait
<1>5. ASSUME NEW h \in Host, RefreshJoiner(h) PROVE EnvOfInitial'
  <2>1. WriteEnv(h, (inCluster \cap group) \cup {h}) /\ healthy /\ cid' = cid
    BY <1>5 DEF RefreshJoiner, HealthyKnown, AfterWait
  <2> QED
    BY <1>2, <2>1
<1> QED
  BY <1>1, <1>3, <1>4, <1>5, Writers

\* A process that finds no data comes up as a member of the initial cluster.
LEMMA LaunchesInitial ==
  ASSUME TypeInv, UpHasData, EnvOfInitial, DataOfInitial,
         NEW h \in Host, NEW c \in LaunchInto(h)
  PROVE  c = InitialGroup /\ h \in Members(InitialGroup)
<1> USE DEF TypeInv, TypeOK, ServerTypeOK
<1>1. CASE cid[h] # {}
  BY <1>1 DEF LaunchInto, DataOfInitial
<1>2. CASE cid[h] = {} /\ env[h].state = "new"
  BY <1>2 DEF LaunchInto, EnvOfInitial, Members
<1>3. CASE cid[h] = {} /\ env[h].state # "new"
  <2>1. PICK p \in env[h].peers \cap up : c = cid[p] /\ Members(cid[p]) = env[h].peers
    BY <1>3 DEF LaunchInto
  <2>2. p \in Host
    OBVIOUS
  <2>3. cid[p] = InitialGroup
    BY <2>1, <2>2 DEF UpHasData, DataOfInitial
  <2>4. h \in env[h].peers
    BY <2>1 DEF EnvOfInitial
  <2> QED
    BY <2>1, <2>3, <2>4
<1> QED
  BY <1>1, <1>2, <1>3

LEMMA MembersStay ==
  ASSUME TypeInv, [Next]_vars
  PROVE  Members(InitialGroup) \subseteq Members(InitialGroup)'
  BY DataStaysStep DEF Members

\* No data of another cluster, and none on a host that is no member.
LEMMA DataOfInitialStep ==
  ASSUME TypeInv, UpHasData, EnvOfInitial, DataOfInitial, [Next]_vars
  PROVE  DataOfInitial'
<1>1. CASE cid' = cid
  BY <1>1, MembersStay DEF DataOfInitial
<1>2. ASSUME NEW h \in Host, LaunchProcess(h) PROVE DataOfInitial'
  <2>1. PICK c \in LaunchInto(h) : cid' = [cid EXCEPT ![h] = c]
    BY <1>2 DEF LaunchProcess, Launch
  <2>2. c = InitialGroup /\ h \in Members(InitialGroup)
    BY <2>1, LaunchesInitial
  <2> QED
    BY <2>1, <2>2, MembersStay DEF DataOfInitial, TypeInv, TypeOK, ServerTypeOK
<1> QED
  BY <1>1, <1>2, Writers

-----------------------------------------------------------------------------
\* A member is added while all others run, so most of two or more keep having
\* data.
LEMMA MostStay ==
  ASSUME Undisturbed, TypeInv, UpHasData, DataOfInitial, MostStarted, [Next]_vars
  PROVE  MostStarted'
<1> USE DEF TypeInv, TypeOK, ServerTypeOK
<1>1. Started \subseteq Started'
  <2>1. Members(InitialGroup) \subseteq Host
    BY GroupAssumption DEF Members
  <2>2. \A g \in Host : cid[g] = InitialGroup => cid'[g] = InitialGroup
    BY DataStaysStep, GroupAssumption
  <2> QED
    BY <2>1, <2>2, MembersStay DEF Started
<1>2. /\ IsFiniteSet(Members(InitialGroup)) /\ IsFiniteSet(Members(InitialGroup)')
      /\ IsFiniteSet(Started) /\ IsFiniteSet(Started')
  <2>1. /\ Members(InitialGroup) \in SUBSET Host /\ Members(InitialGroup)' \in SUBSET Host
        /\ Started \in SUBSET Host /\ Started' \in SUBSET Host
    BY GroupAssumption DEF Members, Started
  <2> QED
    BY <2>1, HostAssumption, FS_Subset
<1>3. Cardinality(Started) <= Cardinality(Started')
  BY <1>1, <1>2, FS_Subset
<1>4. /\ Cardinality(Members(InitialGroup)) \in Nat /\ Cardinality(Started) \in Nat
      /\ Cardinality(Members(InitialGroup)') \in Nat /\ Cardinality(Started') \in Nat
  BY <1>2, FS_CardinalityType
<1>5. CASE added' = added
  <2>1. Members(InitialGroup)' = Members(InitialGroup)
    BY <1>5 DEF Members
  <2> QED
    BY <2>1, <1>3, <1>4 DEF MostStarted
<1>6. ASSUME NEW h \in Host, NEW c \in Answering, MemberAdd(h, c)
      PROVE  MostStarted'
  <2>1. c = InitialGroup
    BY <1>6 DEF Answering, Reachable, UpHasData, DataOfInitial
  <2>2. Members(InitialGroup)' = Members(InitialGroup) \cup {h}
    BY <1>6, <2>1 DEF MemberAdd, Members
  <2>3. Cardinality(Members(InitialGroup)') = Cardinality(Members(InitialGroup)) + 1
    BY <1>2, <1>6, <2>1, <2>2, FS_AddElement DEF MemberAdd
  <2>4. Members(InitialGroup) = Started
    BY <1>6, <2>1 DEF MemberAdd, Live, Started
  <2>5. Cardinality(Members(InitialGroup)) > 1
    <3>1. InitialGroup \in SUBSET Members(InitialGroup)
      BY DEF Members
    <3>2. IsFiniteSet(InitialGroup)
      BY <1>2, <3>1, FS_Subset
    <3>3. /\ Cardinality(InitialGroup) <= Cardinality(Members(InitialGroup))
          /\ Cardinality(InitialGroup) \in Nat
      BY <1>2, <3>1, <3>2, FS_Subset, FS_CardinalityType
    <3> QED
      BY <1>4, <3>3 DEF Undisturbed
  <2> QED
    BY <1>3, <1>4, <2>3, <2>4, <2>5 DEF MostStarted
<1> QED
  BY <1>5, <1>6, Writers DEF AddMember

\* Only the wait begins the tasks after it, and only success is followed by
\* growth.
LEMMA WaitSteps ==
  ASSUME TypeInv, [Next]_vars
  PROVE  /\ pc' \in AfterWait \cup {"ok"} => pc \in AfterWait \cup {"ok"} \/ WaitHealthy
         /\ group' # InitialGroup => group # InitialGroup \/ pc = "ok"
<1> USE DEF AfterWait, world, serverVars
<1>1. ASSUME NEW h \in Host,
             StartFails(h) \/ AddFails(h) \/ EnsureMemberFails(h) \/ RestartFails(h) \/ WaitUp(h)
      PROVE  /\ group' = group
             /\ pc' \in AfterWait \cup {"ok"} => pc \in AfterWait \cup {"ok"}
  BY <1>1 DEF StartFails, AddFails, EnsureMemberFails, RestartFails, WaitUp, EndPlay
<1>2. ASSUME NEW h \in Host,
             Install(h) \/ Refresh1(h) \/ Refresh2(h) \/ Refresh3(h) \/ RefreshJoiner(h)
      PROVE  /\ group' = group
             /\ pc' \in AfterWait \cup {"ok"} => pc \in AfterWait \cup {"ok"}
  BY <1>2 DEF Install, Refresh1, Refresh2, Refresh3, RefreshTask, RefreshJoiner, HostDone
<1>3. ASSUME NEW h \in Host, StartReturns(h) \/ CheckMember(h) \/ RestartReturns(h)
      PROVE  /\ group' = group
             /\ pc' \in AfterWait \cup {"ok"} => pc \in AfterWait \cup {"ok"}
  BY <1>3 DEF StartReturns, CheckMember, RestartReturns, HostDone, StartTasks, AfterStart
<1>4. ASSUME NEW h \in Host,
             IssueStart(h) \/ PickJoiner(h) \/ AddMember(h) \/ EnsureMember(h)
             \/ IssueRestart(h) \/ LaunchProcess(h) \/ Crash(h)
      PROVE  /\ group' = group
             /\ pc' \in AfterWait \cup {"ok"} => pc \in AfterWait \cup {"ok"}
  BY <1>4 DEF IssueStart, PickJoiner, AddMember, EnsureMember, IssueRestart, LaunchProcess,
     Crash, playVars
<1>5. CASE StartPlay \/ Probe \/ WaitTimesOut \/ IncludeJoins \/ JoinsDone \/ Flush
           \/ Abort \/ RaiseVersion \/ UNCHANGED vars
  BY <1>5 DEF StartPlay, Probe, WaitTimesOut, IncludeJoins, JoinsDone, Flush, Abort,
     RaiseVersion, EndPlay, vars, playVars, Tasks
<1>6. CASE WaitHealthy
  BY <1>6 DEF WaitHealthy
<1>7. ASSUME NEW S \in SUBSET (Host \ group), GrowGroup(S)
      PROVE  pc = "ok" /\ pc' = "idle"
  BY <1>7 DEF GrowGroup
<1> QED
  BY <1>1, <1>2, <1>3, <1>4, <1>5, <1>6, <1>7 DEF Next, PlayStep, HostTask

LEMMA MostOnceSeenStep ==
  ASSUME Undisturbed, TypeInv, UpHasData, DataOfInitial, MostOnceSeen, [Next]_vars
  PROVE  MostOnceSeen'
<1> USE DEF TypeInv, TypeOK, ServerTypeOK
<1>1. CASE MostStarted
  BY <1>1, MostStay DEF MostOnceSeen
<1>2. CASE WaitHealthy
  <2>1. PICK g \in group \cap up : Healthy(cid[g])
    BY <1>2 DEF WaitHealthy, Reachable
  <2>2. HasQuorum(InitialGroup)
    BY <2>1 DEF Healthy, UpHasData, DataOfInitial
  <2>3. IsFiniteSet(Started) /\ Live(InitialGroup) \in SUBSET Started
    BY HostAssumption, GroupAssumption, FS_Subset DEF Started, Live, Members
  <2>4. Cardinality(Live(InitialGroup)) <= Cardinality(Started)
    BY <2>3, FS_Subset
  <2>5. /\ Cardinality(Live(InitialGroup)) \in Nat /\ Cardinality(Started) \in Nat
        /\ Cardinality(Members(InitialGroup)) \in Nat
    <3>1. Members(InitialGroup) \in SUBSET Host
      BY GroupAssumption DEF Members
    <3> QED
      BY <2>3, <3>1, HostAssumption, FS_Subset, FS_CardinalityType
  <2> QED
    BY <1>1, <2>2, <2>4, <2>5 DEF MostStarted, HasQuorum
<1> QED
  BY <1>1, <1>2, WaitSteps DEF MostOnceSeen

\* No play begins while a restart by systemd is pending.
LEMMA UpUntilProbeStep ==
  ASSUME Undisturbed, TypeInv, InGroup, UpUntilProbe, [Next]_vars
  PROVE  UpUntilProbe'
<1> USE DEF TypeInv, TypeOK, ServerTypeOK
<1>1. CASE StartPlay
  BY <1>1 DEF StartPlay, Undisturbed, Settled, LaunchInto, InGroup, UpUntilProbe, world, serverVars
<1>2. ASSUME NEW h \in Host, IssueRestart(h) PROVE UpUntilProbe'
  BY <1>2 DEF IssueRestart, UpUntilProbe
<1>3. ASSUME NEW h \in Host, Crash(h) PROVE FALSE
  BY <1>3, BoundAssumption DEF Crash, Undisturbed
<1>4. ~StartPlay /\ pc' \in {"install", "probe"} => pc \in {"install", "probe"}
  <2> USE DEF world, serverVars
  <2>1. ASSUME NEW h \in Host,
               StartFails(h) \/ AddFails(h) \/ EnsureMemberFails(h) \/ RestartFails(h) \/ WaitUp(h)
        PROVE  pc' \in {"install", "probe"} => pc \in {"install", "probe"}
    BY <2>1 DEF StartFails, AddFails, EnsureMemberFails, RestartFails, WaitUp, EndPlay
  <2>2. ASSUME NEW h \in Host,
               Install(h) \/ Refresh1(h) \/ Refresh2(h) \/ Refresh3(h) \/ RefreshJoiner(h)
        PROVE  pc' \in {"install", "probe"} => pc \in {"install", "probe"}
    BY <2>2 DEF Install, Refresh1, Refresh2, Refresh3, RefreshTask, RefreshJoiner, HostDone
  <2>3. ASSUME NEW h \in Host, StartReturns(h) \/ CheckMember(h) \/ RestartReturns(h)
        PROVE  pc' \in {"install", "probe"} => pc \in {"install", "probe"}
    BY <2>3 DEF StartReturns, CheckMember, RestartReturns, HostDone, AfterStart
  <2>4. ASSUME NEW h \in Host,
               IssueStart(h) \/ PickJoiner(h) \/ AddMember(h) \/ EnsureMember(h)
               \/ IssueRestart(h) \/ LaunchProcess(h) \/ Crash(h)
        PROVE  pc' \in {"install", "probe"} => pc \in {"install", "probe"}
    BY <2>4 DEF IssueStart, PickJoiner, AddMember, EnsureMember, IssueRestart, LaunchProcess,
       Crash, playVars
  <2>5. CASE Probe \/ WaitHealthy \/ WaitTimesOut \/ IncludeJoins \/ JoinsDone \/ Flush
             \/ Abort \/ RaiseVersion \/ UNCHANGED vars
    BY <2>5 DEF Probe, WaitHealthy, WaitTimesOut, IncludeJoins, JoinsDone, Flush, Abort,
       RaiseVersion, EndPlay, vars, playVars
  <2>6. ASSUME NEW S \in SUBSET (Host \ group), GrowGroup(S)
        PROVE  pc' \in {"install", "probe"} => pc \in {"install", "probe"}
    BY <2>6 DEF GrowGroup
  <2> QED
    BY <2>1, <2>2, <2>3, <2>4, <2>5, <2>6 DEF Next, PlayStep, HostTask
<1>5. CASE ~StartPlay /\ up \subseteq up' /\ cid' = cid
  BY <1>4, <1>5 DEF UpUntilProbe
<1>6. ASSUME NEW h \in Host, LaunchProcess(h) PROVE UpUntilProbe'
  BY <1>6 DEF LaunchProcess, Launch, UpUntilProbe, playVars
<1> QED
  BY <1>1, <1>2, <1>3, <1>5, <1>6, Writers

\* Every endpoint of a grown group that answers reports a healthy cluster, and
\* one answers; the answer is lost only when no host waits for its first start.
LEMMA GrownProbe ==
  ASSUME TypeInv, UpHasData, InGroup, DataOfInitial, MostOnceSeen, UpUntilProbe,
         Probe, ~blind', group # InitialGroup
  PROVE  healthy' \/ \A h \in group : cid[h] # {}
<1> USE DEF TypeInv, TypeOK, ServerTypeOK
<1>1. pc = "probe" /\ MostStarted
  BY DEF Probe, MostOnceSeen
<1>2. Live(InitialGroup) = Started
  BY <1>1, GroupAssumption DEF Live, Started, Members, UpUntilProbe
<1>3. Healthy(InitialGroup)
  BY <1>1, <1>2, GroupAssumption DEF Healthy, HasQuorum, MostStarted, Members, UpUntilProbe
<1>4. \A c \in Reachable(group) : c = InitialGroup
  BY DEF Reachable, UpHasData, DataOfInitial
<1>5. Reachable(group) # {}
  <2>1. Started # {}
    <3>1. Members(InitialGroup) \in SUBSET Host
      BY GroupAssumption DEF Members
    <3>2. Cardinality(Members(InitialGroup)) \in Nat
      BY <3>1, HostAssumption, FS_Subset, FS_CardinalityType
    <3>3. Cardinality(Started) # 0
      BY <1>1, <3>2 DEF MostStarted
    <3> QED
      BY <3>3, FS_EmptySet
  <2>2. PICK m \in Started : TRUE
    BY <2>1
  <2>3. m \in group \cap up
    BY <1>1, <2>2, GroupAssumption DEF Started, Members, InGroup, UpUntilProbe
  <2> QED
    BY <2>3 DEF Reachable
<1> QED
  BY <1>3, <1>4, <1>5 DEF Probe, Extending

LEMMA GrownHealthyStep ==
  ASSUME TypeInv, UpHasData, InGroup, DataOfInitial, MostOnceSeen, UpUntilProbe,
         GrownHealthy, ~blind', [Next]_vars
  PROVE  GrownHealthy'
<1> DEFINE Kept == pc' = "refresh1" => pc = "refresh1" /\ group' = group /\ healthy' = healthy
<1> USE DEF world, serverVars, facts
<1>1. CASE Probe
  BY <1>1, GrownProbe DEF Probe, GrownHealthy
<1>2. ASSUME NEW h \in Host,
             StartFails(h) \/ AddFails(h) \/ EnsureMemberFails(h) \/ RestartFails(h) \/ WaitUp(h)
      PROVE  Kept
  BY <1>2 DEF StartFails, AddFails, EnsureMemberFails, RestartFails, WaitUp, EndPlay
<1>3. ASSUME NEW h \in Host,
             Install(h) \/ Refresh1(h) \/ Refresh2(h) \/ Refresh3(h) \/ RefreshJoiner(h)
      PROVE  Kept
  BY <1>3 DEF Install, Refresh1, Refresh2, Refresh3, RefreshTask, RefreshJoiner, HostDone
<1>4. ASSUME NEW h \in Host, StartReturns(h) \/ CheckMember(h) \/ RestartReturns(h)
      PROVE  Kept
  BY <1>4 DEF StartReturns, CheckMember, RestartReturns, HostDone, AfterStart
<1>5. ASSUME NEW h \in Host,
             IssueStart(h) \/ PickJoiner(h) \/ AddMember(h) \/ EnsureMember(h)
             \/ IssueRestart(h) \/ LaunchProcess(h) \/ Crash(h)
      PROVE  Kept
  BY <1>5 DEF IssueStart, PickJoiner, AddMember, EnsureMember, IssueRestart, LaunchProcess,
     Crash, playVars
<1>6. ASSUME StartPlay \/ WaitHealthy \/ WaitTimesOut \/ IncludeJoins \/ JoinsDone \/ Flush
             \/ Abort \/ RaiseVersion \/ UNCHANGED vars
      PROVE  Kept
  BY <1>6 DEF StartPlay, WaitHealthy, WaitTimesOut, IncludeJoins, JoinsDone, Flush, Abort,
     RaiseVersion, EndPlay, vars, playVars
<1>7. ASSUME NEW S \in SUBSET (Host \ group), GrowGroup(S) PROVE Kept
  BY <1>7 DEF GrowGroup
<1>8. CASE Kept
  BY <1>8, DataStaysStep DEF GrownHealthy, TypeInv, TypeOK
<1> HIDE DEF Kept
<1> QED
  BY <1>1, <1>2, <1>3, <1>4, <1>5, <1>6, <1>7, <1>8 DEF Next, PlayStep, HostTask

\* Nothing but a restart takes an etcd down, and the play does not end well
\* before one is back.
LEMMA SomeUpStep ==
  ASSUME Undisturbed, TypeInv, InGroup, SomeUp, [Next]_vars
  PROVE  SomeUp'
<1> USE DEF AfterWait, SomeUp, world, serverVars
<1>1. ASSUME NEW h \in Host, StartFails(h) \/ AddFails(h) \/ EnsureMemberFails(h) \/ RestartFails(h)
      PROVE  SomeUp'
  BY <1>1 DEF StartFails, AddFails, EnsureMemberFails, RestartFails, EndPlay
<1>2. ASSUME NEW h \in Host, WaitUp(h) PROVE SomeUp'
  BY <1>2 DEF WaitUp, EndPlay, Ready, InGroup
<1>3. ASSUME NEW h \in Host,
             Install(h) \/ Refresh1(h) \/ Refresh2(h) \/ Refresh3(h) \/ RefreshJoiner(h)
      PROVE  SomeUp'
  BY <1>3 DEF Install, Refresh1, Refresh2, Refresh3, RefreshTask, RefreshJoiner, HostDone
<1>4. ASSUME NEW h \in Host, StartReturns(h) \/ CheckMember(h) \/ RestartReturns(h)
      PROVE  SomeUp'
  BY <1>4 DEF StartReturns, CheckMember, RestartReturns, HostDone, StartTasks, AfterStart
<1>5. ASSUME NEW h \in Host,
             IssueStart(h) \/ PickJoiner(h) \/ AddMember(h) \/ EnsureMember(h)
             \/ IssueRestart(h) \/ LaunchProcess(h)
      PROVE  SomeUp'
  BY <1>5 DEF IssueStart, PickJoiner, AddMember, EnsureMember, IssueRestart, LaunchProcess,
     Launch, playVars
<1>6. ASSUME NEW h \in Host, Crash(h) PROVE FALSE
  BY <1>6, BoundAssumption DEF Crash, Undisturbed, TypeInv, TypeOK
<1>7. CASE StartPlay \/ Probe \/ WaitTimesOut \/ IncludeJoins \/ JoinsDone \/ Flush
           \/ Abort \/ RaiseVersion \/ UNCHANGED vars
  BY <1>7 DEF StartPlay, Probe, WaitTimesOut, IncludeJoins, JoinsDone, Flush, Abort,
     RaiseVersion, EndPlay, vars, playVars
<1>8. CASE WaitHealthy
  BY <1>8 DEF WaitHealthy, Reachable
<1>9. ASSUME NEW S \in SUBSET (Host \ group), GrowGroup(S) PROVE SomeUp'
  BY <1>9 DEF GrowGroup
<1> QED
  BY <1>1, <1>2, <1>3, <1>4, <1>5, <1>6, <1>7, <1>8, <1>9 DEF Next, PlayStep, HostTask

\* Only a health check decides about blind, and none takes it back.
LEMMA BlindStays ==
  ASSUME TypeInv, [Next]_vars
  PROVE  /\ blind => blind'
         /\ blind' = blind \/ (Probe /\ faults' = faults + 1)
<1> DEFINE Goal == blind' = blind
<1> USE DEF TypeInv, TypeOK, budget
<1>1. ASSUME NEW h \in Host, HostTask(h) PROVE Goal
  BY <1>1 DEF HostTask, Install, Refresh1, Refresh2, Refresh3, RefreshTask, IssueStart,
     StartReturns, StartFails, CheckMember, PickJoiner, AddMember, AddFails,
     RefreshJoiner, EnsureMember, EnsureMemberFails, IssueRestart, RestartReturns, RestartFails,
     WaitUp
<1>2. ASSUME StartPlay \/ WaitHealthy \/ WaitTimesOut \/ IncludeJoins \/ JoinsDone
             \/ Flush \/ Abort \/ RaiseVersion \/ UNCHANGED vars
      PROVE  Goal
  BY <1>2 DEF StartPlay, WaitHealthy, WaitTimesOut, IncludeJoins, JoinsDone, Flush, Abort,
     RaiseVersion, vars
<1>3. ASSUME NEW h \in Host, LaunchProcess(h) \/ Crash(h) PROVE Goal
  BY <1>3 DEF LaunchProcess, Crash
<1>4. ASSUME NEW S \in SUBSET (Host \ group), GrowGroup(S) PROVE Goal
  BY <1>4 DEF GrowGroup
<1>5. Probe => Goal \/ (faults' = faults + 1 /\ (blind => blind'))
  BY DEF Probe
<1> QED
  BY <1>1, <1>2, <1>3, <1>4, <1>5 DEF Next, PlayStep

\* Without crashes OneInv holds until a health check is blind.
LEMMA OneInvariance ==
  ASSUME Undisturbed
  PROVE  Spec => []OneUnlessBlind
<1>1. Init => OneUnlessBlind
  BY GroupAssumption DEF Init, ServerInit, OneUnlessBlind, OneInv, InGroup, EnvOfInitial,
     DataOfInitial, MostOnceSeen, AfterWait, UpUntilProbe, GrownHealthy, SomeUp, NoEnv
<1>2. Inv /\ OneUnlessBlind /\ [Next]_vars => OneUnlessBlind'
  <2> SUFFICES ASSUME Inv, OneUnlessBlind, [Next]_vars, ~blind' PROVE OneInv'
    BY DEF OneUnlessBlind
  <2>1. OneInv
    BY BlindStays DEF OneUnlessBlind, Inv
  <2> QED
    BY <2>1, InGroupStep, EnvOfInitialStep, DataOfInitialStep, MostOnceSeenStep,
       UpUntilProbeStep, GrownHealthyStep, SomeUpStep DEF OneInv, Inv
<1> QED
  BY <1>1, <1>2, Invariance, PTL DEF Spec

\* Extending and upgrading an etcd cluster of two or more members, with plays
\* aborted at any task, answers lost by any task and plays repeated when systemd
\* has settled, bootstraps no second cluster beside the first as long as no health
\* check lost its answer while a new host waited for its first start
\* (configure.yml:2-19, 35-45, etcd.env.j2:17).
THEOREM OneClusterRemains ==
  ASSUME Undisturbed
  PROVE  Spec => []OneClusterUnlessBlind
<1>1. OneUnlessBlind => OneClusterUnlessBlind
  BY DEF OneUnlessBlind, OneInv, DataOfInitial, OneClusterUnlessBlind, OneCluster
<1> QED
  BY <1>1, OneInvariance, PTL

\* If besides no address is part of another, a play that succeeds, with no such
\* health check so far, has made every host of groups['etcd'] a member of the one
\* cluster (configure.yml:128-168).
THEOREM Assembled ==
  ASSUME Undisturbed, Overlap = {}
  PROVE  Spec => []OkMeansAssembled
<1>1. Inv /\ OneUnlessBlind => OkMeansAssembled
  <2> SUFFICES ASSUME Inv, OneInv, pc = "ok"
               PROVE  \E c \in Reachable(group) :
                        group \subseteq Members(c) /\ \A h \in group : cid[h] \in {{}, c}
    BY DEF OkMeansAssembled, OneUnlessBlind
  <2> USE DEF Inv, OneInv, TypeInv, TypeOK, ServerTypeOK
  <2>1. PICK p \in group \cap up : TRUE
    BY DEF SomeUp
  <2>2. InitialGroup \in Reachable(group)
    BY <2>1 DEF Reachable, UpHasData, DataOfInitial
  <2>3. ASSUME NEW h \in group PROVE h \in Members(InitialGroup)
    <3>1. PICK g \in Host : cid[g] # {} /\ Listed(h, cid[g])
      BY <2>3 DEF ListedOrJoining, AfterJoins, SomewhereListed
    <3> QED
      BY <3>1 DEF DataOfInitial, Listed
  <2>4. \A h \in group : cid[h] \in {{}, InitialGroup}
    BY DEF DataOfInitial
  <2> QED
    BY <2>2, <2>3, <2>4
<1> QED
  BY <1>1, Invariance, OneInvariance, PTL
-----------------------------------------------------------------------------
\* what EtcdMembership's variables stand for
MemberList == UNION {Members(cid[h]) : h \in {g \in Host : cid[g] # {}}}
HasData == {h \in Host : cid[h] # {}}

\* The member list is that of the initial cluster, before and after a step.
LEMMA MemberLists ==
  ASSUME TypeInv, UpHasData, EnvOfInitial, DataOfInitial, [Next]_vars
  PROVE  /\ MemberList = IF HasData = {} THEN {} ELSE Members(InitialGroup)
         /\ MemberList' = IF HasData' = {} THEN {} ELSE Members(InitialGroup)'
<1>1. DataOfInitial'
  BY DataOfInitialStep
<1>2. MemberList = IF HasData = {} THEN {} ELSE Members(InitialGroup)
  <2>1. \A h \in Host : cid[h] # {} => cid[h] = InitialGroup
    BY DEF DataOfInitial
  <2> QED
    BY <2>1 DEF MemberList, HasData, Members
<1>3. MemberList' = IF HasData' = {} THEN {} ELSE Members(InitialGroup)'
  <2>1. \A h \in Host : cid'[h] # {} => cid'[h] = InitialGroup
    BY <1>1 DEF DataOfInitial
  <2> QED
    BY <2>1 DEF MemberList, HasData, Members
<1> QED
  BY <1>2, <1>3

\* A step of the role is a step of EtcdMembership or changes neither the
\* member list nor the members with data.
LEMMA MembershipStep ==
  ASSUME TypeInv, UpHasData, EnvOfInitial, DataOfInitial, [Next]_vars, ~blind'
  PROVE  [Membership!Next]_<<MemberList, HasData, blind>>
<1> USE DEF TypeInv, TypeOK, ServerTypeOK
<1>0. blind' = blind
  BY BlindStays, TypeStep
<1>1. CASE cid' = cid /\ added' = added
  BY <1>0, <1>1 DEF MemberList, HasData, Members
<1>2. ASSUME NEW h \in Host, LaunchProcess(h), cid' # cid
      PROVE  Membership!Next
  <2>1. PICK c \in LaunchInto(h) : cid' = [cid EXCEPT ![h] = c]
    BY <1>2 DEF LaunchProcess, Launch
  <2>2. c = InitialGroup /\ h \in Members(InitialGroup) /\ added' = added
    BY <1>2, <2>1, LaunchesInitial DEF LaunchProcess, Launch
  <2>3. h \notin HasData /\ HasData' = HasData \cup {h}
    <3>1. cid[h] = {}
      BY <1>2, <2>1, <2>2 DEF DataOfInitial
    <3> QED
      BY <2>1, <2>2, <3>1, GroupAssumption DEF HasData
  <2>4. Members(InitialGroup)' = Members(InitialGroup)
    BY <2>2 DEF Members
  <2>5. MemberList' = Members(InitialGroup)
    BY <2>3, <2>4, MemberLists
  <2>6. CASE HasData = {}
    <3>1. MemberList = {} /\ Members(InitialGroup) \in SUBSET Host
      BY <2>6, MemberLists, GroupAssumption DEF Members
    <3> QED
      BY <1>0, <2>2, <2>3, <2>5, <2>6, <3>1
         DEF Membership!Next, Membership!Extend, Membership!Bootstrap, MemberList, HasData
  <2>7. CASE HasData # {}
    <3>1. MemberList = Members(InitialGroup)
      BY <2>7, MemberLists
    <3> QED
      BY <1>0, <2>2, <2>3, <2>5, <3>1
         DEF Membership!Next, Membership!Extend, Membership!Start, MemberList, HasData
  <2> QED
    BY <2>6, <2>7
<1>3. ASSUME NEW h \in Host, NEW c \in Answering, MemberAdd(h, c), cid' = cid
      PROVE  Membership!Next
  <2>1. PICK p \in group \cap up : c = cid[p] /\ cid[p] # {}
    BY <1>3 DEF Answering, Reachable, UpHasData
  <2>2. c = InitialGroup /\ HasData # {} /\ HasData' = HasData
    BY <1>3, <2>1 DEF DataOfInitial, HasData
  <2>3. Members(InitialGroup)' = Members(InitialGroup) \cup {h}
    BY <1>3, <2>2 DEF MemberAdd, Members
  <2>4. MemberList = Members(InitialGroup) /\ MemberList' = MemberList \cup {h}
    BY <2>2, <2>3, MemberLists
  <2>5. MemberList = HasData /\ h \notin MemberList
    <3>1. Members(InitialGroup) \subseteq HasData
      BY <1>3, <2>2, GroupAssumption DEF MemberAdd, Live, HasData, Members
    <3>2. HasData \subseteq Members(InitialGroup)
      BY DEF HasData, DataOfInitial
    <3> QED
      BY <1>3, <2>2, <2>4, <3>1, <3>2 DEF MemberAdd
  <2> QED
    BY <1>0, <2>2, <2>4, <2>5
       DEF Membership!Next, Membership!Extend, Membership!Add, MemberList, HasData
<1>4. ASSUME NEW h \in Host, LaunchProcess(h)
      PROVE  added' = added
  BY <1>4 DEF LaunchProcess, Launch
<1>5. ASSUME NEW h \in Host, AddMember(h)
      PROVE  cid' = cid
  BY <1>5 DEF AddMember
<1> QED
  BY <1>1, <1>2, <1>3, <1>4, <1>5, Writers DEF AddMember

\* The role implements EtcdMembership, whose promise ends with a health check that
\* is blind: one bootstrap, then members that are added one at a time, each while
\* all earlier ones have started (join_etcd_member.yml, docs/nodes.md:154-155).
THEOREM RoleImplements ==
  ASSUME Undisturbed
  PROVE  Spec => ImplementsMembership
<1>1. Init => Membership!Init
  BY DEF Init, ServerInit, Membership!Init
<1>2. Inv /\ OneUnlessBlind /\ [Next]_vars => [Membership!Next]_(Membership!mvars)
  <2> SUFFICES ASSUME Inv, OneUnlessBlind, [Next]_vars
               PROVE  [Membership!Next]_(Membership!mvars)
    OBVIOUS
  <2>1. CASE blind'
    BY <2>1 DEF Membership!Next
  <2>2. CASE ~blind'
    <3>1. OneInv
      BY <2>2, BlindStays DEF OneUnlessBlind, Inv
    <3> QED
      BY <2>2, <3>1, MembershipStep DEF Inv, OneInv, MemberList, HasData, Membership!mvars
  <2> QED
    BY <2>1, <2>2
<1> QED
  BY <1>1, <1>2, Invariance, OneInvariance, PTL DEF Spec, ImplementsMembership, Membership!Spec
-----------------------------------------------------------------------------
(***************************************************************************)
(* Third part: without crashes, lost answers and aborts, the only task of    *)
(* roles/etcd that can fail is the restart in the handlers, and then nothing *)
(* is left to restart.  The argument follows every member of the cluster     *)
(* through the play: before a play it can come up again; at its begin it is  *)
(* up; a new one is added when all others are up, and gets the etcd.env with *)
(* which it can come up.                                                     *)
(***************************************************************************)

TheMembers == Members(InitialGroup)

\* started again, or for the first time, m comes up while another member is up
CanLaunch(m) ==
  \/ cid[m] = InitialGroup
  \/ env[m] = [state |-> "new", peers |-> InitialGroup]
  \/ env[m] = [state |-> "existing", peers |-> TheMembers]

AllCanLaunch ==
  TheMembers \subseteq svc /\ Started # {} /\ \A m \in TheMembers : CanLaunch(m)

AllUp == TheMembers \subseteq up

\* no play has ended yet
Deploying == group = InitialGroup /\ TheMembers = InitialGroup

\* what a play finds
BetweenPlays ==
  /\ pc = "idle" => AllCanLaunch \/ (Deploying /\ svc = {})
  /\ pc \in {"ok", "failed"} => AllCanLaunch
  /\ pc = "failed" => stale = {}
  /\ pc \in Between \cup {"install", "probe", "refresh1", "start", "wait"} => inCluster = {}

\* the members are up, or are about to bootstrap the cluster
UntilWait ==
  /\ pc \in {"install", "probe"} => AllUp \/ (Deploying /\ svc = {})
  /\ pc \in {"refresh1", "start", "wait"} =>
       IF healthy THEN AllUp
       ELSE /\ Deploying
            /\ \A h \in group : \/ pc = "refresh1" /\ h \in todo
                                \/ env[h] = [state |-> "new", peers |-> InitialGroup]
  /\ pc \in {"probe", "wait"} => todo = group
  /\ pc = "start" => group \ todo \subseteq svc /\ issued \subseteq svc
  /\ pc \in {"wait"} \cup AfterWait => group \subseteq svc

\* the registered results tell who is a member, and a host being joined is the
\* only member without an etcd.env with which it can come up
WhileJoining ==
  /\ pc \in AfterWait \ {"reload", "waitUp"} => Started \subseteq up
  /\ pc \in AfterWait \ {"refreshJoiner"} => AllCanLaunch
  /\ pc = "members" => inCluster = TheMembers \ todo
  /\ pc \in {"include", "pick", "add", "startJoiner"} => inCluster = TheMembers
  /\ pc \in {"pick", "refreshJoiner", "ensureMember", "startJoiner"} =>
       joiners = group \ TheMembers
  /\ pc = "add" => \E h \in group \ TheMembers :
                     todo = {h} /\ joiners = group \ (TheMembers \cup {h})
  /\ pc \in {"refreshJoiner", "ensureMember"} =>
       /\ inCluster = TheMembers \ todo
       /\ \E h \in TheMembers : todo = {h}
       /\ TheMembers \ todo \subseteq Started /\ Started # {}
  /\ pc = "startJoiner" => issued = {} /\ \E h \in Host : todo = {h}
  /\ pc \in AfterJoins \ {"ok"} => TheMembers = group

Progress ==
  TheMembers \subseteq group /\ BetweenPlays /\ UntilWait /\ WhileJoining

\* a play of the etcd tasks in which nothing fails that is not the role's doing
Calm == Undisturbed /\ ~Events /\ Overlap = {}

Context == Calm /\ Inv /\ OneInv /\ Progress /\ StaleNotified

-----------------------------------------------------------------------------
\* The members are hosts, the initial ones among them.
LEMMA MembersAreHosts ==
  /\ TheMembers \in SUBSET Host /\ InitialGroup \subseteq TheMembers /\ TheMembers # {}
  /\ Started \subseteq TheMembers
  /\ IsFiniteSet(TheMembers) /\ Cardinality(TheMembers) \in Nat \ {0}
<1>1. TheMembers \in SUBSET Host /\ InitialGroup \subseteq TheMembers /\ TheMembers # {}
  BY GroupAssumption DEF TheMembers, Members
<1>2. IsFiniteSet(TheMembers)
  BY <1>1, HostAssumption, FS_Subset
<1>3. Cardinality(TheMembers) \in Nat /\ Cardinality(TheMembers) # 0
  BY <1>1, <1>2, FS_CardinalityType, FS_EmptySet
<1> QED
  BY <1>1, <1>2, <1>3 DEF Started, TheMembers

\* Steps that leave the cluster and its files alone.
LEMMA ClusterKept ==
  ASSUME UNCHANGED <<cid, added>>
  PROVE  /\ TheMembers' = TheMembers /\ Started' = Started
         /\ group' = group => (Deploying' <=> Deploying)
         /\ up \subseteq up' /\ AllUp => AllUp'
         /\ env' = env /\ svc \subseteq svc' /\ AllCanLaunch => AllCanLaunch'
<1>1. TheMembers' = TheMembers /\ Started' = Started
  BY DEF TheMembers, Members, Started
<1> QED
  BY <1>1 DEF Deploying, AllUp, AllCanLaunch, CanLaunch

\* When systemd's restarts are over, the members that can come up are up.
LEMMA ComeUp ==
  ASSUME Context, AllCanLaunch, Settled
  PROVE  AllUp
<1> USE DEF Context, Inv, OneInv, TypeInv, TypeOK, ServerTypeOK
<1>1. ASSUME NEW m \in TheMembers, cid[m] = InitialGroup PROVE m \in up
  BY <1>1, GroupAssumption DEF Settled, LaunchInto, AllCanLaunch
<1>2. PICK s \in Started : s \in up
  BY <1>1 DEF AllCanLaunch, Started, TheMembers
<1>3. ASSUME NEW m \in TheMembers, m \notin up PROVE FALSE
  <2>1. m \in svc \ up /\ LaunchInto(m) = {} /\ cid[m] # InitialGroup /\ CanLaunch(m) /\ m \in Host
    BY <1>1, <1>3, MembersAreHosts DEF Settled, AllCanLaunch
  <2>2. cid[m] = {}
    BY <2>1 DEF DataOfInitial
  <2>3. env[m].state # "new"
    BY <2>1, <2>2, GroupAssumption DEF LaunchInto, EnvOfInitial
  <2>4. env[m] = [state |-> "existing", peers |-> TheMembers]
    BY <2>1, <2>3 DEF CanLaunch
  <2>5. s \in TheMembers /\ cid[s] = InitialGroup
    BY <1>2 DEF Started, TheMembers
  <2>6. Members(cid[s]) = env[m].peers /\ s \in env[m].peers \cap up
    BY <1>2, <2>4, <2>5 DEF TheMembers
  <2>7. cid[s] \in LaunchInto(m)
    BY <2>2, <2>3, <2>6 DEF LaunchInto
  <2> QED
    BY <2>1, <2>7
<1> QED
  BY <1>3 DEF AllUp

\* A cluster whose members are up is healthy, and is the one that answers.
LEMMA UpIsHealthy ==
  ASSUME Context, AllUp
  PROVE  /\ Live(InitialGroup) = TheMembers /\ Started = TheMembers
         /\ HasQuorum(InitialGroup) /\ Healthy(InitialGroup)
         /\ Reachable(group) = {InitialGroup}
<1> USE DEF Context, Inv, OneInv
<1>1. \A m \in TheMembers : m \in up /\ cid[m] = InitialGroup
  BY MembersAreHosts DEF AllUp, UpHasData, DataOfInitial
<1>2. Live(InitialGroup) = TheMembers /\ Started = TheMembers
  BY <1>1 DEF Live, Started, TheMembers
<1>3. HasQuorum(InitialGroup)
  <2>1. 2 * Cardinality(TheMembers) > Cardinality(TheMembers)
    BY MembersAreHosts
  <2> QED
    BY <1>2, <2>1 DEF HasQuorum, TheMembers
<1>4. Healthy(InitialGroup)
  BY <1>1, <1>3 DEF Healthy, TheMembers
<1>5. PICK m \in TheMembers : m \in group \cap up
  BY <1>1, MembersAreHosts DEF Progress
<1>6. \A h \in group \cap up : cid[h] = InitialGroup
  BY DEF UpHasData, DataOfInitial, TypeInv, TypeOK
<1>7. Reachable(group) = {InitialGroup}
  BY <1>5, <1>6 DEF Reachable
<1> QED
  BY <1>2, <1>3, <1>4, <1>7

\* After the wait the cluster answers, and no other does.
LEMMA ClusterAnswers ==
  ASSUME Context, pc \in AfterWait \ {"reload", "waitUp"}
  PROVE  /\ Answering = {InitialGroup} /\ HasQuorum(InitialGroup)
         /\ Live(InitialGroup) = Started /\ healthy
         /\ \A h : Listed(h, InitialGroup) <=> h \in TheMembers
<1> USE DEF Context, Inv, OneInv
<1>1. Live(InitialGroup) = Started
  BY DEF Progress, WhileJoining, Live, Started
<1>2. HasQuorum(InitialGroup)
  BY <1>1 DEF MostOnceSeen, MostStarted, HasQuorum
<1>3. \A h \in group \cap up : cid[h] = InitialGroup
  BY DEF UpHasData, DataOfInitial, TypeInv, TypeOK
<1>4. Reachable(group) = {InitialGroup}
  BY <1>3 DEF Reachable, SomeUp
<1> QED
  BY <1>1, <1>2, <1>4 DEF Answering, HealthyKnown, Listed, TheMembers, Calm
-----------------------------------------------------------------------------
\* The start of a bootstrapping member does not give up, a joining one is started
\* already, and the start in a running cluster is allowed to fail.
LEMMA StartsSucceed ==
  ASSUME Context, NEW h \in Host, StartFails(h)
  PROVE  FALSE
<1> USE DEF Context, Inv, OneInv, TypeInv, TypeOK, ServerTypeOK
<1>1. pc \in StartTasks /\ h \in todo /\ ~StartErrorsIgnored /\ StartGivesUp(h)
  BY DEF StartFails
<1>2. pc = "start" /\ ~healthy
  <2>1. h \in issued
    BY <1>1 DEF StartGivesUp
  <2>2. pc # "startJoiner"
    BY <2>1 DEF Progress, WhileJoining
  <2> QED
    BY <1>1, <2>2 DEF StartTasks, StartErrorsIgnored, Calm
<1>3. /\ Deploying /\ issued \subseteq svc /\ group \ todo \subseteq svc
      /\ \A g \in group : env[g] = [state |-> "new", peers |-> InitialGroup]
  BY <1>2 DEF Progress, UntilWait
<1>4. \A g \in group : LaunchInto(g) # {}
  <2>1. \A g \in group : env[g].state = "new" /\ env[g].peers # {}
    BY <1>3, GroupAssumption
  <2> QED
    BY <2>1 DEF LaunchInto
<1>5. h \in group
  BY <1>1 DEF InGroup
<1>6. Settled /\ todo \subseteq issued /\ ~Ready(h)
  BY <1>1, <1>4, <1>5 DEF StartGivesUp
<1>7. group \subseteq up
  BY <1>3, <1>4, <1>6 DEF Settled
<1>8. AllUp
  BY <1>3, <1>7 DEF AllUp, Deploying
<1>9. h \in up /\ cid[h] = InitialGroup
  BY <1>5, <1>7 DEF UpHasData, DataOfInitial
<1> QED
  BY <1>6, <1>8, <1>9, UpIsHealthy DEF Ready

\* The wait ends: either the members are up, or all of them bootstrap.
LEMMA WaitSucceeds ==
  ASSUME Context, WaitTimesOut
  PROVE  FALSE
<1> USE DEF Context, Inv, OneInv, TypeInv, TypeOK, ServerTypeOK
<1>1. pc = "wait" /\ Settled /\ \A c \in Reachable(group) : ~Healthy(c)
  BY DEF WaitTimesOut
<1>2. CASE healthy
  BY <1>1, <1>2, UpIsHealthy DEF Progress, UntilWait
<1>3. CASE ~healthy
  <2>1. /\ Deploying /\ group \subseteq svc
        /\ \A g \in group : env[g] = [state |-> "new", peers |-> InitialGroup]
    BY <1>1, <1>3 DEF Progress, UntilWait
  <2>2. \A g \in group : LaunchInto(g) # {}
    <3>1. \A g \in group : env[g].state = "new" /\ env[g].peers # {}
      BY <2>1, GroupAssumption
    <3> QED
      BY <3>1 DEF LaunchInto
  <2>3. AllUp
    BY <1>1, <2>1, <2>2 DEF Settled, AllUp, Deploying
  <2> QED
    BY <1>1, <2>3, UpIsHealthy
<1> QED
  BY <1>2, <1>3

\* Adding a member fails only while a member is down that can still come up.
LEMMA AddSucceeds ==
  ASSUME Context, NEW h \in Host, AddFails(h)
  PROVE  FALSE
<1> USE DEF Context, Inv, OneInv
<1>1. /\ pc = "add" /\ h \in todo /\ Settled
      /\ \A c \in Answering : IF h \in Members(c) THEN Events ELSE Members(c) # Live(c)
  BY DEF AddFails
<1>2. AllCanLaunch /\ h \notin TheMembers
  BY <1>1 DEF Progress, WhileJoining, AfterWait
<1>3. AllUp
  BY <1>1, <1>2, ComeUp
<1>4. Answering = {InitialGroup}
  BY <1>1, ClusterAnswers DEF AfterWait
<1> QED
  BY <1>1, <1>2, <1>3, <1>4, UpIsHealthy DEF TheMembers

\* The member just added is in the list.
LEMMA EnsuringSucceeds ==
  ASSUME Context, NEW h \in Host, EnsureMemberFails(h)
  PROVE  FALSE
<1>1. pc = "ensureMember" /\ h \in todo /\ \A c \in Answering : ~Listed(h, c)
  BY DEF EnsureMemberFails
<1>2. h \in TheMembers
  BY <1>1 DEF Context, Progress, WhileJoining
<1> QED
  BY <1>1, <1>2, ClusterAnswers DEF AfterWait

\* A restart fails only when no member is up, or when it has been issued on all.
LEMMA FailedRestart ==
  ASSUME Context, NEW h \in Host, RestartFails(h)
  PROVE  stale = {}
<1> USE DEF Context, Inv, OneInv, TypeInv, TypeOK, ServerTypeOK
<1>1. pc = "reload" /\ h \in issued
  BY DEF RestartFails, StartGivesUp
<1>2. /\ TheMembers = group /\ AllCanLaunch /\ stale \subseteq todo \ issued
      /\ stale \subseteq group /\ h \in group
  BY <1>1 DEF Progress, WhileJoining, StaleNotified, AfterWait, AfterJoins, InGroup
<1>3. CASE h \notin up /\ LaunchInto(h) = {}
  <2>1. cid[h] = {}
    BY <1>3 DEF LaunchInto
  <2>2. env[h] = [state |-> "existing", peers |-> TheMembers]
    BY <1>1, <1>2 DEF EnvFinal, FinalEnv
  <2>3. ASSUME NEW s \in group, s \in up PROVE FALSE
    <3>1. cid[s] = InitialGroup
      BY <2>3 DEF UpHasData, DataOfInitial
    <3>2. s \in env[h].peers \cap up /\ Members(cid[s]) = env[h].peers /\ env[h].state # "new"
      BY <1>2, <2>2, <2>3, <3>1 DEF TheMembers
    <3>3. cid[s] \in LaunchInto(h)
      BY <2>1, <3>2 DEF LaunchInto
    <3> QED
      BY <1>3, <3>3
  <2> QED
    BY <1>2, <2>3
<1>4. CASE todo \subseteq issued
  BY <1>2, <1>4
<1> QED
  BY <1>3, <1>4 DEF RestartFails, StartGivesUp
-----------------------------------------------------------------------------
\* A play begins with all members up, or with none.
LEMMA StartPlayProgress ==
  ASSUME Context, StartPlay
  PROVE  Progress'
<1> USE DEF Context, Progress
<1>1. /\ pc \in Between /\ Settled /\ pc' = "install" /\ todo' = group
      /\ UNCHANGED <<env, svc, up, cid, added, group, inCluster>>
  BY DEF StartPlay, Calm, Undisturbed, world, serverVars, facts
<1>2. AllUp \/ (Deploying /\ svc = {})
  BY <1>1, ComeUp DEF BetweenPlays, Between
<1>3. (AllUp \/ (Deploying /\ svc = {}))' /\ TheMembers' = TheMembers
  BY <1>1, <1>2, ClusterKept
<1> QED
  BY <1>1, <1>3 DEF BetweenPlays, UntilWait, WhileJoining, Between, AfterWait, AfterJoins

LEMMA InstallProgress ==
  ASSUME Context, NEW h \in Host, Install(h)
  PROVE  Progress'
<1> USE DEF Context, Progress
<1>1. /\ pc = "install" /\ pc' \in {"install", "probe"} /\ (pc' = "probe" => todo' = group)
      /\ UNCHANGED <<env, svc, up, cid, added, group, inCluster>>
  BY DEF Install, HostDone, facts
<1>2. (AllUp \/ (Deploying /\ svc = {}))' /\ TheMembers' = TheMembers
  BY <1>1, ClusterKept DEF UntilWait
<1> QED
  BY <1>1, <1>2 DEF BetweenPlays, UntilWait, WhileJoining, Between, AfterWait, AfterJoins

\* The probe finds the members up, or nobody.
LEMMA ProbeProgress ==
  ASSUME Context, Probe, faults' = faults
  PROVE  Progress'
<1> USE DEF Context, Progress
<1>1. /\ pc = "probe" /\ pc' = "refresh1" /\ todo = group /\ todo' = todo
      /\ UNCHANGED <<env, svc, up, cid, added, group, inCluster>>
  BY DEF Probe, world, serverVars, UntilWait
<1>2. IF healthy' THEN AllUp ELSE Deploying
  <2>0. \/ \E c \in Reachable(group) : healthy' = Healthy(c)
        \/ Reachable(group) = {} /\ healthy' = FALSE
    BY BoundAssumption DEF Probe, Inv, TypeInv, TypeOK
  <2>1. CASE AllUp
    BY <2>0, <2>1, UpIsHealthy
  <2>2. CASE Deploying /\ svc = {}
    <3>1. up = {}
      BY <2>2 DEF Inv, TypeInv, TypeOK, ServerTypeOK
    <3> QED
      BY <2>0, <2>2, <3>1 DEF Reachable
  <2> QED
    BY <1>1, <2>1, <2>2 DEF UntilWait
<1>3. (IF healthy THEN AllUp ELSE Deploying)' /\ TheMembers' = TheMembers
  BY <1>1, <1>2, ClusterKept
<1> QED
  BY <1>1, <1>3 DEF BetweenPlays, UntilWait, WhileJoining, Between, AfterWait, AfterJoins

\* The first template task prepares a bootstrap of the initial group.
LEMMA Refresh1Progress ==
  ASSUME Context, NEW h \in Host, Refresh1(h)
  PROVE  Progress'
<1> USE DEF Context, Progress
<1>1. /\ pc = "refresh1" /\ h \in todo /\ env' = [env EXCEPT ![h] = EnvContent(group)]
      /\ \/ pc' = "refresh1" /\ todo' = todo \ {h}
         \/ pc' = "start" /\ todo = {h} /\ todo' = group
      /\ issued = {} /\ issued' = {}
      /\ UNCHANGED <<svc, up, cid, added, group, inCluster, healthy>>
  BY DEF Refresh1, RefreshTask, WriteEnv, HostDone, facts, Inv, TypeInv, IssuedInTask
<1>2. TheMembers' = TheMembers /\ (AllUp => AllUp') /\ (Deploying => Deploying')
  BY <1>1, ClusterKept
<1>3. CASE healthy
  BY <1>1, <1>2, <1>3 DEF BetweenPlays, UntilWait, WhileJoining, Between, AfterWait, AfterJoins
<1>4. CASE ~healthy
  <2>1. Deploying /\ \A g \in group : g \in todo \/ env[g] = [state |-> "new", peers |-> InitialGroup]
    BY <1>1, <1>4 DEF UntilWait
  <2>2. EnvContent(group) = [state |-> "new", peers |-> InitialGroup]
    BY <1>4, <2>1 DEF EnvContent, Deploying
  <2>3. \A g \in group : \/ pc' = "refresh1" /\ g \in todo'
                         \/ env'[g] = [state |-> "new", peers |-> InitialGroup]
    BY <1>1, <2>1, <2>2 DEF Inv, TypeInv, TypeOK, ServerTypeOK
  <2> QED
    BY <1>1, <1>2, <1>4, <2>1, <2>3
       DEF BetweenPlays, UntilWait, WhileJoining, Between, AfterWait, AfterJoins
<1> QED
  BY <1>3, <1>4

\* A unit that is to be started is one of a host outside the cluster, or of the
\* first deployment.
LEMMA IssueStartProgress ==
  ASSUME Context, NEW h \in Host, IssueStart(h)
  PROVE  Progress'
<1> USE DEF Context, Progress
<1>1. /\ pc \in StartTasks /\ pc' = pc /\ h \in todo \ svc /\ svc' = svc \cup {h}
      /\ issued' = issued \cup {h}
      /\ UNCHANGED <<env, up, cid, added, group, todo, inCluster, healthy>>
  BY DEF IssueStart, facts
<1>2. pc = "start"
  BY <1>1 DEF StartTasks, UntilWait, AfterWait, OneInv, InGroup
<1>3. TheMembers' = TheMembers /\ (AllUp => AllUp') /\ (Deploying => Deploying')
  BY <1>1, ClusterKept
<1> QED
  BY <1>1, <1>2, <1>3 DEF BetweenPlays, UntilWait, WhileJoining, Between, AfterWait, AfterJoins

LEMMA StartReturnsProgress ==
  ASSUME Context, NEW h \in Host, StartReturns(h)
  PROVE  Progress'
<1> USE DEF Context, Progress
<1>1. /\ pc \in StartTasks /\ h \in todo /\ (h \in svc \ issued \/ h \in issued)
      /\ UNCHANGED <<env, svc, up, cid, added, group, inCluster, joiners, healthy>>
  BY DEF StartReturns, StartGivesUp, world, serverVars, facts
<1>2. /\ TheMembers' = TheMembers /\ Started' = Started /\ (AllUp => AllUp')
      /\ (Deploying => Deploying') /\ (AllCanLaunch => AllCanLaunch')
  BY <1>1, ClusterKept
<1>3. CASE pc = "start"
  <2>1. /\ h \in svc /\ issued' \subseteq svc
        /\ \/ pc' = "start" /\ todo' = todo \ {h}
           \/ pc' = "wait" /\ todo = {h} /\ todo' = group
    BY <1>1, <1>3 DEF StartReturns, HostDone, AfterStart, UntilWait
  <2> QED
    BY <1>1, <1>2, <1>3, <2>1 DEF BetweenPlays, UntilWait, WhileJoining, Between, AfterWait, AfterJoins
<1>4. CASE pc = "startJoiner"
  <2>1. pc' = "pick"
    BY <1>1, <1>4 DEF StartReturns, HostDone, AfterStart, WhileJoining
  <2> QED
    BY <1>1, <1>2, <1>4, <2>1 DEF BetweenPlays, UntilWait, WhileJoining, Between, AfterWait, AfterJoins
<1> QED
  BY <1>1, <1>3, <1>4 DEF StartTasks

\* After the wait every member can come up again, and those with data are up.
LEMMA WaitProgress ==
  ASSUME Context, WaitHealthy
  PROVE  Progress'
<1> USE DEF Context, Progress
<1>1. /\ pc = "wait" /\ pc' = "members" /\ todo = group /\ group \subseteq svc /\ inCluster = {}
      /\ UNCHANGED <<env, svc, up, cid, added, group, todo, inCluster>>
  BY DEF WaitHealthy, world, serverVars, UntilWait, BetweenPlays
<1>2. TheMembers' = TheMembers /\ Started' = Started /\ (AllCanLaunch => AllCanLaunch')
  BY <1>1, ClusterKept
<1>3. PICK g \in group \cap up : Healthy(cid[g])
  BY DEF WaitHealthy, Reachable
<1>4. cid[g] = InitialGroup /\ g \in Started
  BY <1>3 DEF Inv, OneInv, UpHasData, DataOfInitial, TypeInv, TypeOK, Started
<1>5. Started \subseteq up
  BY <1>3, <1>4 DEF Healthy, Started
<1>6. ASSUME NEW m \in TheMembers PROVE CanLaunch(m)
  <2>1. CASE healthy
    BY <1>1, <2>1, <1>6, UpIsHealthy DEF UntilWait, Started, CanLaunch
  <2>2. CASE ~healthy
    BY <1>1, <2>2, <1>6 DEF UntilWait, CanLaunch
  <2> QED
    BY <2>1, <2>2
<1>7. AllCanLaunch
  BY <1>1, <1>4, <1>6 DEF AllCanLaunch
<1> QED
  BY <1>1, <1>2, <1>5, <1>7 DEF BetweenPlays, UntilWait, WhileJoining, Between, AfterWait, AfterJoins
-----------------------------------------------------------------------------
\* The check of a host registers whether it is a member.
LEMMA CheckMemberProgress ==
  ASSUME Context, NEW h \in Host, CheckMember(h), faults' = faults
  PROVE  Progress'
<1> USE DEF Context, Progress
<1>1. /\ pc = "members" /\ h \in todo /\ inCluster = TheMembers \ todo /\ todo \subseteq group
      /\ \/ pc' = "members" /\ todo' = todo \ {h}
         \/ pc' = "include" /\ todo = {h}
      /\ UNCHANGED <<env, svc, up, cid, added, group, joiners, healthy>>
  BY DEF CheckMember, HostDone, world, serverVars, WhileJoining, OneInv, InGroup
<1>2. /\ TheMembers' = TheMembers /\ Started' = Started /\ (AllCanLaunch => AllCanLaunch')
  BY <1>1, ClusterKept
<1>3. inCluster' = IF h \in TheMembers THEN inCluster \cup {h} ELSE inCluster
  <2>1. Answering = {InitialGroup} /\ (Listed(h, InitialGroup) <=> h \in TheMembers)
    BY <1>1, ClusterAnswers DEF AfterWait
  <2>2. faults' # faults + 1
    BY DEF Inv, TypeInv, TypeOK
  <2> QED
    BY <2>1, <2>2 DEF CheckMember
<1>4. pc' = "members" => inCluster' = TheMembers \ todo'
  BY <1>1, <1>3
<1>5. pc' = "include" => inCluster' = TheMembers
  BY <1>1, <1>3
<1> QED
  BY <1>1, <1>2, <1>4, <1>5 DEF BetweenPlays, UntilWait, WhileJoining, Between, AfterWait, AfterJoins

\* The loop joins the hosts that are not members, one at a time.
LEMMA LoopProgress ==
  ASSUME Context, IncludeJoins \/ JoinsDone \/ \E h \in Host : PickJoiner(h)
  PROVE  Progress'
<1> USE DEF Context, Progress
<1>1. UNCHANGED <<env, svc, up, cid, added, group, healthy, inCluster>> /\ pc \in {"include", "pick"}
  BY DEF IncludeJoins, JoinsDone, PickJoiner, world, serverVars, facts
<1>2. /\ TheMembers' = TheMembers /\ Started' = Started /\ (AllCanLaunch => AllCanLaunch')
  BY <1>1, ClusterKept
<1>3. /\ inCluster = TheMembers /\ AllCanLaunch /\ Started \subseteq up /\ healthy
      /\ group \subseteq svc
  BY <1>1, ClusterAnswers DEF WhileJoining, AfterWait, UntilWait
<1> USE DEF BetweenPlays, UntilWait, WhileJoining, Between, AfterWait, AfterJoins
<1>4. CASE IncludeJoins
  <2>1. pc' = "pick" /\ joiners' = group \ TheMembers
    BY <1>3, <1>4 DEF IncludeJoins
  <2> QED
    BY <1>1, <1>2, <1>3, <2>1
<1>5. CASE JoinsDone
  <2>1. pc' = "refresh2" /\ TheMembers = group
    BY <1>5 DEF JoinsDone
  <2> QED
    BY <1>1, <1>2, <1>3, <2>1
<1>6. ASSUME NEW h \in Host, PickJoiner(h) PROVE Progress'
  <2>1. /\ pc' = "add" /\ todo' = {h} /\ h \in group \ TheMembers
        /\ joiners' = group \ (TheMembers \cup {h})
    BY <1>6 DEF PickJoiner
  <2> QED
    BY <1>1, <1>2, <1>3, <2>1
<1> QED
  BY <1>4, <1>5, <1>6

\* A member is added while all others are up.
LEMMA AddMemberProgress ==
  ASSUME Context, NEW h \in Host, AddMember(h)
  PROVE  Progress'
<1> USE DEF Context, Progress
<1>1. /\ pc = "add" /\ h \in todo /\ pc' = "refreshJoiner"
      /\ UNCHANGED <<env, svc, up, cid, group, todo, inCluster, joiners, healthy>>
  BY DEF AddMember, facts
<1>2. /\ h \in group \ TheMembers /\ todo = {h} /\ joiners = group \ (TheMembers \cup {h})
      /\ inCluster = TheMembers /\ Started \subseteq up /\ AllCanLaunch /\ group \subseteq svc
  BY <1>1 DEF WhileJoining, AfterWait, UntilWait
<1>3. Answering = {InitialGroup} /\ Live(InitialGroup) = Started
  BY <1>1, ClusterAnswers DEF AfterWait
<1>4. MemberAdd(h, InitialGroup)
  BY <1>2, <1>3 DEF AddMember, TheMembers
<1>5. TheMembers = Started /\ TheMembers' = TheMembers \cup {h}
  BY <1>2, <1>3, <1>4 DEF MemberAdd, TheMembers, Members
<1>6. Started \subseteq Started' /\ Started' \subseteq up
  <2>1. \A g \in Host : cid[g] = InitialGroup => g \in up
    BY <1>2, GroupAssumption DEF OneInv, DataOfInitial, Started
  <2> QED
    BY <1>1, <1>5, <2>1, MembersAreHosts DEF Started, TheMembers
<1>7. Started # {} /\ h \notin Started
  BY <1>2, <1>5 DEF AllCanLaunch
<1> QED
  BY <1>1, <1>2, <1>5, <1>6, <1>7
     DEF BetweenPlays, UntilWait, WhileJoining, Between, AfterWait, AfterJoins

\* The new member gets the etcd.env with which it comes up.
LEMMA RefreshJoinerProgress ==
  ASSUME Context, NEW h \in Host, RefreshJoiner(h)
  PROVE  Progress'
<1> USE DEF Context, Progress
<1>1. /\ pc = "refreshJoiner" /\ h \in todo /\ pc' = "ensureMember"
      /\ env' = [env EXCEPT ![h] = EnvContent((inCluster \cap group) \cup {h})]
      /\ UNCHANGED <<svc, up, cid, added, group, todo, inCluster, joiners, healthy>>
  BY DEF RefreshJoiner, WriteEnv, facts
<1>2. /\ TheMembers' = TheMembers /\ Started' = Started
  BY <1>1, ClusterKept
<1>3. /\ h \in TheMembers /\ todo = {h} /\ inCluster = TheMembers \ {h} /\ joiners = group \ TheMembers
      /\ Started \subseteq up /\ TheMembers \ {h} \subseteq Started /\ Started # {}
      /\ group \subseteq svc
  BY <1>1 DEF WhileJoining, AfterWait, UntilWait
<1>4. EnvContent((inCluster \cap group) \cup {h}) = [state |-> "existing", peers |-> TheMembers]
  <2>1. healthy
    BY <1>1, ClusterAnswers DEF AfterWait
  <2>2. (inCluster \cap group) \cup {h} = TheMembers
    BY <1>3
  <2> QED
    BY <2>1, <2>2 DEF EnvContent
<1>5. ASSUME NEW m \in TheMembers PROVE CanLaunch(m)'
  <2>1. CASE m = h
    <3>1. env'[m] = [state |-> "existing", peers |-> TheMembers]
      BY <1>1, <1>4, <2>1 DEF Inv, TypeInv, TypeOK, ServerTypeOK
    <3> QED
      BY <1>2, <3>1 DEF CanLaunch
  <2>2. CASE m # h
    <3>1. cid'[m] = InitialGroup
      BY <1>1, <1>3, <1>5, <2>2 DEF Started
    <3> QED
      BY <3>1 DEF CanLaunch
  <2> QED
    BY <2>1, <2>2
<1>6. AllCanLaunch'
  BY <1>1, <1>2, <1>3, <1>5 DEF AllCanLaunch
<1> QED
  BY <1>1, <1>2, <1>3, <1>6 DEF BetweenPlays, UntilWait, WhileJoining, Between, AfterWait, AfterJoins

LEMMA EnsureMemberProgress ==
  ASSUME Context, NEW h \in Host, EnsureMember(h)
  PROVE  Progress'
<1> USE DEF Context, Progress
<1>1. /\ pc = "ensureMember" /\ pc' = "startJoiner" /\ h \in todo
      /\ inCluster' = inCluster \cup {h} /\ issued = {} /\ issued' = issued
      /\ UNCHANGED <<env, svc, up, cid, added, group, todo, joiners, healthy>>
  BY DEF EnsureMember, world, serverVars, Inv, TypeInv, IssuedInTask
<1>2. /\ TheMembers' = TheMembers /\ Started' = Started /\ (AllCanLaunch => AllCanLaunch')
  BY <1>1, ClusterKept
<1>3. todo = {h} /\ inCluster' = TheMembers
  BY <1>1 DEF WhileJoining
<1> QED
  BY <1>1, <1>2, <1>3 DEF BetweenPlays, UntilWait, WhileJoining, Between, AfterWait, AfterJoins
-----------------------------------------------------------------------------
\* The last template tasks write the etcd.env with which every member comes up.
LEMMA RefreshProgress ==
  ASSUME Context, NEW h \in Host, Refresh2(h) \/ Refresh3(h)
  PROVE  Progress'
<1> USE DEF Context, Progress
<1>1. /\ pc \in {"refresh2", "refresh3"} /\ pc' \in {"refresh2", "refresh3", "flush"}
      /\ env' = [env EXCEPT ![h] = EnvContent(group)]
      /\ UNCHANGED <<svc, up, cid, added, group, inCluster, healthy>>
  BY DEF Refresh2, Refresh3, RefreshTask, WriteEnv, HostDone, facts
<1>2. TheMembers' = TheMembers /\ Started' = Started
  BY <1>1, ClusterKept
<1>3. TheMembers = group /\ AllCanLaunch /\ Started \subseteq up /\ group \subseteq svc
  BY <1>1 DEF WhileJoining, AfterWait, AfterJoins, UntilWait
<1>4. EnvContent(group) = [state |-> "existing", peers |-> TheMembers]
  BY <1>1, <1>3, ClusterAnswers DEF AfterWait, EnvContent
<1>5. ASSUME NEW m \in TheMembers PROVE CanLaunch(m)'
  <2>1. \/ cid'[m] = InitialGroup \/ env'[m] = [state |-> "new", peers |-> InitialGroup]
        \/ env'[m] = [state |-> "existing", peers |-> TheMembers]
    BY <1>1, <1>3, <1>4, MembersAreHosts
       DEF AllCanLaunch, CanLaunch, Inv, TypeInv, TypeOK, ServerTypeOK
  <2> QED
    BY <1>2, <2>1 DEF CanLaunch
<1>6. AllCanLaunch'
  BY <1>1, <1>2, <1>3, <1>5 DEF AllCanLaunch
<1> QED
  BY <1>1, <1>2, <1>3, <1>6 DEF BetweenPlays, UntilWait, WhileJoining, Between, AfterWait, AfterJoins

\* The handlers stop etcd processes, but none that cannot come up again.
LEMMA HandlersProgress ==
  ASSUME Context,
         Flush \/ \E h \in Host : IssueRestart(h) \/ RestartReturns(h) \/ RestartFails(h) \/ WaitUp(h)
  PROVE  Progress'
<1> USE DEF Context, Progress
<1>1. /\ pc \in {"flush", "reload", "waitUp"} /\ pc' \in {"reload", "waitUp", "ok", "failed"}
      /\ pc' \in Between => inCluster' = {}
      /\ svc \subseteq svc' /\ UNCHANGED <<env, cid, added, group>>
  BY DEF Flush, IssueRestart, RestartReturns, RestartFails, WaitUp, HostDone, EndPlay, Between,
     world, serverVars, StartGivesUp, facts
<1>2. pc' = "failed" => stale' = {}
  <2>1. ASSUME NEW h \in Host, RestartFails(h) PROVE stale' = {}
    BY <2>1, FailedRestart DEF RestartFails, world, serverVars
  <2>2. pc' = "failed" => \E h \in Host : RestartFails(h)
    BY <1>1 DEF Flush, IssueRestart, RestartReturns, RestartFails, WaitUp, HostDone, EndPlay
  <2> QED
    BY <2>1, <2>2
<1>3. /\ TheMembers' = TheMembers /\ (AllCanLaunch => AllCanLaunch')
  BY <1>1, ClusterKept
<1>4. TheMembers = group /\ AllCanLaunch /\ group \subseteq svc
  BY <1>1 DEF WhileJoining, AfterWait, AfterJoins, UntilWait
<1> QED
  BY <1>1, <1>2, <1>3, <1>4 DEF BetweenPlays, UntilWait, WhileJoining, Between, AfterWait, AfterJoins

\* The operator's changes leave the members able to come up.
LEMMA OperatorProgress ==
  ASSUME Context, RaiseVersion \/ \E S \in SUBSET (Host \ group) : GrowGroup(S)
  PROVE  Progress'
<1> USE DEF Context, Progress
<1>1. /\ pc = "ok" /\ pc' = "idle" /\ group \subseteq group'
      /\ UNCHANGED <<env, svc, up, cid, added, inCluster>>
  BY DEF RaiseVersion, GrowGroup, serverVars, facts
<1>2. /\ TheMembers' = TheMembers /\ (AllCanLaunch => AllCanLaunch')
  BY <1>1, ClusterKept
<1> QED
  BY <1>1, <1>2 DEF BetweenPlays, UntilWait, WhileJoining, Between, AfterWait, AfterJoins

\* A process that comes up has the cluster's data.
LEMMA LaunchProgress ==
  ASSUME Context, NEW h \in Host, LaunchProcess(h)
  PROVE  Progress'
<1> USE DEF Context, Progress, Inv, OneInv
<1>1. /\ h \in svc \ up /\ up' = up \cup {h}
      /\ UNCHANGED <<env, svc, added, stale, group, pc, todo, issued, healthy, inCluster, joiners>>
  BY DEF LaunchProcess, Launch, playVars, facts
<1>2. cid' = [cid EXCEPT ![h] = InitialGroup] /\ h \in TheMembers
  <2>1. PICK c \in LaunchInto(h) : cid' = [cid EXCEPT ![h] = c]
    BY DEF LaunchProcess, Launch
  <2> QED
    BY <2>1, LaunchesInitial DEF TheMembers
<1>3. TheMembers' = TheMembers
  BY <1>1 DEF TheMembers, Members
<1>4. Started' = Started \cup {h}
  BY <1>2, <1>3, MembersAreHosts DEF Started, TheMembers, TypeInv, TypeOK, ServerTypeOK
<1>5. (AllUp => AllUp') /\ (Deploying => Deploying')
  BY <1>1, <1>3 DEF AllUp, Deploying
<1>6. AllCanLaunch => AllCanLaunch'
  <2>1. \A m \in TheMembers : CanLaunch(m) => CanLaunch(m)'
    BY <1>1, <1>2, <1>3, MembersAreHosts DEF CanLaunch, TypeInv, TypeOK, ServerTypeOK
  <2> QED
    BY <1>1, <1>3, <1>4, <2>1 DEF AllCanLaunch
<1>7. BetweenPlays'
  BY <1>1, <1>5, <1>6 DEF BetweenPlays, Between
<1>8. UntilWait'
  BY <1>1, <1>5 DEF UntilWait, AfterWait
<1>9. WhileJoining'
  BY <1>1, <1>3, <1>4, <1>6 DEF WhileJoining, AfterWait, AfterJoins
<1> QED
  BY <1>1, <1>3, <1>7, <1>8, <1>9

-----------------------------------------------------------------------------
\* After a failed play the processes are left alone until the next one begins.
LEMMA StaleAfterFailure ==
  ASSUME Context, [Next]_vars, pc = "failed"
  PROVE  stale' = {}
<1>1. stale = {}
  BY DEF Context, Progress, BetweenPlays
<1>2. ASSUME NEW h \in Host, HostTask(h) PROVE FALSE
  BY <1>2 DEF HostTask, Install, Refresh1, Refresh2, Refresh3, RefreshTask, IssueStart,
     StartReturns, StartFails, StartTasks, CheckMember, PickJoiner, AddMember, AddFails,
     RefreshJoiner, EnsureMember, EnsureMemberFails, IssueRestart, RestartReturns, RestartFails,
     WaitUp
<1>3. ~(Probe \/ WaitHealthy \/ WaitTimesOut \/ IncludeJoins \/ JoinsDone \/ Flush \/ Abort
        \/ RaiseVersion \/ \E S \in SUBSET (Host \ group) : GrowGroup(S))
  BY DEF Probe, WaitHealthy, WaitTimesOut, IncludeJoins, JoinsDone, Flush, Abort, RaiseVersion,
     GrowGroup, Tasks
<1>4. CASE StartPlay \/ UNCHANGED vars
  BY <1>1, <1>4 DEF StartPlay, vars, world, serverVars
<1>5. ASSUME NEW h \in Host, LaunchProcess(h) \/ Crash(h) PROVE stale' = {}
  BY <1>1, <1>5 DEF LaunchProcess, Launch, Crash, Stop
<1> QED
  BY <1>2, <1>3, <1>4, <1>5 DEF Next, PlayStep

\* Failures are counted, and never forgotten.
LEMMA FaultsCount ==
  ASSUME TypeInv, [Next]_vars, faults' = 0
  PROVE  faults = 0 /\ blind' = blind
<1> USE DEF TypeInv, TypeOK, budget
<1>0. faults \in Nat
  BY BoundAssumption
<1>1. ASSUME NEW h \in Host, HostTask(h) PROVE faults' \in {faults, faults + 1}
  BY <1>1 DEF HostTask, Install, Refresh1, Refresh2, Refresh3, RefreshTask, IssueStart,
     StartReturns, StartFails, CheckMember, PickJoiner, AddMember, AddFails,
     RefreshJoiner, EnsureMember, EnsureMemberFails, IssueRestart, RestartReturns, RestartFails,
     WaitUp
<1>2. ASSUME StartPlay \/ Probe \/ WaitHealthy \/ WaitTimesOut \/ IncludeJoins \/ JoinsDone
             \/ Flush \/ Abort \/ RaiseVersion \/ UNCHANGED vars
      PROVE  faults' \in {faults, faults + 1}
  BY <1>2 DEF StartPlay, Probe, WaitHealthy, WaitTimesOut, IncludeJoins, JoinsDone, Flush, Abort,
     RaiseVersion, vars
<1>3. ASSUME NEW h \in Host, LaunchProcess(h) \/ Crash(h) PROVE faults' = faults
  BY <1>3 DEF LaunchProcess, Crash
<1>4. ASSUME NEW S \in SUBSET (Host \ group), GrowGroup(S) PROVE faults' = faults
  BY <1>4 DEF GrowGroup
<1>5. faults' \in {faults, faults + 1}
  BY <1>1, <1>2, <1>3, <1>4 DEF Next, PlayStep
<1> QED
  BY <1>0, <1>5, BlindStays

\* The tasks make progress as long as nothing fails that is not their doing.
LEMMA ProgressStep ==
  ASSUME Context, [Next]_vars, faults = 0, faults' = 0
  PROVE  Progress'
<1>1. ASSUME NEW h \in Host, Crash(h) PROVE FALSE
  BY <1>1, BoundAssumption DEF Crash, Context, Calm, Undisturbed, Inv, TypeInv, TypeOK
<1>2. ~Abort
  BY DEF Abort
<1>3. CASE UNCHANGED vars
  <2>1. UNCHANGED <<env, svc, up, cid, added, stale, group, pc, todo, issued, healthy, inCluster, joiners>>
    BY <1>3 DEF vars, world, serverVars, playVars, facts
  <2>2. /\ TheMembers' = TheMembers /\ Started' = Started /\ (Deploying' <=> Deploying)
        /\ (AllCanLaunch => AllCanLaunch') /\ (AllUp => AllUp')
    BY <2>1, ClusterKept
  <2>3. BetweenPlays'
    BY <2>1, <2>2 DEF Context, Progress, BetweenPlays
  <2>4. UntilWait'
    BY <2>1, <2>2 DEF Context, Progress, UntilWait
  <2>5. WhileJoining'
    BY <2>1, <2>2 DEF Context, Progress, WhileJoining
  <2> QED
    BY <2>1, <2>2, <2>3, <2>4, <2>5 DEF Context, Progress
<1>4. ASSUME NEW h \in Host, HostTask(h) PROVE Progress'
  <2>1. CASE Install(h) \/ Refresh1(h) \/ IssueStart(h) \/ StartReturns(h) \/ StartFails(h)
    BY <2>1, InstallProgress, Refresh1Progress, IssueStartProgress, StartReturnsProgress,
       StartsSucceed
  <2>2. CASE CheckMember(h) \/ PickJoiner(h)
    BY <2>2, CheckMemberProgress, LoopProgress
  <2>3. CASE AddMember(h) \/ AddFails(h) \/ RefreshJoiner(h) \/ EnsureMember(h)
             \/ EnsureMemberFails(h)
    BY <2>3, AddMemberProgress, AddSucceeds, RefreshJoinerProgress, EnsureMemberProgress,
       EnsuringSucceeds
  <2>4. CASE Refresh2(h) \/ Refresh3(h)
    BY <2>4, RefreshProgress
  <2>5. CASE IssueRestart(h) \/ RestartReturns(h) \/ RestartFails(h) \/ WaitUp(h)
    BY <2>5, HandlersProgress
  <2> QED
    BY <1>4, <2>1, <2>2, <2>3, <2>4, <2>5 DEF HostTask
<1>5. CASE Probe \/ WaitHealthy \/ WaitTimesOut \/ IncludeJoins \/ JoinsDone \/ Flush
  <2>1. CASE Probe \/ WaitHealthy \/ WaitTimesOut
    BY <2>1, ProbeProgress, WaitProgress, WaitSucceeds
  <2>2. CASE IncludeJoins \/ JoinsDone
    BY <2>2, LoopProgress
  <2>3. CASE Flush
    BY <2>3, HandlersProgress
  <2> QED
    BY <1>5, <2>1, <2>2, <2>3
<1>6. CASE RaiseVersion \/ \E S \in SUBSET (Host \ group) : GrowGroup(S)
  BY <1>6, OperatorProgress
<1> QED
  BY <1>1, <1>2, <1>3, <1>4, <1>5, <1>6, StartPlayProgress, LaunchProgress DEF Next, PlayStep

\* While no task was aborted and no answer lost, the play makes progress.
ProgressInv == faults = 0 => ~blind /\ Progress /\ StaleNotified

LEMMA ProgressInvariance ==
  ASSUME Calm
  PROVE  Spec => []ProgressInv
<1>1. Init => ProgressInv
  <2> SUFFICES ASSUME Init PROVE Progress /\ StaleNotified
    BY DEF ProgressInv, Init
  <2>1. TheMembers = InitialGroup
    BY GroupAssumption DEF Init, ServerInit, TheMembers, Members
  <2> QED
    BY <2>1 DEF Init, ServerInit, Progress, BetweenPlays, UntilWait, WhileJoining, StaleNotified,
       Deploying, Between, Tasks, AfterWait, AfterJoins
<1>2. Inv /\ OneUnlessBlind /\ ProgressInv /\ [Next]_vars => ProgressInv'
  <2> SUFFICES ASSUME Inv, OneUnlessBlind, ProgressInv, [Next]_vars, faults' = 0
               PROVE  ~blind' /\ Progress' /\ StaleNotified'
    BY DEF ProgressInv
  <2>1. faults = 0 /\ ~blind /\ ~blind'
    BY FaultsCount DEF Inv, ProgressInv
  <2>2. Context /\ Progress'
    BY <2>1, ProgressStep DEF Context, ProgressInv, OneUnlessBlind
  <2>3. CASE pc # "failed"
    BY <2>1, <2>2, <2>3, StaleNotifiedStep DEF Context, Inv
  <2>4. CASE pc = "failed"
    BY <2>1, <2>2, <2>4, StaleAfterFailure DEF StaleNotified
  <2> QED
    BY <2>1, <2>2, <2>3, <2>4
<1> QED
  BY <1>1, <1>2, Invariance, OneInvariance, PTL DEF Spec, Calm

\* Restarts are lost by plays that were cut off, and by nothing else: as long as no
\* task was aborted and no answer lost, a play that succeeds leaves no etcd of the
\* group running on an outdated binary or etcd.env, also after plays that failed by
\* themselves (handlers/main.yml, install_host.yml:11, refresh_config.yml:7).
THEOREM RestartsKept ==
  ASSUME Calm
  PROVE  Spec => []RestartsOnlyLostByFailure
<1>1. ProgressInv => RestartsOnlyLostByFailure
  BY DEF ProgressInv, StaleNotified, RestartsOnlyLostByFailure
<1> QED
  BY <1>1, ProgressInvariance, PTL

\* The actions that end a play as failed.
LEMMA FailingSteps ==
  ASSUME [Next]_vars, pc # "failed", pc' = "failed"
  PROVE  \/ Abort \/ WaitTimesOut
         \/ \E h \in Host : StartFails(h) \/ AddFails(h) \/ EnsureMemberFails(h) \/ RestartFails(h)
<1>1. ASSUME NEW h \in Host,
             \/ Install(h) \/ Refresh1(h) \/ Refresh2(h) \/ Refresh3(h)
             \/ StartReturns(h) \/ CheckMember(h) \/ RestartReturns(h)
      PROVE  FALSE
  BY <1>1 DEF Install, Refresh1, Refresh2, Refresh3, RefreshTask, StartReturns, AfterStart,
     CheckMember, RestartReturns, HostDone
<1>2. ASSUME NEW h \in Host,
             \/ IssueStart(h) \/ PickJoiner(h) \/ AddMember(h) \/ RefreshJoiner(h)
             \/ EnsureMember(h) \/ IssueRestart(h) \/ WaitUp(h) \/ LaunchProcess(h) \/ Crash(h)
      PROVE  FALSE
  BY <1>2 DEF IssueStart, PickJoiner, AddMember, RefreshJoiner, EnsureMember, IssueRestart, WaitUp,
     EndPlay, LaunchProcess, Crash, playVars
<1>3. ~(StartPlay \/ Probe \/ WaitHealthy \/ IncludeJoins \/ JoinsDone \/ Flush \/ RaiseVersion
        \/ UNCHANGED vars \/ \E S \in SUBSET (Host \ group) : GrowGroup(S))
  BY DEF StartPlay, Probe, WaitHealthy, IncludeJoins, JoinsDone, Flush, EndPlay, RaiseVersion,
     GrowGroup, vars, playVars
<1> QED
  BY <1>1, <1>2, <1>3 DEF Next, PlayStep, HostTask

\* As long as no task was aborted and no answer lost, the only task of a play that
\* can fail is the restart in the handlers: deploying, extending and upgrading the
\* cluster come to their end (configure.yml:64-84, join_etcd_member.yml).
THEOREM OnlyHandlersFail ==
  ASSUME Calm
  PROVE  Spec => OnlyRestartsFail
<1> DEFINE Fails == pc # "failed" /\ pc' = "failed" /\ faults' = 0 => pc = "reload"
<1>1. Inv /\ OneUnlessBlind /\ ProgressInv /\ [Next]_vars => Fails
  <2> SUFFICES ASSUME Inv, OneUnlessBlind, ProgressInv, [Next]_vars,
                      pc # "failed", pc' = "failed", faults' = 0
               PROVE  pc = "reload"
    OBVIOUS
  <2>1. faults = 0
    BY FaultsCount DEF Inv
  <2>2. Context
    BY <2>1 DEF Context, ProgressInv, OneUnlessBlind
  <2>3. \E h \in Host : RestartFails(h)
    BY <2>1, <2>2, FailingSteps, WaitSucceeds, StartsSucceed, AddSucceeds, EnsuringSucceeds DEF Abort
  <2> QED
    BY <2>3 DEF RestartFails
<1> HIDE DEF Fails
<1>2. Spec => [][Fails]_vars
  BY <1>1, Invariance, OneInvariance, ProgressInvariance, PTL DEF Spec, Calm
<1> QED
  BY <1>2 DEF Fails, OnlyRestartsFail
=============================================================================
