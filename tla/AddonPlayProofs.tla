-------------------------- MODULE AddonPlayProofs --------------------------
(***************************************************************************)
(* Plays of kubernetes-apps whose kube tasks do not depend on a registered   *)
(* change: a play that ends well leaves every add-on current, for any add-ons *)
(* and settings and any number of lost requests, aborts and plays before.    *)
(***************************************************************************)
EXTENDS AddonPlay, KubeModuleProofs

\* the requests of the plays are requests
LEMMA CallRequests ==
  ASSUME NEW o \in Object
  PROVE /\ CleanupRequest(o) \in Request /\ StartRequest(o) \in Request
        /\ StartRequest(o).state \in Appliers /\ StartRequest(o).form = "files"
        /\ StartRequest(o).targets = {o}
BY DEF CleanupRequest, StartRequest, Request, State, Form, Appliers

\* the counters, apart from the rest of the types
Counted ==
  /\ tries \in 0 .. Retries /\ lostAll \in 0 .. MaxLost
  /\ aborts \in 0 .. MaxAborts /\ changes \in 0 .. MaxChanges

LEMMA Counters ==
  ASSUME PlayTypeOK,
         tries' \in {0, tries} \/ (tries < Retries /\ tries' = tries + 1),
         lostAll' = lostAll \/ (lostAll < MaxLost /\ lostAll' = lostAll + 1),
         aborts' = aborts \/ (aborts < MaxAborts /\ aborts' = aborts + 1),
         changes' = changes \/ (changes < MaxChanges /\ changes' = changes + 1)
  PROVE Counted'
<1>1. /\ Counted
      /\ Retries \in Nat /\ MaxLost \in Nat /\ MaxAborts \in Nat /\ MaxChanges \in Nat
  BY PlayAssumption DEF PlayTypeOK, Counted
<1>2. tries' \in 0 .. Retries
  BY <1>1 DEF Counted
<1>3. lostAll' \in 0 .. MaxLost
  BY <1>1 DEF Counted
<1>4. aborts' \in 0 .. MaxAborts
  BY <1>1 DEF Counted
<1>5. changes' \in 0 .. MaxChanges
  BY <1>1 DEF Counted
<1> QED
  BY <1>2, <1>3, <1>4, <1>5 DEF Counted

\* the types apart from the counters and the calls
Registers ==
  /\ wanted \in [Object -> Wanted]
  /\ task \in {"idle", "query", "cleanup", "render", "start"}
  /\ items \subseteq Object /\ running \subseteq items
  /\ ours \subseteq Cleaned /\ changed \subseteq Object
  /\ outcome \in {"none", "ok", "failed"}

\* One task at a time, in it one item at a time, and kubectl runs for an item only.
Serial ==
  /\ running = {} \/ \E o \in Object : running = {o}
  /\ task \notin {"cleanup", "start"} => running = {}
  /\ task = "query" => items \subseteq Cleaned
  /\ running = {} => pc = "idle"

LEMMA CallTypes ==
  ASSUME PlayTypeOK, NEW o \in Object, Call(o)
  PROVE PlayTypeOK'
<1>1. TypeOK'
  BY BeginTypes, CallRequests DEF PlayTypeOK, Call
<1>2. Counted'
  BY Counters DEF Call, Bounds
<1>3. Registers'
  BY DEF PlayTypeOK, Registers, Call
<1> QED
  BY <1>1, <1>2, <1>3 DEF PlayTypeOK, Registers, Counted

LEMMA RegisteredTypes ==
  ASSUME PlayTypeOK, NEW o \in Object, Registered(o)
  PROVE PlayTypeOK'
<1>1. TypeOK'
  BY DEF PlayTypeOK, TypeOK, Registered, kubeVars, call, history
<1>2. Counted'
  <2>1. tries' \in {0, tries} \/ (tries < Retries /\ tries' = tries + 1)
    BY DEF Registered, EndPlay, AttemptsLeft, LoopGoesOn
  <2> QED
    BY <2>1, Counters DEF Registered, Bounds
<1>3. Registers'
  BY DEF PlayTypeOK, Registers, Registered, EndPlay, LoopGoesOn
<1> QED
  BY <1>1, <1>2, <1>3 DEF PlayTypeOK, Registers, Counted

LEMMA PlayStepTypes ==
  ASSUME PlayTypeOK, Serial, PlayStep
  PROVE PlayTypeOK'
<1>1. CASE StartPlay
  <2>1. live' \in [Object -> Existing \cup {Absent}]
    BY <1>1 DEF PlayTypeOK, TypeOK, StartPlay, Existing
  <2>2. TypeOK'
    BY <1>1, <2>1 DEF PlayTypeOK, TypeOK, StartPlay, call, history
  <2>3. Counted'
    BY <1>1, Counters DEF StartPlay, Bounds
  <2>4. Registers'
    BY <1>1, PlayAssumption DEF PlayTypeOK, Serial, Registers, StartPlay
  <2> QED
    BY <2>2, <2>3, <2>4 DEF PlayTypeOK, Registers, Counted
<1>2. CASE NextTask
  <2>1. TypeOK'
    BY <1>2 DEF PlayTypeOK, TypeOK, NextTask, kubeVars, call, history
  <2>2. Counted'
    BY <1>2, Counters DEF NextTask, Bounds
  <2>3. Registers'
    BY <1>2, PlayAssumption DEF PlayTypeOK, Registers, NextTask, ToClean, Started
  <2> QED
    BY <2>1, <2>2, <2>3 DEF PlayTypeOK, Registers, Counted
<1>3. CASE PlayOk
  <2>1. TypeOK'
    BY <1>3 DEF PlayTypeOK, TypeOK, PlayOk, kubeVars, call, history
  <2>2. Counted'
    BY <1>3, Counters DEF PlayOk, EndPlay, Bounds
  <2>3. Registers'
    BY <1>3 DEF PlayTypeOK, Registers, PlayOk, EndPlay
  <2> QED
    BY <2>1, <2>2, <2>3 DEF PlayTypeOK, Registers, Counted
<1>4. CASE ModuleRuns
  BY <1>4, RunTypes DEF PlayTypeOK, ModuleRuns, playVars
<1>5. ASSUME NEW o \in Object, Query(o)
      PROVE PlayTypeOK'
  <2>1. TypeOK'
    BY <1>5 DEF PlayTypeOK, TypeOK, Query, kubeVars, call, history
  <2>2. Counted'
    BY <1>5, Counters DEF Query
  <2>3. Registers'
    BY <1>5 DEF PlayTypeOK, Serial, Registers, Query
  <2> QED
    BY <2>1, <2>2, <2>3 DEF PlayTypeOK, Registers, Counted
<1>6. ASSUME NEW o \in Object, Render(o)
      PROVE PlayTypeOK'
  <2>1. TypeOK'
    BY <1>6 DEF PlayTypeOK, TypeOK, Render, call, history, Wanted
  <2>2. Counted'
    BY <1>6, Counters DEF Render, Bounds
  <2>3. Registers'
    BY <1>6 DEF PlayTypeOK, Serial, Registers, Render
  <2> QED
    BY <2>1, <2>2, <2>3 DEF PlayTypeOK, Registers, Counted
<1>7. CASE PlayFails
  <2>1. TypeOK'
    BY <1>7 DEF PlayTypeOK, TypeOK, PlayFails, kubeVars, call, history
  <2>2. Counted'
    BY <1>7, Counters DEF PlayFails, EndPlay, Bounds
  <2>3. Registers'
    BY <1>7 DEF PlayTypeOK, Registers, PlayFails, EndPlay
  <2> QED
    BY <2>1, <2>2, <2>3 DEF PlayTypeOK, Registers, Counted
<1> QED
  BY <1>1, <1>2, <1>3, <1>4, <1>5, <1>6, <1>7, CallTypes, RegisteredTypes DEF PlayStep

LEMMA PlayNextTypes ==
  ASSUME PlayTypeOK, Serial, [PlayNext]_vars
  PROVE PlayTypeOK'
<1>1. CASE ChangeWanted
  <2>1. TypeOK'
    BY <1>1 DEF PlayTypeOK, TypeOK, ChangeWanted, kubeVars, call, history
  <2>2. Counted'
    BY <1>1, Counters DEF ChangeWanted
  <2>3. Registers'
    BY <1>1 DEF PlayTypeOK, Registers, ChangeWanted
  <2> QED
    BY <2>1, <2>2, <2>3 DEF PlayTypeOK, Registers, Counted
<1>2. CASE Abort
  <2>1. TypeOK'
    BY <1>2 DEF PlayTypeOK, TypeOK, Abort, Return, Result, history
  <2>2. Counted'
    BY <1>2, Counters DEF Abort, EndPlay
  <2>3. Registers'
    BY <1>2 DEF PlayTypeOK, Registers, Abort, EndPlay
  <2> QED
    BY <2>1, <2>2, <2>3 DEF PlayTypeOK, Registers, Counted
<1>3. CASE RequestLost
  <2>1. TypeOK'
    BY <1>3, EnvTypes DEF PlayTypeOK, RequestLost, KubeEnv
  <2>2. Counted'
    BY <1>3, Counters DEF RequestLost
  <2>3. Registers'
    BY <1>3 DEF PlayTypeOK, Registers, RequestLost
  <2> QED
    BY <2>1, <2>2, <2>3 DEF PlayTypeOK, Registers, Counted
<1>4. CASE UNCHANGED vars
  <2>1. TypeOK'
    BY <1>4 DEF PlayTypeOK, TypeOK, vars, kubeVars, call, history
  <2> QED
    BY <1>4, <2>1 DEF PlayTypeOK, vars, playVars
<1> QED
  BY <1>1, <1>2, <1>3, <1>4, PlayStepTypes DEF PlayNext

LEMMA PlayNextSerial ==
  ASSUME PlayTypeOK, Serial, [PlayNext]_vars
  PROVE Serial'
<1>1. CASE StartPlay
  BY <1>1 DEF Serial, StartPlay, call
<1>2. CASE NextTask
  BY <1>2 DEF PlayTypeOK, Serial, NextTask, kubeVars, call
<1>3. CASE PlayOk
  BY <1>3 DEF PlayTypeOK, Serial, PlayOk, EndPlay, kubeVars, call
<1>4. CASE ModuleRuns
  <2>1. pc # "idle"
    BY <1>4 DEF ModuleRuns, KubeStep, Run, Answered, Get, Apply, Delete, Visit, Answer, Exit
  <2> QED
    BY <1>4, <2>1 DEF Serial, ModuleRuns, playVars
<1>5. ASSUME NEW o \in Object, Query(o)
      PROVE Serial'
  BY <1>5 DEF Serial, Query, kubeVars, call
<1>6. ASSUME NEW o \in Object, Render(o)
      PROVE Serial'
  BY <1>6 DEF Serial, Render, call
<1>7. ASSUME NEW o \in Object, Call(o)
      PROVE Serial'
  BY <1>7 DEF Serial, Call
<1>8. ASSUME NEW o \in Object, Registered(o)
      PROVE Serial'
  BY <1>8 DEF Serial, Registered, EndPlay, LoopGoesOn, kubeVars, call
<1>9. CASE ChangeWanted
  BY <1>9 DEF Serial, ChangeWanted, kubeVars, call
<1>10. CASE Abort
  BY <1>10 DEF Serial, Abort, EndPlay, Return
<1>11. CASE RequestLost
  BY <1>11 DEF Serial, RequestLost, Fault
<1>12. CASE UNCHANGED vars
  BY <1>12 DEF Serial, vars, kubeVars, playVars, call
<1>13. CASE PlayFails
  BY <1>13 DEF PlayTypeOK, Serial, PlayFails, EndPlay, kubeVars, call
<1> QED
  BY <1>1, <1>2, <1>3, <1>4, <1>5, <1>6, <1>7, <1>8, <1>9, <1>10, <1>11, <1>12, <1>13
     DEF PlayNext, PlayStep

LEMMA TypesAndSerial == PlaySpec => [](PlayTypeOK /\ Serial)
<1>1. Init => PlayTypeOK
  <2> SUFFICES ASSUME Init
               PROVE PlayTypeOK
    OBVIOUS
  <2>1. TypeOK
    BY InitTypes DEF Init
  <2>2. Counted
    <3>1. tries = 0 /\ lostAll = 0 /\ aborts = 0 /\ changes = 0
      BY DEF Init
    <3>2. Retries \in Nat /\ MaxLost \in Nat /\ MaxAborts \in Nat /\ MaxChanges \in Nat
      BY PlayAssumption
    <3> QED
      BY <3>1, <3>2 DEF Counted
  <2>3. Registers
    BY DEF Init, Registers
  <2> QED
    BY <2>1, <2>2, <2>3 DEF PlayTypeOK, Registers, Counted
<1>2. Init => Serial
  BY DEF Init, KubeInit, Serial
<1> QED
  BY <1>1, <1>2, PlayNextTypes, PlayNextSerial, PTL DEF PlaySpec

\* PlaysTypeCorrect: the state of the plays and of their calls stays in its types.
THEOREM PlaysTypeCorrect == PlaySpec => []PlayTypeOK
BY TypesAndSerial, PTL

-----------------------------------------------------------------------------
(* what is applied is what is wanted *)

Unconditional == \A o \in Object : Condition[o] # "when changed"

\* what has been rendered
Rendered ==
  /\ task = "render" => \A o \in Object \ items : disk[o] = wanted[o]
  /\ task = "start" => \A o \in Object : disk[o] = wanted[o]

\* the kube call of Start Resources for o
Applying(o) ==
  /\ req.state \in Appliers /\ req.form = "files" /\ pc \in {"idle", "apply"}
  /\ pc = "apply" => todo \subseteq {o} /\ result = "none" /\ (~err /\ o \notin todo => Current(o))
  /\ pc = "idle" /\ result = "ok" => Current(o)

Started1 ==
  task = "start" =>
    /\ outcome # "failed" => \A o \in Object \ items : Current(o)
    /\ \A o \in running : Applying(o)

CurrentInv == Rendered /\ Started1 /\ (outcome = "ok" => task = "idle") /\ OkMeansCurrent

LEMMA CallCurrent ==
  ASSUME Unconditional, PlayTypeOK, Serial, CurrentInv, NEW o \in Object, Call(o)
  PROVE CurrentInv'
<1>1. /\ UNCHANGED <<live, disk, wanted, task, items, outcome>> /\ running' = {o}
      /\ task \in {"cleanup", "start"}
  BY DEF Call, Begin
<1>2. CASE task = "start"
  <2>1. Begin(StartRequest(o)) /\ req' = StartRequest(o)
    BY <1>2 DEF Call, Begin
  <2>2. /\ req'.state \in Appliers /\ req'.form = "files" /\ req'.targets = {o}
        /\ StartRequest(o) \in Request
    BY <2>1, CallRequests
  <2>3. ~AsksFirst(StartRequest(o)) /\ MainVerb(StartRequest(o)) = "apply"
    BY <2>1, <2>2, MainVerbType DEF AsksFirst, Appliers
  <2>4. \/ pc' = "idle" /\ result' = "failed"
        \/ pc' = "apply" /\ todo' = {o} /\ result' = "none"
    BY <2>1, <2>2, <2>3 DEF Begin, Return, Kubectl, Selected, Refused, Lists, Unknown
  <2>5. Applying(o)'
    BY <2>2, <2>4 DEF Applying
  <2> QED
    BY <1>1, <1>2, <2>5 DEF CurrentInv, Rendered, Started1, OkMeansCurrent, Current
<1>3. CASE task = "cleanup"
  BY <1>1, <1>3 DEF CurrentInv, Rendered, Started1, OkMeansCurrent, Current
<1> QED
  BY <1>1, <1>2, <1>3

\* kubectl apply brings the object of the call to what is wanted, and touches no other
LEMMA ApplyCurrent ==
  ASSUME PlayTypeOK, CurrentInv, task = "start", NEW o \in Object, running = {o},
         NEW q \in Object, Get(q) \/ Apply(q) \/ Delete(q)
  PROVE /\ q = o /\ pc = "apply" /\ todo' = todo \ {o} /\ UNCHANGED <<pc, req, result>>
        /\ live'[o] # Absent /\ live'[o].says = wanted[o]
        /\ \A p \in Object \ {o} : live'[p] = live[p]
<1>1. Applying(o) /\ disk[o] = wanted[o]
  BY DEF CurrentInv, Rendered, Started1
<1>2. pc = "apply" /\ Apply(q) /\ q \in todo
  BY <1>1 DEF Applying, Get, Apply, Delete, Visit
<1>3. q = o
  BY <1>1, <1>2 DEF Applying
<1> DEFINE new == [made |-> IF live[o] = Absent THEN disk[o] ELSE live[o].made, says |-> disk[o]]
<1>4. live' = [live EXCEPT ![o] = new]
  BY <1>2, <1>3 DEF Apply
<1>5. new \in [made : Content \cup {Foreign}, says : Content \cup {Foreign}]
  BY DEF PlayTypeOK, TypeOK, Existing
<1>6. new # Absent /\ new.says = wanted[o]
  BY <1>1, <1>5, AbsentAssumption
<1> HIDE DEF new
<1>7. live'[o] = new /\ \A p \in Object \ {o} : live'[p] = live[p]
  BY <1>4 DEF PlayTypeOK, TypeOK
<1> QED
  BY <1>2, <1>3, <1>6, <1>7 DEF Apply, Visit

LEMMA RunsCurrent ==
  ASSUME PlayTypeOK, Serial, CurrentInv, UNCHANGED <<disk, wanted, task, items, running, outcome>>,
         KubeStep \/ (Fault /\ Observe)
  PROVE CurrentInv'
<1>1. pc # "idle"
  BY DEF KubeStep, Run, Answered, Get, Apply, Delete, Visit, Answer, Exit, Fault
<1>2. PICK o \in Object : running = {o}
  BY <1>1 DEF Serial
<1>3. outcome # "ok"
  BY <1>1 DEF CurrentInv, Serial
<1>4. CASE task # "start"
  BY <1>3, <1>4 DEF CurrentInv, Rendered, Started1, OkMeansCurrent
<1>5. CASE task = "start"
  <2>1. Applying(o) /\ pc = "apply" /\ o \in items
    BY <1>1, <1>2, <1>5 DEF CurrentInv, Started1, Applying, PlayTypeOK
  <2>2. ASSUME NEW q \in Object, Get(q) \/ Apply(q) \/ Delete(q)
        PROVE CurrentInv'
    <3>1. /\ todo' = todo \ {o} /\ UNCHANGED <<pc, req, result>>
          /\ Current(o)'
          /\ \A p \in Object \ {o} : live'[p] = live[p]
      BY <1>2, <1>5, <2>2, ApplyCurrent DEF Current
    <3>2. Applying(o)'
      BY <2>1, <3>1 DEF Applying
    <3>3. outcome # "failed" => \A p \in Object \ items' : Current(p)'
      BY <1>5, <2>1, <3>1 DEF CurrentInv, Started1, Current
    <3> QED
      BY <1>2, <1>3, <1>5, <3>2, <3>3 DEF CurrentInv, Rendered, Started1, OkMeansCurrent
  <2>3. ASSUME UNCHANGED <<req, live>>, Applying(o)'
        PROVE CurrentInv'
    BY <1>2, <1>3, <1>5, <2>3 DEF CurrentInv, Rendered, Started1, OkMeansCurrent, Current
  <2>4. CASE KubeStep /\ Exit
    <3>1. /\ pc' = "idle" /\ result' = (IF err THEN "failed" ELSE "ok") /\ todo = {}
          /\ UNCHANGED <<req, live>>
      BY <2>4 DEF Exit, Return
    <3>2. Applying(o)'
      BY <2>1, <3>1 DEF Applying, Current
    <3> QED
      BY <2>3, <3>1, <3>2
  <2>5. CASE Fault
    <3>1. CASE /\ todo' \subseteq todo /\ UNCHANGED <<pc, req, result, live>> /\ err'
      <4>1. Applying(o)'
        BY <2>1, <3>1 DEF Applying
      <4> QED
        BY <2>3, <3>1, <4>1
    <3> QED
      BY <2>2, <2>5, <3>1 DEF Fault, Unanswered
  <2> QED
    BY <2>1, <2>2, <2>4, <2>5 DEF KubeStep, Run, Answered, Answer
<1> QED
  BY <1>4, <1>5

LEMMA PlayNextCurrent ==
  ASSUME Unconditional, PlayTypeOK, Serial, CurrentInv, [PlayNext]_vars
  PROVE CurrentInv'
<1> USE DEF CurrentInv, Rendered, Started1, OkMeansCurrent
<1>1. CASE StartPlay
  BY <1>1 DEF StartPlay
<1>2. CASE NextTask
  <2>1. Started = Object
    BY DEF Unconditional, Started
  <2>2. running = {}
    BY <1>2 DEF NextTask, PlayTypeOK
  <2>3. outcome' # "ok"
    BY <1>2 DEF NextTask
  <2> QED
    BY <1>2, <2>1, <2>2, <2>3 DEF NextTask, kubeVars, Bounds
<1>3. CASE PlayOk
  BY <1>3 DEF PlayOk, EndPlay, kubeVars, Current
<1>4. CASE ModuleRuns
  BY <1>4, RunsCurrent DEF ModuleRuns, playVars, KubeStep, Run
<1>5. ASSUME NEW o \in Object, Query(o)
      PROVE CurrentInv'
  BY <1>5 DEF Query
<1>6. ASSUME NEW o \in Object, Render(o)
      PROVE CurrentInv'
  <2>1. disk'[o] = wanted[o] /\ \A p \in Object \ {o} : disk'[p] = disk[p]
    BY <1>6 DEF Render, PlayTypeOK, TypeOK
  <2> QED
    BY <1>6, <2>1 DEF Render
<1>7. ASSUME NEW o \in Object, Call(o)
      PROVE CurrentInv'
  BY <1>7, CallCurrent
<1>8. ASSUME NEW o \in Object, Registered(o)
      PROVE CurrentInv'
  <2>1. /\ running = {o} /\ pc = "idle" /\ UNCHANGED <<kubeVars, wanted>>
        /\ live' = live /\ disk' = disk
    BY <1>8 DEF Registered, kubeVars
  <2>2. CASE result = "ok" /\ items' = items \ {o} /\ running' = {} /\ UNCHANGED <<task, outcome>>
    <3>1. task = "start" => Current(o)
      BY <2>1, <2>2 DEF Applying
    <3>2. task # "render"
      BY <2>1 DEF Serial
    <3> QED
      BY <2>1, <2>2, <3>1, <3>2 DEF Current
  <2>3. CASE running' = {} /\ UNCHANGED <<task, items, outcome>>
    BY <2>1, <2>3 DEF Current
  <2>4. CASE EndPlay("failed")
    BY <2>1, <2>4 DEF EndPlay
  <2>5. CASE LoopGoesOn(o)
    BY <2>1, <2>5 DEF LoopGoesOn
  <2> QED
    BY <1>8, <2>2, <2>3, <2>4, <2>5 DEF Registered
<1>9. CASE ChangeWanted
  BY <1>9 DEF ChangeWanted
<1>10. CASE Abort
  BY <1>10 DEF Abort, EndPlay
<1>11. CASE RequestLost
  BY <1>11, RunsCurrent DEF RequestLost, Fault
<1>12. CASE UNCHANGED vars
  BY <1>12 DEF vars, kubeVars, playVars, call, Applying, Current
<1>13. CASE PlayFails
  BY <1>13 DEF PlayFails, EndPlay
<1> QED
  BY <1>1, <1>2, <1>3, <1>4, <1>5, <1>6, <1>7, <1>8, <1>9, <1>10, <1>11, <1>12, <1>13
     DEF PlayNext, PlayStep

\* OkIsCurrent: where no kube task waits for a registered change, a play that ends
\* well leaves every add-on as the settings want it, whatever was lost or
\* aborted before.
THEOREM OkIsCurrent ==
  ASSUME Unconditional
  PROVE PlaySpec => []OkMeansCurrent
<1>1. Init => CurrentInv
  BY DEF Init, CurrentInv, Rendered, Started1, OkMeansCurrent
<1>2. PlayTypeOK /\ Serial /\ CurrentInv /\ [PlayNext]_vars => CurrentInv'
  BY PlayNextCurrent
<1>3. CurrentInv => OkMeansCurrent
  BY DEF CurrentInv
<1> QED
  BY <1>1, <1>2, <1>3, TypesAndSerial, PTL DEF PlaySpec

-----------------------------------------------------------------------------
(* What kubeadm made.  As long as no request was lost, the annotations that    *)
(* were registered are those of the objects, so that the objects of kubeadm,   *)
(* and no others, are deleted, and are gone before anything is applied.        *)

\* the kube call of the cleanup for o: it asks whether o is there and deletes it
CleanCall(o) ==
  /\ req = CleanupRequest(o) /\ pc \in {"idle", "get", "delete"}
  /\ todo \subseteq {o}
  /\ pc = "get" => IF o \in todo THEN ~err ELSE err <=> live[o] = Absent
  /\ pc = "delete" /\ o \notin todo => live[o] = Absent
  /\ pc = "idle" /\ result = "ok" => live[o] = Absent

Registration ==
  /\ task = "idle" => ours = {}
  /\ task = "query" => \A o \in Cleaned : /\ o \in ours => IsOurs(o)
                                          /\ IsOurs(o) => o \in ours \cup items
  /\ task = "cleanup" => /\ items \subseteq Cleaned \ ours
                         /\ \A o \in Cleaned \ ours : ~IsOurs(o)

Cleaning ==
  /\ \A o \in Cleaned : ForeignMade(o) => ~IsOurs(o)
  /\ task = "cleanup" => /\ \A o \in Cleaned \ items : ~ForeignMade(o)
                         /\ \A o \in running : CleanCall(o)
  /\ task \in {"render", "start"} \/ outcome = "ok" => \A o \in Cleaned : ~ForeignMade(o)

ForeignInv ==
  /\ outcome = "ok" => task = "idle"
  /\ task = "start" /\ running # {} => pc \in {"idle", "apply"}
  /\ lostAll = 0 => Registration /\ Cleaning

\* The call of the cleanup begins by asking for the object.
LEMMA CleanBegins ==
  ASSUME NEW o \in Object, Begin(CleanupRequest(o))
  PROVE  CleanCall(o)' /\ live' = live
<1> DEFINE r == CleanupRequest(o)
<1>1. r.state = "absent" /\ r.form = "name" /\ r.targets = {o} /\ ~r.force
  BY DEF CleanupRequest
<1>2. req' = r /\ live' = live
  BY DEF Begin
<1> HIDE DEF r
<1>3. ~Incomplete(r) /\ AsksFirst(r)
  BY <1>1 DEF Incomplete, AsksFirst, Appliers
<1>4. Kubectl("get", r)
  BY <1>3 DEF Begin, r
<1>5. Selected("get", r) = {o} /\ ~StartError("get", r)
  BY <1>1 DEF Selected, StartError, Refused, Lists, Unknown
<1>6. pc' = "get" /\ todo' = {o} /\ ~err'
  BY <1>4, <1>5 DEF Kubectl
<1> QED
  BY <1>2, <1>6 DEF CleanCall, r

\* The call of the cleanup goes on to delete the object only if it is there, and
\* does well only when it is gone; it touches no other object.
LEMMA CleanRuns ==
  ASSUME PlayTypeOK, NEW o \in Object, CleanCall(o), KubeStep
  PROVE  /\ CleanCall(o)'
         /\ live' = live \/ live' = [live EXCEPT ![o] = Absent]
<1>1. req.state = "absent" /\ req.form = "name" /\ req.targets = {o} /\ ~req.force
  BY DEF CleanCall, CleanupRequest
<1>2. live \in [Object -> Existing \cup {Absent}]
  BY DEF PlayTypeOK, TypeOK
<1>3. ASSUME NEW q \in Object, Answered(q)
      PROVE  CleanCall(o)' /\ (live' = live \/ live' = [live EXCEPT ![o] = Absent])
  <2>1. q = o /\ o \in todo /\ todo' = todo \ {o} /\ UNCHANGED <<pc, req, result>>
          /\ pc \in {"get", "delete"}
    BY <1>3 DEF CleanCall, Answered, Get, Apply, Delete, Visit
  <2>2. CASE pc = "get"
    <3>1. live' = live /\ ~err /\ MissingIsError
      BY <1>1, <1>3, <2>1, <2>2 DEF CleanCall, Answered, Get, Apply, Delete, Visit, MissingIsError
    <3>2. err' <=> live[o] = Absent
      BY <1>3, <2>1, <2>2, <3>1 DEF Answered
    <3> QED
      BY <2>1, <2>2, <3>1, <3>2 DEF CleanCall
  <2>3. CASE pc = "delete"
    <3>1. live' = [live EXCEPT ![o] = Absent] /\ live'[o] = Absent
      BY <1>2, <1>3, <2>1, <2>3 DEF Answered, Get, Apply, Delete, Visit
    <3> QED
      BY <2>1, <2>3, <3>1 DEF CleanCall
  <2> QED
    BY <2>1, <2>2, <2>3
<1>4. CASE Answer
  <2>1. pc = "get" /\ todo = {} /\ UNCHANGED <<req, live>>
    BY <1>4 DEF Answer
  <2>2. CASE ~GoesOn /\ Return("ok")
    <3>1. err
      BY <1>1, <2>2 DEF GoesOn, exists, Appliers
    <3> QED
      BY <2>1, <2>2, <3>1 DEF CleanCall, Return
  <2>3. CASE Kubectl(MainVerb(req), req)
    <3>1. MainVerb(req) = "delete"
      BY <1>1 DEF MainVerb, Appliers
    <3>2. Selected("delete", req) = {o}
      BY <1>1 DEF Selected, Refused, Lists, Unknown
    <3> QED
      BY <2>1, <2>3, <3>1, <3>2 DEF CleanCall, Kubectl
  <2> QED
    BY <1>1, <1>4, <2>2, <2>3 DEF Answer
<1>5. CASE Exit
  <2>1. pc = "delete" /\ todo = {} /\ UNCHANGED <<req, live>>
    BY <1>5 DEF Exit, CleanCall
  <2>2. pc' = "idle" /\ todo' = {}
    BY <1>5 DEF Exit, Return
  <2> QED
    BY <2>1, <2>2 DEF CleanCall
<1> QED
  BY <1>3, <1>4, <1>5 DEF KubeStep, Run

\* kubectl apply makes an object from its manifest or merges into what is there.
LEMMA ApplyMakesOurs ==
  ASSUME PlayTypeOK, NEW q \in Object, Apply(q)
  PROVE  /\ live'[q] # Absent /\ (ForeignMade(q)' => ForeignMade(q))
         /\ \A p \in Object \ {q} : live'[p] = live[p]
<1> DEFINE new == [made |-> IF live[q] = Absent THEN disk[q] ELSE live[q].made, says |-> disk[q]]
<1>1. live' = [live EXCEPT ![q] = new] /\ live \in [Object -> Existing \cup {Absent}] /\ disk[q] \in Content
  BY DEF Apply, PlayTypeOK, TypeOK
<1>2. new \in [made : Content \cup {Foreign}, says : Content \cup {Foreign}]
  BY <1>1 DEF Existing
<1>3. new # Absent /\ (new.made = Foreign => live[q] # Absent /\ live[q].made = Foreign)
  BY <1>1, <1>2, AbsentAssumption, ContentAssumption
<1> HIDE DEF new
<1>4. live'[q] = new /\ \A p \in Object \ {q} : live'[p] = live[p]
  BY <1>1
<1> QED
  BY <1>3, <1>4 DEF ForeignMade

\* Start Resources deletes nothing and brings nothing of kubeadm back.
LEMMA StartRuns ==
  ASSUME PlayTypeOK, pc = "apply", KubeStep
  PROVE  /\ pc' \in {"idle", "apply"}
         /\ \A o \in Object : live'[o] = Absent => live[o] = Absent
         /\ \A o \in Object : ForeignMade(o)' => ForeignMade(o)
<1>1. CASE \E q \in Object : Answered(q)
  <2>1. PICK q \in Object : Apply(q) /\ pc' = pc
    BY <1>1 DEF Answered, Get, Apply, Delete, Visit
  <2>2. /\ live'[q] # Absent /\ (ForeignMade(q)' => ForeignMade(q))
        /\ \A p \in Object \ {q} : live'[p] = live[p]
    BY <2>1, ApplyMakesOurs
  <2>3. \A p \in Object \ {q} : ForeignMade(p)' => ForeignMade(p)
    BY <2>2 DEF ForeignMade
  <2> QED
    BY <2>1, <2>2, <2>3
<1>2. CASE Exit
  BY <1>2 DEF Exit, Return, ForeignMade
<1> QED
  BY <1>1, <1>2 DEF KubeStep, Run, Answer

\* Queries register the annotations that are there, or lose a request.
LEMMA QueryForeign ==
  ASSUME PlayTypeOK, ForeignInv, NEW o \in Object, Query(o)
  PROVE  ForeignInv'
<1>1. /\ UNCHANGED <<live, pc, task, running, outcome>> /\ task = "query"
      /\ items' = items \ {o}
  BY DEF Query, kubeVars, call
<1>2. ASSUME lostAll' = 0 PROVE Registration' /\ Cleaning'
  <2>1. lostAll = 0 /\ ours' = (IF IsOurs(o) THEN ours \cup {o} ELSE ours)
    BY <1>2 DEF Query, PlayTypeOK
  <2>2. Registration /\ Cleaning
    BY <2>1 DEF ForeignInv
  <2> QED
    BY <1>1, <2>1, <2>2 DEF Registration, Cleaning, IsOurs, ForeignMade
<1> QED
  BY <1>1, <1>2 DEF ForeignInv

\* After the queries the objects to delete are known, after the cleanup they
\* are gone.
LEMMA NextTaskForeign ==
  ASSUME PlayTypeOK, ForeignInv, NextTask
  PROVE  ForeignInv'
<1>1. /\ UNCHANGED <<live, ours, lostAll, outcome>> /\ running = {} /\ running' = {}
      /\ items = {} /\ outcome # "ok"
      /\ \/ task = "query" /\ task' = "cleanup" /\ items' = Cleaned \ ours
         \/ task = "cleanup" /\ task' = "render"
         \/ task = "render" /\ task' = "start"
  BY DEF NextTask, kubeVars, Bounds, PlayTypeOK, ForeignInv, ToClean
<1>2. ASSUME lostAll = 0 PROVE Registration' /\ Cleaning'
  <2>1. Registration /\ Cleaning
    BY <1>2 DEF ForeignInv
  <2>2. Registration'
    BY <1>1, <2>1 DEF Registration, IsOurs
  <2>3. Cleaning'
    BY <1>1, <2>1 DEF Registration, Cleaning, IsOurs, ForeignMade
  <2> QED
    BY <2>2, <2>3
<1> QED
  BY <1>1, <1>2 DEF ForeignInv

\* A call of the cleanup or of Start Resources.
LEMMA RunsForeign ==
  ASSUME PlayTypeOK, Serial, ForeignInv, ModuleRuns
  PROVE  ForeignInv'
<1>1. KubeStep /\ UNCHANGED <<task, items, running, ours, outcome, lostAll>>
  BY DEF ModuleRuns, playVars
<1>2. pc # "idle"
  BY <1>1 DEF KubeStep, Run, Answered, Get, Apply, Delete, Visit, Answer, Exit
<1>3. PICK o \in Object : running = {o}
  BY <1>2 DEF Serial
<1>4. o \in items /\ task \in {"cleanup", "start"} /\ outcome # "ok"
  BY <1>3 DEF PlayTypeOK, Serial, ForeignInv
<1>5. CASE task = "cleanup"
  <2>1. ASSUME lostAll = 0 PROVE Registration' /\ Cleaning'
    <3>1. Registration /\ Cleaning /\ CleanCall(o) /\ o \in Cleaned \ ours
      BY <1>3, <1>4, <1>5, <2>1 DEF ForeignInv, Registration, Cleaning
    <3>2. CleanCall(o)' /\ (live' = live \/ live' = [live EXCEPT ![o] = Absent])
      BY <1>1, <3>1, CleanRuns
    <3>3. \A p \in Object : live'[p] \in {live[p], Absent} /\ (p # o => live'[p] = live[p])
      BY <3>2 DEF PlayTypeOK, TypeOK
    <3>4. Cleaned \subseteq Object
      BY PlayAssumption
    <3>5. \A p \in Cleaned : /\ IsOurs(p)' => IsOurs(p)
                             /\ ForeignMade(p)' => ForeignMade(p) /\ live'[p] = live[p]
      BY <3>3, <3>4 DEF IsOurs, ForeignMade
    <3>6. Registration'
      BY <1>1, <1>5, <3>1, <3>5 DEF Registration
    <3>7. Cleaning'
      BY <1>1, <1>3, <1>4, <1>5, <3>1, <3>2, <3>5 DEF Cleaning, IsOurs
    <3> QED
      BY <3>6, <3>7
  <2> QED
    BY <1>1, <1>4, <1>5, <2>1 DEF ForeignInv
<1>6. CASE task = "start"
  <2>1. pc = "apply"
    BY <1>2, <1>3, <1>6 DEF ForeignInv
  <2>2. pc' \in {"idle", "apply"} /\ \A p \in Object : ForeignMade(p)' => ForeignMade(p)
    BY <1>1, <2>1, StartRuns
  <2>3. ASSUME lostAll = 0 PROVE Registration' /\ Cleaning'
    <3>1. \A p \in Cleaned : ~ForeignMade(p)
      BY <1>6, <2>3 DEF ForeignInv, Cleaning
    <3>2. \A p \in Cleaned : ~ForeignMade(p)'
      BY <2>2, <3>1, PlayAssumption
    <3> QED
      BY <1>1, <1>6, <3>2 DEF Registration, Cleaning
  <2> QED
    BY <1>1, <1>4, <2>2, <2>3 DEF ForeignInv
<1> QED
  BY <1>4, <1>5, <1>6

\* A call begins.
LEMMA CallForeign ==
  ASSUME PlayTypeOK, ForeignInv, NEW o \in Object, Call(o)
  PROVE  ForeignInv'
<1>1. /\ UNCHANGED <<live, task, items, ours, outcome, lostAll>> /\ running' = {o}
      /\ task \in {"cleanup", "start"}
  BY DEF Call, Begin, Bounds
<1>2. task = "cleanup" => CleanCall(o)'
  BY CleanBegins DEF Call
<1>3. task = "start" => pc' \in {"idle", "apply"}
  <2>1. ASSUME task = "start" PROVE pc' \in {"idle", "apply"}
    <3>1. Begin(StartRequest(o))
      BY <2>1 DEF Call
    <3>2. ~AsksFirst(StartRequest(o)) /\ MainVerb(StartRequest(o)) = "apply"
      BY CallRequests, MainVerbType DEF AsksFirst, Appliers
    <3> QED
      BY <3>1, <3>2 DEF Begin, Return, Kubectl
  <2> QED
    BY <2>1
<1>4. ASSUME lostAll = 0 PROVE Registration' /\ Cleaning'
  <2>1. Registration /\ Cleaning
    BY <1>4 DEF ForeignInv
  <2> QED
    BY <1>1, <1>2, <2>1 DEF Registration, Cleaning, IsOurs, ForeignMade
<1> QED
  BY <1>1, <1>3, <1>4 DEF ForeignInv

\* The result of a call is registered.
LEMMA RegisteredForeign ==
  ASSUME PlayTypeOK, Serial, ForeignInv, NEW o \in Object, Registered(o)
  PROVE  ForeignInv'
<1>1. UNCHANGED <<live, lostAll>> /\ running = {o} /\ running' = {} /\ task \in {"cleanup", "start"}
        /\ outcome # "ok" /\ pc = "idle"
  BY DEF Registered, kubeVars, Bounds, EndPlay, LoopGoesOn, Serial, ForeignInv
<1>2. CASE result = "ok" /\ items' = items \ {o} /\ UNCHANGED <<task, ours, outcome>>
  <2>1. ASSUME lostAll = 0 PROVE Registration' /\ Cleaning'
    <3>1. Registration /\ Cleaning
      BY <2>1 DEF ForeignInv
    <3>2. task = "cleanup" => ~ForeignMade(o)
      BY <1>1, <1>2, <3>1 DEF Cleaning, CleanCall, ForeignMade
    <3> QED
      BY <1>1, <1>2, <3>1, <3>2 DEF Registration, Cleaning, IsOurs, ForeignMade
  <2> QED
    BY <1>1, <1>2, <2>1 DEF ForeignInv
<1>3. CASE UNCHANGED <<task, items, ours, outcome>>
  <2>1. ASSUME lostAll = 0 PROVE Registration' /\ Cleaning'
    <3>1. Registration /\ Cleaning
      BY <2>1 DEF ForeignInv
    <3> QED
      BY <1>1, <1>3, <3>1 DEF Registration, Cleaning, IsOurs, ForeignMade
  <2> QED
    BY <1>1, <1>3, <2>1 DEF ForeignInv
<1>4. CASE EndPlay("failed")
  BY <1>1, <1>4 DEF EndPlay, ForeignInv, Registration, Cleaning, IsOurs, ForeignMade
<1>5. CASE LoopGoesOn(o)
  BY <1>1, <1>5 DEF LoopGoesOn, ForeignInv, Registration, Cleaning, ForeignMade
<1> QED
  BY <1>2, <1>3, <1>4, <1>5 DEF Registered

\* Every step of the plays, and between them.
LEMMA PlayNextForeign ==
  ASSUME PlayTypeOK, Serial, ForeignInv, [PlayNext]_vars
  PROVE  ForeignInv'
<1>1. CASE StartPlay
  <2>1. /\ task = "idle" /\ task' = "query" /\ items' = Cleaned /\ outcome' = "none"
        /\ UNCHANGED <<ours, lostAll>>
    BY <1>1 DEF StartPlay, Bounds
  <2> DEFINE kubeadms == [made |-> Foreign, says |-> Foreign]
  <2>2. \A o \in Object : live'[o] = live[o] \/ live'[o] = kubeadms
    BY <1>1 DEF StartPlay
  <2>3. kubeadms # Absent /\ kubeadms.says = Foreign
    BY AbsentAssumption
  <2> HIDE DEF kubeadms
  <2>4. ASSUME lostAll = 0 PROVE Registration' /\ Cleaning'
    <3>1. Registration /\ Cleaning /\ ours = {}
      BY <2>1, <2>4 DEF ForeignInv, Registration
    <3>2. \A o \in Cleaned : ForeignMade(o)' => ~IsOurs(o)'
      <4>1. Cleaned \subseteq Object
        BY PlayAssumption
      <4>2. \A o \in Cleaned : live'[o] = live[o] => (ForeignMade(o)' => ~IsOurs(o)')
        BY <3>1 DEF Cleaning, ForeignMade, IsOurs
      <4>3. \A o \in Cleaned : live'[o] = kubeadms => ~IsOurs(o)'
        BY <2>3, ContentAssumption DEF IsOurs
      <4> QED
        BY <2>2, <4>1, <4>2, <4>3
    <3> QED
      BY <2>1, <3>1, <3>2 DEF Registration, Cleaning
  <2> QED
    BY <2>1, <2>4 DEF ForeignInv
<1>2. CASE NextTask
  BY <1>2, NextTaskForeign
<1>3. CASE PlayOk
  BY <1>3 DEF PlayOk, EndPlay, kubeVars, Bounds, ForeignInv, Registration, Cleaning, ForeignMade, IsOurs
<1>4. CASE ModuleRuns
  BY <1>4, RunsForeign
<1>5. ASSUME NEW o \in Object, Query(o) PROVE ForeignInv'
  BY <1>5, QueryForeign
<1>6. ASSUME NEW o \in Object, Render(o) PROVE ForeignInv'
  <2>1. UNCHANGED <<live, pc, task, running, ours, outcome, lostAll>> /\ task = "render"
    BY <1>6 DEF Render, call, Bounds
  <2> QED
    BY <2>1 DEF ForeignInv, Registration, Cleaning, IsOurs, ForeignMade
<1>7. ASSUME NEW o \in Object, Call(o) PROVE ForeignInv'
  BY <1>7, CallForeign
<1>8. ASSUME NEW o \in Object, Registered(o) PROVE ForeignInv'
  BY <1>8, RegisteredForeign
<1>9. CASE ChangeWanted
  <2>1. UNCHANGED <<live, task, running, ours, items, lostAll>> /\ task = "idle" /\ outcome' = "none"
    BY <1>9 DEF ChangeWanted, kubeVars
  <2> QED
    BY <2>1 DEF ForeignInv, Registration, Cleaning, IsOurs, ForeignMade
<1>10. CASE Abort
  BY <1>10 DEF Abort, EndPlay, ForeignInv, Registration, Cleaning, IsOurs, ForeignMade
<1>11. CASE RequestLost
  <2>1. lostAll' # 0 /\ UNCHANGED <<task, running, outcome>>
    BY <1>11 DEF RequestLost, PlayTypeOK
  <2>2. pc' = pc
    BY <1>11 DEF RequestLost, Fault, Unanswered, Get, Apply, Delete, Visit
  <2> QED
    BY <2>1, <2>2 DEF ForeignInv
<1>12. CASE UNCHANGED vars
  <2>1. UNCHANGED <<live, pc, req, todo, err, result, task, items, running, ours, outcome, lostAll>>
    BY <1>12 DEF vars, kubeVars, playVars, call
  <2> QED
    BY <2>1 DEF ForeignInv, Registration, Cleaning, CleanCall, IsOurs, ForeignMade
<1>13. CASE PlayFails
  BY <1>13 DEF PlayFails, EndPlay, kubeVars, Bounds, ForeignInv, Registration, Cleaning,
       ForeignMade, IsOurs
<1> QED
  BY <1>1, <1>2, <1>3, <1>4, <1>5, <1>6, <1>7, <1>8, <1>9, <1>10, <1>11, <1>12, <1>13
     DEF PlayNext, PlayStep

LEMMA ForeignInvariant == PlaySpec => [](PlayTypeOK /\ Serial /\ ForeignInv)
<1>1. Init => ForeignInv
  <2> SUFFICES ASSUME Init PROVE ForeignInv
    OBVIOUS
  <2>1. \A o \in Object : live[o] \in {Absent, [made |-> Foreign, says |-> Foreign]}
    BY DEF Init, KubeInit
  <2>2. [made |-> Foreign, says |-> Foreign].says = Foreign /\ Cleaned \subseteq Object
    BY PlayAssumption
  <2>3. \A o \in Cleaned : ~IsOurs(o)
    BY <2>1, <2>2, ContentAssumption DEF IsOurs
  <2> QED
    BY <2>3 DEF Init, ForeignInv, Registration, Cleaning
<1>2. PlayTypeOK /\ Serial /\ ForeignInv /\ [PlayNext]_vars => ForeignInv'
  BY PlayNextForeign
<1> QED
  BY <1>1, <1>2, TypesAndSerial, PTL DEF PlaySpec

\* OkReplacesForeign: a play that ends well with no request ever lost leaves
\* nothing that kubeadm made, whenever kubeadm makes it again.
THEOREM OkReplacesForeign == PlaySpec => []ForeignReplaced
<1>1. ForeignInv => ForeignReplaced
  BY DEF ForeignInv, Cleaning, ForeignReplaced
<1> QED
  BY <1>1, ForeignInvariant, PTL

\* A step of a call under way deletes nothing that carries our annotation.
LEMMA RunKeepsOurs ==
  ASSUME PlayTypeOK, Serial, ForeignInv, lostAll = 0, ModuleRuns \/ RequestLost,
         NEW o \in Cleaned, IsOurs(o)
  PROVE  live'[o] # Absent
<1>1. pc # "idle" /\ (KubeStep \/ (Fault /\ Observe))
  BY DEF ModuleRuns, RequestLost, KubeStep, Run, Answered, Get, Apply, Delete, Visit, Answer, Exit, Fault
<1>2. PICK q \in Object : running = {q} /\ q \in items /\ task \in {"cleanup", "start"}
  BY <1>1 DEF Serial, PlayTypeOK
<1>3. o \in Object /\ live[o] # Absent /\ live \in [Object -> Existing \cup {Absent}]
  BY PlayAssumption DEF IsOurs, PlayTypeOK, TypeOK
<1>4. CASE live' = live
  BY <1>3, <1>4
<1>5. ASSUME NEW p \in Object, Apply(p) PROVE live'[o] # Absent
  BY <1>3, <1>5, ApplyMakesOurs
<1>6. ASSUME NEW p \in Object, Delete(p) PROVE live'[o] # Absent
  <2>1. pc = "delete" /\ p \in todo /\ live' = [live EXCEPT ![p] = Absent]
    BY <1>6 DEF Delete, Visit
  <2>2. task = "cleanup"
    BY <1>2, <2>1 DEF ForeignInv
  <2>3. p = q /\ q \in Cleaned \ ours /\ ~IsOurs(q)
    BY <1>2, <2>1, <2>2 DEF ForeignInv, Registration, Cleaning, CleanCall
  <2> QED
    BY <1>3, <2>1, <2>3
<1> QED
  BY <1>1, <1>4, <1>5, <1>6
     DEF KubeStep, Run, Answered, Answer, Exit, Fault, Unanswered, Get

\* Nothing else deletes objects.
LEMMA OthersKeepOurs ==
  ASSUME PlayTypeOK, [PlayNext]_vars, ~ModuleRuns, ~RequestLost,
         NEW o \in Cleaned, IsOurs(o)
  PROVE  live'[o] # Absent
<1>1. o \in Object /\ live[o] # Absent
  BY PlayAssumption DEF IsOurs
<1>2. CASE StartPlay
  <2>1. [made |-> Foreign, says |-> Foreign] # Absent
    BY AbsentAssumption
  <2> DEFINE kubeadms == [made |-> Foreign, says |-> Foreign]
  <2>2. live'[o] = live[o] \/ live'[o] = kubeadms
    BY <1>1, <1>2 DEF StartPlay
  <2> QED
    BY <1>1, <2>1, <2>2
<1>3. CASE UNCHANGED live
  BY <1>1, <1>3
<1> QED
  BY <1>2, <1>3 DEF PlayNext, PlayStep, NextTask, PlayOk, PlayFails, Query, Render, Call, Begin,
       Registered, ChangeWanted, Abort, vars, kubeVars

\* DeletesOnlyForeign: as long as no request was lost, no play deletes an object
\* that carries our annotation: a repeated play does not interrupt DNS.
THEOREM DeletesOnlyForeign == PlaySpec => OnlyForeignDeleted
<1> DEFINE Keeps == \A o \in Cleaned : IsOurs(o) /\ live'[o] = Absent => lostAll > 0
<1>1. PlayTypeOK /\ Serial /\ ForeignInv /\ [PlayNext]_vars => [Keeps]_vars
  <2> SUFFICES ASSUME PlayTypeOK, Serial, ForeignInv, [PlayNext]_vars,
                      NEW o \in Cleaned, IsOurs(o), live'[o] = Absent
               PROVE  lostAll > 0
    OBVIOUS
  <2>1. lostAll # 0
    BY RunKeepsOurs, OthersKeepOurs
  <2>2. lostAll \in 0 .. MaxLost /\ MaxLost \in Nat
    BY PlayAssumption DEF PlayTypeOK
  <2> QED
    BY <2>1, <2>2
<1> HIDE DEF Keeps
<1>2. PlaySpec => [][Keeps]_vars
  BY <1>1, ForeignInvariant, PTL DEF PlaySpec
<1> QED
  BY <1>2 DEF Keeps, OnlyForeignDeleted
=============================================================================
