------------------------------ MODULE AddonPlay ------------------------------
(***************************************************************************)
(* The roles that bring add-ons into the cluster (kubernetes-apps), as the   *)
(* first control plane node runs them in every play: objects that kubeadm    *)
(* makes too are deleted unless they carry our annotation, manifests are     *)
(* rendered, and the kube module applies them.  Plays fail, are aborted and  *)
(* are run again; the settings change between them.                          *)
(*                                                                         *)
(* Several roles are one play here, without the tasks between them; the      *)
(* items of a loop are taken in any order.  Only the play uses the module:   *)
(* other clients are kubeadm, at the start of a play.                        *)
(***************************************************************************)
EXTENDS KubeModule

CONSTANTS
  Cleaned,     \* objects that kubeadm makes too: coredns and kube-dns
  Condition,   \* Object -> how the role decides on applying, see Applied
  Unrendered,  \* the manifest before the first play
  Retried,     \* objects whose kube task has until and retries
  Retries,     \* further attempts of these tasks
  MaxLost,     \* bound: requests that fail in all plays
  MaxAborts,   \* bound: plays that are aborted
  MaxChanges   \* bound: changes of the settings

ASSUME PlayAssumption ==
  /\ Cleaned \cup Retried \subseteq Object /\ Unrendered \in Content
  /\ Condition \in [Object -> {"latest", "ternary", "when changed"}]
  /\ Retries \in Nat /\ MaxLost \in Nat /\ MaxAborts \in Nat /\ MaxChanges \in Nat

Wanted == Content \ {Unrendered}

VARIABLES
  wanted,    \* what the templates render to
  task,      \* "idle" between plays, or the task the play is at
  items,     \* items of the task that are not done
  running,   \* items whose kube call has begun: at most one
  tries,     \* attempts of that item that have failed
  ours,      \* registered: objects whose createdby annotation is kubespray
  changed,   \* registered: objects whose template task reported a change
  outcome,   \* of the latest play: "none", "ok" or "failed"; the loop of the task
             \* that has failed may still go on
  lostAll, aborts, changes \* counters for the bounds

playVars == <<wanted, task, items, running, tries, ours, changed, outcome,
              lostAll, aborts, changes>>
vars == <<kubeVars, playVars>>

PlayTypeOK ==
  /\ TypeOK
  /\ wanted \in [Object -> Wanted]
  /\ task \in {"idle", "query", "cleanup", "render", "start"}
  /\ items \subseteq Object
  /\ running \subseteq items /\ tries \in 0 .. Retries
  /\ ours \subseteq Cleaned /\ changed \subseteq Object
  /\ outcome \in {"none", "ok", "failed"}
  /\ lostAll \in 0 .. MaxLost /\ aborts \in 0 .. MaxAborts
  /\ changes \in 0 .. MaxChanges

Init ==
  /\ KubeInit
  /\ disk = [o \in Object |-> Unrendered] /\ wanted \in [Object -> Wanted]
  /\ task = "idle" /\ items = {} /\ running = {} /\ tries = 0
  /\ ours = {} /\ changed = {} /\ outcome = "none"
  /\ lostAll = 0 /\ aborts = 0 /\ changes = 0

Bounds == <<lostAll, aborts, changes>>

-----------------------------------------------------------------------------

\* the settings of the next play
ChangeWanted ==
  /\ task = "idle" /\ changes < MaxChanges
  /\ \E o \in Object : \E c \in Wanted \ {wanted[o]} :
       wanted' = [wanted EXCEPT ![o] = c]
  /\ changes' = changes + 1 /\ outcome' = "none"
  /\ UNCHANGED <<kubeVars, task, items, running, tries, ours, changed,
                 lostAll, aborts>>

\* kubeadm init and kubeadm upgrade install their own DNS, before the add-ons
StartPlay ==
  /\ task = "idle"
  /\ \E K \in {{}, Cleaned} :
       live' = [o \in Object |-> IF o \in K THEN [made |-> Foreign, says |-> Foreign]
                                            ELSE live[o]]
  /\ task' = "query" /\ items' = Cleaned /\ outcome' = "none"
  /\ UNCHANGED <<disk, call, faults, others, history, wanted, running, tries,
                 ours, changed, Bounds>>

\* Faulty variant of EndPlay: forgets what was running only when all is well.
EndPlayKeepsRunning(o) ==
  /\ task' = "idle" /\ items' = {} /\ tries' = 0
  /\ running' = IF o = "ok" THEN {} ELSE running
  /\ ours' = {} /\ changed' = {} /\ outcome' = o

EndPlay(o) ==
  /\ task' = "idle" /\ items' = {} /\ running' = {} /\ tries' = 0
  /\ ours' = {} /\ changed' = {} /\ outcome' = o

\* Faulty variant of IsOurs: the annotation of a foreign object matches.
IsOursAlways(o) == live[o] # Absent

\* the manifests carry createdby: kubespray
IsOurs(o) == live[o] # Absent /\ live[o].says \in Content

\* ignore_errors: no answer leaves an empty stdout, which is not "kubespray"
Query(o) ==
  /\ task = "query" /\ o \in items
  /\ items' = items \ {o}
  /\ \/ ours' = (IF IsOurs(o) THEN ours \cup {o} ELSE ours) /\ UNCHANGED lostAll
     \/ lostAll < MaxLost /\ lostAll' = lostAll + 1 /\ UNCHANGED ours
  /\ UNCHANGED <<kubeVars, wanted, task, running, tries, changed, outcome,
                 aborts, changes>>

Render(o) ==
  /\ task = "render" /\ o \in items
  /\ items' = items \ {o}
  /\ disk' = [disk EXCEPT ![o] = wanted[o]]
  /\ changed' = IF disk[o] = wanted[o] THEN changed ELSE changed \cup {o}
  /\ UNCHANGED <<live, call, faults, others, history, wanted, task, running,
                 tries, ours, outcome, Bounds>>

\* Faulty variant of Started: nothing is applied that did not change.
StartedChanged == changed

\* the objects whose kube task is not skipped
Started == {o \in Object : Condition[o] = "when changed" => o \in changed}

\* Faulty variant of ToClean: the registered annotations are not looked at.
ToCleanAll == Cleaned

ToClean == Cleaned \ ours

NextTask ==
  /\ items = {}
  /\ \/ task = "query" /\ task' = "cleanup" /\ items' = ToClean
     \/ task = "cleanup" /\ task' = "render" /\ items' = Object
     \/ task = "render" /\ task' = "start" /\ items' = Started
  /\ UNCHANGED <<kubeVars, wanted, running, tries, ours, changed, outcome, Bounds>>

PlayOk ==
  /\ task = "start" /\ items = {} /\ outcome # "failed"
  /\ EndPlay("ok")
  /\ UNCHANGED <<kubeVars, wanted, Bounds>>

\* the loop is over, an item has failed
PlayFails ==
  /\ task = "start" /\ items = {} /\ outcome = "failed"
  /\ EndPlay("failed")
  /\ UNCHANGED <<kubeVars, wanted, Bounds>>

\* name and resource, without a file
CleanupRequest(o) ==
  [state |-> "absent", form |-> "name", targets |-> {o}, force |-> FALSE]

\* rendering.changed | ternary('latest', 'present')
StartRequest(o) ==
  [state |-> IF Condition[o] = "ternary" /\ o \notin changed THEN "present"
                                                             ELSE "latest",
   form |-> "files", targets |-> {o}, force |-> FALSE]

Call(o) ==
  /\ o \in items /\ running = {}
  /\ \/ task = "cleanup" /\ Begin(CleanupRequest(o))
     \/ task = "start" /\ Begin(StartRequest(o))
  /\ running' = {o}
  /\ UNCHANGED <<wanted, task, items, tries, ours, changed, outcome, Bounds>>

\* until: resource_result is succeeded
AttemptsLeft(o) == task = "start" /\ o \in Retried /\ tries < Retries

\* a loop goes on with its other items, some of those that are left here
LoopGoesOn(o) ==
  /\ task = "start"
  /\ items' \in SUBSET (items \ {o}) /\ running' = {} /\ tries' = 0
  /\ outcome' = "failed"
  /\ UNCHANGED <<task, ours, changed>>

Registered(o) ==
  /\ running = {o} /\ pc = "idle" /\ result # "none"
  /\ UNCHANGED <<kubeVars, wanted, Bounds>>
  /\ \/ /\ result = "ok"
        /\ items' = items \ {o} /\ running' = {} /\ tries' = 0
        /\ UNCHANGED <<task, ours, changed, outcome>>
     \/ /\ result = "failed" /\ AttemptsLeft(o)
        /\ tries' = tries + 1 /\ running' = {}
        /\ UNCHANGED <<task, items, ours, changed, outcome>>
     \/ /\ result = "failed" /\ ~AttemptsLeft(o)
        /\ LoopGoesOn(o) \/ (task = "cleanup" /\ EndPlay("failed"))

\* the play is interrupted, or a task between these fails
Abort ==
  /\ task # "idle" /\ aborts < MaxAborts
  /\ aborts' = aborts + 1
  /\ Return("failed") /\ EndPlay("failed")
  /\ UNCHANGED <<live, disk, req, faults, others, history, wanted, lostAll, changes>>

ModuleRuns == KubeStep /\ UNCHANGED playVars

RequestLost ==
  /\ Fault /\ Observe
  /\ lostAll < MaxLost /\ lostAll' = lostAll + 1
  /\ UNCHANGED <<wanted, task, items, running, tries, ours, changed, outcome,
                 aborts, changes>>

PlayStep ==
  \/ StartPlay \/ NextTask \/ PlayOk \/ PlayFails \/ ModuleRuns
  \/ \E o \in Object : Query(o) \/ Render(o) \/ Call(o) \/ Registered(o)

PlayNext == PlayStep \/ ChangeWanted \/ Abort \/ RequestLost

PlaySpec == Init /\ [][PlayNext]_vars

\* the operator runs the play again and again; every task comes to an end
FairPlaySpec == PlaySpec /\ WF_vars(PlayStep)

-----------------------------------------------------------------------------
(* Properties *)

Current(o) == live[o] # Absent /\ live[o].says = wanted[o]

\* A play that ends well leaves every add-on as the settings want it, also when
\* earlier plays were aborted between rendering and applying.
OkMeansCurrent == outcome = "ok" => \A o \in Object : Current(o)

\* A play never deletes an object that carries our annotation unless a request
\* failed: DNS is not interrupted by a repeated play (cleanup_dns.yml:27-30).
OnlyForeignDeleted ==
  [][\A o \in Cleaned : IsOurs(o) /\ live'[o] = Absent => lostAll > 0]_vars

ForeignMade(o) == live[o] # Absent /\ live[o].made = Foreign

\* A play that ends well with no request ever lost leaves nothing that kubeadm
\* made, although it may come back before every play (cleanup_dns.yml:20).
ForeignReplaced ==
  outcome = "ok" /\ lostAll = 0 => \A o \in Cleaned : ~ForeignMade(o)

\* "Delete kubeadm CoreDNS" (cleanup_dns.yml:20): a play that ends well leaves
\* nothing of the objects kubeadm made.
OkMeansOurs == outcome = "ok" => \A o \in Cleaned : ~ForeignMade(o)

\* However plays failed, running them again brings every add-on to what is wanted.
RerunsConverge == []<>(\A o \in Object : Current(o))
=============================================================================
