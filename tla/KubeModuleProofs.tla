-------------------------- MODULE KubeModuleProofs --------------------------
(***************************************************************************)
(* What the result of a call of library/kube.py says, for any objects,        *)
(* manifests and numbers of faults and other clients.  The strengthening      *)
(* follows the verb that runs: what kubectl has come to already is in the      *)
(* history of the call, unless an error was noted.                           *)
(***************************************************************************)
EXTENDS KubeModule, TLAPS

GetInv ==
  pc = "get" =>
    /\ req.state \in {"exists", "absent", "stopped"}
    /\ req.state # "exists" => ~req.force
    /\ req.form # "nothing"
    /\ req.form \in {"files", "name"} =>
         /\ todo \subseteq req.targets
         /\ ~err => req.targets \ todo \subseteq been
         /\ err /\ faults = 0 => req.targets \cap gone # {}
    /\ Lists(req) =>
         /\ todo = {}
         /\ ~err => req.targets \cap been # {}
         /\ err /\ faults = 0 => req.targets \subseteq gone
    /\ req.form = "both" => todo = {} /\ err

ApplyInv ==
  pc = "apply" =>
    /\ req.state \in Appliers /\ req.form = "files"
    /\ ~err => req.targets \ todo \subseteq applied

DeleteInv ==
  pc = "delete" =>
    /\ req.state = "absent"
    /\ ~err => req.targets \ todo \subseteq gone

StopInv == pc = "stop" => req.state = "stopped" /\ err

\* while a call runs there is no result, and its history knows the present
Noticed ==
  pc # "idle" =>
    result = "none" /\ AbsentNow \subseteq gone /\ Object \ AbsentNow \subseteq been

Results == PresentMeansApplied /\ ExistsIsTrue /\ AbsentMeansGone

IInv == GetInv /\ ApplyInv /\ DeleteInv /\ StopInv /\ Noticed /\ Results

-----------------------------------------------------------------------------
(* types *)

LEMMA RequestTypes ==
  ASSUME NEW r \in Request
  PROVE /\ r.state \in State /\ r.form \in Form /\ r.targets \subseteq Object
        /\ r.force \in BOOLEAN
        /\ r.form \in {"nothing", "both"} <=> r.targets = {}
        /\ r.form = "name" => \E o \in Object : r.targets = {o}
BY DEF Request

LEMMA MainVerbType ==
  ASSUME NEW r \in Request
  PROVE /\ MainVerb(r) \in Verb
        /\ r.state \in Appliers => MainVerb(r) = "apply"
        /\ r.state = "absent" => MainVerb(r) = "delete"
        /\ r.state = "stopped" => MainVerb(r) = "stop"
        /\ r.state = "exists" => MainVerb(r) = "get"
BY RequestTypes DEF MainVerb, Verb, State, Appliers

LEMMA SelectedType ==
  ASSUME NEW r \in Request, NEW v
  PROVE Selected(v, r) \subseteq Object
BY RequestTypes DEF Selected

LEMMA KubectlTypes ==
  ASSUME TypeOK, NEW r \in Request, req' = r, NEW v \in Verb, Kubectl(v, r)
  PROVE pc' \in Verb /\ req' \in Request /\ todo' \subseteq Object /\ err' \in BOOLEAN /\ result' = "none"
BY SelectedType DEF Kubectl, StartError

LEMMA ReturnTypes ==
  ASSUME NEW res \in Result, Return(res)
  PROVE pc' = "idle" /\ todo' = {} /\ err' \in BOOLEAN /\ result' \in Result
BY DEF Return

\* the kubectl steps
LEMMA VisitTypes ==
  ASSUME TypeOK, NEW o \in Object, Get(o) \/ Apply(o) \/ Delete(o)
  PROVE /\ live' \in [Object -> Existing \cup {Absent}] /\ applied' \subseteq Object
        /\ todo' \subseteq Object /\ UNCHANGED <<pc, req, result>>
<1>1. CASE Get(o) \/ Delete(o)
  BY <1>1 DEF TypeOK, Get, Delete, Visit
<1>2. CASE Apply(o)
  <2>1. [made |-> IF live[o] = Absent THEN disk[o] ELSE live[o].made, says |-> disk[o]] \in Existing
    BY DEF TypeOK, Existing
  <2> QED
    BY <1>2, <2>1 DEF TypeOK, Apply, Visit
<1> QED
  BY <1>1, <1>2

LEMMA ObserveTypes ==
  ASSUME TypeOK, Observe
  PROVE gone' \subseteq Object /\ been' \subseteq Object
BY DEF TypeOK, Observe

LEMMA RunTypes ==
  ASSUME TypeOK, KubeStep
  PROVE TypeOK'
<1>1. gone' \subseteq Object /\ been' \subseteq Object
  BY ObserveTypes DEF KubeStep
<1>2. UNCHANGED <<disk, faults, others>>
  BY DEF KubeStep, Run
<1>3. ASSUME NEW o \in Object, Answered(o)
      PROVE TypeOK'
  <2>1. err' \in BOOLEAN
    BY <1>3 DEF Answered
  <2> QED
    BY <1>1, <1>2, <1>3, <2>1, VisitTypes DEF TypeOK, Answered
<1>4. CASE Answer
  <2>1. req \in Request /\ MainVerb(req) \in Verb
    BY MainVerbType DEF TypeOK
  <2>2. /\ pc' \in {"idle"} \cup Verb /\ todo' \subseteq Object /\ err' \in BOOLEAN
        /\ result' \in Result
    <3>1. CASE \E res \in {"ok", "True", "False"} : Return(res)
      BY <3>1 DEF Return, Result
    <3>2. CASE Kubectl(MainVerb(req), req)
      BY <1>4, <2>1, <3>2, KubectlTypes DEF Answer, Result
    <3> QED
      BY <1>4, <3>1, <3>2 DEF Answer
  <2> QED
    BY <1>1, <1>2, <1>4, <2>2 DEF TypeOK, Answer
<1>5. CASE Exit
  <2>1. pc' = "idle" /\ todo' = {} /\ err' \in BOOLEAN /\ result' \in Result
    BY <1>5 DEF Exit, Return, Result
  <2> QED
    BY <1>1, <1>2, <1>5, <2>1 DEF TypeOK, Exit
<1> QED
  BY <1>3, <1>4, <1>5 DEF KubeStep, Run

LEMMA EnvTypes ==
  ASSUME TypeOK, KubeEnv
  PROVE TypeOK'
<1>1. gone' \subseteq Object /\ been' \subseteq Object
  BY ObserveTypes DEF KubeEnv
<1>2. CASE Fault
  <2>1. faults' \in 0 .. MaxFaults
    BY <1>2, BoundAssumption DEF TypeOK, Fault
  <2>2. /\ live' \in [Object -> Existing \cup {Absent}] /\ applied' \subseteq Object
        /\ todo' \subseteq Object /\ UNCHANGED <<pc, req, result>>
    <3>1. CASE \E o \in Object : Get(o) \/ Apply(o) \/ Delete(o)
      BY <3>1, VisitTypes
    <3>2. CASE /\ \/ \E o \in todo : todo' = todo \ {o}
                  \/ todo' = {}
               /\ UNCHANGED <<pc, req, result, live, applied>>
      BY <3>2 DEF TypeOK
    <3> QED
      BY <1>2, <3>1, <3>2 DEF Fault, Unanswered
  <2>3. err' \in BOOLEAN /\ UNCHANGED <<disk, others>>
    BY <1>2 DEF Fault, Unanswered
  <2> QED
    BY <1>1, <2>1, <2>2, <2>3 DEF TypeOK
<1>3. CASE Other
  <2>1. others' \in 0 .. MaxOthers
    BY <1>3, BoundAssumption DEF TypeOK, Other
  <2>2. live' \in [Object -> Existing \cup {Absent}]
    BY <1>3 DEF TypeOK, Other, Existing
  <2>3. UNCHANGED <<pc, req, todo, err, result, applied, disk, faults>>
    BY <1>3 DEF Other, call
  <2> QED
    BY <1>1, <2>1, <2>2, <2>3 DEF TypeOK
<1> QED
  BY <1>2, <1>3 DEF KubeEnv

LEMMA BeginTypes ==
  ASSUME TypeOK, NEW r \in Request, Begin(r)
  PROVE TypeOK'
<1>1. /\ pc' \in {"idle"} \cup Verb /\ todo' \subseteq Object /\ err' \in BOOLEAN
      /\ result' \in Result
  <2>1. CASE Return("failed")
    BY <2>1 DEF Return, Result
  <2>2. CASE Kubectl("get", r)
    BY <2>2, KubectlTypes DEF Begin, Verb, Result
  <2>3. CASE Kubectl(MainVerb(r), r)
    BY <2>3, KubectlTypes, MainVerbType DEF Begin, Result
  <2> QED
    BY <2>1, <2>2, <2>3 DEF Begin
<1>2. gone' \subseteq Object /\ been' \subseteq Object /\ applied' = {} /\ req' = r
  BY DEF Begin, AbsentNow
<1>3. faults' \in 0 .. MaxFaults /\ others' \in 0 .. MaxOthers
  BY BoundAssumption DEF Begin
<1> QED
  BY <1>1, <1>2, <1>3 DEF TypeOK, Begin

LEMMA NextTypes ==
  ASSUME TypeOK, [Next]_kubeVars
  PROVE TypeOK'
<1>1. CASE UNCHANGED kubeVars
  BY <1>1 DEF TypeOK, kubeVars, call, history
<1> QED
  BY <1>1, RunTypes, EnvTypes, BeginTypes DEF Next

LEMMA InitTypes ==
  ASSUME KubeInit
  PROVE TypeOK
<1>1. req \in Request
  <2>1. req = [state |-> "exists", form |-> "nothing", targets |-> {}, force |-> FALSE]
    BY DEF KubeInit
  <2>2. [state |-> "exists", form |-> "nothing", targets |-> {}, force |-> FALSE]
          \in [state : State, form : Form, targets : SUBSET Object, force : BOOLEAN]
    BY DEF State, Form
  <2> QED
    BY <2>1, <2>2 DEF Request
<1>2. live \in [Object -> Existing \cup {Absent}]
  BY DEF KubeInit, Existing
<1>3. faults \in 0 .. MaxFaults /\ others \in 0 .. MaxOthers
  BY BoundAssumption DEF KubeInit
<1> QED
  BY <1>1, <1>2, <1>3 DEF KubeInit, TypeOK, Result

\* KubeTypeCorrect: the state of a call and of the API server stays in its types.
THEOREM KubeTypeCorrect == Spec => []TypeOK
BY InitTypes, NextTypes, PTL DEF Spec

-----------------------------------------------------------------------------
(* the invariant *)

\* what a verb finds when it starts, wherever the call begins it
LEMMA StartInv ==
  ASSUME TypeOK, NEW r \in Request, req' = r, NEW v \in Verb, Kubectl(v, r),
         v = "get" => AsksFirst(r) /\ ~Incomplete(r),
         v # "get" => v = MainVerb(r) /\ ~Incomplete(r),
         AbsentNow \subseteq gone', Object \ AbsentNow \subseteq been', UNCHANGED live
  PROVE IInv'
<1> USE RequestTypes DEF Kubectl
<1>1. pc' = v /\ result' = "none" /\ AbsentNow' = AbsentNow
  BY DEF AbsentNow
<1>2. CASE v = "get"
  <2>1. /\ r.state \in {"exists", "absent", "stopped"} /\ (r.state # "exists" => ~r.force)
        /\ r.form # "nothing"
    BY <1>2 DEF AsksFirst, Incomplete, Appliers
  <2>2. CASE r.form \in {"files", "name"}
    BY <1>1, <1>2, <2>1, <2>2 DEF IInv, GetInv, ApplyInv, DeleteInv, StopInv, Noticed, Results,
       PresentMeansApplied, ExistsIsTrue, AbsentMeansGone, Selected, StartError, Refused, Lists, Unknown
  <2>3. CASE Lists(r)
    <3>1. todo' = {} /\ (err' <=> r.targets \subseteq AbsentNow)
      BY <1>2, <2>3 DEF Selected, StartError, Refused, Lists, Unknown
    <3> QED
      BY <1>1, <1>2, <2>1, <2>3, <3>1 DEF Lists, IInv, GetInv, ApplyInv, DeleteInv, StopInv, Noticed,
         Results, PresentMeansApplied, ExistsIsTrue, AbsentMeansGone
  <2>4. CASE r.form = "both"
    <3>1. todo' = {} /\ err'
      BY <1>2, <2>4 DEF Selected, StartError, Refused, Lists, Unknown
    <3> QED
      BY <1>1, <1>2, <2>1, <2>4, <3>1 DEF IInv, GetInv, ApplyInv, DeleteInv, StopInv, Noticed,
         Results, PresentMeansApplied, ExistsIsTrue, AbsentMeansGone
  <2> QED
    BY <2>1, <2>2, <2>3, <2>4 DEF Lists, Form
<1>3. CASE v # "get"
  <2>1. /\ v = "apply" => r.state \in Appliers /\ r.form = "files" /\ r.targets \ todo' = {}
        /\ v = "delete" => r.state = "absent" /\ (~err' => r.targets \ todo' \subseteq gone')
        /\ v = "stop" => r.state = "stopped" /\ err'
    BY <1>3, MainVerbType DEF Incomplete, Selected, StartError, Refused, Lists, Unknown, State, Appliers
  <2> QED
    BY <1>1, <1>3, <2>1 DEF IInv, GetInv, ApplyInv, DeleteInv, StopInv, Noticed, Results,
       PresentMeansApplied, ExistsIsTrue, AbsentMeansGone
<1> QED
  BY <1>2, <1>3

LEMMA BeginInv ==
  ASSUME TypeOK, NEW r \in Request, Begin(r)
  PROVE IInv'
<1>1. CASE Return("failed")
  BY <1>1 DEF Return, IInv, GetInv, ApplyInv, DeleteInv, StopInv, Noticed, Results,
     PresentMeansApplied, ExistsIsTrue, AbsentMeansGone
<1>2. CASE ~Incomplete(r) /\ AsksFirst(r) /\ Kubectl("get", r)
  BY <1>2, StartInv DEF Begin, Verb
<1>3. CASE ~Incomplete(r) /\ ~AsksFirst(r) /\ Kubectl(MainVerb(r), r)
  <2>1. MainVerb(r) \in Verb /\ MainVerb(r) # "get"
    BY <1>3, MainVerbType, RequestTypes DEF AsksFirst, State, Appliers
  <2> QED
    BY <1>3, <2>1, StartInv DEF Begin
<1> QED
  BY <1>1, <1>2, <1>3 DEF Begin

LEMMA ObserveFacts ==
  ASSUME TypeOK, Observe
  PROVE /\ gone \subseteq gone' /\ been \subseteq been'
        /\ AbsentNow' \subseteq gone' /\ Object \ AbsentNow' \subseteq been'
BY DEF Observe, AbsentNow

\* While a call runs, its results are none.
LEMMA NoResult ==
  ASSUME pc' # "idle", result' = "none"
  PROVE Results'
BY DEF Results, PresentMeansApplied, ExistsIsTrue, AbsentMeansGone

\* kubectl takes a step of its verb, and knows whether it has an error
LEMMA VisitInv ==
  ASSUME TypeOK, IInv, NEW o \in Object, Get(o) \/ Apply(o) \/ Delete(o), Observe,
         \/ /\ faults' = faults
            /\ err' = (err \/ (pc # "apply" /\ live[o] = Absent /\ MissingIsError))
         \/ faults' = faults + 1 /\ err' = TRUE
  PROVE IInv'
<1>1. /\ pc \in {"get", "apply", "delete"} /\ o \in todo /\ todo' = todo \ {o}
      /\ UNCHANGED <<pc, req, result>>
  BY DEF Get, Apply, Delete, Visit
<1>2. result' = "none" /\ Results' /\ Noticed' /\ StopInv'
  <2>1. result' = "none"
    BY <1>1 DEF IInv, Noticed
  <2> QED
    BY <1>1, <2>1, NoResult, ObserveFacts DEF Noticed, StopInv
<1>3. ~err' => ~err
  OBVIOUS
<1>4. CASE pc = "get"
  <2>1. live' = live
    BY <1>1, <1>4 DEF Get, Apply, Delete, Visit
  <2>2. req.form \in {"files", "name"}
    BY <1>1, <1>4, RequestTypes DEF Lists, IInv, GetInv, TypeOK, Form
  <2>3. ~err' => o \in been'
    <3>1. ~err' => live[o] # Absent
      BY <1>4 DEF MissingIsError
    <3> QED
      BY <2>1, <3>1 DEF Observe
  <2>4. err' /\ faults' = 0 => (err /\ faults = 0) \/ o \in gone'
    <3>1. live[o] = Absent => o \in gone'
      BY <2>1 DEF Observe
    <3>2. faults' = 0 => faults' # faults + 1
      BY DEF TypeOK
    <3>3. faults' # faults + 1 => faults' = faults /\ (err' => err \/ live[o] = Absent)
      BY Zenon
    <3> QED
      BY <3>1, <3>2, <3>3
  <2>5. GetInv'
    BY <1>1, <1>3, <1>4, <2>2, <2>3, <2>4, ObserveFacts DEF IInv, GetInv
  <2> QED
    BY <1>1, <1>2, <1>4, <2>5 DEF IInv, ApplyInv, DeleteInv
<1>5. CASE pc = "apply"
  <2>1. o \in applied' /\ applied \subseteq applied'
    BY <1>1, <1>5 DEF Get, Apply, Delete, Visit
  <2>2. ApplyInv'
    BY <1>1, <1>3, <1>5, <2>1 DEF IInv, ApplyInv
  <2> QED
    BY <1>1, <1>2, <1>5, <2>2 DEF IInv, GetInv, DeleteInv
<1>6. CASE pc = "delete"
  <2>1. live' = [live EXCEPT ![o] = Absent]
    BY <1>1, <1>6 DEF Get, Apply, Delete, Visit
  <2>2. o \in gone'
    BY <2>1 DEF TypeOK, Observe
  <2>3. DeleteInv'
    BY <1>1, <1>3, <1>6, <2>2, ObserveFacts DEF IInv, DeleteInv
  <2> QED
    BY <1>1, <1>2, <1>6, <2>3 DEF IInv, GetInv, ApplyInv
<1> QED
  BY <1>1, <1>4, <1>5, <1>6

\* a request that is not carried out leaves the verb with an error
LEMMA UnansweredInv ==
  ASSUME TypeOK, IInv, pc # "idle", faults' = faults + 1, err' = TRUE,
         todo' \subseteq todo, UNCHANGED <<pc, req, result, live, applied>>, Observe
  PROVE IInv'
<1>1. result' = "none" /\ Results' /\ Noticed'
  BY NoResult, ObserveFacts DEF IInv, Noticed
<1>2. faults' # 0
  BY DEF TypeOK
<1>3. GetInv' /\ ApplyInv' /\ DeleteInv' /\ StopInv'
  BY <1>2 DEF IInv, GetInv, ApplyInv, DeleteInv, StopInv
<1> QED
  BY <1>1, <1>3 DEF IInv

LEMMA AnswerInv ==
  ASSUME TypeOK, IInv, Answer, Observe, faults' = faults
  PROVE IInv'
<1>1. /\ req \in Request /\ req' = req /\ live' = live /\ pc = "get" /\ todo = {}
      /\ applied' = applied
  BY DEF Answer, TypeOK
<1>2. /\ req.state \in {"exists", "absent", "stopped"}
      /\ req.state # "exists" => ~req.force
      /\ req.form # "nothing"
  BY <1>1 DEF IInv, GetInv
<1>3. /\ req.form \in {"files", "name"} =>
           /\ ~err => req.targets \subseteq been'
           /\ err /\ faults = 0 => req.targets \cap gone' # {}
      /\ Lists(req) =>
           /\ ~err => req.targets \cap been' # {}
           /\ err /\ faults = 0 => req.targets \subseteq gone'
  BY <1>1, ObserveFacts DEF IInv, GetInv
<1>4. CASE req.state = "exists" /\ Return(IF exists THEN "True" ELSE "False")
  <2>1. pc' = "idle" /\ result' = IF exists THEN "True" ELSE "False"
    BY <1>4 DEF Return
  <2>2. req.form = "both" => err
    BY <1>1 DEF IInv, GetInv
  <2>3. ExistsIsTrue'
    BY <1>1, <1>2, <1>3, <2>1, <2>2, RequestTypes DEF Lists, ExistsIsTrue, exists, Form
  <2> QED
    BY <1>1, <1>4, <2>1, <2>3 DEF IInv, GetInv, ApplyInv, DeleteInv, StopInv, Noticed, Results,
       PresentMeansApplied, AbsentMeansGone, Appliers
<1>5. CASE req.state # "exists" /\ ~GoesOn /\ Return("ok")
  <2>1. pc' = "idle" /\ result' = "ok" /\ err
    BY <1>2, <1>5 DEF Return, GoesOn, exists, Appliers
  <2>2. AbsentMeansGone'
    <3>1. CASE req.form \in {"files", "name"}
      <4>1. faults = 0 => req.targets \cap gone' # {}
        BY <1>3, <2>1, <3>1
      <4>2. req.form = "name" => \E o \in Object : req.targets = {o}
        BY <1>1, RequestTypes
      <4>3. req.form = "name" /\ faults = 0 => req.targets \subseteq gone'
        BY <4>1, <4>2
      <4> QED
        BY <1>1, <1>2, <1>5, <3>1, <4>1, <4>3 DEF AbsentMeansGone, TypeOK
    <3>2. CASE Lists(req)
      BY <1>1, <1>2, <1>3, <1>5, <2>1, <3>2 DEF AbsentMeansGone, TypeOK
    <3>3. CASE req.form = "both"
      <4>1. req.targets = {}
        BY <1>1, <3>3, RequestTypes
      <4> QED
        BY <1>1, <4>1 DEF AbsentMeansGone
    <3> QED
      BY <1>1, <1>2, <3>1, <3>2, <3>3, RequestTypes DEF Lists, Form
  <2> QED
    BY <1>1, <1>2, <2>1, <2>2 DEF IInv, GetInv, ApplyInv, DeleteInv, StopInv, Noticed, Results,
       PresentMeansApplied, ExistsIsTrue, Appliers
<1>6. CASE req.state # "exists" /\ GoesOn /\ Kubectl(MainVerb(req), req)
  <2>1. MainVerb(req) \in Verb /\ MainVerb(req) # "get" /\ ~Incomplete(req)
    BY <1>1, <1>2, <1>6, MainVerbType DEF Incomplete, Appliers
  <2>2. AbsentNow \subseteq gone' /\ Object \ AbsentNow \subseteq been'
    BY <1>1 DEF Observe, AbsentNow
  <2> QED
    BY <1>1, <1>6, <2>1, <2>2, StartInv
<1> QED
  BY <1>4, <1>5, <1>6 DEF Answer

LEMMA ExitInv ==
  ASSUME TypeOK, IInv, Exit, Observe, faults' = faults
  PROVE IInv'
<1>1. /\ pc' = "idle" /\ result' = (IF err THEN "failed" ELSE "ok") /\ todo = {}
      /\ UNCHANGED <<req, applied>> /\ pc \in {"apply", "delete", "stop"}
  BY DEF Exit, Return
<1>2. Results'
  BY <1>1, ObserveFacts DEF IInv, ApplyInv, DeleteInv, StopInv, Results, PresentMeansApplied,
     ExistsIsTrue, AbsentMeansGone, Appliers
<1> QED
  BY <1>1, <1>2 DEF IInv, GetInv, ApplyInv, DeleteInv, StopInv, Noticed

LEMMA OtherInv ==
  ASSUME TypeOK, IInv, Other, Observe
  PROVE IInv'
<1>1. UNCHANGED <<pc, req, todo, err, result, applied, faults>>
  BY DEF Other, call
<1>2. GetInv' /\ ApplyInv' /\ DeleteInv' /\ StopInv'
  BY <1>1, ObserveFacts DEF IInv, GetInv, ApplyInv, DeleteInv, StopInv
<1>3. Noticed'
  BY <1>1, ObserveFacts DEF IInv, Noticed
<1>4. Results'
  BY <1>1, ObserveFacts DEF IInv, Results, PresentMeansApplied, ExistsIsTrue, AbsentMeansGone
<1> QED
  BY <1>2, <1>3, <1>4 DEF IInv

LEMMA NextInv ==
  ASSUME TypeOK, IInv, [Next]_kubeVars
  PROVE IInv'
<1>1. CASE KubeStep
  <2>1. Observe /\ faults' = faults
    BY <1>1 DEF KubeStep, Run
  <2>2. ASSUME NEW o \in Object, Answered(o)
        PROVE IInv'
    BY <2>1, <2>2, VisitInv DEF Answered
  <2> QED
    BY <1>1, <2>1, <2>2, AnswerInv, ExitInv DEF KubeStep, Run
<1>2. CASE KubeEnv /\ Fault
  <2>1. Observe /\ pc # "idle" /\ faults' = faults + 1 /\ err' = TRUE
    BY <1>2 DEF KubeEnv, Fault, Unanswered
  <2>2. ASSUME NEW o \in Object, Get(o) \/ Apply(o) \/ Delete(o)
        PROVE IInv'
    BY <2>1, <2>2, VisitInv
  <2>3. ASSUME todo' \subseteq todo, UNCHANGED <<pc, req, result, live, applied>>
        PROVE IInv'
    BY <2>1, <2>3, UnansweredInv
  <2> QED
    BY <1>2, <2>2, <2>3 DEF Fault, Unanswered
<1>3. CASE KubeEnv /\ Other
  BY <1>3, OtherInv DEF KubeEnv
<1>4. ASSUME NEW r \in Request, Begin(r)
      PROVE IInv'
  BY <1>4, BeginInv
<1>5. CASE UNCHANGED kubeVars
  BY <1>5 DEF kubeVars, call, history, AbsentNow, IInv, GetInv, ApplyInv, DeleteInv, StopInv,
     Noticed, Results, PresentMeansApplied, ExistsIsTrue, AbsentMeansGone
<1> QED
  BY <1>1, <1>2, <1>3, <1>4, <1>5 DEF Next, KubeEnv

LEMMA Invariance == Spec => [](TypeOK /\ IInv)
<1>1. KubeInit => IInv
  BY DEF KubeInit, IInv, GetInv, ApplyInv, DeleteInv, StopInv, Noticed, Results,
     PresentMeansApplied, ExistsIsTrue, AbsentMeansGone
<1>2. TypeOK /\ IInv /\ [Next]_kubeVars => IInv'
  BY NextInv
<1> QED
  BY <1>1, <1>2, KubeTypeCorrect, PTL DEF Spec

\* PresentIsApplied: present, latest and reloaded succeed only after the call has
\* brought each of its objects to its manifest.
THEOREM PresentIsApplied == Spec => []PresentMeansApplied
BY Invariance, PTL DEF IInv, Results

\* ExistsTellsTrue: True and False are answers about moments of the call.
THEOREM ExistsTellsTrue == Spec => []ExistsIsTrue
BY Invariance, PTL DEF IInv, Results

\* AbsentIsGone: absent succeeds with an object never gone only if it asked
\* first and a request failed, or the question was about several files.
THEOREM AbsentIsGone == Spec => []AbsentMeansGone
BY Invariance, PTL DEF IInv, Results
=============================================================================
