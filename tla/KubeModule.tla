----------------------------- MODULE KubeModule -----------------------------
(***************************************************************************)
(* library/kube.py: one call of the module at a time, from its parameters    *)
(* to the result Ansible registers.  A call runs kubectl once or twice; each *)
(* kubectl works through the objects it was given one by one, so other       *)
(* clients of the API server come between, and any request may fail.         *)
(*                                                                         *)
(* A manifest file defines one object and is known by it.  kubectl is not    *)
(* part of the repository: its verbs are modelled from how the module uses   *)
(* their exit code and output.  The order in which kubectl visits the files  *)
(* is left open; namespaces, --wait, --recursive and log levels are left out.*)
(***************************************************************************)
EXTENDS Naturals, FiniteSets

CONSTANTS
  Object,      \* objects that calls are about
  Content,     \* what manifests say
  Foreign,     \* what an object says that other clients made
  Absent,      \* the state of an object that does not exist
  MaxFaults,   \* bound: requests that fail in one call
  MaxOthers    \* bound: steps of other clients during one call

ASSUME ContentAssumption == Foreign \notin Content
ASSUME AbsentAssumption ==
  Absent \notin [made : Content \cup {Foreign}, says : Content \cup {Foreign}]
ASSUME BoundAssumption == MaxFaults \in Nat /\ MaxOthers \in Nat

\* made: what the object was created from; apply merges the manifest into it
Existing == [made : Content \cup {Foreign}, says : Content \cup {Foreign}]

State == {"present", "latest", "reloaded", "absent", "stopped", "exists"}
Appliers == {"present", "latest", "reloaded"}

\* files: filename is given; name, selector: resource with a name, or with
\* label or all; both: resource with a name and label or all; kind: resource
\* alone; nothing: neither
Form == {"files", "name", "selector", "kind", "both", "nothing"}

Request ==
  {r \in [state : State, form : Form, targets : SUBSET Object, force : BOOLEAN] :
     /\ r.form \in {"nothing", "both"} <=> r.targets = {}
     /\ r.form = "name" => \E o \in Object : r.targets = {o}}

Verb == {"get", "apply", "delete", "stop"}
Result == {"none", "ok", "failed", "True", "False"}

VARIABLES
  live,     \* API server: the objects
  disk,     \* what the manifest of each object says
  pc,       \* "idle", or the kubectl verb that runs
  req,      \* module.params of the latest call
  todo,     \* objects kubectl has not come to yet
  err,      \* kubectl will exit with rc # 0
  result,   \* of the latest call, "none" while it runs
  faults,   \* requests of the call that have failed
  others,   \* steps other clients have taken since it began
  gone,     \* history: objects absent at some moment of the call
  been,     \* history: objects that existed at some moment of the call
  applied   \* history: objects the call has brought to their manifest

call == <<pc, req, todo, err, result>>
history == <<gone, been, applied>>
kubeVars == <<live, disk, call, faults, others, history>>

AbsentNow == {o \in Object : live[o] = Absent}

TypeOK ==
  /\ live \in [Object -> Existing \cup {Absent}]
  /\ disk \in [Object -> Content]
  /\ pc \in {"idle"} \cup Verb
  /\ req \in Request
  /\ todo \subseteq Object /\ err \in BOOLEAN /\ result \in Result
  /\ faults \in 0 .. MaxFaults /\ others \in 0 .. MaxOthers
  /\ gone \subseteq Object /\ been \subseteq Object /\ applied \subseteq Object

KubeInit ==
  /\ live \in [Object -> {Absent, [made |-> Foreign, says |-> Foreign]}]
  /\ disk \in [Object -> Content]
  /\ pc = "idle" /\ todo = {} /\ err = FALSE /\ result = "none"
  /\ req = [state |-> "exists", form |-> "nothing", targets |-> {}, force |-> FALSE]
  /\ faults = 0 /\ others = 0
  /\ gone = {} /\ been = {} /\ applied = {}

-----------------------------------------------------------------------------
(* kubectl *)

\* Faulty variant of MainVerb: replace() runs kubectl replace.
MainVerbReplaces(r) ==
  CASE r.state = "present" -> "apply"
    [] r.state \in {"latest", "reloaded"} -> "replace"
    [] r.state = "absent"  -> "delete"
    [] r.state = "stopped" -> "stop"
    [] r.state = "exists"  -> "get"

MainVerb(r) ==
  CASE r.state \in Appliers -> "apply"
    [] r.state = "absent"   -> "delete"
    [] r.state = "stopped"  -> "stop"
    [] r.state = "exists"   -> "get"

\* kubectl has no command "stop" any more
Unknown(v) == v = "stop"

\* kubectl lists what there is, it is not given the objects
Lists(r) == r.form \in {"selector", "kind"}

\* kubectl refuses a name with a selector, and to delete a whole kind
Refused(v, r) == r.form = "both" \/ Unknown(v) \/ (r.form = "kind" /\ v = "delete")

\* a list is one request: get prints what it finds, delete goes on with it
Selected(v, r) ==
  CASE Refused(v, r) \/ (Lists(r) /\ v = "get") -> {}
    [] Lists(r) /\ v = "delete"                -> r.targets \ AbsentNow
    [] OTHER                                   -> r.targets

\* an empty answer counts like rc # 0 (exists: "if not result")
StartError(v, r) ==
  Refused(v, r) \/ (Lists(r) /\ v = "get" /\ r.targets \subseteq AbsentNow)

Kubectl(v, r) ==
  /\ pc' = v
  /\ todo' = Selected(v, r)
  /\ err' = StartError(v, r)
  /\ result' = "none"

Return(res) ==
  /\ pc' = "idle" /\ todo' = {} /\ err' = FALSE
  /\ result' = res

Visit(v, o) ==
  /\ pc = v /\ o \in todo
  /\ todo' = todo \ {o}
  /\ UNCHANGED <<pc, req, result>>

Get(o) ==
  /\ Visit("get", o)
  /\ UNCHANGED <<live, applied>>

Apply(o) ==
  /\ Visit("apply", o)
  /\ live' = [live EXCEPT ![o] =
       [made |-> IF live[o] = Absent THEN disk[o] ELSE live[o].made,
        says |-> disk[o]]]
  /\ applied' = applied \cup {o}

Delete(o) ==
  /\ Visit("delete", o)
  /\ live' = [live EXCEPT ![o] = Absent]
  /\ UNCHANGED applied

\* --ignore-not-found is never passed with files, passed with a name by force,
\* and implied by a list
MissingIsError ==
  \/ pc = "get" \/ req.form = "files"
  \/ req.form = "name" /\ ~req.force

Answered(o) ==
  /\ Get(o) \/ Apply(o) \/ Delete(o)
  /\ err' = (err \/ (pc # "apply" /\ live[o] = Absent /\ MissingIsError))

\* the request is not answered, whether it was carried out or not; or nothing
\* that is still to be done is
Unanswered ==
  /\ \/ \E o \in Object : Get(o) \/ Apply(o) \/ Delete(o)
     \/ /\ \/ \E o \in todo : todo' = todo \ {o}
           \/ todo' = {}
        /\ UNCHANGED <<pc, req, result, live, applied>>
  /\ err' = TRUE

-----------------------------------------------------------------------------
(* the module *)

\* Faulty variant of AsksFirst: main calls create(check=True).
AsksFirstPresent(r) ==
  \/ r.state \in {"exists", "present"}
  \/ r.state \in {"absent", "stopped"} /\ ~r.force

\* Faulty variant of AsksFirst: delete ignores force.
AsksFirstForced(r) == r.state \in {"exists", "absent", "stopped"}

\* main calls create(check=False); delete and stop skip the question by force
AsksFirst(r) ==
  \/ r.state = "exists"
  \/ r.state \in {"absent", "stopped"} /\ ~r.force

\* fail_json: no file to apply, or no resource to ask for or to delete
Incomplete(r) ==
  IF r.state \in Appliers THEN r.form # "files" ELSE r.form = "nothing"

Begin(r) ==
  /\ pc = "idle"
  /\ req' = r
  /\ \/ Incomplete(r) /\ Return("failed")
     \/ ~Incomplete(r) /\ AsksFirst(r) /\ Kubectl("get", r)
     \/ ~Incomplete(r) /\ ~AsksFirst(r) /\ Kubectl(MainVerb(r), r)
  /\ gone' = AbsentNow /\ been' = Object \ AbsentNow
  /\ applied' = {}
  /\ faults' = 0 /\ others' = 0
  /\ UNCHANGED <<live, disk>>

\* Faulty variant of exists: an error of kubectl counts as a yes.
existsLoose == TRUE

\* _execute_nofail: any error, and no output, is a no
exists == ~err

\* create goes on when the object is missing, delete and stop when it is there
GoesOn == IF req.state \in Appliers THEN ~exists ELSE exists

Answer ==
  /\ pc = "get" /\ todo = {}
  /\ \/ /\ req.state = "exists"
        /\ Return(IF exists THEN "True" ELSE "False")
     \/ req.state # "exists" /\ ~GoesOn /\ Return("ok")
     \/ req.state # "exists" /\ GoesOn /\ Kubectl(MainVerb(req), req)
  /\ UNCHANGED <<req, live, applied>>

\* _execute: rc # 0 is fail_json
Exit ==
  /\ pc \in {"apply", "delete", "stop"} /\ todo = {}
  /\ Return(IF err THEN "failed" ELSE "ok")
  /\ UNCHANGED <<req, live, applied>>

Run ==
  /\ (\E o \in Object : Answered(o)) \/ Answer \/ Exit
  /\ UNCHANGED <<disk, faults, others>>

Fault ==
  /\ pc # "idle" /\ faults < MaxFaults
  /\ Unanswered
  /\ faults' = faults + 1
  /\ UNCHANGED <<disk, others>>

\* another client creates or deletes an object
Other ==
  /\ others < MaxOthers
  /\ \E o \in Object :
       live' = [live EXCEPT ![o] = IF live[o] = Absent
                                     THEN [made |-> Foreign, says |-> Foreign]
                                     ELSE Absent]
  /\ others' = others + 1
  /\ UNCHANGED <<call, applied, disk, faults>>

\* history of the call that runs
Observe ==
  /\ gone' = gone \cup {o \in Object : live'[o] = Absent}
  /\ been' = been \cup {o \in Object : live'[o] # Absent}

\* the call itself, and what happens to it
KubeStep == Run /\ Observe
KubeEnv == (Fault \/ Other) /\ Observe

Next == KubeStep \/ KubeEnv \/ \E r \in Request : Begin(r)

Spec == KubeInit /\ [][Next]_kubeVars

-----------------------------------------------------------------------------
(* Properties *)

\* present, latest and reloaded report success only after every object of the
\* call was brought to its manifest by this call, whatever existed before.
PresentMeansApplied ==
  result = "ok" /\ req.state \in Appliers => req.targets \subseteq applied

\* exists answers True only if each object it was asked for, or for a list
\* one of them, existed at some moment of the call; False with every request
\* answered only if one did not, or for a list each did not.
ExistsIsTrue ==
  /\ result = "True" =>
       IF Lists(req) THEN req.targets \cap been # {}
                    ELSE req.targets \subseteq been
  /\ result = "False" /\ faults = 0 /\ req.form # "both" =>
       IF Lists(req) THEN req.targets \subseteq gone
                    ELSE req.targets \cap gone # {}

\* absent reports success with an object never gone only when it asked first
\* and no was the wrong answer: a request failed, kubectl refused the
\* parameters, or the question was about several files.
AbsentMeansGone ==
  result = "ok" /\ req.state = "absent" /\ ~(req.targets \subseteq gone) =>
    /\ ~req.force
    /\ faults > 0 \/ (req.form = "files" /\ req.targets \cap gone # {})

\* "absent handles deleting resource(s) based on other options" (kube.py:75):
\* success means that each object was gone at some moment of the call.
AbsentAlwaysMeansGone ==
  result = "ok" /\ req.state = "absent" => req.targets \subseteq gone
=============================================================================
