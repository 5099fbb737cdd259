-------------------------- MODULE OpenStackCleanup --------------------------
(***************************************************************************)
(* scripts/openstack-cleanup/main.py: deletes from an OpenStack project what *)
(* is older than some hours, kind after kind, in the order of main().  The   *)
(* script runs again and again; jobs create new resources meanwhile.         *)
(*                                                                         *)
(* OpenStack is external: a delete is refused with a conflict while the      *)
(* resource is in use, a delete of what is gone succeeds (ignore_missing),   *)
(* servers are only marked and go later, with the ports nova has made for    *)
(* them.  A listing is what there is when its loop begins.                   *)
(***************************************************************************)
EXTENDS Integers, FiniteSets

CONSTANTS
  Server, SecurityGroup, Port, Subnet, Network,
  Device,      \* [Port -> Server, or None for one of a router or of nobody]
  NovaMade,    \* ports nova made with their server
  Interface,   \* ports that are the interface of a router
  Secures,     \* [Port -> its security groups]
  On,          \* [Port -> its subnet]
  In,          \* [Subnet -> its network]
  External,    \* networks with router:external
  Named,       \* resources with the name "default"
  None,        \* no time, no server
  InitialResource,
  Hours,       \* --hours
  Zone,        \* local time of the script's machine minus UTC
  MaxNow,      \* bound on the clock
  MaxFaults    \* bound on failing requests

Resource == Server \cup SecurityGroup \cup Port \cup Subnet \cup Network

ASSUME RelationAssumption ==
  /\ Device \in [Port -> Server \cup {None}] /\ Secures \in [Port -> SUBSET SecurityGroup]
  /\ On \in [Port -> Subnet] /\ In \in [Subnet -> Network]
  /\ NovaMade \subseteq {p \in Port : Device[p] # None}
  /\ Interface \subseteq {p \in Port : Device[p] = None}
  /\ External \subseteq Network /\ Named \cup InitialResource \subseteq Resource
ASSUME KindAssumption ==
  /\ Server \cap (SecurityGroup \cup Port \cup Subnet \cup Network) = {}
  /\ Port \cap Subnet = {} /\ Network \cap (Port \cup Subnet) = {}
ASSUME NumberAssumption ==
  Hours \in Nat /\ Zone \in Int /\ MaxNow \in Nat /\ MaxFaults \in Nat /\ None \notin Nat

VARIABLES
  alive,     \* resources that exist
  born,      \* their created_at, None for those never created
  leaving,   \* servers nova has yet to delete
  now,       \* UTC
  phase,     \* the loop of main() that runs; "idle", "ended" or "aborted" between runs
  todo,      \* what the loop has not come to
  cutoff,    \* oldest_allowed
  dry_run,
  faults     \* requests that failed

run == <<phase, todo, cutoff, dry_run>>
vars == <<alive, born, leaving, now, run, faults>>

Between == {"idle", "ended", "aborted"}

Init ==
  /\ alive = InitialResource
  /\ born = [r \in Resource |-> IF r \in InitialResource THEN 0 ELSE None]
  /\ leaving = {} /\ now = 0
  /\ phase = "idle" /\ todo = {} /\ cutoff = 0 /\ dry_run = FALSE /\ faults = 0

-----------------------------------------------------------------------------
(* OpenStack, and the jobs that use it *)

InUse(r) ==
  \/ r \in Interface
  \/ \E p \in alive \cap Port : r \in Secures[p] \cup {On[p], In[On[p]]}

\* what a delete of r takes away: a network goes with its subnets
Deleted(r) == IF r \in alive THEN {r} \cup {s \in alive \cap Subnet : In[s] = r} ELSE {}

NovaDeletes(s) ==
  /\ s \in leaving
  /\ leaving' = leaving \ {s}
  /\ alive' = alive \ ({s} \cup {p \in NovaMade : Device[p] = s})
  /\ UNCHANGED <<born, now, run, faults>>

\* a job makes a resource, after those it needs; jobs end early enough for what
\* they leave behind to get old
Create(r) ==
  /\ born[r] = None /\ now + Hours < MaxNow
  /\ r \in Subnet => In[r] \in alive
  /\ r \in Port => Secures[r] \cup {On[r]} \subseteq alive
  /\ r \in Port /\ Device[r] # None /\ r \in NovaMade => Device[r] \in alive \ leaving
  /\ alive' = alive \cup {r} /\ born' = [born EXCEPT ![r] = now]
  /\ UNCHANGED <<leaving, now, run, faults>>

Tick ==
  /\ now < MaxNow /\ now' = now + 1
  /\ UNCHANGED <<alive, born, leaving, run, faults>>

-----------------------------------------------------------------------------
(* main *)

Loop(next, S) == phase' = next /\ todo' = S

Start(dry) ==
  /\ phase \in Between
  /\ Loop("servers", alive \cap Server)
  /\ cutoff' = now + Zone - Hours /\ dry_run' = dry
  /\ UNCHANGED <<alive, born, leaving, now, faults>>

\* the next loop begins: it lists its items
NextLoop ==
  /\ todo = {}
  /\ \/ phase = "servers" /\ Loop("groups", alive \cap SecurityGroup)
     \/ phase = "groups" /\ Loop("ports", alive \cap Port)
     \/ phase = "unhook" /\ Loop("retry", alive \cap Port)
     \/ phase \in {"ports", "retry"} /\ Loop("subnets", alive \cap Subnet)
     \/ phase = "subnets" /\ Loop("networks", (alive \cap Network) \ External)
     \/ phase = "networks" /\ Loop("ended", {})
  /\ UNCHANGED <<alive, born, leaving, now, cutoff, dry_run, faults>>

\* Faulty variant of fn_if_old: an item of exactly the age is taken, too.
fn_if_oldLoose(r) == r \notin Named /\ born[r] <= cutoff /\ ~dry_run

\* fn is called for r
fn_if_old(r) == r \notin Named /\ born[r] < cutoff /\ ~dry_run

Handled(r) == todo' = todo \ {r} /\ UNCHANGED <<phase, cutoff, dry_run>>
Aborted == Loop("aborted", {}) /\ UNCHANGED <<cutoff, dry_run>>

SkipItem(r) ==
  /\ phase \notin Between /\ r \in todo /\ ~fn_if_old(r)
  /\ Handled(r)
  /\ UNCHANGED <<alive, born, leaving, now, faults>>

\* Faulty variant of DeleteItem: a server that is gone is waited for, too.
DeleteItemGone(r) ==
  /\ phase \notin Between /\ r \in todo /\ fn_if_old(r)
  /\ r \in alive => ~InUse(r)
  /\ Handled(r)
  /\ IF r \in Server
     THEN leaving' = leaving \cup {r} /\ UNCHANGED alive
     ELSE alive' = alive \ Deleted(r) /\ UNCHANGED leaving
  /\ UNCHANGED <<born, now, faults>>

\* the request succeeds
DeleteItem(r) ==
  /\ phase \notin Between /\ r \in todo /\ fn_if_old(r)
  /\ r \in alive => ~InUse(r)
  /\ Handled(r)
  /\ IF r \in Server
     THEN leaving' = leaving \cup ({r} \cap alive) /\ UNCHANGED alive
     ELSE alive' = alive \ Deleted(r) /\ UNCHANGED leaving
  /\ UNCHANGED <<born, now, faults>>

Conflicts(r) == fn_if_old(r) /\ r \in alive /\ InUse(r)

\* only the first loop over the ports and the loop in its handler catch a conflict
ConflictAborts(r) ==
  /\ phase \in {"groups", "retry", "subnets", "networks"} /\ r \in todo /\ Conflicts(r)
  /\ Aborted
  /\ UNCHANGED <<alive, born, leaving, now, faults>>

\* Faulty variant of PortConflicts: the exception is not caught here either.
PortConflictsAborts(r) ==
  /\ phase = "ports" /\ r \in todo /\ Conflicts(r)
  /\ Aborted
  /\ UNCHANGED <<alive, born, leaving, now, faults>>

PortConflicts(r) ==
  /\ phase = "ports" /\ r \in todo /\ Conflicts(r)
  /\ Loop("unhook", alive \cap Subnet)
  /\ UNCHANGED <<alive, born, leaving, now, cutoff, dry_run, faults>>

\* the subnet is removed from every router that has it; a request that fails is
\* ignored
Unhook(r) ==
  /\ phase = "unhook" /\ r \in todo /\ Conflicts(r)
  /\ Handled(r)
  /\ \/ alive' = alive \ {p \in Interface : On[p] = r} /\ UNCHANGED faults
     \/ faults < MaxFaults /\ faults' = faults + 1 /\ UNCHANGED alive
  /\ UNCHANGED <<born, leaving, now>>

\* any other failing request ends the script
Fault ==
  /\ phase \notin Between /\ faults < MaxFaults
  /\ faults' = faults + 1 /\ Aborted
  /\ UNCHANGED <<alive, born, leaving, now>>

Item(r) ==
  SkipItem(r) \/ DeleteItem(r) \/ ConflictAborts(r) \/ PortConflicts(r) \/ Unhook(r)

Next ==
  \/ Tick \/ NextLoop \/ Fault
  \/ \E dry \in BOOLEAN : Start(dry)
  \/ \E r \in Resource : Item(r) \/ Create(r)
  \/ \E s \in Server : NovaDeletes(s)

Spec == Init /\ [][Next]_vars

\* The script is run without --dry-run time and again, a run that has begun goes
\* on, nova deletes what it has marked, and time passes.
FairSpec ==
  /\ Spec /\ WF_vars(Tick) /\ WF_vars(NextLoop) /\ SF_vars(Start(FALSE))
  /\ \A r \in Resource : WF_vars(Item(r))
  /\ \A s \in Server : WF_vars(NovaDeletes(s))

-----------------------------------------------------------------------------
(* properties *)

\* TypeOK: the state stays in its types, servers that leave still exist, and what
\* exists has been created.
TypeOK ==
  /\ alive \subseteq Resource /\ leaving \subseteq alive \cap Server
  /\ born \in [Resource -> 0..MaxNow \cup {None}] /\ \A r \in alive : born[r] # None
  /\ now \in 0..MaxNow /\ faults \in 0..MaxFaults
  /\ phase \in Between \cup {"servers", "groups", "ports", "unhook", "retry", "subnets", "networks"}
  /\ todo \subseteq Resource /\ (phase \in Between => todo = {})
  /\ cutoff \in Int /\ dry_run \in BOOLEAN

\* the items a delete of the script may have been asked for when r went
AskedFor(r) ==
  {r} \cup (IF r \in Interface THEN {On[r]} ELSE {}) \cup (IF r \in Subnet THEN {In[r]} ELSE {})

\* OnlyOldDeleted: a step of the script marks or deletes a resource only if it, the
\* subnet whose interface it is or the network it goes with is more than --hours
\* old at that moment, is not named default, and the run is no dry run.
OnlyOldDeleted ==
  [][leaving \subseteq leaving' =>
       \A r \in (alive \ alive') \cup (leaving' \ leaving) :
         /\ ~dry_run
         /\ \E o \in AskedFor(r) : o \notin Named /\ born[o] + Hours < now]_vars

\* ports that keep a security group in use when their server is gone: those that
\* nova has not made, like all ports of contrib/terraform/openstack
Holding == {p \in Port \ (NovaMade \cup Interface) : Secures[p] \ Named # {}}

\* LeftoversGo: repeated runs delete every server, and everything else jobs have
\* left behind unless there comes to be a port that keeps its security group in use;
\* also when the runs before were aborted by a conflict or a failing request.
LeftoversGo ==
  \A r \in Resource \ (External \cup Named) :
    r \in alive ~> r \notin alive \/ (r \notin Server /\ alive \cap Holding # {})

\* ResourcesGo: "Cleanup OpenStack resources" (description of the script): the same
\* whoever made the ports.
ResourcesGo ==
  \A r \in Resource \ (External \cup Named) : r \in alive ~> r \notin alive
=============================================================================
