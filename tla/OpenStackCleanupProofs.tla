----------------------- MODULE OpenStackCleanupProofs -----------------------
(***************************************************************************)
(* The state of the cleanup stays in its types, and where the local time is  *)
(* not ahead of UTC it deletes only what is old, for every project,          *)
(* every age and every number of runs and faults.                            *)
(***************************************************************************)
EXTENDS OpenStackCleanup, TLAPS

\* what an item of a loop does, apart from its disjuncts
LEMMA LoopTypes ==
  ASSUME TypeOK, NEW r \in Resource, Item(r)
  PROVE TypeOK'
<1> USE RelationAssumption, KindAssumption, NumberAssumption
<1>1. CASE SkipItem(r)
  BY <1>1 DEF TypeOK, SkipItem, Handled, Between, Resource
<1>2. CASE DeleteItem(r)
  <2>1. alive' \subseteq alive /\ leaving' \subseteq alive' \cap Server
    BY <1>2 DEF DeleteItem, TypeOK, Deleted, Resource
  <2> QED
    BY <1>2, <2>1 DEF TypeOK, DeleteItem, Handled, Between, Resource
<1>3. CASE ConflictAborts(r)
  BY <1>3 DEF TypeOK, ConflictAborts, Aborted, Loop, Between, Resource
<1>4. CASE PortConflicts(r)
  BY <1>4 DEF TypeOK, PortConflicts, Loop, Between, Resource
<1>5. CASE Unhook(r)
  BY <1>5 DEF TypeOK, Unhook, Handled, Between, Resource
<1> QED
  BY <1>1, <1>2, <1>3, <1>4, <1>5 DEF Item

LEMMA NextTypes ==
  ASSUME TypeOK, [Next]_vars
  PROVE TypeOK'
<1>1. CASE Tick
  BY <1>1, NumberAssumption DEF TypeOK, Tick, run
<1>2. CASE NextLoop
  <2>1. phase' \in Between \cup {"groups", "ports", "subnets", "networks", "retry"}
    BY <1>2 DEF NextLoop, Loop, Between
  <2>2. todo' \subseteq Resource /\ (phase' \in Between => todo' = {})
    BY <1>2 DEF NextLoop, Loop, Between, Resource
  <2> QED
    BY <1>2, <2>1, <2>2 DEF TypeOK, NextLoop
<1>3. CASE Fault
  BY <1>3, NumberAssumption DEF TypeOK, Fault, Aborted, Loop, Between
<1>4. CASE \E dry \in BOOLEAN : Start(dry)
  BY <1>4, NumberAssumption DEF TypeOK, Start, Loop, Between, Resource
<1>5. ASSUME NEW r \in Resource, Create(r)
      PROVE TypeOK'
  <2>1. /\ alive' = alive \cup {r} /\ born' = [born EXCEPT ![r] = now] /\ now \in 0..MaxNow
        /\ UNCHANGED <<leaving, now, phase, todo, cutoff, dry_run, faults>>
    BY <1>5 DEF Create, run, TypeOK
  <2>2. born' \in [Resource -> 0..MaxNow \cup {None}] /\ \A q \in alive' : born'[q] # None
    BY <2>1, NumberAssumption DEF TypeOK
  <2> QED
    BY <2>1, <2>2 DEF TypeOK
<1>6. ASSUME NEW s \in Server, NovaDeletes(s)
      PROVE TypeOK'
  BY <1>6, KindAssumption DEF TypeOK, NovaDeletes, run, Resource
<1>7. CASE UNCHANGED vars
  BY <1>7 DEF TypeOK, vars, run
<1>8. ASSUME NEW r \in Resource, Item(r)
      PROVE TypeOK'
  BY <1>8, LoopTypes
<1> QED
  BY <1>1, <1>2, <1>3, <1>4, <1>5, <1>6, <1>7, <1>8 DEF Next

\* TypeCorrect: the state stays in its types, servers that leave still exist.
THEOREM TypeCorrect == Spec => []TypeOK
<1>1. Init => TypeOK
  <2> SUFFICES ASSUME Init
               PROVE TypeOK
    OBVIOUS
  <2>1. InitialResource \subseteq Resource
    BY RelationAssumption
  <2>2. 0 \in 0..MaxNow /\ 0 # None
    BY NumberAssumption
  <2>3. \A r \in Resource : (IF r \in InitialResource THEN 0 ELSE None) \in 0..MaxNow \cup {None}
    BY <2>2
  <2>4. born \in [Resource -> 0..MaxNow \cup {None}]
    BY <2>3 DEF Init
  <2>5. \A r \in alive : born[r] # None
    <3> SUFFICES ASSUME NEW r \in InitialResource
                 PROVE born[r] # None
      BY DEF Init
    <3>1. born[r] = 0
      BY <2>1 DEF Init
    <3> QED
      BY <2>2, <3>1
  <2>6. dry_run \in BOOLEAN
    BY Zenon DEF Init
  <2>7. cutoff \in Int /\ now \in 0..MaxNow /\ faults \in 0..MaxFaults
    BY NumberAssumption DEF Init
  <2> QED
    BY <2>1, <2>4, <2>5, <2>6, <2>7, NumberAssumption DEF Init, TypeOK, Between
<1> QED
  BY <1>1, NextTypes, PTL DEF Spec

-----------------------------------------------------------------------------

\* While a run goes on, its cutoff stays as far behind the clock as --hours says.
CutoffInv == phase \notin Between => cutoff <= now + Zone - Hours

LEMMA CutoffKept ==
  ASSUME TypeOK, CutoffInv, [Next]_vars
  PROVE CutoffInv'
<1> USE NumberAssumption DEF CutoffInv, TypeOK
<1>1. CASE Tick
  BY <1>1 DEF Tick, run
<1>2. CASE NextLoop
  BY <1>2 DEF NextLoop, Loop, Between
<1>3. CASE Fault
  BY <1>3 DEF Fault, Aborted, Loop, Between
<1>4. CASE \E dry \in BOOLEAN : Start(dry)
  BY <1>4 DEF Start, Loop
<1>5. ASSUME NEW r \in Resource, Item(r)
      PROVE CutoffInv'
  BY <1>5 DEF Item, SkipItem, DeleteItem, ConflictAborts, PortConflicts, Unhook,
              Handled, Aborted, Loop, Between
<1>6. ASSUME NEW r \in Resource, Create(r)
      PROVE CutoffInv'
  BY <1>6 DEF Create, run
<1>7. ASSUME NEW s \in Server, NovaDeletes(s)
      PROVE CutoffInv'
  BY <1>7 DEF NovaDeletes, run
<1>8. CASE UNCHANGED vars
  BY <1>8 DEF vars, run
<1> QED
  BY <1>1, <1>2, <1>3, <1>4, <1>5, <1>6, <1>7, <1>8 DEF Next

\* what OnlyOldDeleted says of one step
StepDeletesOld ==
  leaving \subseteq leaving' =>
    \A r \in (alive \ alive') \cup (leaving' \ leaving) :
      /\ ~dry_run
      /\ \E o \in AskedFor(r) : o \notin Named /\ born[o] + Hours < now

\* An item for which fn is called is old, where the local time is not ahead.
LEMMA FnOld ==
  ASSUME TypeOK, CutoffInv, Zone <= 0, phase \notin Between,
         NEW o \in alive, fn_if_old(o)
  PROVE ~dry_run /\ o \notin Named /\ born[o] + Hours < now
<1>1. born[o] \in Nat /\ cutoff \in Int /\ now \in Nat
  BY NumberAssumption DEF TypeOK
<1> QED
  BY <1>1, NumberAssumption DEF CutoffInv, fn_if_old

LEMMA NextDeletesOld ==
  ASSUME TypeOK, CutoffInv, Zone <= 0, [Next]_vars
  PROVE StepDeletesOld
<1> USE DEF StepDeletesOld
<1>1. ASSUME NEW r \in Resource, DeleteItem(r)
      PROVE StepDeletesOld
  <2> SUFFICES ASSUME NEW q \in (alive \ alive') \cup (leaving' \ leaving)
               PROVE /\ ~dry_run
                     /\ \E o \in AskedFor(q) : o \notin Named /\ born[o] + Hours < now
    OBVIOUS
  <2>1. r \in alive /\ (q = r \/ (q \in Subnet /\ In[q] = r))
    BY <1>1 DEF DeleteItem, Deleted
  <2>2. r \in AskedFor(q)
    BY <2>1 DEF AskedFor
  <2> QED
    BY <1>1, <2>1, <2>2, FnOld DEF DeleteItem
<1>2. ASSUME NEW r \in Resource, Unhook(r)
      PROVE StepDeletesOld
  <2> SUFFICES ASSUME NEW q \in (alive \ alive') \cup (leaving' \ leaving)
               PROVE /\ ~dry_run
                     /\ \E o \in AskedFor(q) : o \notin Named /\ born[o] + Hours < now
    OBVIOUS
  <2>1. q \in Interface /\ On[q] = r
    BY <1>2 DEF Unhook
  <2>2. r \in AskedFor(q)
    BY <2>1 DEF AskedFor
  <2> QED
    BY <1>2, <2>2, FnOld DEF Unhook, Conflicts, Between
<1>3. ASSUME NEW r \in Resource, SkipItem(r) \/ ConflictAborts(r) \/ PortConflicts(r)
      PROVE StepDeletesOld
  BY <1>3 DEF SkipItem, ConflictAborts, PortConflicts
<1>4. ASSUME NEW s \in Server, NovaDeletes(s)
      PROVE StepDeletesOld
  BY <1>4 DEF NovaDeletes
<1>5. ASSUME NEW r \in Resource, Create(r)
      PROVE StepDeletesOld
  BY <1>5 DEF Create
<1>6. CASE Tick \/ NextLoop \/ Fault \/ \E dry \in BOOLEAN : Start(dry)
  BY <1>6 DEF Tick, NextLoop, Fault, Start
<1>7. CASE UNCHANGED vars
  BY <1>7 DEF vars
<1> QED
  BY <1>1, <1>2, <1>3, <1>4, <1>5, <1>6, <1>7 DEF Next, Item

\* OnlyOldIsDeleted: where the local time is not ahead of UTC, the script
\* deletes only what is older than --hours, and nothing in a dry run.
THEOREM OnlyOldIsDeleted ==
  ASSUME Zone <= 0
  PROVE Spec => OnlyOldDeleted
<1>1. Init => CutoffInv
  BY DEF Init, CutoffInv, Between
<1>2. TypeOK /\ CutoffInv /\ [Next]_vars => CutoffInv'
  BY CutoffKept
<1>3. TypeOK /\ CutoffInv /\ [Next]_vars => [StepDeletesOld]_vars
  BY NextDeletesOld
<1>4. Spec => [][StepDeletesOld]_vars
  BY <1>1, <1>2, <1>3, TypeCorrect, PTL DEF Spec
<1> QED
  BY <1>4 DEF OnlyOldDeleted, StepDeletesOld
=============================================================================
