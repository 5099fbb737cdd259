--------------------------- MODULE EtcdMembership ---------------------------
(***************************************************************************)
(* What extending an etcd cluster promises: a single cluster is             *)
(* bootstrapped once; afterwards a host becomes a member only while every   *)
(* earlier member has started, so at most one member is ever missing, and a *)
(* host starts only as a member.  The promise rests on an assumption about   *)
(* the environment: void says that it was broken, and nothing is promised    *)
(* from then on.  EtcdRole implements it.                                    *)
(***************************************************************************)
EXTENDS Integers, FiniteSets

CONSTANT Host

VARIABLES
  members,  \* the member list of the cluster, empty before the bootstrap
  started,  \* members that hold the data of the cluster
  void      \* the assumption on the environment was broken

mvars == <<members, started, void>>

Init == members = {} /\ started = {} /\ void = FALSE

Bootstrap(S, h) ==
  /\ members = {} /\ h \in S
  /\ members' = S
  /\ started' = {h}

Start(h) ==
  /\ h \in members \ started
  /\ started' = started \cup {h}
  /\ UNCHANGED members

Add(h) ==
  /\ members # {} /\ members = started
  /\ h \notin members
  /\ members' = members \cup {h}
  /\ UNCHANGED started

Extend ==
  \/ \E S \in SUBSET Host : \E h \in S : Bootstrap(S, h)
  \/ \E h \in Host : Start(h) \/ Add(h)

Next ==
  \/ Extend /\ UNCHANGED void
  \/ void'

Spec == Init /\ [][Next]_mvars
=============================================================================
