------------------------- MODULE MCOpenStackCleanup -------------------------
(***************************************************************************)
(* OpenStackCleanup with the leftovers of one job, a network with a router,  *)
(* and a server that a later job starts in the same network.  A port that    *)
(* Terraform makes may be among them.                                        *)
(***************************************************************************)
EXTENDS OpenStackCleanup, TLC

CONSTANTS server, late, group, default, port, latePort, ownPort, gateway, subnet, network, public

MCDevice == port :> server @@ latePort :> late @@ ownPort :> late @@ gateway :> None
MCSecures == port :> {group} @@ latePort :> {default} @@ ownPort :> {group} @@ gateway :> {}
MCOn == port :> subnet @@ latePort :> subnet @@ ownPort :> subnet @@ gateway :> subnet
MCIn == subnet :> network
=============================================================================
