------------------------ MODULE MCTerraformInventory ------------------------
(***************************************************************************)
(* TerraformInventory with an OpenStack cluster whose floating IPs move, next *)
(* to a second file: a second cluster, metal devices or a newer version.     *)
(***************************************************************************)
EXTENDS TerraformInventory

CONSTANTS a, b, c, d, p1, p2, p3, x, y, m, f1, f2

VM(n, p, g, six, use) ==
  [kind |-> "openstack_compute_instance_v2", name |-> n, port |-> p, groups |-> g,
   prefer_ipv6 |-> six, use_access_ip |-> use]
Assoc(p, ip) == [kind |-> "openstack_networking_floatingip_associate_v2", port |-> p, ip |-> ip]
Metal(n) == [kind |-> "metal_device", name |-> n, groups |-> {m}]
Volume == [kind |-> "other"]

A == VM(a, p1, {m}, None, None)
A0 == VM(a, p1, {m}, None, "0")
B == VM(b, p2, {Empty}, "1", "0")
B1 == VM(b, p2, {"all", Empty}, "true", "1")
C == VM(c, p3, {m}, None, "0")

V(n, rs) == [version |-> n, resources |-> rs]

MCContent == f1 :> {V(4, <<A, B>>), V(4, <<Assoc(p1, x), A, B1>>), V(4, <<Volume, A, B, Assoc(p2, x)>>),
                    V(4, <<A0, B, Assoc(p1, x), Assoc(p2, y)>>), V(4, <<B, Assoc(p2, x)>>),
                    V(4, <<A, B1, Assoc(p1, y), Assoc(p2, x)>>)}
          @@ f2 :> {V(3, <<C>>), V(3, <<Metal(d)>>), V(4, <<C, Volume>>), V(5, <<>>)}
=============================================================================
