----------------------------- MODULE MCAddonPlay -----------------------------
(***************************************************************************)
(* AddonPlay with one object of each kind of condition.                      *)
(***************************************************************************)
EXTENDS AddonPlay

CONSTANTS dns, lb, crb

Conditions ==
  [o \in Object |-> CASE o = dns -> "latest"
                      [] o = lb  -> "ternary"
                      [] o = crb -> "when changed"]
=============================================================================
