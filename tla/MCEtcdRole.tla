----------------------------- MODULE MCEtcdRole -----------------------------
(*****************************************************************************)
(* EtcdRole on three to five named hosts.  Runs with temporal properties use *)
(* no symmetry.                                                              *)
(*****************************************************************************)
EXTENDS EtcdRole

CONSTANTS a, b, c, d, e
=============================================================================
