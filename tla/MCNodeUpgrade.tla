--------------------------- MODULE MCNodeUpgrade ---------------------------
(***************************************************************************)
(* NodeUpgrade on one control plane node and two or three other nodes.       *)
(***************************************************************************)
EXTENDS NodeUpgrade, TLC

CONSTANTS m, x, y

Default ==
  [always_cordon |-> FALSE, drain_nodes |-> TRUE, fallback |-> FALSE,
   uncordon_after_failure |-> TRUE, fail_if_drain_fails |-> TRUE]

DefaultOnly == {Default}

\* every setting, changed on its own
OneChanged ==
  {Default,
   [Default EXCEPT !.always_cordon = TRUE],
   [Default EXCEPT !.drain_nodes = FALSE],
   [Default EXCEPT !.fallback = TRUE],
   [Default EXCEPT !.uncordon_after_failure = FALSE],
   [Default EXCEPT !.fail_if_drain_fails = FALSE]}

Workers == Permutations({x, y})
=============================================================================
