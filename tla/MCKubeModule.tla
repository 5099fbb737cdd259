---------------------------- MODULE MCKubeModule ----------------------------
(***************************************************************************)
(* KubeModule with interchangeable objects and contents.                     *)
(***************************************************************************)
EXTENDS KubeModule, TLC

Interchangeable == Permutations(Object)
=============================================================================
