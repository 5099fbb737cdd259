------------------------- MODULE MCInventoryBuilder -------------------------
(***************************************************************************)
(* InventoryBuilder with thresholds that four and five hosts cross.  The     *)
(* order of addresses matters nowhere, so they are interchangeable.          *)
(***************************************************************************)
EXTENDS InventoryBuilder, TLC

Addresses == Permutations(Address)
=============================================================================
