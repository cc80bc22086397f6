--------------------------- MODULE MCBackendList ---------------------------
(***************************************************************************)
(* BackendList for TLC: addresses are only compared.                       *)
(***************************************************************************)
EXTENDS BackendList, TLC

Symmetry == Permutations(Addresses)
=============================================================================
