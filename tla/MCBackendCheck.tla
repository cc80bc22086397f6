--------------------------- MODULE MCBackendCheck ---------------------------
(***************************************************************************)
(* BackendCheck for TLC: two checks, and lists of one and of two of them,  *)
(* so that a reload can make the list longer and shorter during a run.     *)
(***************************************************************************)
EXTENDS BackendCheck

CONSTANTS c1, c2

OneOrTwo == {<<c1>>, <<c1, c2>>}

UpToOne == {<<>>, <<c1>>}
=============================================================================
