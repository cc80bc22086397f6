------------------------- MODULE MCRecordLifecycle -------------------------
(***************************************************************************)
(* RecordLifecycle for TLC: a zone z1 with the names a and b and, in the   *)
(* runs that have two zones, z2 with the name c.                           *)
(***************************************************************************)
EXTENDS RecordLifecycle, TLC

CONSTANTS i1, i2, z1, z2, a, b, c

MCZoneOf == [n \in Names |-> IF n = c THEN z2 ELSE z1]

\* a and b are in the same zone, and intervals are only compared.
Symmetry == Permutations({a, b}) \cup Permutations({i1, i2})
=============================================================================
