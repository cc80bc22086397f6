------------------------------ MODULE MCProbe ------------------------------
(***************************************************************************)
(* Probe for TLC: no attempt, one, two and three.                          *)
(***************************************************************************)
EXTENDS Probe

MCRetries == {-1, 0, 1, 2}
=============================================================================
