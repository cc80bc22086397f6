-------------------------- MODULE MCConfigPipeline --------------------------
(***************************************************************************)
(* ConfigPipeline for TLC: the requests disable one backend each.          *)
(***************************************************************************)
EXTENDS ConfigPipeline, TLC

CONSTANTS z1, z2, b1, b2, r1, r2

OneTarget == (r1 :> {b1})

OneDisables == (r1 :> FALSE)

TwoTargets == (r1 :> {b1} @@ r2 :> {b2})

TwoDisable == (r1 :> FALSE @@ r2 :> FALSE)
=============================================================================
