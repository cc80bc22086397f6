---------------------------- MODULE MCRoundRobin ----------------------------
(***************************************************************************)
(* RoundRobin for TLC: a record with some IPv4 and some IPv6 backends, any *)
(* part of which may be healthy.  The scan keeps the order of the record.  *)
(***************************************************************************)
EXTENDS RoundRobin, TLC

CONSTANTS A, AAAA, a1, a2, a3, a4, b1, b2, b3

Parts(order) == { SelectSeq(order, LAMBDA b : b \in S) : S \in SUBSET Range(order) }

MCLists == (A :> Parts(<<a1, a2, a3, a4>>)) @@ (AAAA :> Parts(<<b1, b2, b3>>))
=============================================================================
