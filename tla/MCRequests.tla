---------------------------- MODULE MCRequests ----------------------------
(***************************************************************************)
(* Requests for TLC: a zone inside another one, a name in both, one in the *)
(* outer zone only, and one in neither; one that a file has in capitals.   *)
(***************************************************************************)
EXTENDS Requests, TLC

CONSTANTS inner, outer, www, api, WWW, elsewhere

MCUnder == (inner :> {www, WWW} @@ outer :> {www, api})

MCLower == (www :> www @@ WWW :> www @@ api :> api @@ elsewhere :> elsewhere)
=============================================================================
