--------------------------- MODULE MCLocationMap ---------------------------
(***************************************************************************)
(* LocationMap for TLC.                                                    *)
(***************************************************************************)
EXTENDS LocationMap
=============================================================================
