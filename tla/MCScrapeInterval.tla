------------------------- MODULE MCScrapeInterval -------------------------
(***************************************************************************)
(* ScrapeInterval for TLC.  One interval is the slow form of another, so   *)
(* that scrapeBackends can mistake one for the other.                      *)
(***************************************************************************)
EXTENDS ScrapeInterval
=============================================================================
