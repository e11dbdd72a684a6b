--------------------------- MODULE MCSiteRegistry ---------------------------
(* Instances of SiteRegistry for TLC.                                      *)
EXTENDS SiteRegistry

(* "a;" is the path of log "a" as early versions stored it.                *)
MCTrimmed(p) == IF p = "a;" THEN "a" ELSE p
=============================================================================
