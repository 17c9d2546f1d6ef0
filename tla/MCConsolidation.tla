--------------------------- MODULE MCConsolidation ---------------------------
(* Two cycles of two tools and two consolidations at once, a lag of one hour *)
(* and one mishap; the look-back covers the whole run.                       *)
EXTENDS Consolidation
=============================================================================
