------------------------- MODULE MCOxigraphAdapter -------------------------
(* OxigraphAdapter with two concurrent call chains. *)
EXTENDS OxigraphAdapter

CONSTANTS c1, c2
=============================================================================
