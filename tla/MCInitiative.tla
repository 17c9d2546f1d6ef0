---------------------------- MODULE MCInitiative ----------------------------
(* The instances TLC checks: a recurring goal and a one-shot one with a few  *)
(* slots for their jobs; the constants are model values and small numbers    *)
(* that the configurations give.                                             *)
EXTENDS Initiative
=============================================================================
