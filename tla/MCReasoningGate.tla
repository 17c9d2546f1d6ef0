-------------------------- MODULE MCReasoningGate --------------------------
(***************************************************************************)
(* ReasoningGate on small instances: what follows from f1 alone, and from  *)
(* f1 and f2 together.                                                     *)
(***************************************************************************)
EXTENDS ReasoningGate, TLC

CONSTANTS f1, f2

OneRule  == {{f1}}
TwoRules == {{f1}, {f1, f2}}

\* Facts are interchangeable where nothing follows from them.
FactSymmetry == Permutations(Facts)

\* What the other histories remember changes no step and no marker.
MarkerView == <<store, saved, gateOn, tracker, pc, result, rebuild, catching, faults, owed>>
=============================================================================
