------------------------- MODULE MCPreferenceShift -------------------------
(* Two values and enough answered offers to settle on one value, on the      *)
(* other and on the first again (K = 2).                                     *)
EXTENDS PreferenceShift
=============================================================================
