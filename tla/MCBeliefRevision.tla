-------------------------- MODULE MCBeliefRevision --------------------------
(* The instances TLC checks: a few chains over two or three values, of which *)
(* Supporting imply the derived triple.                                      *)
EXTENDS BeliefRevision, TLC

CONSTANTS v1, v2, v3

TwoValues   == {v1, v2}
ThreeValues == {v1, v2, v3}

ChainSymmetry == Permutations(Chain)
=============================================================================
