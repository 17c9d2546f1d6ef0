------------------------------- MODULE MCTurns -------------------------------
(* A blocking and a streamed message of one peer, over two sessions; the     *)
(* constants are small numbers and sets that the configuration gives.        *)
EXTENDS Turns
=============================================================================
