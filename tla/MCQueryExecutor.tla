-------------------------- MODULE MCQueryExecutor ---------------------------
(* The queries of the SPARQL endpoint on a small instance. *)
EXTENDS QueryExecutor

=============================================================================
