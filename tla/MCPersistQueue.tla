--------------------------- MODULE MCPersistQueue ---------------------------
(* Three turns of one session and the session "unknown", a consolidation      *)
(* after two traces, one failing write and one crash.                         *)
EXTENDS PersistQueue
=============================================================================
