--------------------------- MODULE MCNotifications ---------------------------
(* Three messages and two turns of the owner, a cap of one message in two    *)
(* hours and a digest of one item; the second hour is quiet.                 *)
EXTENDS Notifications
=============================================================================
