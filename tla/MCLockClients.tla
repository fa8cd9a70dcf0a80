---------------------------- MODULE MCLockClients ----------------------------
(* Three clients over two keys: two that contend, one that dies. *)
EXTENDS LockClients
==============================================================================
