---------------------------- MODULE MCStoreLock ----------------------------
(* Model-checking instance of StoreLock.                                   *)
EXTENDS StoreLock

=============================================================================
