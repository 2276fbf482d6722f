----------------------------- MODULE MCResolver -----------------------------
(* Resolver with lengths on both sides of every chunk and limit.           *)
EXTENDS Resolver

MCBlobLengths == {0, 3, 4, 8, 9}
=============================================================================
