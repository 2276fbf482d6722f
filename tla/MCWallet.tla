----------------------------- MODULE MCWallet ------------------------------
(* Model-checking instances of Wallet: this wallet and one other address.  *)
EXTENDS Wallet, TLC

CONSTANTS MyWal, OtherWal

MCInitialWal == [a \in Addr |-> IF a = Me THEN MyWal ELSE OtherWal]

\* Ids of objects are interchangeable; ConfigVault is an id of its own.
Symmetric == Permutations(CertId) \cup Permutations(PeerObj)

=============================================================================
