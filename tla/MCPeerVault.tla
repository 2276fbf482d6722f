---------------------------- MODULE MCPeerVault ----------------------------
(* Model-checking instances of PeerVault: a peer and a delegator.          *)
EXTENDS PeerVault, TLC

CONSTANTS peer, delegator, PeerWal, DelegatorWal

MCInitialWal ==
    [a \in Addr |-> IF a = peer THEN PeerWal ELSE DelegatorWal]

\* Ids of objects are interchangeable.
Symmetric == Permutations(VaultId) \cup Permutations(CertId)

=============================================================================
