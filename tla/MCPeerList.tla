----------------------------- MODULE MCPeerList -----------------------------
(* Model-checking instance of PeerList: the addresses of two peers, and a    *)
(* text that is none.                                                        *)
EXTENDS PeerList, TLC

CONSTANTS a1, a2, text, p1, p2

MCPeerOf == a1 :> p1 @@ a2 :> p2 @@ text :> NoPeer

=============================================================================
