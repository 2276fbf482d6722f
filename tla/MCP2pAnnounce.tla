--------------------------- MODULE MCP2pAnnounce ---------------------------
(* Model-checking instance of P2pAnnounce.                                 *)
EXTENDS P2pAnnounce

\* Two connections to the bootstrap peer, so that a dead one is open beside a
\* live one; one to the other peer.
MCMaxConns == [p \in {Boot, Other} |-> IF p = Boot THEN 2 ELSE 1]

=============================================================================
