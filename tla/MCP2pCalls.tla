---------------------------- MODULE MCP2pCalls ----------------------------
(* Model-checking instance of P2pCalls.                                    *)
EXTENDS P2pCalls

=============================================================================
