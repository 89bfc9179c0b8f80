--------------------------- MODULE MCMcpConnections ---------------------------
(***************************************************************************)
(* McpConnections with five attempts, so that several overlap.             *)
(***************************************************************************)
EXTENDS McpConnections

=============================================================================
