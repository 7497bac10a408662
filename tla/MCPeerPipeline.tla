--------------------------- MODULE MCPeerPipeline --------------------------
(* PeerPipeline for TLC.                                                   *)
EXTENDS PeerPipeline
=============================================================================
