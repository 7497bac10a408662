------------------------ MODULE MCSslAuthenticator -------------------------
(* SslAuthenticator for TLC.                                               *)
EXTENDS SslAuthenticator
=============================================================================
