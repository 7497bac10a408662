--------------------------- MODULE MCPeerSession ---------------------------
(* PeerSession with interchangeable clients and models.                    *)
EXTENDS PeerSession, TLC

SessionSymmetry == Permutations(Clients) \union Permutations(Models)

\* Nothing more is learnt from the calls that are lost once the server's process
\* has ended.
ServerLives == server \notin {"aborted", "crashed"}
=============================================================================
