------------------------- MODULE MCInferenceRemote -------------------------
(* InferenceRemote with three peers, which are interchangeable.            *)
EXTENDS InferenceRemote, TLC

PeerSymmetry == Permutations(Peers) \union Permutations(Models)
=============================================================================
