--------------------------- MODULE MCEventObject ---------------------------
(* EventObject for TLC.                                                    *)
EXTENDS EventObject, TLC

\* Neither the callbacks nor the types are told apart.
EventObjectSymmetry == Permutations(Callbacks) \cup Permutations(Types)
=============================================================================
