--------------------------- MODULE MCRuntimeAsync ---------------------------
(* RuntimeAsync for TLC. *)
EXTENDS RuntimeAsync

AllFaults == FaultKind
=============================================================================
