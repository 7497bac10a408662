---------------------------- MODULE MCLoopHandlers ----------------------------
(* LoopHandlers on small instances.                                        *)
EXTENDS LoopHandlers
=============================================================================
