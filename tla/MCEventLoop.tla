----------------------------- MODULE MCEventLoop -----------------------------
(* EventLoop on small instances: the constants a cfg cannot write.         *)
EXTENDS EventLoop

SomeLimits  == {-1, 1}
=============================================================================
