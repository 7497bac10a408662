-------------------------- MODULE MCInferenceLocal --------------------------
(* InferenceLocal for TLC.                                                 *)
EXTENDS InferenceLocal

\* Two models of two input tensors that differ in the size of the second, and one
\* of a single tensor.
MCInputs == [m \in Models |-> CASE m = "pair" -> <<1, 2>>
                                [] m = "twin" -> <<1, 1>>
                                [] OTHER      -> <<1>>]
=============================================================================
