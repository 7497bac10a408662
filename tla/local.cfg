\* Three kinds of input, so that a tensor can have the wrong size and the wrong
\* number; two loads, two inferences and two containers, so that two inferences
\* share a container, and one is on its way while the other is reported.
SPECIFICATION Spec
CONSTANTS
    Models = {"pair", "twin", "single"}
    Inputs <- MCInputs
    Unsupported = {"single"}
    Faults = {"file", "builder", "tensors", "invoke", "send"}
    MaxTensors = 2
    MaxInvokes = 2
    MaxLoads = 2
    MaxRefs = 2
    None = "none"
CHECK_DEADLOCK FALSE
INVARIANTS
    CountedReferences
    
    RunsOnOwnInput
PROPERTIES
    ContextReleased
