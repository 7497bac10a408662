\* One service that comes, goes and comes again, two activations, one failure, one
\* repeated reply, and a pipe that two events fill: a service can go while it is
\* being resolved, and a resolve can outlive its activation.  Which of two
\* services is meant never matters to the code, so one is enough.
\* The application may stop at any time, so a state with no step is no error.
SPECIFICATION Spec
CONSTANTS
    Services = {s1}
    Keys = {k1}
    MaxChanges = 3
    MaxItems = 2
    MaxLives = 2
    MaxRepeats = 1
    MaxFaults = 1
    Capacity = 2
CHECK_DEADLOCK FALSE
INVARIANTS
    CrashNeedsRepeat
    
PROPERTIES
    AddedIsReported
