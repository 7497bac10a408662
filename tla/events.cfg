\* Three handlers, so that one can be before the iterator, at it and after it at
\* once, two of them of one function for different types; four calls of AddHandler()
\* so that a walk can make the vector grow; two events, so that a second walk
\* meets what the first one has left.
SPECIFICATION EventObjectSpec
CONSTANTS
    Callbacks = {c1, c2}
    Types = {READ, ERROR}
    MaxAdds = 4
    MaxRemoves = 2
    MaxFetches = 2
SYMMETRY EventObjectSymmetry
CHECK_DEADLOCK FALSE
INVARIANTS
    CrashNeedsAstray
    CalledOnce
