\* Two requests are on their way at once, and what becomes of the first is seen in
\* the answer to the second; two pairs of pipelines, so that an old sink is still
\* alive; one failure of any kind.
SPECIFICATION Spec
CONSTANTS
    MaxRequests = 2
    MaxPairs = 2
    MaxFaults = 1
CHECK_DEADLOCK FALSE
INVARIANTS
    OwnAnswer
    RequestsAccounted
    

    
