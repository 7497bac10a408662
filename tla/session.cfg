\* Two clients, two activations and one restart of the server, so that an id
\* can be given out twice at once or once in each run of the server; two calls,
\* so that a lost one, of which one at a time is on its way, can arrive after the
\* next; two models and one
\* configuration, so that an older value can be mistaken for the accepted one.
SPECIFICATION Spec
CONSTANTS
    Clients = {c1, c2}
    Models = {m1, m2}
    Configs = {f1}
    Nothing = Nothing
    MaxExchanges = 2
    MaxCalls = 2
    MaxLate = 1
    MaxRestarts = 1
SYMMETRY SessionSymmetry
CONSTRAINT ServerLives
CHECK_DEADLOCK FALSE
INVARIANTS
    Isolation
    
    
    
