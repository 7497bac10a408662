\* Three peers, so that the peer that is selected, removed or skipped can stand
\* between two others; two models, so that an older one can be mistaken for the
\* accepted one; three levels of
\* free memory and storage, so that a middling peer can come first.
SPECIFICATION Spec
CONSTANTS
    Peers = {p1, p2, p3}
    Models = {m1, m2}
    Levels = {0, 1, 2}
    NoPeer = NoPeer
    NoModel = NoModel
SYMMETRY PeerSymmetry
INVARIANTS
    HandlersAreMembers
    SelectsFirstOfBest
    AcceptedModelIsKept
    
