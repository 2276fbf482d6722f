CONSTANTS
    a1 = a1
    a2 = a2
    text = text
    p1 = p1
    p2 = p2
    Address = {a1, a2, text}
    PeerId = {p1, p2}
    PeerOf <- MCPeerOf
    NoPeer = NoPeer
    Request = {1, 2}
    POLLS = 2
    ChanCap = 1
    MaxFaults = 1
SPECIFICATION Spec
CHECK_DEADLOCK FALSE
INVARIANTS
    TypeOK
    ListDialable
PROPERTIES
    AnsweredSurvives
    RequestsAnswered
