\* Three calls, so that two of one kind and one of another overlap.
CONSTANTS
    Caller = {c1, c2, c3}
    Peer = {p1}
SPECIFICATION CallsSpec
INVARIANTS
    CallsTypeOK
    AnswersMatch
    NoOrphans
PROPERTIES
    CallsReturn
