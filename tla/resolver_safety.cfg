SPECIFICATION Spec
CONSTANTS
    Peer = {p1, p2, p3}
    Local = local
    Faulty = {p3}
    BlobLengths <- MCBlobLengths
    PROBE_LENGTH = 1
    CHUNK_SIZE = 2
    MAX_PARALLEL = 2
    MAX_TOTAL_SIZE = 8
    RANGE_CHUNK = 4
    MAX_CHUNKS = 2
    MAX_RETRIES = 1
    MAX_MESSAGE_SIZE = 9
    U32 = 16
    MAX_POLL = 2
INVARIANTS
    TypeOK
    AssemblyIsPrefix
    LookupErrorsReported
PROPERTIES
    CleanAttemptsDeliver
    FetchImplemented
CHECK_DEADLOCK FALSE
