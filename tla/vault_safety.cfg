\* Bounds: 6 units of WAL in existence and u64 = 0..5, so that a reserve can
\* overflow; a whole is 4 basis points, so that 5 is an invalid commission.
CONSTANTS
    peer = peer
    delegator = delegator
    Addr = {peer, delegator}
    VaultId = {v1, v2}
    CertId = {c1, c2}
    PeerWal = 2
    DelegatorWal = 4
    U64_MAX = 5
    BPS = 4
    DEFAULT_COMMISSION = 1
    Commissions = {0, 2, 5}
    InitialWal <- MCInitialWal
SYMMETRY Symmetric
SPECIFICATION Spec
INVARIANTS
    TypeOK
    SharesBacked
    Solvent
    AlwaysRedeemable
    NoRoundTripProfit
PROPERTIES
    NeverDiluted
