CONSTANTS
    Addr = {me, other}
    Me = me
    Deployer = me
    PeerObj = {o1, o2}
    PeerId = {idOld, idMine}
    MyPeerId = idMine
    MIN_STAKE = 1
    MyWal = 1
    OtherWal = 2
    InitialWal <- MCInitialWal
    VaultId = {v0, v1}
    ConfigVault = v0
    CertId = {c1, c2}
    U64_MAX = 20
    BPS = 4
    DEFAULT_COMMISSION = 4
    Commissions = {2}
    Amount = 1
    MaxCalls = 2
    MaxWorld = 1
    MaxFaults = 1
SYMMETRY Symmetric
SPECIFICATION Spec
CHECK_DEADLOCK FALSE
INVARIANTS
    TypeOK
    SuccessMeansDone
    RegistryExact
    EstimatesExact
PROPERTIES
    BondsLeaveRightly
    WalConserved
