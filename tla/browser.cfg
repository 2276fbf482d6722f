CONSTANTS
    text = text
    riff = riff
    noid = noid
    Blob = {text, riff, noid}
    Invalid = {noid}
    Riff = {riff}
    Size <- MCSize
    MaxFetch = 2
    MaxDrops = 1
SPECIFICATION Spec
CHECK_DEADLOCK FALSE
INVARIANTS
    TypeOK
    ResolvedAgainOnlyAfterLoss
    PanelHonest
PROPERTIES
    FetchesEnd
