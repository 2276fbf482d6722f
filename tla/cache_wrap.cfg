CONSTANTS
    Blob = {1, 2, 3}
    Pinnable = {}
    Size <- MCSize
    Budget = 2
    U64_MOD = 16
    Requests = {t1, t2}
    NoBlob = NoBlob
SPECIFICATION Spec
PROPERTY EvictsOnlyOverBudget
