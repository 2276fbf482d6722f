\* Two blobs and room for one provider record, so that the local store is
\* full as often as not.
CONSTANTS
    Blob = {1, 2}
    Boot = boot
    Other = other
    Record = {vault}
    MaxProvided = 1
    MaxConns <- MCMaxConns
    MaxQueue = 1
SPECIFICATION Spec
INVARIANTS
    TypeOK
    AnnouncementsKept
    ReannouncedAfterLoss
PROPERTIES
    RecordsPublished
