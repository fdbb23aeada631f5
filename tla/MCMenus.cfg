CONSTANTS
    p1 = p1
    r1 = r1
    soup = soup
    roll = roll
    cheap = cheap
    dear = dear
    None = None
    Publishers <- OnePublisher
    Readers <- OneReader
    Ingesters <- Threads
    Levels = 3
    MaxVersions = 2
    Dishes <- TwoDishes
    Texts <- TwoTexts
    MenuAt <- MCMenuAt
    IngestAttempts = 2
    BackfillAttempts = 2
    MaxFaults = 1
SPECIFICATION IngestionSpec
CHECK_DEADLOCK FALSE
INVARIANTS
    NeverMixed
    ProcessedWasSeen
    RestingIndexIsCurrent
PROPERTIES
    CopyConverges
