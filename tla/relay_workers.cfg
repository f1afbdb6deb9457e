SPECIFICATION FairSpec
CONSTANTS
    Relays = {r1, r2}
    Sailors = {s1}
    Batches <- WorkerBatches
    JournalRetention = 2
    HazardRetention = 1
    MessageRetention = 1
    PositionRetention = 1
    VoyageRetention = 1
    EndedVoyageGrace = 1
    ReplayRetention = 1
    PresenceTTL = 1
    MaxEvents = 2
    MaxReplays = 2
    MaxDownload = 1
    MaxPositions = 1
    Cleaning = TRUE
    Prompt = TRUE
    MaxNow = 2
    MaxRequests = 3
    NoVoyage = NoVoyage
    None = None
    Nobody = Nobody
    Cleaner = Cleaner
    NoTxn = NoTxn
INVARIANTS OneRowPerEvent AnswersCoverCursor
PROPERTIES ImplementsJournal EveryRequestEnds
