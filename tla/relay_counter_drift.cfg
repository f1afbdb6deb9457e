SPECIFICATION Spec
CONSTANTS
    Relays = {r1}
    Sailors = {s1}
    Batches <- JournalBatches
    JournalRetention = 2
    HazardRetention = 1
    MessageRetention = 1
    PositionRetention = 1
    VoyageRetention = 2
    EndedVoyageGrace = 1
    ReplayRetention = 1
    PresenceTTL = 1
    MaxEvents = 2
    MaxReplays = 2
    MaxDownload = 1
    MaxPositions = 1
    Cleaning = TRUE
    Prompt = TRUE
    MaxNow = 3
    MaxRequests = 3
    NoVoyage = NoVoyage
    None = None
    Nobody = Nobody
    Cleaner = Cleaner
    NoTxn = NoTxn
SYMMETRY Symmetry
INVARIANTS CounterMatchesRows
