SPECIFICATION FairSpec
CONSTANTS
    d1 = d1
    Elsewhere = Elsewhere
    Devices = {d1}
    Events = {1, 2, 3}
    Author <- OneDevice
    Ends = {2}
    Reopens = {3}
    Refused = {1}
    Supported = {1, 3}
    Understood = {2, 3}
    Expiring = {3}
    UploadLimit = 2
    DownloadLimit = 1
    MaxSequence = 3
    MaxRestarts = 2
INVARIANTS SavedCursorCovered AcknowledgedWasTaken NeverAsleep
PROPERTIES QueueMovesOn DownloadsMoveOn
