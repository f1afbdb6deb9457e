SPECIFICATION RelayedSpec
CONSTANTS
    d1 = d1
    Elsewhere = Elsewhere
    Devices = {d1}
    Events = {1, 2}
    Author <- OneDevice
    Ends = {}
    Reopens = {}
    Refused = {}
    Supported = {}
    Understood = {1, 2}
    Expiring = {}
    UploadLimit = 1
    DownloadLimit = 1
    MaxSequence = 2
    MaxRestarts = 2
CONSTRAINT FewAnswers
INVARIANTS SavedCursorCovered
