SPECIFICATION OneStepSpec
CONSTANTS
    d1 = d1
    Elsewhere = Elsewhere
    Devices = {d1}
    Events = {1, 2}
    Author <- OneDevice
    Ends = {2}
    Reopens = {}
    Refused = {}
    Supported = {1}
    Understood = {1, 2}
    Expiring = {1}
    UploadLimit = 1
    DownloadLimit = 1
    MaxSequence = 3
    MaxRestarts = 1
PROPERTIES OneStepKeepsPromise
