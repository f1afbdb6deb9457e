SPECIFICATION NearbyFairSpec
CONSTANTS
    Phones = {"p1", "p2", "p3"}
    InRange <- Line
    Events = {"novel", "alert", "chunk"}
    Author <- AllAreTheFirsts
    Voyages <- Alongside
    Urgency <- NovelFirst
    Weight <- Sizes
    Understood <- OnlyTheFirstIsUpdated
    Lifetime <- OneHour
    MaxHops = 2
    FrameEvents = 2
    FrameWeight = 3
    EventWeight = 2
    MaxQueued = 2
    Frames = {f1}
    MaxClock = 1
    Stoppers = {"p2"}
    MaxStops = 1
PROPERTIES DeliveryIsAtLeastOnce
CHECK_DEADLOCK FALSE
